SPECIFICATION FairSpec
CONSTANTS
    Clients = {"alice"}
    Keys = {k1}
    Requests = {r1, r2}
    MaxMishaps = 3
INVARIANTS
    RegistryTypeOK
    RolesMigrated
    SkipEndsWithRun
    AckedKeysStay
    KeysHaveOwners
    RaceEndsWithTheFirst
PROPERTIES
    DemoOnlyWhenFresh
    ImplementsKeyStore
    KeepsComingUp
