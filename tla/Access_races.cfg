SPECIFICATION FairSpec
CONSTANTS
    Users = {u1}
    Hosts = {}
    Star = star
    MaxLeases = 1
    Requests = {p1, p2}
    KnownUsers = {u1}
    KeyHolders = {u1}
    Durations = {0, 1, 2}
    MaxTime = 2
    MaxAudit = 3
    WebhookOn = FALSE
INVARIANTS
    TypeOK
    CutIsFinal
    GrantedRowsAreBacked
    OneVerdict
PROPERTIES
    LeasesOnlyShrink
    CutTakesEffect
    ImplementsLifecycle
