SPECIFICATION Spec
CONSTANTS
    Users = {u1, u2}
    Hosts = {h1, h2}
    DayTicks = 2
    Days = 3
    Limit = 1
    MaxTime = 0
    MaxLog = 2
    MaxLeases = 1
SYMMETRY Symmetric
INVARIANTS
    TypeOK
    CountedOnce
    MachinesAreScoped
