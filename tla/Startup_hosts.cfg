SPECIFICATION Spec
CONSTANTS
    Clients = {"alice"}
    Keys = {k1}
    MaxMishaps = 1
INVARIANTS
    BothHostsSeeded
