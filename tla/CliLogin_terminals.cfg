SPECIFICATION FairSpec
CONSTANTS
    Terminals = {c1, c2}
    Ports = {"p1"}
    Owners = {"u1", "u2"}
    MaxLogins = 2
    MaxTokens = 2
INVARIANTS
    TypeOK
    OwnTokenOnly
    PairIntact
PROPERTIES
    CommandsEnd
