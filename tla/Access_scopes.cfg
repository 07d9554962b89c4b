SPECIFICATION Spec
CONSTANTS
    Users = {u1, u2}
    Hosts = {h1}
    Star = star
    MaxLeases = 2
    Requests = {p1}
    KnownUsers = {u1, u2}
    KeyHolders = {u1}
    Durations = {1}
    MaxTime = 1
    MaxAudit = 1
    WebhookOn = TRUE
INVARIANTS
    NotifiedIsRecorded
    GrantedRowsAreBacked
