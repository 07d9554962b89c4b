SPECIFICATION Spec
CONSTANTS
    Users = {u1}
    Hosts = {}
    Star = star
    MaxLeases = 1
    Requests = {p1}
    KnownUsers = {u1}
    KeyHolders = {u1}
    Durations = {1}
    MaxTime = 2
    MaxAudit = 2
    WebhookOn = FALSE
PROPERTIES
    ApprovalGrantsAccess
