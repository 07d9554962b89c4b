SPECIFICATION Spec
CONSTANTS
    Tabs = {t1, t2}
    SessionTTL = 2
    TokenTTL = 1
    Patience = 1
    MaxLogins = 2
    MaxTokens = 1
    MaxTime = 6
INVARIANTS
    TypeOK
    StaleAdminIsBounded
    TokenWithinSession
