SPECIFICATION FairSpec
CONSTANTS
    Clients = {c1, c2}
    Profiles = {"none", "tplink", "zte-be7200", "mellanox"}
    WebBound = 3
INVARIANTS
    TypeOK
    RequestsAreComplete
    LockHeldByLogin
PROPERTIES
    LogoutBeforeLogin
    EveryRequestEnds
CHECK_DEADLOCK FALSE
