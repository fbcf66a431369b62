SPECIFICATION Spec
CONSTANTS
    Clients = {c1, c2}
    Devices = {d1}
    SessionBound = 2
    TokenBound = 3
    Cancels = TRUE
    Reaping = TRUE
SYMMETRY ClientSymmetry
INVARIANTS
    TypeOK
    SendsWithToken
    LockHeldByLogin
PROPERTIES
    ImplementsRegistry
    LoginOnlyWhenNeeded
    CallsSpareAlive
CHECK_DEADLOCK FALSE
