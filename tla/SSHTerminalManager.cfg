SPECIFICATION FairSpec
CONSTANTS
    Clients = {c1, c2}
    Devices = {d1, d2}
    MaxSessions = 1
    SessionBound = 2
    Cancels = TRUE
    Shutdown = TRUE
    None = None
INVARIANTS
    TypeOK
    RegisteredUsable
    WithinCapacity
PROPERTIES
    ReaperRemoves
    RefusalIsHarmless
    OpenSparesConnected
CHECK_DEADLOCK FALSE
