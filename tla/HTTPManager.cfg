SPECIFICATION FairSpec
CONSTANTS
    Clients = {c1, c2}
    Devices = {d1}
    SessionBound = 2
    Cancels = TRUE
    Shutdown = TRUE
INVARIANT TypeOK
PROPERTIES
    ImplementsRegistry
    CallsSpareAlive
    ReaperRemoves
    ShutdownCloses
CHECK_DEADLOCK FALSE
