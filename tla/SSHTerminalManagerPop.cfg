SPECIFICATION Spec
CONSTANTS
    Clients = {c1}
    Devices = {d1}
    MaxSessions = 1
    SessionBound = 2
    Cancels = FALSE
    Shutdown = FALSE
    None = None
INVARIANT ConnectedIsTracked
CHECK_DEADLOCK FALSE
