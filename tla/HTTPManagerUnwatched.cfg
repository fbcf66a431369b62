SPECIFICATION FairSpec
CONSTANTS
    Clients = {c1}
    Devices = {d1}
    SessionBound = 1
    Cancels = FALSE
    Shutdown = FALSE
PROPERTY ReapsItself
CHECK_DEADLOCK FALSE
