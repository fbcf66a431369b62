SPECIFICATION Spec
CONSTANTS
    Clients = {c1, c2}
    Devices = {d1}
    SessionBound = 1
    ConnectionBound = 2
    Cancels = FALSE
    Reaping = FALSE
INVARIANT OneConnectionPerDevice
CHECK_DEADLOCK FALSE
