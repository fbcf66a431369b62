SPECIFICATION Spec
CONSTANTS
    Clients = {c1, c2}
    Devices = {d1}
    SessionBound = 1
    TokenBound = 2
    Cancels = FALSE
    Reaping = FALSE
PROPERTY DiscardedTokenIsOver
CHECK_DEADLOCK FALSE
