SPECIFICATION Spec
CONSTANTS
    Clients = {c1, c2}
    Devices = {d1}
    SessionBound = 2
    ConnectionBound = 3
    Cancels = TRUE
    Reaping = TRUE
SYMMETRY ClientSymmetry
INVARIANTS
    TypeOK
    DeadHoldsNothing
PROPERTIES
    ImplementsRegistry
    CommandStartsOnOpenConnection
    CallsSpareAlive
CHECK_DEADLOCK FALSE
