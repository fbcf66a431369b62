SPECIFICATION FairSpec
CONSTANTS
    Clients = {c1, c2}
    Devices = {"d1", "d2"}
    Texts <- SomeTexts
    Launches <- SomeLaunches
    Requests <- SomeRequests
INVARIANTS
    TypeOK
    LoadedIsUsable
    WireKeepsOwnLogin
PROPERTIES
    RequestsSpareSessions
    ShutdownReachesAll
CHECK_DEADLOCK FALSE
