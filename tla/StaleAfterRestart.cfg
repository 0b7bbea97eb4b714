SPECIFICATION Spec
CONSTANTS
    Clients = {c1, c2}
    Memoized = {c1, c2}
    Files = {f1}
    NoFile = NoFile
    Memory = Memory
    NoConn = NoConn
    Closed = Closed
    NoClient = NoClient
    Times = {1, 2}
    Sinces = {0, 2}
    MaxSnapshots = 2
    MaxRequests = 3
    CanFailToOpen = FALSE
    CanCrash = TRUE
PROPERTIES NotModifiedIsFresh
CHECK_DEADLOCK FALSE
