SPECIFICATION Spec
CONSTANTS
    Clients = {c1, c2}
    Memoized = {c1, c2}
    Files = {f1}
    NoFile = NoFile
    Memory = Memory
    NoConn = NoConn
    Closed = Closed
    NoClient = NoClient
    Times = {1, 2}
    Sinces = {0}
    MaxSnapshots = 2
    MaxRequests = 2
    CanFailToOpen = FALSE
    CanCrash = FALSE
INVARIANTS FailuresAreReported
CHECK_DEADLOCK FALSE
