SPECIFICATION Spec
CONSTANTS
    Clients = {c1, c2}
    Memoized = {c1, c2}
    Files = {f1}
    NoFile = NoFile
    Memory = Memory
    NoConn = NoConn
    Closed = Closed
    NoClient = NoClient
    Times = {1, 2}
    Sinces = {0}
    MaxSnapshots = 2
    MaxRequests = 3
    CanFailToOpen = TRUE
    CanCrash = FALSE
INVARIANTS EmptyStateIsServed
CHECK_DEADLOCK FALSE
