SPECIFICATION FairSpec
CONSTANTS
    Clients = {c1, c2}
    Memoized = {c1}
    Files = {f1}
    NoFile = NoFile
    Memory = Memory
    NoConn = NoConn
    Closed = Closed
    NoClient = NoClient
    Times = {1, 2}
    Sinces = {2}
    MaxSnapshots = 2
    MaxRequests = 4
    CanFailToOpen = TRUE
    CanCrash = TRUE
INVARIANTS TypeOK CacheCoherent ReadsSeeTheCommitted AckedIsDurable
PROPERTIES EveryRequestEnds NotModifiedIsFresh CopiesNeverGoBack ServesTheLog
CHECK_DEADLOCK FALSE
