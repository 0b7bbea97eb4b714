SPECIFICATION WatchSpec
CONSTANTS
    t1 = t1
    t2 = t2
    Txs <- MCTxs
    Categories <- MCCategories
    TTLs = {1, 2}
    Clock = {0, 1}
    MaxNow = 1
    ExpiryWindow = 1
    MaxPolls = 2
    None = None
INVARIANTS EstimatesAreNeverEarly StoredExpiriesAreNeverEarly SweepsAreStoredOnce
    StoredDeparturesAreTrue
PROPERTIES CutSweepsAreHarmless
CHECK_DEADLOCK FALSE
