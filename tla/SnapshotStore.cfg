SPECIFICATION Spec
CONSTANTS
    t1 = t1
    t2 = t2
    Txs <- MCTxs
    Batches <- MCBatches
    Legacy <- MCLegacy
    Times = {10, 12}
    TTLs = {3, 5}
    MaxId = 3
    None = None
INVARIANTS TypeOK StoredWhole ReturnedIsStored ExpiryIsExact
PROPERTIES AppendOnlyLog
CHECK_DEADLOCK FALSE
