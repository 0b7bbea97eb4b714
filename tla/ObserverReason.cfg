SPECIFICATION WatchSpec
CONSTANTS
    t1 = t1
    t2 = t2
    Gear = Gear
    gear = gear
    ore = ore
    None = None
    Txs <- MCTxs
    Items <- MCItems
    Keys = {gear, ore}
    Lower <- MCLower
    ItemOf <- MCItemOf
    KindOf <- MCKindOf
    UnitPrice <- MCUnitPrice
    Recipe <- MCRecipe
    ExpiryWindow = 2
    TTLs = {1, 2}
    CountdownOf <- MCCountdownOf
    Times = {0, 1}
    MaxSnapshots = 3
    Cutoffs = {None}
    Windows = {None}
INVARIANTS ClassifiedLikeTheObserver
CHECK_DEADLOCK FALSE
