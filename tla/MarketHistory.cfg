SPECIFICATION Spec
CONSTANTS
    t1 = t1
    t2 = t2
    t3 = t3
    Gear = Gear
    Ore = Ore
    gear = gear
    ore = ore
    None = None
    Txs <- MCTxs
    Items = {Gear, Ore}
    Keys = {gear, ore}
    Lower <- MCLower
    ItemOf <- MCItemOf
    KindOf <- MCKindOf
    UnitPrice <- MCUnitPrice
    Recipe <- MCRecipe
    ExpiryWindow = 2
    TTLs = {1, 2}
    CountdownOf <- MCCountdownOf
    Times = {0, 1}
    MaxSnapshots = 3
    Cutoffs <- MCCutoffs
    Windows <- MCWindows
INVARIANTS
    CutoffIsProjection
    DeltaIsInEveryWindow
    DeparturesAgree
    LifetimesAreSane
    AvailabilityAgrees
    PricesAgree
CHECK_DEADLOCK FALSE
