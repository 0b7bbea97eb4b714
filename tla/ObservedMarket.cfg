SPECIFICATION Spec
CONSTANTS
    Txs = {t1, t2}
    TTLs = {1, 2, 3, 4}
    Clock = {0, 1, 2, 3, 4, 5}
    MaxNow = 5
    ExpiryWindow = 2
    None = None
INVARIANTS TypeOK MirrorIsActive RemovalsAreTrue
PROPERTY EventsAreNews
