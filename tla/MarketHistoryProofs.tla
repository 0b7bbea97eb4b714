-------------------------- MODULE MarketHistoryProofs --------------------------
(***************************************************************************)
(* The read views agree with one another and with the cutoff, for every    *)
(* catalog, cutoff, window and history.                                    *)
(***************************************************************************)
EXTENDS MarketHistory, FiniteSetTheorems, TLAPS

-----------------------------------------------------------------------------
(* The greatest and the least of some ids *)

LEMMA MinOfIds ==
    ASSUME NEW S, S \subseteq Nat, S # {}
    PROVE  Min(S) \in S /\ \A y \in S : Min(S) <= y
<1> DEFINE Less == OpToRel(<, Nat)
<1>1. PICK x \in S : \A y \in S : ~ (<<y, x>> \in Less)
  <2> HIDE DEF Less
  <2>1. IsWellFoundedOn(Less, Nat)
    BY NatLessThanWellFounded DEF Less
  <2> QED  BY <2>1, WFMin
<1>2. \A y \in S : ~ (y < x)
  BY <1>1 DEF OpToRel
<1> HIDE DEF Less
<1>3. \A y \in S : x <= y
  BY <1>2
<1> QED  BY <1>3 DEF Min

LEMMA MaxOfIds ==
    ASSUME NEW S, NEW n \in Nat, S \subseteq 1 .. n, S # {}
    PROVE  Max(S) \in S /\ \A y \in S : Max(S) >= y
<1> DEFINE Above == {n - y : y \in S}
<1>1. Above \subseteq Nat /\ Above # {}
  <2>1. \A y \in S : n - y \in Nat
    OBVIOUS
  <2> QED  BY <2>1
<1>2. Min(Above) \in Above /\ \A z \in Above : Min(Above) <= z
  BY <1>1, MinOfIds
<1>3. PICK x \in S : Min(Above) = n - x
  BY <1>2
<1>4. \A y \in S : x >= y
  <2> SUFFICES ASSUME NEW y \in S
               PROVE  x >= y
    OBVIOUS
  <2>1. n - x <= n - y
    BY <1>2, <1>3
  <2> QED  BY <2>1
<1> QED  BY <1>4 DEF Max

\* A history: ids counted from 1, a snapshot of known listings under each.
Snapshot == [at : Int, rows : Snapshots]
IsHistory(d) == \E n \in Nat : DOMAIN d \subseteq 1 .. n /\ d \in [DOMAIN d -> Snapshot]

-----------------------------------------------------------------------------
(* The read window *)

LEMMA LatestVisible ==
    ASSUME NEW d, IsHistory(d), NEW since
    PROVE  /\ Visible(d, since) = {} => Latest(d, since) = None
           /\ Visible(d, since) # {} =>
                /\ Latest(d, since) \in Visible(d, since)
                /\ \A id \in Visible(d, since) : id <= Latest(d, since)
<1>1. PICK n \in Nat : DOMAIN d \subseteq 1 .. n
  BY DEF IsHistory
<1>2. Visible(d, since) \subseteq 1 .. n
  BY <1>1 DEF Visible
<1>3. CASE Visible(d, since) = {}
  BY <1>3 DEF Latest, LastOf
<1>4. CASE Visible(d, since) # {}
  <2>1. Latest(d, since) = Max(Visible(d, since))
    BY <1>4 DEF Latest, LastOf
  <2>2. /\ Max(Visible(d, since)) \in Visible(d, since)
        /\ \A id \in Visible(d, since) : Max(Visible(d, since)) >= id
    BY <1>2, <1>4, MaxOfIds
  <2> QED  BY <1>1, <1>2, <1>4, <2>1, <2>2
<1> QED  BY <1>3, <1>4

LEMMA PreviousVisible ==
    ASSUME NEW d, IsHistory(d), NEW since, NEW id \in Nat
    PROVE  \/ /\ Previous(d, id, since) = None
              /\ \A i \in Visible(d, since) : ~ (i < id)
           \/ /\ Previous(d, id, since) \in Visible(d, since)
              /\ Previous(d, id, since) < id
              /\ \A i \in Visible(d, since) : i < id => i <= Previous(d, id, since)
<1> DEFINE S == {i \in Visible(d, since) : i < id}
<1>1. PICK n \in Nat : DOMAIN d \subseteq 1 .. n
  BY DEF IsHistory
<1>2. S \subseteq 1 .. n
  BY <1>1 DEF Visible
<1>3. CASE S = {}
  <2>1. Previous(d, id, since) = None
    BY <1>3 DEF Previous, LastOf
  <2> QED  BY <1>3, <2>1
<1>4. CASE S # {}
  <2>1. Previous(d, id, since) = Max(S)
    BY <1>4 DEF Previous, LastOf
  <2>2. Max(S) \in S /\ \A i \in S : Max(S) >= i
    <3> HIDE DEF S
    <3> QED  BY <1>2, <1>4, MaxOfIds
  <2> QED  BY <1>1, <1>2, <2>1, <2>2
<1> QED  BY <1>3, <1>4

LEMMA FollowingVisible ==
    ASSUME NEW d, IsHistory(d), NEW since, NEW id
    PROVE  \/ /\ Following(d, id, since) = None
              /\ \A i \in Visible(d, since) : ~ (i > id)
           \/ /\ Following(d, id, since) \in Visible(d, since)
              /\ Following(d, id, since) > id
              /\ \A i \in Visible(d, since) : i > id => Following(d, id, since) <= i
<1> DEFINE S == {i \in Visible(d, since) : i > id}
<1>1. S \subseteq Nat
  BY DEF IsHistory, Visible
<1>2. CASE S = {}
  <2>1. Following(d, id, since) = None
    BY <1>2 DEF Following, FirstOf
  <2> QED  BY <1>2, <2>1
<1>3. CASE S # {}
  <2>1. Following(d, id, since) = Min(S)
    BY <1>3 DEF Following, FirstOf
  <2>2. Min(S) \in S /\ \A i \in S : Min(S) <= i
    <3> HIDE DEF S
    <3> QED  BY <1>1, <1>3, MinOfIds
  <2> QED  BY <2>1, <2>2
<1> QED  BY <1>2, <1>3

\* The first and the last sighting of a transaction.
LEMMA SightingsOfSeen ==
    ASSUME NEW d, IsHistory(d), NEW since, NEW tx \in Seen(d, since)
    PROVE  LET S == Sightings(d, since, tx)
           IN  /\ Min(S) \in S /\ \A id \in S : Min(S) <= id
               /\ Max(S) \in S /\ \A id \in S : id <= Max(S)
               /\ Min(S) <= Max(S)
<1> DEFINE S == Sightings(d, since, tx)
<1>1. PICK n \in Nat : DOMAIN d \subseteq 1 .. n
  BY DEF IsHistory
<1>2. S \subseteq 1 .. n
  BY <1>1 DEF Sightings, Visible
<1>3. S # {}
  BY DEF Seen, Sightings
<1> HIDE DEF S
<1>4. /\ Min(S) \in S /\ \A id \in S : Min(S) <= id
      /\ Max(S) \in S /\ \A id \in S : Max(S) >= id
  <2>1. S \subseteq Nat
    BY <1>2
  <2> QED  BY <1>2, <1>3, <2>1, MinOfIds, MaxOfIds
<1>5. \A id \in S : id \in Nat
  BY <1>2
<1> QED  BY <1>4, <1>5 DEF S

\* What is gone was last seen in a visible snapshot before the latest, and
\* vanished in the visible snapshot after that one.
LEMMA GoneIsDated ==
    ASSUME NEW d, IsHistory(d), NEW since,
           NEW tx \in Seen(d, since) \ TxsIn(d, Latest(d, since))
    PROVE  LET last == Max(Sightings(d, since, tx))
               vanish == Following(d, last, since)
           IN  /\ last \in Visible(d, since) /\ tx \in TxsIn(d, last)
               /\ \A id \in Visible(d, since) : tx \in TxsIn(d, id) => id <= last
               /\ last < Latest(d, since)
               /\ vanish \in Visible(d, since) /\ last < vanish
               /\ \A id \in Visible(d, since) : id > last => vanish <= id
               /\ Latest(d, since) \in Visible(d, since)
<1> DEFINE last == Max(Sightings(d, since, tx))
           vanish == Following(d, last, since)
<1>1. /\ last \in Sightings(d, since, tx)
      /\ \A id \in Sightings(d, since, tx) : id <= last
  BY SightingsOfSeen
<1>2. /\ last \in Visible(d, since) /\ tx \in TxsIn(d, last)
      /\ \A id \in Visible(d, since) : tx \in TxsIn(d, id) => id <= last
  BY <1>1 DEF Sightings
<1>3. /\ Latest(d, since) \in Visible(d, since)
      /\ last <= Latest(d, since) /\ last # Latest(d, since)
  BY <1>2, LatestVisible
<1>4. Visible(d, since) \subseteq Nat
  BY DEF Visible, IsHistory
<1> HIDE DEF last
<1>5. last < Latest(d, since)
  BY <1>2, <1>3, <1>4
<1>6. /\ vanish \in Visible(d, since) /\ vanish > last
      /\ \A id \in Visible(d, since) : id > last => vanish <= id
  BY <1>2, <1>3, <1>4, <1>5, FollowingVisible
<1> QED  BY <1>2, <1>3, <1>4, <1>5, <1>6 DEF last

-----------------------------------------------------------------------------
(* Departures and lifetimes *)

\* What the latest snapshot lacks of the one before was last seen there.
LEMMA DeltaIsGone ==
    ASSUME NEW d, IsHistory(d), NEW since, Latest(d, since) # None,
           NEW tx \in TxsIn(d, Previous(d, Latest(d, since), since))
                        \ TxsIn(d, Latest(d, since))
    PROVE  LET prev == Previous(d, Latest(d, since), since)
               last == Max(Sightings(d, since, tx))
           IN  /\ prev \in Visible(d, since)
               /\ tx \in Seen(d, since)
               /\ last = prev
               /\ Following(d, last, since) = Latest(d, since)
<1> DEFINE latest == Latest(d, since)
           prev == Previous(d, latest, since)
           last == Max(Sightings(d, since, tx))
           vanish == Following(d, last, since)
<1>1. Visible(d, since) \subseteq Nat /\ latest \in Visible(d, since)
  BY LatestVisible DEF Visible, IsHistory
<1>2. /\ prev \in Visible(d, since) /\ prev < latest
      /\ \A i \in Visible(d, since) : i < latest => i <= prev
  <2>1. prev # None
    BY DEF TxsIn
  <2>2. latest \in Nat
    BY <1>1
  <2> QED  BY <2>1, <2>2, PreviousVisible
<1>3. tx \in Seen(d, since)
  BY <1>2 DEF Seen
<1>4. /\ last \in Visible(d, since) /\ tx \in TxsIn(d, last)
      /\ \A id \in Visible(d, since) : tx \in TxsIn(d, id) => id <= last
      /\ last < latest
      /\ vanish \in Visible(d, since) /\ last < vanish
      /\ \A id \in Visible(d, since) : id > last => vanish <= id
  BY <1>3, GoneIsDated
<1> HIDE DEF latest, prev, last, vanish
<1>5. last = prev
  <2>1. last <= prev /\ prev <= last
    BY <1>2, <1>4 DEF prev, latest
  <2>2. last \in Nat /\ prev \in Nat
    BY <1>1, <1>2, <1>4
  <2> QED  BY <2>1, <2>2
<1>6. vanish = latest
  <2>1. vanish \in Nat /\ latest \in Nat /\ last \in Nat
    BY <1>1, <1>2, <1>4
  <2>2. vanish <= latest
    BY <1>1, <1>4, <2>1
  <2>3. ~ (vanish < latest)
    BY <1>2, <1>4, <1>5, <2>1
  <2> QED  BY <2>1, <2>2, <2>3
<1> QED  BY <1>2, <1>3, <1>5, <1>6 DEF prev, latest, last, vanish

LEMMA AtIsTime ==
    ASSUME NEW d, IsHistory(d), NEW id \in DOMAIN d
    PROVE  /\ d[id].at \in Int
           /\ DOMAIN d[id].rows \subseteq Txs
           /\ d[id].rows \in [DOMAIN d[id].rows -> TTLs]
  BY DEF IsHistory, Snapshot, Snapshots

LEMMA DeltaWithin ==
    ASSUME NEW d, IsHistory(d), NEW since, NEW w \in Nat
    PROVE  RemovedSincePrevious(d, since) \subseteq RemovedWithin(d, since, w)
<1> DEFINE latest == Latest(d, since)
           prev == Previous(d, latest, since)
<1>1. CASE latest = None
  BY <1>1 DEF RemovedSincePrevious, TxsIn
<1>2. CASE latest # None
  <2> SUFFICES ASSUME NEW tx \in TxsIn(d, prev) \ TxsIn(d, latest)
               PROVE  Departure(d, tx, prev, latest) \in RemovedWithin(d, since, w)
    BY <1>2 DEF RemovedSincePrevious
  <2>1. /\ tx \in Seen(d, since) \ TxsIn(d, latest)
        /\ Max(Sightings(d, since, tx)) = prev
        /\ Following(d, prev, since) = latest
    BY <1>2, DeltaIsGone
  <2>2. d[latest].at >= d[latest].at - w
    <3>1. latest \in DOMAIN d
      BY <1>2, LatestVisible DEF Visible
    <3> HIDE DEF latest
    <3>2. d[latest].at \in Int
      BY <3>1, AtIsTime
    <3> QED  BY <3>2
  <2> HIDE DEF latest, prev
  <2> QED  BY <2>1, <2>2 DEF RemovedWithin, latest
<1> QED  BY <1>1, <1>2

LEMMA WiderAddsOnly ==
    ASSUME NEW d, IsHistory(d), NEW since, NEW v \in Nat, NEW w \in Nat, v <= w
    PROVE  RemovedWithin(d, since, v) \subseteq RemovedWithin(d, since, w)
<1> SUFFICES ASSUME NEW tx \in Seen(d, since) \ TxsIn(d, Latest(d, since)),
                    LET vanish == Following(d, Max(Sightings(d, since, tx)), since)
                    IN  d[vanish].at >= d[Latest(d, since)].at - v
             PROVE  LET vanish == Following(d, Max(Sightings(d, since, tx)), since)
                    IN  d[vanish].at >= d[Latest(d, since)].at - w
  BY DEF RemovedWithin
<1> DEFINE vanish == Following(d, Max(Sightings(d, since, tx)), since)
<1>1. vanish \in DOMAIN d /\ Latest(d, since) \in DOMAIN d
  BY GoneIsDated DEF Visible
<1> HIDE DEF vanish
<1>2. d[vanish].at \in Int /\ d[Latest(d, since)].at \in Int
  BY <1>1, AtIsTime
<1> QED  BY <1>2 DEF vanish

\* What best sellers times: a departure that is not a timeout, seen to arrive.
LEMMA TimedIsGone ==
    ASSUME NEW d, NEW since, NEW item, NEW tx \in DOMAIN SellerRow(d, since, item).timed
    PROVE  /\ tx \in Seen(d, since) \ TxsIn(d, Latest(d, since)) /\ ItemOf[tx] = item
           /\ Min(Sightings(d, since, tx)) # Min(Visible(d, since))
           /\ ~ (d[Max(Sightings(d, since, tx))].rows[tx] < ExpiryWindow)
           /\ SellerRow(d, since, item).timed[tx] =
                d[Following(d, Max(Sightings(d, since, tx)), since)].at
                    - d[Min(Sightings(d, since, tx))].at
  BY DEF SellerRow

LEMMA TimedIsPositive ==
    ASSUME NEW d, IsHistory(d), NEW since, NEW item,
           \A i, j \in DOMAIN d : i < j => d[i].at <= d[j].at,
           NEW tx \in DOMAIN SellerRow(d, since, item).timed
    PROVE  SellerRow(d, since, item).timed[tx] >= 0
<1> DEFINE first == Min(Sightings(d, since, tx))
           last == Max(Sightings(d, since, tx))
           vanish == Following(d, last, since)
<1>1. tx \in Seen(d, since) \ TxsIn(d, Latest(d, since))
  BY TimedIsGone
<1>2. first \in Visible(d, since) /\ first <= last
  BY <1>1, SightingsOfSeen DEF Sightings
<1>3. last \in Visible(d, since) /\ vanish \in Visible(d, since) /\ last < vanish
  BY <1>1, GoneIsDated
<1>4. SellerRow(d, since, item).timed[tx] = d[vanish].at - d[first].at
  BY TimedIsGone
<1> HIDE DEF first, last, vanish
<1>5. first \in DOMAIN d /\ vanish \in DOMAIN d /\ first < vanish
  <2>1. Visible(d, since) \subseteq DOMAIN d /\ DOMAIN d \subseteq Nat
    BY DEF Visible, IsHistory
  <2> QED  BY <1>2, <1>3, <2>1
<1>6. d[first].at \in Int /\ d[vanish].at \in Int
  BY <1>5, AtIsTime
<1> QED  BY <1>4, <1>5, <1>6

LEMMA TimedIsNotCensored ==
    ASSUME NEW d, IsHistory(d), NEW since, NEW item,
           NEW tx \in DOMAIN SellerRow(d, since, item).timed
    PROVE  tx \notin TxsIn(d, Min(Visible(d, since)))
<1> DEFINE first == Min(Sightings(d, since, tx))
           start == Min(Visible(d, since))
<1> SUFFICES ASSUME tx \in TxsIn(d, start)
             PROVE  FALSE
  OBVIOUS
<1>1. tx \in Seen(d, since) /\ first # start
  BY TimedIsGone
<1>2. /\ first \in Visible(d, since)
      /\ \A id \in Sightings(d, since, tx) : first <= id
  BY <1>1, SightingsOfSeen DEF Sightings
<1>3. Visible(d, since) \subseteq Nat
  BY DEF Visible, IsHistory
<1>4. start \in Visible(d, since) /\ \A id \in Visible(d, since) : start <= id
  BY <1>2, <1>3, MinOfIds
<1>5. start \in Sightings(d, since, tx)
  BY <1>4 DEF Sightings
<1> HIDE DEF first, start
<1>6. first <= start /\ start <= first /\ first \in Nat /\ start \in Nat
  BY <1>2, <1>3, <1>4, <1>5
<1> QED  BY <1>1, <1>6

-----------------------------------------------------------------------------
(* The history *)

\* Ids count up from 1, as they do in the store.
HistoryInv ==
    /\ \E n \in Nat : DOMAIN db = 1 .. n
    /\ db \in [DOMAIN db -> [at : Times, rows : Sweeps]]

LEMMA HistoryIsHistory == HistoryInv => IsHistory(db)
<1> SUFFICES ASSUME HistoryInv
             PROVE  IsHistory(db)
  OBVIOUS
<1>1. [at : Times, rows : Sweeps] \subseteq Snapshot
  BY HistoryAssumption DEF Snapshot, Sweeps
<1> QED  BY <1>1 DEF HistoryInv, IsHistory

LEMMA HistoryInvariance == Spec => []HistoryInv
<1>1. Init => HistoryInv
  <2> SUFFICES ASSUME Init
               PROVE  HistoryInv
    OBVIOUS
  <2>1. DOMAIN db = {} /\ DOMAIN db = 1 .. 0 /\ db \in [DOMAIN db -> [at : Times, rows : Sweeps]]
    BY DEF Init
  <2> QED  BY <2>1 DEF HistoryInv
<1>2. HistoryInv /\ [Next]_db => HistoryInv'
  <2> SUFFICES ASSUME HistoryInv, [Next]_db
               PROVE  HistoryInv'
    OBVIOUS
  <2>1. ASSUME NEW rows \in Sweeps, NEW at \in Times, Record(rows, at)
        PROVE  HistoryInv'
    <3>1. PICK n \in Nat : DOMAIN db = 1 .. n
      BY DEF HistoryInv
    <3>2. NewId = n + 1
      <4>1. Cardinality(1 .. n) = n
        BY FS_Interval
      <4> QED  BY <3>1, <4>1 DEF NewId
    <3>3. DOMAIN db' = 1 .. n + 1
      BY <2>1, <3>1, <3>2 DEF Record
    <3>4. db' \in [DOMAIN db' -> [at : Times, rows : Sweeps]]
      BY <2>1 DEF Record, HistoryInv
    <3> QED  BY <3>1, <3>3, <3>4 DEF HistoryInv
  <2>2. CASE UNCHANGED db
    BY <2>2 DEF HistoryInv
  <2> QED  BY <2>1, <2>2 DEF Next
<1> QED  BY <1>1, <1>2, PTL DEF Spec

-----------------------------------------------------------------------------
(* The cutoff: what a reader sees of d under since is all there is in cut *)

LEMMA CutHolds ==
    ASSUME NEW d, NEW since
    PROVE  LET cut == VisibleOnly(d, since)
           IN  /\ Visible(cut, None) = Visible(d, since)
               /\ DOMAIN cut = Visible(d, since)
               /\ \A id \in Visible(d, since) : cut[id] = d[id]
  BY DEF VisibleOnly, Visible

LEMMA CutIsHistory ==
    ASSUME NEW d, IsHistory(d), NEW since
    PROVE  IsHistory(VisibleOnly(d, since))
<1> DEFINE cut == VisibleOnly(d, since)
<1>1. DOMAIN cut = Visible(d, since) /\ Visible(d, since) \subseteq DOMAIN d
  BY CutHolds DEF Visible
<1>2. PICK n \in Nat : DOMAIN d \subseteq 1 .. n /\ d \in [DOMAIN d -> Snapshot]
  BY DEF IsHistory
<1>3. cut \in [Visible(d, since) -> Snapshot]
  BY <1>1, <1>2 DEF VisibleOnly
<1> HIDE DEF cut
<1> QED  BY <1>1, <1>2, <1>3 DEF IsHistory, cut

LEMMA CutNeighbours ==
    ASSUME NEW d, NEW since
    PROVE  LET cut == VisibleOnly(d, since)
           IN  /\ Latest(cut, None) = Latest(d, since)
               /\ \A id : Previous(cut, id, None) = Previous(d, id, since)
               /\ \A id : Following(cut, id, None) = Following(d, id, since)
<1> DEFINE cut == VisibleOnly(d, since)
<1>1. Visible(cut, None) = Visible(d, since)
  BY CutHolds
<1> HIDE DEF cut
<1> QED  BY <1>1, Zenon DEF Latest, Previous, Following, cut

LEMMA CutSnapshots ==
    ASSUME NEW d, NEW since
    PROVE  LET cut == VisibleOnly(d, since)
           IN  /\ \A id \in Visible(d, since) \cup {None} : TxsIn(cut, id) = TxsIn(d, id)
               /\ Seen(cut, None) = Seen(d, since)
               /\ \A tx : Sightings(cut, None, tx) = Sightings(d, since, tx)
               /\ \A ids, item : ids \subseteq Visible(d, since)
                    => RowsOf(cut, ids, item) = RowsOf(d, ids, item)
               /\ \A ids, key : ids \subseteq Visible(d, since)
                    => RowsLike(cut, ids, key) = RowsLike(d, ids, key)
<1> DEFINE cut == VisibleOnly(d, since)
<1>1. /\ Visible(cut, None) = Visible(d, since)
      /\ \A id \in Visible(d, since) : cut[id] = d[id]
  BY CutHolds
<1> HIDE DEF cut
<1>2. \A id \in Visible(d, since) \cup {None} : TxsIn(cut, id) = TxsIn(d, id)
  BY <1>1 DEF TxsIn
<1>3. Seen(cut, None) = Seen(d, since)
  BY <1>1, <1>2 DEF Seen
<1>4. \A tx : Sightings(cut, None, tx) = Sightings(d, since, tx)
  BY <1>1, <1>2 DEF Sightings
<1>5. \A ids, item : ids \subseteq Visible(d, since)
        => RowsOf(cut, ids, item) = RowsOf(d, ids, item)
  BY <1>2 DEF RowsOf
<1>6. \A ids, key : ids \subseteq Visible(d, since)
        => RowsLike(cut, ids, key) = RowsLike(d, ids, key)
  BY <1>2 DEF RowsLike
<1> QED  BY <1>2, <1>3, <1>4, <1>5, <1>6 DEF cut

LEMMA CutPrices ==
    ASSUME NEW d, IsHistory(d), NEW since
    PROVE  LET cut == VisibleOnly(d, since)
           IN  /\ \A key : MaterialPrice(cut, None, key) = MaterialPrice(d, since, key)
               /\ \A key : SearchRow(cut, None, key) = SearchRow(d, since, key)
               /\ Posted(cut, None) = Posted(d, since)
<1> DEFINE cut == VisibleOnly(d, since)
<1>1. /\ Visible(cut, None) = Visible(d, since)
      /\ Latest(cut, None) = Latest(d, since)
      /\ Seen(cut, None) = Seen(d, since)
      /\ \A item : RowsOf(cut, Visible(d, since), item) = RowsOf(d, Visible(d, since), item)
      /\ \A key : RowsLike(cut, Visible(d, since), key) = RowsLike(d, Visible(d, since), key)
  BY CutHolds, CutNeighbours, CutSnapshots
<1> HIDE DEF cut
<1>2. ASSUME NEW key
      PROVE  MaterialPrice(cut, None, key) = MaterialPrice(d, since, key)
  BY <1>1, Zenon DEF MaterialPrice
<1>3. ASSUME NEW key
      PROVE  SearchRow(cut, None, key) = SearchRow(d, since, key)
  BY <1>1, Zenon DEF SearchRow
<1>4. Posted(cut, None) = Posted(d, since)
  BY <1>1, Zenon DEF Posted
<1> QED  BY <1>2, <1>3, <1>4 DEF cut

LEMMA CutOverview ==
    ASSUME NEW d, IsHistory(d), NEW since
    PROVE  Overview(d, since) = Overview(VisibleOnly(d, since), None)
<1> DEFINE cut == VisibleOnly(d, since)
           latest == Latest(d, since)
           prev == Previous(d, latest, since)
<1>1. /\ Visible(cut, None) = Visible(d, since)
      /\ \A id \in Visible(d, since) : cut[id] = d[id]
      /\ Latest(cut, None) = latest
      /\ Previous(cut, latest, None) = prev
      /\ \A id \in Visible(d, since) : TxsIn(cut, id) = TxsIn(d, id)
      /\ \A ids, item : ids \subseteq Visible(d, since)
            => RowsOf(cut, ids, item) = RowsOf(d, ids, item)
  BY CutHolds, CutNeighbours, CutSnapshots
<1>2. latest # None => latest \in Visible(d, since) /\ latest \in Nat
  BY LatestVisible DEF Visible, IsHistory
<1>3. latest # None /\ prev # None => prev \in Visible(d, since)
  BY <1>2, PreviousVisible
<1> HIDE DEF cut, latest, prev
<1>4. latest # None => PriceMovers(cut, latest, prev) = PriceMovers(d, latest, prev)
  <2> SUFFICES ASSUME latest # None, prev # None
               PROVE  PriceMovers(cut, latest, prev) = PriceMovers(d, latest, prev)
    BY DEF PriceMovers
  <2>1. {latest} \subseteq Visible(d, since) /\ {prev} \subseteq Visible(d, since)
    BY <1>2, <1>3
  <2>2. \A i : /\ RowsOf(cut, {latest}, i) = RowsOf(d, {latest}, i)
               /\ RowsOf(cut, {prev}, i) = RowsOf(d, {prev}, i)
    BY <1>1, <2>1
  <2> QED  BY <2>2 DEF PriceMovers
<1>5. {<<id, cut[id].at, Cardinality(TxsIn(cut, id))>> : id \in Visible(d, since)}
        = {<<id, d[id].at, Cardinality(TxsIn(d, id))>> : id \in Visible(d, since)}
  BY <1>1
<1> QED  BY <1>1, <1>2, <1>4, <1>5 DEF Overview, cut, latest, prev

LEMMA CutActiveListings ==
    ASSUME NEW d, IsHistory(d), NEW since
    PROVE  ActiveListings(d, since, Items) = ActiveListings(VisibleOnly(d, since), None, Items)
<1> DEFINE cut == VisibleOnly(d, since)
           latest == Latest(d, since)
<1>1. /\ \A id \in Visible(d, since) : cut[id] = d[id]
      /\ Latest(cut, None) = latest
      /\ TxsIn(cut, None) = {} /\ TxsIn(d, None) = {}
      /\ \A id \in Visible(d, since) : TxsIn(cut, id) = TxsIn(d, id)
      /\ latest = None \/ latest \in Visible(d, since)
  BY CutHolds, CutNeighbours, CutSnapshots, LatestVisible DEF TxsIn
<1> HIDE DEF cut, latest
<1> QED  BY <1>1 DEF ActiveListings, latest, cut

LEMMA CutRemoved ==
    ASSUME NEW d, IsHistory(d), NEW since, NEW w
    PROVE  RecentlyRemoved(d, since, w) = RecentlyRemoved(VisibleOnly(d, since), None, w)
<1> DEFINE cut == VisibleOnly(d, since)
           latest == Latest(d, since)
           prev == Previous(d, latest, since)
           gone == Seen(d, since) \ TxsIn(d, latest)
           last(tx) == Max(Sightings(d, since, tx))
           vanish(tx) == Following(d, last(tx), since)
<1>1. /\ \A id \in Visible(d, since) : cut[id] = d[id]
      /\ Latest(cut, None) = latest
      /\ \A id : Previous(cut, id, None) = Previous(d, id, since)
      /\ \A id : Following(cut, id, None) = Following(d, id, since)
      /\ \A id \in Visible(d, since) \cup {None} : TxsIn(cut, id) = TxsIn(d, id)
      /\ Seen(cut, None) = Seen(d, since)
      /\ \A tx : Sightings(cut, None, tx) = Sightings(d, since, tx)
  BY CutHolds, CutNeighbours, CutSnapshots
<1>2. latest # None => latest \in Visible(d, since) /\ latest \in Nat
  BY LatestVisible DEF Visible, IsHistory
<1>3. latest # None => prev = None \/ prev \in Visible(d, since)
  BY <1>2, PreviousVisible
<1>4. \A tx \in gone : /\ latest \in Visible(d, since)
                       /\ last(tx) \in Visible(d, since)
                       /\ vanish(tx) \in Visible(d, since)
  BY GoneIsDated
<1>5. RemovedSincePrevious(d, since) = RemovedSincePrevious(cut, None)
  <2> HIDE DEF cut, latest
  <2>1. CASE latest = None
    BY <1>1, <2>1 DEF RemovedSincePrevious, TxsIn, latest
  <2>2. CASE latest # None
    <3>1. \A id \in {latest, prev} : TxsIn(cut, id) = TxsIn(d, id)
      BY <1>1, <1>2, <1>3, <2>2
    <3>2. \A tx \in TxsIn(d, prev) \ TxsIn(d, latest) :
            Departure(cut, tx, prev, latest) = Departure(d, tx, prev, latest)
      BY <1>1, <1>2, <1>3, <2>2 DEF Departure, TxsIn
    <3>3. /\ RemovedSincePrevious(d, since) =
                {Departure(d, tx, prev, latest) : tx \in TxsIn(d, prev) \ TxsIn(d, latest)}
          /\ RemovedSincePrevious(cut, None) =
                {Departure(cut, tx, prev, latest) : tx \in TxsIn(cut, prev) \ TxsIn(cut, latest)}
      BY <1>1, <2>2, Zenon DEF RemovedSincePrevious, latest
    <3> HIDE DEF prev
    <3> QED  BY <3>1, <3>2, <3>3
  <2> QED  BY <2>1, <2>2
<1>6. RemovedWithin(d, since, w) = RemovedWithin(cut, None, w)
  <2> DEFINE of(h, tx) == Departure(h, tx, last(tx), vanish(tx))
             inside(h) == {tx \in gone : h[vanish(tx)].at >= h[latest].at - w}
  <2>1. RemovedWithin(d, since, w) = {of(d, tx) : tx \in inside(d)}
    BY Zenon DEF RemovedWithin
  <2>2. Seen(cut, None) \ TxsIn(cut, latest) = gone
    BY <1>1, <1>2
  <2>3. RemovedWithin(cut, None, w) = {of(cut, tx) : tx \in inside(cut)}
    <3> HIDE DEF cut, latest
    <3>1. /\ \A tx : Max(Sightings(cut, None, tx)) = last(tx)
          /\ \A tx : Following(cut, last(tx), None) = vanish(tx)
      BY <1>1
    <3> HIDE DEF gone, last, vanish
    <3> QED  BY <1>1, <2>2, <3>1, Zenon DEF RemovedWithin
  <2>4. \A tx \in gone : /\ cut[last(tx)] = d[last(tx)]
                         /\ cut[vanish(tx)] = d[vanish(tx)]
                         /\ cut[latest] = d[latest]
    BY <1>1, <1>4
  <2> HIDE DEF cut, latest, gone, last, vanish
  <2>5. inside(d) = inside(cut)
    BY <2>4
  <2>6. \A tx \in inside(d) : of(d, tx) = of(cut, tx)
    BY <2>4 DEF Departure
  <2> HIDE DEF inside, of
  <2> QED  BY <2>1, <2>3, <2>5, <2>6
<1> QED  BY <1>5, <1>6 DEF RecentlyRemoved

LEMMA CutItemPage ==
    ASSUME NEW d, IsHistory(d), NEW since, NEW key
    PROVE  ItemPage(d, since, key) = ItemPage(VisibleOnly(d, since), None, key)
<1> DEFINE cut == VisibleOnly(d, since)
           seen(h, c) == {tx \in Seen(h, c) : Lower[ItemOf[tx]] = key}
           item(h, c) == CHOOSE i \in ItemsIn(seen(h, c)) : TRUE
           active(h, c) == {tx \in TxsIn(h, Latest(h, c)) : ItemOf[tx] = item(h, c)}
           last(h, c, tx) == Max(Sightings(h, c, tx))
           first(h, c, tx) == Min(Sightings(h, c, tx))
           next(h, c, tx) == LET n == Following(h, last(h, c, tx), c)
                             IN  IF n = None THEN Latest(h, c) ELSE n
           priced(h, c) == {i \in Visible(h, c) : RowsLike(h, {i}, key) # {}}
           previous(h, c) == {Departure(h, tx, last(h, c, tx), next(h, c, tx)) :
                                tx \in seen(h, c) \ active(h, c)}
           arrivals(h, c) == [tx \in seen(h, c) |-> h[first(h, c, tx)].at]
           series(h, c) == {<<id, MedianPrice(RowsLike(h, {id}, key))>> : id \in priced(h, c)}
           page(h, c) == [current |-> active(h, c), previous |-> previous(h, c),
                          first_seen |-> arrivals(h, c), series |-> series(h, c)]
<1>1. /\ \A id \in Visible(d, since) : cut[id] = d[id]
      /\ Visible(cut, None) = Visible(d, since)
      /\ Latest(cut, None) = Latest(d, since)
      /\ \A id : Following(cut, id, None) = Following(d, id, since)
      /\ \A id \in Visible(d, since) \cup {None} : TxsIn(cut, id) = TxsIn(d, id)
      /\ Seen(cut, None) = Seen(d, since)
      /\ \A tx : Sightings(cut, None, tx) = Sightings(d, since, tx)
      /\ \A ids : ids \subseteq Visible(d, since)
            => RowsLike(cut, ids, key) = RowsLike(d, ids, key)
  BY CutHolds, CutNeighbours, CutSnapshots
<1>2. \A tx \in seen(d, since) : /\ Latest(d, since) \in Visible(d, since)
                                 /\ first(d, since, tx) \in Visible(d, since)
                                 /\ last(d, since, tx) \in Visible(d, since)
                                 /\ next(d, since, tx) \in Visible(d, since)
  <2> SUFFICES ASSUME NEW tx \in Seen(d, since)
               PROVE  /\ Latest(d, since) \in Visible(d, since)
                      /\ first(d, since, tx) \in Visible(d, since)
                      /\ last(d, since, tx) \in Visible(d, since)
                      /\ next(d, since, tx) \in Visible(d, since)
    OBVIOUS
  <2>1. first(d, since, tx) \in Visible(d, since) /\ last(d, since, tx) \in Visible(d, since)
    BY SightingsOfSeen DEF Sightings
  <2>2. Latest(d, since) \in Visible(d, since)
    BY <2>1, LatestVisible
  <2> HIDE DEF last
  <2>3. \/ Following(d, last(d, since, tx), since) = None
        \/ Following(d, last(d, since, tx), since) \in Visible(d, since)
    BY FollowingVisible
  <2> QED  BY <2>1, <2>2, <2>3
<1>4. ItemPage(d, since, key) = IF seen(d, since) = {} THEN None ELSE page(d, since)
  BY Zenon DEF ItemPage
<1>5. ItemPage(cut, None, key) = IF seen(cut, None) = {} THEN None ELSE page(cut, None)
  <2> HIDE DEF cut
  <2> QED  BY Zenon DEF ItemPage
<1> HIDE DEF cut
<1>6. seen(cut, None) = seen(d, since) /\ active(cut, None) = active(d, since)
  <2>1. TxsIn(cut, Latest(d, since)) = TxsIn(d, Latest(d, since))
    BY <1>1, LatestVisible
  <2>2. seen(cut, None) = seen(d, since)
    BY <1>1
  <2> HIDE DEF seen
  <2>3. item(cut, None) = item(d, since)
    BY <2>2
  <2> HIDE DEF item
  <2> QED  BY <1>1, <2>1, <2>2, <2>3
<1>7. /\ \A tx : last(cut, None, tx) = last(d, since, tx)
      /\ \A tx : first(cut, None, tx) = first(d, since, tx)
      /\ \A tx : next(cut, None, tx) = next(d, since, tx)
  BY <1>1
<1> HIDE DEF seen, active, last, first, next
<1>8. previous(cut, None) = previous(d, since)
  <2>1. \A tx \in seen(d, since) \ active(d, since) :
          Departure(cut, tx, last(cut, None, tx), next(cut, None, tx))
            = Departure(d, tx, last(d, since, tx), next(d, since, tx))
    BY <1>1, <1>2, <1>7 DEF Departure
  <2> QED  BY <1>6, <2>1
<1>9. arrivals(cut, None) = arrivals(d, since)
  BY <1>1, <1>2, <1>6, <1>7
<1>10. series(cut, None) = series(d, since)
  <2>1. \A id \in Visible(d, since) : RowsLike(cut, {id}, key) = RowsLike(d, {id}, key)
    BY <1>1
  <2>2. priced(cut, None) = priced(d, since)
    BY <1>1, <2>1
  <2>3. \A id \in priced(d, since) :
          MedianPrice(RowsLike(cut, {id}, key)) = MedianPrice(RowsLike(d, {id}, key))
    BY <2>1
  <2> HIDE DEF priced
  <2> QED  BY <2>2, <2>3
<1> HIDE DEF previous, arrivals, series
<1> QED  BY <1>4, <1>5, <1>6, <1>8, <1>9, <1>10 DEF cut

LEMMA CutMissingRows ==
    ASSUME NEW d, IsHistory(d), NEW since, NEW item \in ItemsIn(Seen(d, since))
    PROVE  MissingRows(d, since, item) = MissingRows(VisibleOnly(d, since), None, item)
<1> DEFINE cut == VisibleOnly(d, since)
           rows == RowsOf(d, Visible(d, since), item)
           ids == {r[1] : r \in rows}
           of(kind) == {r \in rows : KindOf[r[2]] = kind}
           row(h, kind) == [item |-> item, kind |-> kind,
                            median |-> SqlMedianPrice(rows),
                            times_listed |-> Cardinality(of(kind)),
                            min_price |-> Min({UnitPrice[r[2]] : r \in of(kind)}),
                            max_price |-> Max({UnitPrice[r[2]] : r \in of(kind)}),
                            last_seen |-> h[Max(ids)].at]
           kinds == {KindOf[r[2]] : r \in rows}
<1>1. /\ \A id \in Visible(d, since) : cut[id] = d[id]
      /\ Visible(cut, None) = Visible(d, since)
      /\ RowsOf(cut, Visible(d, since), item) = rows
  BY CutHolds, CutSnapshots
<1>2. MissingRows(d, since, item) = {row(d, kind) : kind \in kinds}
  BY Zenon DEF MissingRows
<1> HIDE DEF rows
<1>3. MissingRows(cut, None, item) = {row(cut, kind) : kind \in kinds}
  <2> HIDE DEF cut
  <2> QED  BY <1>1, Zenon DEF MissingRows
<1>4. Max(ids) \in Visible(d, since)
  <2>1. PICK tx \in Seen(d, since) : ItemOf[tx] = item
    BY DEF ItemsIn
  <2>2. PICK id \in Visible(d, since) : tx \in TxsIn(d, id)
    BY <2>1 DEF Seen
  <2>3. tx \in Txs
    BY <2>2, AtIsTime DEF TxsIn, Visible
  <2>4. <<id, tx>> \in rows
    BY <2>1, <2>2, <2>3 DEF rows, RowsOf
  <2>5. ids # {}
    BY <2>4
  <2>6. ids \subseteq Visible(d, since)
    BY DEF rows, RowsOf
  <2>7. PICK n \in Nat : DOMAIN d \subseteq 1 .. n
    BY DEF IsHistory
  <2>8. ids \subseteq 1 .. n
    BY <2>6, <2>7 DEF Visible
  <2> HIDE DEF ids
  <2>9. Max(ids) \in ids
    BY <2>5, <2>7, <2>8, MaxOfIds
  <2> QED  BY <2>6, <2>9
<1> HIDE DEF cut, ids, of, kinds
<1>5. \A kind : row(d, kind) = row(cut, kind)
  BY <1>1, <1>4
<1> HIDE DEF row
<1> QED  BY <1>2, <1>3, <1>5 DEF cut

LEMMA CutNotOnSale ==
    ASSUME NEW d, IsHistory(d), NEW since
    PROVE  NotOnSale(d, since) = NotOnSale(VisibleOnly(d, since), None)
<1> DEFINE cut == VisibleOnly(d, since)
           missing == ItemsIn(Seen(d, since)) \ ItemsIn(TxsIn(d, Latest(d, since)))
<1>1. /\ Latest(cut, None) = Latest(d, since)
      /\ TxsIn(cut, Latest(d, since)) = TxsIn(d, Latest(d, since))
      /\ Seen(cut, None) = Seen(d, since)
  <2>1. Latest(d, since) \in Visible(d, since) \cup {None}
    BY LatestVisible
  <2> QED  BY <2>1, CutHolds, CutNeighbours, CutSnapshots
<1>2. \A i \in missing : MissingRows(d, since, i) = MissingRows(cut, None, i)
  BY CutMissingRows
<1>3. NotOnSale(d, since) = UNION {MissingRows(d, since, i) : i \in missing}
  BY Zenon DEF NotOnSale
<1> HIDE DEF cut
<1>4. NotOnSale(cut, None) = UNION {MissingRows(cut, None, i) : i \in missing}
  BY <1>1, Zenon DEF NotOnSale
<1> HIDE DEF missing
<1>5. {MissingRows(d, since, i) : i \in missing} = {MissingRows(cut, None, i) : i \in missing}
  BY <1>2
<1> QED  BY <1>3, <1>4, <1>5, Zenon DEF cut

LEMMA CutSellerRow ==
    ASSUME NEW d, IsHistory(d), NEW since, NEW item
    PROVE  SellerRow(d, since, item) = SellerRow(VisibleOnly(d, since), None, item)
<1> DEFINE cut == VisibleOnly(d, since)
           txs(h, c) == {tx \in Seen(h, c) : ItemOf[tx] = item}
           active(h, c) == txs(h, c) \cap TxsIn(h, Latest(h, c))
           last(h, c, tx) == Max(Sightings(h, c, tx))
           first(h, c, tx) == Min(Sightings(h, c, tx))
           next(h, c, tx) == Following(h, last(h, c, tx), c)
           expired(h, c) == {tx \in txs(h, c) \ active(h, c) :
                                h[last(h, c, tx)].rows[tx] < ExpiryWindow}
           sold(h, c) == (txs(h, c) \ active(h, c)) \ expired(h, c)
           timed(h, c) == {tx \in sold(h, c) : first(h, c, tx) # Min(Visible(h, c))}
           times(h, c) == [tx \in timed(h, c) |->
                                h[next(h, c, tx)].at - h[first(h, c, tx)].at]
           sights(h, c) == {h[last(h, c, tx)].at : tx \in txs(h, c)}
           row(h, c) == [item |-> item, sales |-> Cardinality(sold(h, c)),
                         expired |-> Cardinality(expired(h, c)),
                         active |-> Cardinality(active(h, c)), timed |-> times(h, c),
                         last_seen |-> Max(sights(h, c) \cup {0})]
<1>1. /\ \A id \in Visible(d, since) : cut[id] = d[id]
      /\ Visible(cut, None) = Visible(d, since)
      /\ Latest(cut, None) = Latest(d, since)
      /\ \A id : Following(cut, id, None) = Following(d, id, since)
      /\ TxsIn(cut, Latest(d, since)) = TxsIn(d, Latest(d, since))
      /\ Seen(cut, None) = Seen(d, since)
      /\ \A tx : Sightings(cut, None, tx) = Sightings(d, since, tx)
  <2>1. Latest(d, since) \in Visible(d, since) \cup {None}
    BY LatestVisible
  <2> QED  BY <2>1, CutHolds, CutNeighbours, CutSnapshots
<1>2. \A tx \in txs(d, since) : /\ first(d, since, tx) \in Visible(d, since)
                                /\ last(d, since, tx) \in Visible(d, since)
  <2> SUFFICES ASSUME NEW tx \in Seen(d, since)
               PROVE  /\ first(d, since, tx) \in Visible(d, since)
                      /\ last(d, since, tx) \in Visible(d, since)
    OBVIOUS
  <2> QED  BY SightingsOfSeen DEF Sightings
<1>3. \A tx \in txs(d, since) \ active(d, since) : next(d, since, tx) \in Visible(d, since)
  BY GoneIsDated
<1>4. SellerRow(d, since, item) = row(d, since)
  BY Zenon DEF SellerRow
<1>5. SellerRow(cut, None, item) = row(cut, None)
  <2> HIDE DEF cut
  <2> QED  BY Zenon DEF SellerRow
<1> HIDE DEF cut
<1>6. txs(cut, None) = txs(d, since) /\ active(cut, None) = active(d, since)
  BY <1>1
<1>7. /\ \A tx : last(cut, None, tx) = last(d, since, tx)
      /\ \A tx : first(cut, None, tx) = first(d, since, tx)
      /\ \A tx : next(cut, None, tx) = next(d, since, tx)
  BY <1>1
<1> HIDE DEF txs, active, last, first, next
<1>8. expired(cut, None) = expired(d, since)
  BY <1>1, <1>2, <1>6, <1>7
<1>9. sights(cut, None) = sights(d, since)
  <2>1. \A tx \in txs(d, since) :
          cut[last(cut, None, tx)].at = d[last(d, since, tx)].at
    BY <1>1, <1>2, <1>7
  <2> QED  BY <1>6, <2>1
<1> HIDE DEF expired, sights
<1>10. sold(cut, None) = sold(d, since)
  BY <1>6, <1>8
<1>11. timed(cut, None) = timed(d, since) /\ timed(d, since) \subseteq txs(d, since) \ active(d, since)
  BY <1>1, <1>7, <1>10
<1> HIDE DEF sold, timed
<1>12. times(cut, None) = times(d, since)
  BY <1>1, <1>2, <1>3, <1>7, <1>11
<1> HIDE DEF times
<1> QED  BY <1>4, <1>5, <1>6, <1>8, <1>9, <1>10, <1>12 DEF cut

LEMMA CutBestSellers ==
    ASSUME NEW d, IsHistory(d), NEW since, NEW n
    PROVE  BestSellers(d, since, n) = BestSellers(VisibleOnly(d, since), None, n)
<1>1. Seen(VisibleOnly(d, since), None) = Seen(d, since)
  BY CutSnapshots
<1>2. \A i : SellerRow(d, since, i) = SellerRow(VisibleOnly(d, since), None, i)
  BY CutSellerRow
<1>3. {SellerRow(d, since, i) : i \in ItemsIn(Seen(d, since))}
        = {SellerRow(VisibleOnly(d, since), None, i) : i \in ItemsIn(Seen(d, since))}
  BY <1>2
<1> QED  BY <1>1, <1>3, Zenon DEF BestSellers

LEMMA CutRecipeCost ==
    ASSUME NEW d, IsHistory(d), NEW since, NEW key
    PROVE  RecipeCost(d, since, key) = RecipeCost(VisibleOnly(d, since), None, key)
<1> DEFINE cut == VisibleOnly(d, since)
           priced(h, c) == {m \in DOMAIN Recipe[key] :
                                MaterialPrice(h, c, m) # None /\ Recipe[key][m] > 0}
           prices(h, c) == [m \in priced(h, c) |-> MaterialPrice(h, c, m)]
           amounts(h, c) == [m \in priced(h, c) |-> Recipe[key][m]]
           row(h, c) == [cost |-> IF priced(h, c) = {} THEN None
                                  ELSE Cost(prices(h, c), amounts(h, c)),
                         materials_priced |-> Cardinality(priced(h, c))]
<1>1. \A m : MaterialPrice(cut, None, m) = MaterialPrice(d, since, m)
  BY CutPrices
<1>2. RecipeCost(d, since, key) = row(d, since)
  BY Zenon DEF RecipeCost
<1> HIDE DEF cut
<1>3. RecipeCost(cut, None, key) = row(cut, None)
  BY Zenon DEF RecipeCost
<1>4. priced(cut, None) = priced(d, since)
  BY <1>1
<1> HIDE DEF priced
<1>5. prices(cut, None) = prices(d, since) /\ amounts(cut, None) = amounts(d, since)
  BY <1>1, <1>4
<1> HIDE DEF prices, amounts
<1> QED  BY <1>2, <1>3, <1>4, <1>5 DEF cut

LEMMA CutCraftingValue ==
    ASSUME NEW d, IsHistory(d), NEW since
    PROVE  CraftingValue(d, since) = CraftingValue(VisibleOnly(d, since), None)
<1>1. Posted(VisibleOnly(d, since), None) = Posted(d, since)
  BY CutPrices
<1> QED  BY <1>1, Zenon DEF CraftingValue

-----------------------------------------------------------------------------
(* Medians of listings are numbers *)

\* Natural values at finitely many places are bounded.
LEMMA FiniteIsBounded ==
    ASSUME NEW D, IsFiniteSet(D), NEW f \in [D -> Nat]
    PROVE  \E b \in Nat : \A x \in D : f[x] <= b
<1> DEFINE Bounded(T) == \E b \in Nat : \A x \in T : f[x] <= b
           Bad == {T \in SUBSET D : ~ Bounded(T)}
           Order == StrictSubsetOrdering(D)
<1> SUFFICES ASSUME ~ Bounded(D)
             PROVE  FALSE
  OBVIOUS
<1>1. PICK T \in Bad : \A U \in Bad : ~ (<<U, T>> \in Order)
  <2>1. D \in Bad /\ Bad \subseteq FiniteSubsetsOf(D)
    BY FS_FiniteSubsetsOfFinite
  <2>2. IsWellFoundedOn(Order, FiniteSubsetsOf(D))
    BY FS_StrictSubsetOrderingWellFounded
  <2> HIDE DEF Bad, Order
  <2> QED  BY <2>1, <2>2, WFMin
<1>2. PICK x \in T : TRUE
  <2>1. CASE T = {}
    <3>1. Bounded({})
      OBVIOUS
    <3> QED  BY <1>1, <2>1, <3>1
  <2> QED  BY <2>1
<1>3. Bounded(T \ {x})
  <2>1. <<T \ {x}, T>> \in Order
    BY <1>1, <1>2 DEF StrictSubsetOrdering
  <2>2. T \ {x} \in SUBSET D
    BY <1>1
  <2> QED  BY <1>1, <2>1, <2>2
<1>4. PICK b \in Nat : \A y \in T \ {x} : f[y] <= b
  BY <1>3
<1>5. PICK c \in Nat : b <= c /\ f[x] <= c
  <2>1. f[x] \in Nat
    BY <1>1, <1>2
  <2>2. b <= f[x] \/ f[x] <= b
    BY <2>1
  <2>3. b <= b /\ f[x] <= f[x]
    BY <2>1
  <2> QED  BY <2>1, <2>2, <2>3
<1>6. \A y \in T : f[y] <= c
  <2>1. \A y \in T : f[y] \in Nat
    BY <1>1
  <2> QED  BY <1>2, <1>4, <1>5, <2>1
<1> QED  BY <1>1, <1>6

LEMMA KthIsNumber ==
    ASSUME NEW f, IsFiniteSet(DOMAIN f), f \in [DOMAIN f -> Nat],
           NEW k \in 1 .. Cardinality(DOMAIN f)
    PROVE  Kth(f, k) \in Nat
<1> DEFINE D == DOMAIN f
           UpTo(v) == {x \in D : f[x] <= v}
           Below(v) == {x \in D : f[x] < v}
           Enough == {v \in Nat : Cardinality(UpTo(v)) >= k}
           least == Min(Enough)
<1>1. \A v : /\ IsFiniteSet(UpTo(v)) /\ Cardinality(UpTo(v)) \in Nat
             /\ IsFiniteSet(Below(v)) /\ Cardinality(Below(v)) \in Nat
  <2> SUFFICES ASSUME NEW v
               PROVE  /\ IsFiniteSet(UpTo(v)) /\ Cardinality(UpTo(v)) \in Nat
                      /\ IsFiniteSet(Below(v)) /\ Cardinality(Below(v)) \in Nat
    OBVIOUS
  <2>1. UpTo(v) \in SUBSET D /\ Below(v) \in SUBSET D
    OBVIOUS
  <2>2. IsFiniteSet(UpTo(v)) /\ IsFiniteSet(Below(v))
    <3> HIDE DEF UpTo, Below, D
    <3> QED  BY <2>1, FS_Subset DEF D
  <2> HIDE DEF UpTo, Below
  <2> QED  BY <2>2, FS_CardinalityType
<1>2. Enough # {} /\ Enough \subseteq Nat
  <2>1. PICK b \in Nat : \A x \in D : f[x] <= b
    BY FiniteIsBounded
  <2>2. UpTo(b) = D
    BY <2>1
  <2>3. Cardinality(UpTo(b)) >= k
    <3>1. Cardinality(D) \in Nat
      BY FS_CardinalityType
    <3> HIDE DEF UpTo
    <3> QED  BY <2>2, <3>1
  <2> HIDE DEF UpTo
  <2> QED  BY <2>1, <2>3
<1>3. least \in Enough /\ \A v \in Enough : least <= v
  <2> HIDE DEF Enough
  <2> QED  BY <1>2, MinOfIds
<1>4. least \in Nat /\ Cardinality(UpTo(least)) >= k
  BY <1>3
<1> HIDE DEF least
<1>5. Cardinality(Below(least)) < k
  <2>1. CASE least = 0
    <3>1. Below(least) = {}
      BY <2>1
    <3>2. Cardinality(Below(least)) = 0
      BY <3>1, FS_EmptySet
    <3> QED  BY <3>2
  <2>2. CASE least # 0
    <3>1. least - 1 \in Nat /\ least - 1 \notin Enough
      BY <1>3, <1>4, <2>2
    <3>2. Below(least) = UpTo(least - 1)
      BY <1>4, <3>1
    <3> HIDE DEF UpTo, Below
    <3>3. ~ (Cardinality(UpTo(least - 1)) >= k)
      BY <3>1
    <3> QED  BY <1>1, <3>2, <3>3
  <2> QED  BY <2>1, <2>2
<1>6. least \in {f[x] : x \in D}
  <2> SUFFICES ASSUME \A x \in D : f[x] # least
               PROVE  FALSE
    OBVIOUS
  <2>1. \A x \in D : f[x] \in Nat
    OBVIOUS
  <2>2. UpTo(least) = Below(least)
    BY <1>4, <2>1
  <2> HIDE DEF UpTo, Below
  <2> QED  BY <1>1, <1>4, <1>5, <2>2
<1>7. Kth(f, k) \in {f[x] : x \in D}
  BY <1>4, <1>5, <1>6 DEF Kth
<1> QED  BY <1>7

LEMMA MedianIsNumber ==
    ASSUME NEW f, IsFiniteSet(DOMAIN f), f \in [DOMAIN f -> Nat], DOMAIN f # {}
    PROVE  Median2(f) \in Nat
<1> DEFINE n == Cardinality(DOMAIN f)
<1>1. n \in Nat /\ n # 0
  BY FS_CardinalityType, FS_EmptySet
<1> HIDE DEF n
<1>2. CASE n % 2 = 1
  <2>1. n \div 2 + 1 \in 1 .. n
    BY <1>1, <1>2
  <2>2. Kth(f, n \div 2 + 1) \in Nat
    BY <2>1, KthIsNumber DEF n
  <2> QED  BY <1>2, <2>2 DEF Median2, n
<1>3. CASE n % 2 # 1
  <2>1. n \div 2 \in 1 .. n /\ n \div 2 + 1 \in 1 .. n
    BY <1>1, <1>3
  <2>2. Kth(f, n \div 2) \in Nat /\ Kth(f, n \div 2 + 1) \in Nat
    BY <2>1, KthIsNumber DEF n
  <2> QED  BY <1>3, <2>2 DEF Median2, n
<1> QED  BY <1>2, <1>3

\* The two medians are one: for an odd number of values both middles coincide.
LEMMA MediansMeet ==
    ASSUME NEW f, IsFiniteSet(DOMAIN f), f \in [DOMAIN f -> Nat], DOMAIN f # {}
    PROVE  SqlMedian2(f) = Median2(f)
<1> DEFINE n == Cardinality(DOMAIN f)
<1>1. n \in Nat /\ n # 0
  BY FS_CardinalityType, FS_EmptySet
<1> HIDE DEF n
<1>2. CASE n % 2 = 1
  <2>1. (n + 1) \div 2 = n \div 2 + 1 /\ n \div 2 + 1 \in 1 .. n
    BY <1>1, <1>2
  <2> DEFINE middle == Kth(f, n \div 2 + 1)
  <2>2. middle \in Nat
    BY <2>1, KthIsNumber DEF n
  <2>3. SqlMedian2(f) = middle + middle /\ Median2(f) = 2 * middle
    BY <1>2, <2>1 DEF SqlMedian2, Median2, n
  <2> HIDE DEF middle
  <2> QED  BY <2>2, <2>3
<1>3. CASE n % 2 # 1
  <2>1. (n + 1) \div 2 = n \div 2
    BY <1>1, <1>3
  <2> QED  BY <1>3, <2>1 DEF SqlMedian2, Median2, n
<1> QED  BY <1>2, <1>3

\* Rows have a price exactly when there is one, whoever takes the median.
LEMMA RowsPrice ==
    ASSUME NEW d, IsHistory(d), NEW ids, ids \subseteq DOMAIN d,
           NEW rows, rows \subseteq ids \X Txs
    PROVE  /\ rows # {} => MedianPrice(rows) \in Nat
           /\ MedianPrice(rows) # None <=> rows # {}
           /\ SqlMedianPrice(rows) = MedianPrice(rows)
<1> DEFINE f == UnitPrices(rows)
<1>1. PICK n \in Nat : DOMAIN d \subseteq 1 .. n
  BY DEF IsHistory
<1>2. IsFiniteSet(rows)
  <2>1. IsFiniteSet(ids)
    <3>1. IsFiniteSet(1 .. n) /\ ids \in SUBSET (1 .. n)
      BY <1>1, FS_Interval
    <3> QED  BY <3>1, FS_Subset
  <2>2. IsFiniteSet(ids \X Txs)
    BY <2>1, FS_Product, ValueAssumption
  <2> QED  BY <2>2, FS_Subset
<1>3. DOMAIN f = rows /\ f \in [DOMAIN f -> Nat]
  <2>1. \A r \in rows : UnitPrice[r[2]] \in Nat
    <3>1. \A r \in ids \X Txs : UnitPrice[r[2]] \in Nat
      BY CatalogAssumption
    <3> QED  BY <3>1
  <2> QED  BY <2>1 DEF UnitPrices
<1>4. CASE rows = {}
  BY <1>4 DEF MedianPrice, SqlMedianPrice
<1>5. CASE rows # {}
  <2>1. MedianPrice(rows) = Median2(f) /\ SqlMedianPrice(rows) = SqlMedian2(f)
    BY <1>5 DEF MedianPrice, SqlMedianPrice
  <2> HIDE DEF f
  <2>2. Median2(f) \in Nat /\ SqlMedian2(f) = Median2(f)
    BY <1>2, <1>3, <1>5, MedianIsNumber, MediansMeet
  <2> QED  BY <1>5, <2>1, <2>2, ValueAssumption
<1> QED  BY <1>4, <1>5

\* The rows of an item and of a key are listings, and there are some exactly
\* when a listing of it was seen.
LEMMA RowsOfAreListings ==
    ASSUME NEW d, IsHistory(d), NEW ids, ids \subseteq DOMAIN d, NEW item
    PROVE  /\ RowsOf(d, ids, item) \subseteq ids \X Txs
           /\ RowsOf(d, ids, item) # {} <=>
                \E id \in ids : \E tx \in TxsIn(d, id) : ItemOf[tx] = item
<1>1. \A id \in ids : TxsIn(d, id) \subseteq Txs
  BY AtIsTime DEF TxsIn
<1>2. RowsOf(d, ids, item) \subseteq ids \X Txs
  BY DEF RowsOf
<1>3. ASSUME NEW id \in ids, NEW tx \in TxsIn(d, id), ItemOf[tx] = item
      PROVE  RowsOf(d, ids, item) # {}
  <2>1. <<id, tx>> \in RowsOf(d, ids, item)
    BY <1>1, <1>3 DEF RowsOf
  <2> QED  BY <2>1
<1>4. ASSUME NEW r \in RowsOf(d, ids, item)
      PROVE  \E id \in ids : \E tx \in TxsIn(d, id) : ItemOf[tx] = item
  BY DEF RowsOf
<1> QED  BY <1>2, <1>3, <1>4

LEMMA RowsLikeAreListings ==
    ASSUME NEW d, IsHistory(d), NEW ids, ids \subseteq DOMAIN d, NEW key
    PROVE  /\ RowsLike(d, ids, key) \subseteq ids \X Txs
           /\ RowsLike(d, ids, key) # {} <=>
                \E id \in ids : \E tx \in TxsIn(d, id) : Lower[ItemOf[tx]] = key
<1>1. \A id \in ids : TxsIn(d, id) \subseteq Txs
  BY AtIsTime DEF TxsIn
<1>2. RowsLike(d, ids, key) \subseteq ids \X Txs
  BY DEF RowsLike
<1>3. ASSUME NEW id \in ids, NEW tx \in TxsIn(d, id), Lower[ItemOf[tx]] = key
      PROVE  RowsLike(d, ids, key) # {}
  <2>1. <<id, tx>> \in RowsLike(d, ids, key)
    BY <1>1, <1>3 DEF RowsLike
  <2> QED  BY <2>1
<1>4. ASSUME NEW r \in RowsLike(d, ids, key)
      PROVE  \E id \in ids : \E tx \in TxsIn(d, id) : Lower[ItemOf[tx]] = key
  BY DEF RowsLike
<1> QED  BY <1>2, <1>3, <1>4

\* A key and its one spelling stand for the same listings.
LEMMA OneSpellingOf ==
    ASSUME NEW d, IsHistory(d), NEW item \in Items
    PROVE  /\ \A tx \in Txs : Lower[ItemOf[tx]] = Lower[item] <=> ItemOf[tx] = item
           /\ \A ids : ids \subseteq DOMAIN d
                => RowsLike(d, ids, Lower[item]) = RowsOf(d, ids, item)
<1>1. \A tx \in Txs : Lower[ItemOf[tx]] = Lower[item] <=> ItemOf[tx] = item
  <2>1. \A tx \in Txs : ItemOf[tx] \in Items
    BY CatalogAssumption
  <2> QED  BY <2>1, OneSpelling
<1>2. ASSUME NEW ids, ids \subseteq DOMAIN d
      PROVE  RowsLike(d, ids, Lower[item]) = RowsOf(d, ids, item)
  <2>1. \A r \in ids \X Txs : Lower[ItemOf[r[2]]] = Lower[item] <=> ItemOf[r[2]] = item
    BY <1>1
  <2> QED  BY <2>1 DEF RowsLike, RowsOf
<1> QED  BY <1>1, <1>2

\* The rows of a key a reader prices it by: all it sees, and the latest of them.
EveryRow(d, since, key) == RowsLike(d, Visible(d, since), key)
ActiveRows(d, since, key) == {r \in EveryRow(d, since, key) : r[1] = Latest(d, since)}

LEMMA KeyRows ==
    ASSUME NEW d, IsHistory(d), NEW since, NEW key
    PROVE  /\ Visible(d, since) \subseteq DOMAIN d
           /\ EveryRow(d, since, key) \subseteq Visible(d, since) \X Txs
           /\ ActiveRows(d, since, key) \subseteq EveryRow(d, since, key)
           /\ EveryRow(d, since, key) # {}
                <=> \E tx \in Seen(d, since) : Lower[ItemOf[tx]] = key
           /\ ActiveRows(d, since, key) # {}
                <=> \E tx \in TxsIn(d, Latest(d, since)) : Lower[ItemOf[tx]] = key
<1>1. Visible(d, since) \subseteq DOMAIN d
  BY DEF Visible
<1>2. /\ EveryRow(d, since, key) \subseteq Visible(d, since) \X Txs
      /\ EveryRow(d, since, key) # {} <=>
            \E id \in Visible(d, since) : \E tx \in TxsIn(d, id) : Lower[ItemOf[tx]] = key
  BY <1>1, RowsLikeAreListings DEF EveryRow
<1>3. EveryRow(d, since, key) # {} <=> \E tx \in Seen(d, since) : Lower[ItemOf[tx]] = key
  BY <1>2 DEF Seen
<1>4. ASSUME NEW tx \in TxsIn(d, Latest(d, since)), Lower[ItemOf[tx]] = key
      PROVE  ActiveRows(d, since, key) # {}
  <2>1. Latest(d, since) # None
    BY DEF TxsIn
  <2>2. Latest(d, since) \in Visible(d, since)
    BY <2>1, LatestVisible
  <2>3. tx \in Txs
    BY <1>1, <2>2, AtIsTime DEF TxsIn
  <2>4. <<Latest(d, since), tx>> \in EveryRow(d, since, key)
    BY <1>4, <2>2, <2>3 DEF EveryRow, RowsLike
  <2>5. <<Latest(d, since), tx>> \in ActiveRows(d, since, key)
    BY <2>4 DEF ActiveRows
  <2> QED  BY <2>5
<1>5. ASSUME NEW r \in ActiveRows(d, since, key)
      PROVE  \E tx \in TxsIn(d, Latest(d, since)) : Lower[ItemOf[tx]] = key
  BY DEF ActiveRows, EveryRow, RowsLike
<1> QED  BY <1>1, <1>2, <1>3, <1>4, <1>5 DEF ActiveRows

\* A key has a price exactly when it was seen, one now when it is on sale.
LEMMA KeyPrice ==
    ASSUME NEW d, IsHistory(d), NEW since, NEW key,
           NEW rows, rows \subseteq EveryRow(d, since, key)
    PROVE  /\ MedianPrice(rows) # None <=> rows # {}
           /\ SqlMedianPrice(rows) = MedianPrice(rows)
<1>1. Visible(d, since) \subseteq DOMAIN d /\ rows \subseteq Visible(d, since) \X Txs
  BY KeyRows
<1> QED  BY <1>1, RowsPrice

LEMMA SearchOf ==
    ASSUME NEW d, IsHistory(d), NEW since, NEW key
    PROVE  LET search == SearchRow(d, since, key)
           IN  /\ search.listed_now = (ActiveRows(d, since, key) # {})
               /\ search.current = MedianPrice(ActiveRows(d, since, key))
               /\ search.median = MedianPrice(EveryRow(d, since, key))
               /\ search.listed_now
                    <=> \E tx \in TxsIn(d, Latest(d, since)) : Lower[ItemOf[tx]] = key
               /\ search.median # None <=> \E tx \in Seen(d, since) : Lower[ItemOf[tx]] = key
<1> DEFINE row == [key |-> key,
                   listed_now |-> ActiveRows(d, since, key) # {},
                   active_count |-> Cardinality(ActiveRows(d, since, key)),
                   current |-> MedianPrice(ActiveRows(d, since, key)),
                   median |-> MedianPrice(EveryRow(d, since, key))]
<1>1. SearchRow(d, since, key) = row
  BY Zenon DEF SearchRow, ActiveRows, EveryRow
<1>2. /\ row.listed_now = (ActiveRows(d, since, key) # {})
      /\ row.current = MedianPrice(ActiveRows(d, since, key))
      /\ row.median = MedianPrice(EveryRow(d, since, key))
  OBVIOUS
<1> HIDE DEF row
<1>3. MedianPrice(EveryRow(d, since, key)) # None <=> EveryRow(d, since, key) # {}
  <2>1. EveryRow(d, since, key) \subseteq EveryRow(d, since, key)
    OBVIOUS
  <2> QED  BY <2>1, KeyPrice
<1>4. /\ EveryRow(d, since, key) # {} <=> \E tx \in Seen(d, since) : Lower[ItemOf[tx]] = key
      /\ ActiveRows(d, since, key) # {}
            <=> \E tx \in TxsIn(d, Latest(d, since)) : Lower[ItemOf[tx]] = key
  BY KeyRows
<1> HIDE DEF row
<1> QED  BY <1>1, <1>2, <1>3, <1>4

-----------------------------------------------------------------------------
(* What an item page says *)

\* The departures as both the windows and the pages see them.
DepartureOf(d, since, tx) ==
    LET last == Max(Sightings(d, since, tx))
    IN  Departure(d, tx, last, Following(d, last, since))
Gone(d, since) == Seen(d, since) \ TxsIn(d, Latest(d, since))

LEMMA SeenAreTxs ==
    ASSUME NEW d, IsHistory(d), NEW since
    PROVE  /\ Seen(d, since) \subseteq Txs
           /\ TxsIn(d, Latest(d, since)) \subseteq Seen(d, since)
<1>1. \A id \in Visible(d, since) : TxsIn(d, id) \subseteq Txs
  BY AtIsTime DEF Visible, TxsIn
<1>2. TxsIn(d, Latest(d, since)) = {} \/ Latest(d, since) \in Visible(d, since)
  BY LatestVisible DEF TxsIn
<1> QED  BY <1>1, <1>2 DEF Seen

LEMMA DepartureType ==
    ASSUME NEW d, IsHistory(d), NEW since, NEW tx \in Gone(d, since)
    PROVE  DepartureOf(d, since, tx) \in Departures
<1> DEFINE last == Max(Sightings(d, since, tx))
           vanish == Following(d, last, since)
<1>1. last \in DOMAIN d /\ vanish \in DOMAIN d
  BY GoneIsDated DEF Gone, Visible
<1>2. tx \in Txs
  BY SeenAreTxs DEF Gone
<1> HIDE DEF last, vanish
<1>3. d[last].at \in Int /\ d[vanish].at \in Int
  BY <1>1, AtIsTime
<1>4. RemovalReason(d[last].rows[tx]) \in {"EXPIRED", "REMOVED"}
  BY DEF RemovalReason
<1>5. Departure(d, tx, last, vanish) \in Departures
  BY <1>2, <1>3, <1>4 DEF Departure, Departures
<1> QED  BY <1>5 DEF DepartureOf, last, vanish

LEMMA PageOfSeen ==
    ASSUME NEW d, IsHistory(d), NEW since, NEW item \in Items,
           \E tx \in Seen(d, since) : ItemOf[tx] = item
    PROVE  LET page == ItemPage(d, since, Lower[item])
           IN  /\ page # None
               /\ page.current = {tx \in TxsIn(d, Latest(d, since)) : ItemOf[tx] = item}
               /\ page.previous
                    = {DepartureOf(d, since, tx) : tx \in {t \in Gone(d, since) : ItemOf[t] = item}}
               /\ \A tx \in Seen(d, since) : ItemOf[tx] = item =>
                    page.first_seen[tx] = d[Min(Sightings(d, since, tx))].at
<1> DEFINE latest == Latest(d, since)
           key == Lower[item]
           seen == {tx \in Seen(d, since) : Lower[ItemOf[tx]] = key}
           adopted == CHOOSE i \in ItemsIn(seen) : TRUE
           active == {tx \in TxsIn(d, latest) : ItemOf[tx] = adopted}
           last(tx) == Max(Sightings(d, since, tx))
           next(tx) == LET n == Following(d, last(tx), since) IN IF n = None THEN latest ELSE n
           previous == {Departure(d, tx, last(tx), next(tx)) : tx \in seen \ active}
           arrivals == [tx \in seen |-> d[Min(Sightings(d, since, tx))].at]
           series == {<<id, MedianPrice(RowsLike(d, {id}, key))>> :
                        id \in {i \in Visible(d, since) : RowsLike(d, {i}, key) # {}}}
           page == [current |-> active, previous |-> previous,
                    first_seen |-> arrivals, series |-> series]
           gone == {tx \in Gone(d, since) : ItemOf[tx] = item}
<1>0. /\ seen = {tx \in Seen(d, since) : ItemOf[tx] = item}
      /\ active = {tx \in TxsIn(d, latest) : ItemOf[tx] = item}
  <2>1. seen = {tx \in Seen(d, since) : ItemOf[tx] = item}
    <3>1. \A tx \in Seen(d, since) : Lower[ItemOf[tx]] = Lower[item] <=> ItemOf[tx] = item
      BY SeenAreTxs, OneSpellingOf
    <3> QED  BY <3>1
  <2> HIDE DEF seen
  <2>2. ItemsIn(seen) = {item}
    BY <2>1 DEF ItemsIn
  <2>3. adopted = item
    BY <2>2
  <2> HIDE DEF adopted
  <2> QED  BY <2>1, <2>3
<1>1. ItemPage(d, since, key) = page
  <2>1. ItemPage(d, since, key) = IF seen = {} THEN None ELSE page
    BY Zenon DEF ItemPage
  <2>2. seen # {}
    BY <1>0
  <2> QED  BY <2>1, <2>2
<1> HIDE DEF seen, active, adopted
<1>2. seen \ active = gone
  BY <1>0 DEF Gone
<1>3. \A tx \in gone : Departure(d, tx, last(tx), next(tx)) = DepartureOf(d, since, tx)
  <2> SUFFICES ASSUME NEW tx \in gone
               PROVE  next(tx) = Following(d, last(tx), since)
    BY DEF DepartureOf
  <2>1. Following(d, last(tx), since) \in Visible(d, since)
    BY GoneIsDated DEF Gone
  <2>2. Visible(d, since) \subseteq Int
    BY DEF Visible, IsHistory
  <2> QED  BY <2>1, <2>2, ValueAssumption
<1>4. previous = {DepartureOf(d, since, tx) : tx \in gone}
  <2> HIDE DEF last, next, gone
  <2> QED  BY <1>2, <1>3
<1>5. previous \subseteq Departures
  <2>1. gone \subseteq Gone(d, since)
    OBVIOUS
  <2> HIDE DEF gone, previous
  <2> QED  BY <1>4, <2>1, DepartureType
<1>6. seen \subseteq Seen(d, since) /\ seen \subseteq Txs /\ active \subseteq Txs
  BY <1>0, SeenAreTxs
<1>7. arrivals \in [seen -> Int]
  <2>1. \A tx \in Seen(d, since) : Min(Sightings(d, since, tx)) \in DOMAIN d
    <3> SUFFICES ASSUME NEW tx \in Seen(d, since)
                 PROVE  Min(Sightings(d, since, tx)) \in DOMAIN d
      OBVIOUS
    <3>1. Min(Sightings(d, since, tx)) \in Sightings(d, since, tx)
      BY SightingsOfSeen
    <3> QED  BY <3>1 DEF Sightings, Visible
  <2>2. \A tx \in seen : d[Min(Sightings(d, since, tx))].at \in Int
    BY <1>6, <2>1, AtIsTime
  <2> QED  BY <2>2
<1>8. series \subseteq Int \X Int
  <2> DEFINE rows(id) == RowsLike(d, {id}, key)
             price(id) == MedianPrice(rows(id))
             priced == {i \in Visible(d, since) : rows(i) # {}}
  <2>1. \A id \in priced : id \in Int /\ price(id) \in Int
    <3> SUFFICES ASSUME NEW id \in priced
                 PROVE  id \in Int /\ price(id) \in Int
      OBVIOUS
    <3>1. {id} \subseteq DOMAIN d /\ id \in Int /\ rows(id) # {}
      BY DEF Visible, IsHistory
    <3>2. rows(id) \subseteq {id} \X Txs
      BY <3>1, RowsLikeAreListings
    <3> HIDE DEF rows
    <3> QED  BY <3>1, <3>2, RowsPrice
  <2> HIDE DEF rows, price, priced
  <2>2. {<<id, price(id)>> : id \in priced} \subseteq Int \X Int
    BY <2>1
  <2> QED  BY <2>2 DEF rows, price, priced
<1> HIDE DEF previous, arrivals, series
<1>9. page \in Pages
  <2>1. arrivals \in UNION {[S -> Int] : S \in SUBSET Txs}
    BY <1>6, <1>7
  <2> QED  BY <1>5, <1>6, <1>8, <2>1 DEF Pages
<1>10. /\ page.current = active /\ page.previous = previous /\ page.first_seen = arrivals
  OBVIOUS
<1> HIDE DEF page
<1>11. /\ ItemPage(d, since, key) # None
       /\ ItemPage(d, since, key).current = active
       /\ ItemPage(d, since, key).previous = previous
       /\ ItemPage(d, since, key).first_seen = arrivals
  BY <1>1, <1>9, <1>10, ValueAssumption
<1>12. \A tx \in Seen(d, since) : ItemOf[tx] = item =>
            arrivals[tx] = d[Min(Sightings(d, since, tx))].at
  BY <1>0 DEF arrivals
<1> QED  BY <1>0, <1>4, <1>11, <1>12, Zenon DEF gone, latest, key

LEMMA NoPage ==
    ASSUME NEW d, NEW since, NEW key, \A tx \in Seen(d, since) : Lower[ItemOf[tx]] # key
    PROVE  ItemPage(d, since, key) = None
<1>1. {tx \in Seen(d, since) : Lower[ItemOf[tx]] = key} = {}
  OBVIOUS
<1> QED  BY <1>1, Zenon DEF ItemPage

-----------------------------------------------------------------------------
(* Who says an item is on sale, missing or known *)

LEMMA PageExists ==
    ASSUME NEW d, IsHistory(d), NEW since, NEW item \in Items
    PROVE  LET page == ItemPage(d, since, Lower[item])
           IN  /\ page # None <=> \E tx \in Seen(d, since) : ItemOf[tx] = item
               /\ page # None =>
                    (page.current # {}
                        <=> \E tx \in TxsIn(d, Latest(d, since)) : ItemOf[tx] = item)
<1> DEFINE page == ItemPage(d, since, Lower[item])
<1>1. CASE \E tx \in Seen(d, since) : ItemOf[tx] = item
  <2>1. page # None /\ page.current = {tx \in TxsIn(d, Latest(d, since)) : ItemOf[tx] = item}
    BY <1>1, PageOfSeen
  <2> HIDE DEF page
  <2>2. page.current # {} <=> \E tx \in TxsIn(d, Latest(d, since)) : ItemOf[tx] = item
    BY <2>1
  <2> QED  BY <1>1, <2>1, <2>2 DEF page
<1>2. CASE \A tx \in Seen(d, since) : ItemOf[tx] # item
  <2>1. \A tx \in Seen(d, since) : Lower[ItemOf[tx]] # Lower[item]
    BY <1>2, SeenAreTxs, OneSpellingOf
  <2>2. page = None
    BY <2>1, NoPage
  <2> QED  BY <1>2, <2>2
<1> QED  BY <1>1, <1>2

LEMMA MissingOfItem ==
    ASSUME NEW d, NEW since, NEW item
    PROVE  /\ \A r \in MissingRows(d, since, item) : r.item = item
           /\ RowsOf(d, Visible(d, since), item) # {} => MissingRows(d, since, item) # {}
<1> DEFINE rows == RowsOf(d, Visible(d, since), item)
           of(kind) == {r \in rows : KindOf[r[2]] = kind}
           row(kind) == [item |-> item, kind |-> kind,
                         median |-> SqlMedianPrice(rows),
                         times_listed |-> Cardinality(of(kind)),
                         min_price |-> Min({UnitPrice[r[2]] : r \in of(kind)}),
                         max_price |-> Max({UnitPrice[r[2]] : r \in of(kind)}),
                         last_seen |-> d[Max({r[1] : r \in rows})].at]
           kinds == {KindOf[r[2]] : r \in rows}
<1>1. MissingRows(d, since, item) = {row(kind) : kind \in kinds}
  BY Zenon DEF MissingRows
<1>2. \A kind : row(kind).item = item
  OBVIOUS
<1>3. rows # {} => kinds # {}
  OBVIOUS
<1> HIDE DEF row, kinds, rows
<1>4. \A r \in MissingRows(d, since, item) : r.item = item
  BY <1>1, <1>2
<1>5. kinds # {} => MissingRows(d, since, item) # {}
  BY <1>1
<1> QED  BY <1>3, <1>4, <1>5 DEF rows

LEMMA MissingItems ==
    ASSUME NEW d, IsHistory(d), NEW since
    PROVE  {r.item : r \in NotOnSale(d, since)}
             = ItemsIn(Seen(d, since)) \ ItemsIn(TxsIn(d, Latest(d, since)))
<1> DEFINE absent == ItemsIn(Seen(d, since)) \ ItemsIn(TxsIn(d, Latest(d, since)))
<1>1. NotOnSale(d, since) = UNION {MissingRows(d, since, i) : i \in absent}
  BY Zenon DEF NotOnSale
<1>2. ASSUME NEW i, NEW r \in MissingRows(d, since, i)
      PROVE  r.item = i
  BY MissingOfItem
<1>3. ASSUME NEW i \in ItemsIn(Seen(d, since))
      PROVE  MissingRows(d, since, i) # {}
  <2>1. \E tx \in Seen(d, since) : ItemOf[tx] = i
    BY DEF ItemsIn
  <2>2. Visible(d, since) \subseteq DOMAIN d
    BY DEF Visible
  <2>3. \E id \in Visible(d, since) : \E tx \in TxsIn(d, id) : ItemOf[tx] = i
    BY <2>1 DEF Seen
  <2>4. RowsOf(d, Visible(d, since), i) # {}
    BY <2>2, <2>3, RowsOfAreListings
  <2> QED  BY <2>4, MissingOfItem
<1>4. absent \subseteq ItemsIn(Seen(d, since))
  OBVIOUS
<1> HIDE DEF absent
<1>5. ASSUME NEW r \in NotOnSale(d, since)
      PROVE  r.item \in absent
  BY <1>1, <1>2
<1>6. ASSUME NEW i \in absent
      PROVE  \E r \in NotOnSale(d, since) : r.item = i
  <2>1. PICK r : r \in MissingRows(d, since, i)
    BY <1>3, <1>4
  <2>2. r \in NotOnSale(d, since) /\ r.item = i
    BY <1>1, <1>2, <2>1
  <2> QED  BY <2>2
<1>7. {r.item : r \in NotOnSale(d, since)} = absent
  BY <1>5, <1>6
<1> QED  BY <1>7 DEF absent

ItemsOnSale(d, since) == {ItemOf[tx] : tx \in DOMAIN ActiveListings(d, since, Items)}

LEMMA OnSale ==
    ASSUME NEW d, IsHistory(d), NEW since, NEW item
    PROVE  item \in ItemsOnSale(d, since)
             <=> \E tx \in TxsIn(d, Latest(d, since)) : ItemOf[tx] = item
<1> DEFINE current == TxsIn(d, Latest(d, since))
<1>1. \A tx \in current : ItemOf[tx] \in Items
  BY SeenAreTxs, CatalogAssumption
<1>2. DOMAIN ActiveListings(d, since, Items) = current
  BY <1>1 DEF ActiveListings
<1> HIDE DEF current
<1>3. item \in ItemsOnSale(d, since)
        <=> \E tx \in current : ItemOf[tx] = item
  BY <1>2 DEF ItemsOnSale
<1> QED  BY <1>3 DEF current

LEMMA ViewsAgree ==
    ASSUME NEW d, IsHistory(d), NEW since, NEW i \in Items
    PROVE  LET missing == i \in {r.item : r \in NotOnSale(d, since)}
               listed == i \in {ItemOf[tx] : tx \in DOMAIN ActiveListings(d, since, Items)}
               page == ItemPage(d, since, Lower[i])
               search == SearchRow(d, since, Lower[i])
           IN  /\ search.listed_now = listed
               /\ ~(missing /\ listed)
               /\ (page # None) = (missing \/ listed)
               /\ (search.median # None) = (page # None)
               /\ page # None => (page.current # {}) = listed
<1> DEFINE missing == i \in {r.item : r \in NotOnSale(d, since)}
           listed == i \in {ItemOf[tx] : tx \in DOMAIN ActiveListings(d, since, Items)}
           page == ItemPage(d, since, Lower[i])
           search == SearchRow(d, since, Lower[i])
           ever == \E tx \in Seen(d, since) : ItemOf[tx] = i
           now == \E tx \in TxsIn(d, Latest(d, since)) : ItemOf[tx] = i
<1>1. listed <=> now
  <2>1. listed <=> i \in ItemsOnSale(d, since)
    BY DEF ItemsOnSale
  <2>2. i \in ItemsOnSale(d, since) <=> now
    BY OnSale
  <2> HIDE DEF listed, now
  <2> QED  BY <2>1, <2>2
<1>2. missing <=> ever /\ ~ now
  <2> DEFINE absent == ItemsIn(Seen(d, since)) \ ItemsIn(TxsIn(d, Latest(d, since)))
  <2>1. {r.item : r \in NotOnSale(d, since)} = absent
    BY MissingItems, Zenon
  <2>2. i \in absent <=> ever /\ ~ now
    BY DEF ItemsIn
  <2> HIDE DEF absent, ever, now
  <2> QED  BY <2>1, <2>2, Zenon
<1>3. (page # None <=> ever) /\ (page # None => (page.current # {} <=> now))
  BY PageExists
<1>4. /\ now <=> \E tx \in TxsIn(d, Latest(d, since)) : Lower[ItemOf[tx]] = Lower[i]
      /\ ever <=> \E tx \in Seen(d, since) : Lower[ItemOf[tx]] = Lower[i]
  <2>1. /\ Seen(d, since) \subseteq Txs /\ TxsIn(d, Latest(d, since)) \subseteq Txs
        /\ \A tx \in Txs : Lower[ItemOf[tx]] = Lower[i] <=> ItemOf[tx] = i
    BY SeenAreTxs, OneSpellingOf
  <2> QED  BY <2>1
<1>5. /\ search.listed_now \in BOOLEAN
      /\ search.listed_now <=> now
      /\ search.median # None <=> ever
  <2>1. search.listed_now = (ActiveRows(d, since, Lower[i]) # {})
    BY SearchOf
  <2>2. search.listed_now
          <=> \E tx \in TxsIn(d, Latest(d, since)) : Lower[ItemOf[tx]] = Lower[i]
    BY SearchOf
  <2>3. search.median # None <=> \E tx \in Seen(d, since) : Lower[ItemOf[tx]] = Lower[i]
    BY SearchOf
  <2> HIDE DEF now, ever, search
  <2> QED  BY <1>4, <2>1, <2>2, <2>3
<1>6. now => ever
  BY SeenAreTxs
<1>7. missing \in BOOLEAN /\ listed \in BOOLEAN
  OBVIOUS
<1> HIDE DEF missing, listed, page, search, ever, now
<1>8. search.listed_now = listed
  BY <1>1, <1>5, <1>7
<1>9. (search.median # None) = (page # None)
  BY <1>3, <1>5
<1>10. ~(missing /\ listed)
  BY <1>1, <1>2
<1>11. (page # None) = (missing \/ listed)
  BY <1>1, <1>2, <1>3, <1>6, <1>7
<1>12. page # None => (page.current # {}) = listed
  BY <1>1, <1>3, <1>7
<1> QED  BY <1>8, <1>9, <1>10, <1>11, <1>12 DEF missing, listed, page, search

-----------------------------------------------------------------------------
(* Departures, counted *)

Departed(d, since) == {DepartureOf(d, since, tx) : tx \in Gone(d, since)}
DepartedAs(d, since, item, reason) ==
    {g \in Departed(d, since) : ItemOf[g.tx] = item /\ g.reason = reason}
LeftAs(d, since, item, reason) ==
    {tx \in Gone(d, since) :
        /\ ItemOf[tx] = item
        /\ RemovalReason(d[Max(Sightings(d, since, tx))].rows[tx]) = reason}

LEMMA DepartureFields ==
    ASSUME NEW d, NEW since, NEW tx
    PROVE  LET last == Max(Sightings(d, since, tx))
               g == DepartureOf(d, since, tx)
           IN  /\ g.tx = tx
               /\ g.reason = RemovalReason(d[last].rows[tx])
               /\ g.vanished_at = d[Following(d, last, since)].at
  BY DEF DepartureOf, Departure

LEMMA CoveringWindow ==
    ASSUME NEW d, IsHistory(d), NEW since, NEW w \in Nat,
           \A i, j \in DOMAIN d : d[i].at - d[j].at <= w
    PROVE  RemovedWithin(d, since, w) = Departed(d, since)
<1> DEFINE last(tx) == Max(Sightings(d, since, tx))
           vanish(tx) == Following(d, last(tx), since)
           inside == {tx \in Gone(d, since) : d[vanish(tx)].at >= d[Latest(d, since)].at - w}
<1>1. RemovedWithin(d, since, w) = {Departure(d, tx, last(tx), vanish(tx)) : tx \in inside}
  BY Zenon DEF RemovedWithin, Gone
<1>2. \A tx \in Gone(d, since) : d[vanish(tx)].at >= d[Latest(d, since)].at - w
  <2> SUFFICES ASSUME NEW tx \in Gone(d, since)
               PROVE  d[vanish(tx)].at >= d[Latest(d, since)].at - w
    OBVIOUS
  <2>1. vanish(tx) \in DOMAIN d /\ Latest(d, since) \in DOMAIN d
    BY GoneIsDated DEF Gone, Visible
  <2> HIDE DEF vanish
  <2>2. d[vanish(tx)].at \in Int /\ d[Latest(d, since)].at \in Int
    BY <2>1, AtIsTime
  <2>3. d[Latest(d, since)].at - d[vanish(tx)].at <= w
    BY <2>1
  <2> QED  BY <2>2, <2>3
<1>3. inside = Gone(d, since)
  <2> HIDE DEF vanish
  <2> QED  BY <1>2
<1>4. \A tx : Departure(d, tx, last(tx), vanish(tx)) = DepartureOf(d, since, tx)
  BY Zenon DEF DepartureOf
<1> HIDE DEF last, vanish, inside
<1> QED  BY <1>1, <1>3, <1>4 DEF Departed

LEMMA PagesHoldTheDeparted ==
    ASSUME NEW d, IsHistory(d), NEW since
    PROVE  UNION {p.previous : p \in {q \in {ItemPage(d, since, k) : k \in Keys} : q # None}}
             = Departed(d, since)
<1> DEFINE pages == {q \in {ItemPage(d, since, k) : k \in Keys} : q # None}
           goneOf(i) == {t \in Gone(d, since) : ItemOf[t] = i}
<1>1. ASSUME NEW p \in pages, NEW g \in p.previous
      PROVE  g \in Departed(d, since)
  <2>1. PICK k \in Keys : p = ItemPage(d, since, k) /\ p # None
    OBVIOUS
  <2>2. PICK tx \in Seen(d, since) : Lower[ItemOf[tx]] = k
    BY <2>1, NoPage
  <2> DEFINE i == ItemOf[tx]
  <2>3. i \in Items /\ \E t \in Seen(d, since) : ItemOf[t] = i
    BY SeenAreTxs, CatalogAssumption
  <2>4. Lower[i] = k
    BY <2>2
  <2> HIDE DEF i
  <2>5. p.previous = {DepartureOf(d, since, t) : t \in goneOf(i)}
    BY <2>1, <2>3, <2>4, PageOfSeen
  <2> HIDE DEF pages
  <2> QED  BY <2>5 DEF Departed
<1>2. ASSUME NEW tx \in Gone(d, since)
      PROVE  \E p \in pages : DepartureOf(d, since, tx) \in p.previous
  <2> DEFINE i == ItemOf[tx]
             page == ItemPage(d, since, Lower[i])
  <2>1. tx \in Seen(d, since) /\ i \in Items /\ Lower[i] \in Keys
    BY SeenAreTxs, CatalogAssumption, OneSpelling DEF Gone
  <2>2. \E t \in Seen(d, since) : ItemOf[t] = i
    BY <2>1
  <2> HIDE DEF i
  <2>3. page # None
    BY <2>1, <2>2, PageOfSeen
  <2>4. page.previous = {DepartureOf(d, since, t) : t \in goneOf(i)}
    BY <2>1, <2>2, PageOfSeen
  <2>5. tx \in goneOf(i)
    BY DEF i
  <2>6. page \in pages
    BY <2>1, <2>3
  <2> HIDE DEF page, pages, goneOf
  <2> QED  BY <2>4, <2>5, <2>6
<1> HIDE DEF pages
<1>3. UNION {p.previous : p \in pages} = Departed(d, since)
  BY <1>1, <1>2 DEF Departed
<1> QED  BY <1>3 DEF pages

LEMMA TaggedCount ==
    ASSUME NEW S, IsFiniteSet(S), NEW f, DOMAIN f = S, \A x \in S : f[x].tx = x
    PROVE  Cardinality({f[x] : x \in S}) = Cardinality(S)
<1> DEFINE T == {f[x] : x \in S}
           g == [x \in S |-> f[x]]
<1>1. g \in [S -> T] /\ \A x \in S : g[x] = f[x]
  OBVIOUS
<1>2. \A t \in T : \E x \in S : f[x] = t
  OBVIOUS
<1> HIDE DEF T, g
<1>3. \A x, y \in S : g[x] = g[y] => x = y
  BY <1>1
<1>4. \A t \in T : \E x \in S : g[x] = t
  BY <1>1, <1>2
<1>5. g \in Bijection(S, T)
  BY <1>1, <1>3, <1>4 DEF Bijection, Injection, Surjection, IsInjective
<1>6. ExistsBijection(S, T)
  BY <1>5 DEF ExistsBijection
<1> QED  BY <1>6, FS_Bijection DEF T

LEMMA DepartedCount ==
    ASSUME NEW d, IsHistory(d), NEW since, NEW item, NEW reason
    PROVE  Cardinality(DepartedAs(d, since, item, reason))
             = Cardinality(LeftAs(d, since, item, reason))
<1> DEFINE reasonOf(tx) == RemovalReason(d[Max(Sightings(d, since, tx))].rows[tx])
           S == {tx \in Gone(d, since) : ItemOf[tx] = item /\ reasonOf(tx) = reason}
           f == [tx \in S |-> DepartureOf(d, since, tx)]
           T == {g \in Departed(d, since) : ItemOf[g.tx] = item /\ g.reason = reason}
<1>1. \A tx : DepartureOf(d, since, tx).tx = tx /\ DepartureOf(d, since, tx).reason = reasonOf(tx)
  BY DepartureFields
<1>2. IsFiniteSet(S)
  <2>1. S \subseteq Txs
    BY SeenAreTxs DEF Gone
  <2> QED  BY <2>1, ValueAssumption, FS_Subset
<1> HIDE DEF reasonOf
<1>3. T = {f[tx] : tx \in S}
  <2>1. ASSUME NEW g \in T
        PROVE  \E tx \in S : f[tx] = g
    BY <1>1 DEF Departed
  <2>2. ASSUME NEW tx \in S
        PROVE  f[tx] \in T
    BY <1>1 DEF Departed
  <2> HIDE DEF T, f, S
  <2> QED  BY <2>1, <2>2
<1>4. DOMAIN f = S /\ \A tx \in S : f[tx].tx = tx
  BY <1>1
<1> HIDE DEF f, S, T
<1>5. Cardinality(T) = Cardinality(S)
  BY <1>2, <1>3, <1>4, TaggedCount
<1> QED  BY <1>5, Zenon DEF T, S, reasonOf, DepartedAs, LeftAs

LEMMA SellerCounts ==
    ASSUME NEW d, NEW since, NEW item
    PROVE  LET row == SellerRow(d, since, item)
           IN  /\ row.item = item
               /\ row.sales = Cardinality(LeftAs(d, since, item, "REMOVED"))
               /\ row.expired = Cardinality(LeftAs(d, since, item, "EXPIRED"))
<1> DEFINE latest == Latest(d, since)
           txs == {tx \in Seen(d, since) : ItemOf[tx] = item}
           active == txs \cap TxsIn(d, latest)
           last(tx) == Max(Sightings(d, since, tx))
           first(tx) == Min(Sightings(d, since, tx))
           expired == {tx \in txs \ active : d[last(tx)].rows[tx] < ExpiryWindow}
           sold == (txs \ active) \ expired
           timed == {tx \in sold : first(tx) # Min(Visible(d, since))}
           times == [tx \in timed |-> d[Following(d, last(tx), since)].at - d[first(tx)].at]
           left(reason) == LeftAs(d, since, item, reason)
<1>1. SellerRow(d, since, item) =
        [item |-> item, sales |-> Cardinality(sold), expired |-> Cardinality(expired),
         active |-> Cardinality(active), timed |-> times,
         last_seen |-> Max({d[last(tx)].at : tx \in txs} \cup {0})]
  BY Zenon DEF SellerRow
<1>2. expired = left("EXPIRED") /\ sold = left("REMOVED")
  BY DEF Gone, RemovalReason, LeftAs
<1> HIDE DEF expired, sold, active, times, txs
<1>3. /\ SellerRow(d, since, item).item = item
      /\ SellerRow(d, since, item).sales = Cardinality(sold)
      /\ SellerRow(d, since, item).expired = Cardinality(expired)
  BY <1>1
<1> HIDE DEF left
<1>4. /\ Cardinality(sold) = Cardinality(left("REMOVED"))
      /\ Cardinality(expired) = Cardinality(left("EXPIRED"))
  BY <1>2
<1>5. /\ SellerRow(d, since, item).item = item
      /\ SellerRow(d, since, item).sales = Cardinality(left("REMOVED"))
      /\ SellerRow(d, since, item).expired = Cardinality(left("EXPIRED"))
  BY <1>3, <1>4
<1> QED  BY <1>5 DEF left

LEMMA TimedAgrees ==
    ASSUME NEW d, IsHistory(d), NEW since, NEW item \in Items,
           NEW tx \in DOMAIN SellerRow(d, since, item).timed
    PROVE  \E g \in Departed(d, since) :
                /\ g.tx = tx
                /\ SellerRow(d, since, item).timed[tx]
                     = g.vanished_at - ItemPage(d, since, Lower[item]).first_seen[tx]
<1> DEFINE g == DepartureOf(d, since, tx)
           vanished == d[Following(d, Max(Sightings(d, since, tx)), since)].at
           arrived == d[Min(Sightings(d, since, tx))].at
<1>1. /\ tx \in Gone(d, since) /\ tx \in Seen(d, since) /\ ItemOf[tx] = item
      /\ SellerRow(d, since, item).timed[tx] = vanished - arrived
  BY TimedIsGone DEF Gone
<1>2. g.tx = tx /\ g.vanished_at = vanished
  BY DepartureFields
<1>3. \E t \in Seen(d, since) : ItemOf[t] = item
  BY <1>1
<1> HIDE DEF g, vanished, arrived
<1>4. ItemPage(d, since, Lower[item]).first_seen[tx] = arrived
  BY <1>1, <1>3, PageOfSeen DEF arrived
<1>5. g \in Departed(d, since)
  BY <1>1 DEF Departed, g
<1> QED  BY <1>1, <1>2, <1>4, <1>5

\* What DeparturesAgree says of one cutoff and one window.
SameDepartures(d, since, w) ==
    LET gone == RemovedWithin(d, since, w)
        pages == {p \in {ItemPage(d, since, k) : k \in Keys} : p # None}
        of(item, reason) == {g \in gone : ItemOf[g.tx] = item /\ g.reason = reason}
    IN  /\ gone = UNION {p.previous : p \in pages}
        /\ \A row \in BestSellers(d, since, 0) :
            /\ row.sales = Cardinality(of(row.item, "REMOVED"))
            /\ row.expired = Cardinality(of(row.item, "EXPIRED"))
            /\ \A tx \in DOMAIN row.timed : \E g \in gone :
                /\ g.tx = tx
                /\ row.timed[tx] = g.vanished_at - ItemPage(d, since, Lower[row.item]).first_seen[tx]

LEMMA DeparturesTold ==
    ASSUME NEW d, IsHistory(d), NEW since, NEW w \in Nat,
           \A i, j \in DOMAIN d : d[i].at - d[j].at <= w
    PROVE  SameDepartures(d, since, w)
<1> DEFINE gone == RemovedWithin(d, since, w)
           pages == {p \in {ItemPage(d, since, k) : k \in Keys} : p # None}
           of(item, reason) == {g \in gone : ItemOf[g.tx] = item /\ g.reason = reason}
<1>1. gone = Departed(d, since)
  BY CoveringWindow
<1>2. UNION {p.previous : p \in pages} = Departed(d, since)
  BY PagesHoldTheDeparted
<1>3. ASSUME NEW row \in BestSellers(d, since, 0)
      PROVE  /\ row.sales = Cardinality(of(row.item, "REMOVED"))
             /\ row.expired = Cardinality(of(row.item, "EXPIRED"))
             /\ \A tx \in DOMAIN row.timed : \E g \in gone :
                   /\ g.tx = tx
                   /\ row.timed[tx] = g.vanished_at
                                       - ItemPage(d, since, Lower[row.item]).first_seen[tx]
  <2>1. PICK item \in Items : row = SellerRow(d, since, item)
    <3>1. ItemsIn(Seen(d, since)) \subseteq Items
      BY SeenAreTxs, CatalogAssumption DEF ItemsIn
    <3> QED  BY <3>1 DEF BestSellers
  <2>2. /\ row.item = item
        /\ row.sales = Cardinality(LeftAs(d, since, item, "REMOVED"))
        /\ row.expired = Cardinality(LeftAs(d, since, item, "EXPIRED"))
    BY <2>1, SellerCounts
  <2>3. \A reason : Cardinality(DepartedAs(d, since, item, reason))
                      = Cardinality(LeftAs(d, since, item, reason))
    BY DepartedCount
  <2>4. \A reason : of(item, reason) = DepartedAs(d, since, item, reason)
    BY <1>1 DEF DepartedAs
  <2> HIDE DEF of
  <2>5. \A reason : Cardinality(of(item, reason)) = Cardinality(LeftAs(d, since, item, reason))
    BY <2>3, <2>4
  <2> HIDE DEF gone
  <2>6. ASSUME NEW tx \in DOMAIN row.timed
        PROVE  \E g \in gone : /\ g.tx = tx
                               /\ row.timed[tx] = g.vanished_at
                                     - ItemPage(d, since, Lower[row.item]).first_seen[tx]
    BY <1>1, <2>1, <2>2, TimedAgrees
  <2> QED  BY <2>2, <2>5, <2>6
<1> HIDE DEF gone, pages, of
<1>4. gone = UNION {p.previous : p \in pages}
  BY <1>1, <1>2
<1> QED  BY <1>3, <1>4, Zenon DEF gone, pages, of, SameDepartures

-----------------------------------------------------------------------------
(* What a key and a recipe cost *)

\* Nothing to buy costs nothing, whatever the price list.
LEMMA CostOfNothing ==
    ASSUME NEW prices, NEW materials, DOMAIN materials = {}
    PROVE  Cost(prices, materials) = 0
<1> DEFINE step(it) == [s \in SUBSET {} |->
               IF s = {} THEN 0
               ELSE LET x == CHOOSE x \in s : TRUE
                    IN  prices[x] * materials[x] + it[s \ {x}]]
           it == CHOOSE g : g = step(g)
<1>1. Cost(prices, materials) = it[{}]
  BY Zenon DEF Cost, MapThenSumSet, MapThenFoldSet
<1>2. step([s \in SUBSET {} |-> 0]) = [s \in SUBSET {} |-> 0]
  OBVIOUS
<1> QED  BY <1>1, <1>2

\* What DuckDB posts for a wanted key that was seen: both medians of its rows.
LEMMA PostedRow ==
    ASSUME NEW d, IsHistory(d), NEW since, NEW key \in DOMAIN Posted(d, since)
    PROVE  /\ Posted(d, since)[key].historical = MedianPrice(EveryRow(d, since, key))
           /\ Posted(d, since)[key].current = MedianPrice(ActiveRows(d, since, key))
<1> DEFINE spelled == {i \in ItemsIn(Seen(d, since)) : Lower[i] \in Wanted}
           item(k) == CHOOSE i \in spelled : Lower[i] = k
           rows(k) == RowsOf(d, Visible(d, since), item(k))
           now(k) == {r \in rows(k) : r[1] = Latest(d, since)}
           keys == {Lower[i] : i \in spelled}
           posted == [k \in keys |-> [historical |-> SqlMedianPrice(rows(k)),
                                      current |-> SqlMedianPrice(now(k))]]
<1>1. Posted(d, since) = posted
  BY Zenon DEF Posted
<1>2. key \in keys
  BY <1>1
<1>3. item(key) \in Items /\ Lower[item(key)] = key
  <2>1. \E i \in spelled : Lower[i] = key
    BY <1>2
  <2>2. item(key) \in spelled /\ Lower[item(key)] = key
    BY <2>1
  <2>3. ItemsIn(Seen(d, since)) \subseteq Items
    BY SeenAreTxs, CatalogAssumption DEF ItemsIn
  <2> HIDE DEF item
  <2> QED  BY <2>2, <2>3
<1> HIDE DEF item, keys
<1>4. rows(key) = EveryRow(d, since, key)
  <2>1. Visible(d, since) \subseteq DOMAIN d
    BY DEF Visible
  <2> QED  BY <1>3, <2>1, OneSpellingOf DEF EveryRow
<1> HIDE DEF rows
<1>5. now(key) = ActiveRows(d, since, key)
  BY <1>4 DEF ActiveRows
<1>6. posted[key].historical = SqlMedianPrice(rows(key)) /\ posted[key].current = SqlMedianPrice(now(key))
  BY <1>2
<1> HIDE DEF now, posted
<1>7. ActiveRows(d, since, key) \subseteq EveryRow(d, since, key)
  BY KeyRows
<1>8. /\ SqlMedianPrice(EveryRow(d, since, key)) = MedianPrice(EveryRow(d, since, key))
      /\ SqlMedianPrice(ActiveRows(d, since, key)) = MedianPrice(ActiveRows(d, since, key))
  BY <1>7, KeyPrice
<1> QED  BY <1>1, <1>4, <1>5, <1>6, <1>8

\* What it does not post was never seen.
LEMMA NotPosted ==
    ASSUME NEW d, IsHistory(d), NEW since, NEW key \in Wanted, key \notin DOMAIN Posted(d, since)
    PROVE  EveryRow(d, since, key) = {} /\ ActiveRows(d, since, key) = {}
<1>1. DOMAIN Posted(d, since) = {Lower[i] : i \in {j \in ItemsIn(Seen(d, since)) : Lower[j] \in Wanted}}
  BY DEF Posted
<1>2. \A tx \in Seen(d, since) : Lower[ItemOf[tx]] # key
  <2> SUFFICES ASSUME NEW tx \in Seen(d, since), Lower[ItemOf[tx]] = key
               PROVE  FALSE
    OBVIOUS
  <2>1. ItemOf[tx] \in ItemsIn(Seen(d, since)) /\ Lower[ItemOf[tx]] \in Wanted
    BY DEF ItemsIn
  <2>2. Lower[ItemOf[tx]] \in DOMAIN Posted(d, since)
    BY <1>1, <2>1
  <2> QED  BY <2>2
<1>3. EveryRow(d, since, key) = {}
  <2>1. EveryRow(d, since, key) # {} <=> \E tx \in Seen(d, since) : Lower[ItemOf[tx]] = key
    BY KeyRows
  <2> QED  BY <1>2, <2>1
<1> QED  BY <1>3 DEF ActiveRows

\* Hence both pricing paths give a wanted key one price.
LEMMA OnePriceOf ==
    ASSUME NEW d, IsHistory(d), NEW since, NEW key \in Wanted
    PROVE  PostedPrice(Posted(d, since), key) = MaterialPrice(d, since, key)
<1> DEFINE active == ActiveRows(d, since, key)
           every == EveryRow(d, since, key)
<1>1. MaterialPrice(d, since, key) = MedianPrice(IF active # {} THEN active ELSE every)
  BY Zenon DEF MaterialPrice, ActiveRows, EveryRow
<1> HIDE DEF active, every
<1>2. CASE key \in DOMAIN Posted(d, since)
  <2>1. /\ Posted(d, since)[key].historical = MedianPrice(every)
        /\ Posted(d, since)[key].current = MedianPrice(active)
    BY <1>2, PostedRow DEF active, every
  <2>2. MedianPrice(active) # None <=> active # {}
    BY KeyRows, KeyPrice DEF active
  <2>3. PostedPrice(Posted(d, since), key)
          = IF MedianPrice(active) # None THEN MedianPrice(active) ELSE MedianPrice(every)
    BY <1>2, <2>1 DEF PostedPrice
  <2> QED  BY <1>1, <2>2, <2>3
<1>3. CASE key \notin DOMAIN Posted(d, since)
  <2>1. active = {} /\ every = {}
    BY <1>3, NotPosted DEF active, every
  <2>2. MaterialPrice(d, since, key) = None
    BY <1>1, <2>1 DEF MedianPrice
  <2> QED  BY <1>3, <2>2 DEF PostedPrice
<1> QED  BY <1>2, <1>3

\* What best value costs a recipe by the posted prices.
PricedAt(posted, key) ==
    {m \in DOMAIN Recipe[key] : PostedPrice(posted, m) # None /\ Recipe[key][m] > 0}
CostAt(posted, key) ==
    Cost([m \in PricedAt(posted, key) |-> PostedPrice(posted, m)],
         [m \in PricedAt(posted, key) |-> Recipe[key][m]])

LEMMA SameRecipeCost ==
    ASSUME NEW d, IsHistory(d), NEW since, NEW key \in DOMAIN Recipe,
           CostAt(Posted(d, since), key) # 0
    PROVE  LET estimate == RecipeCost(d, since, key)
           IN  /\ estimate.materials_priced = Cardinality(PricedAt(Posted(d, since), key))
               /\ estimate.cost = CostAt(Posted(d, since), key)
<1> DEFINE posted == Posted(d, since)
           price(m) == MaterialPrice(d, since, m)
           priced == {m \in DOMAIN Recipe[key] : price(m) # None /\ Recipe[key][m] > 0}
           prices == [m \in priced |-> price(m)]
           amounts == [m \in priced |-> Recipe[key][m]]
           cost == IF priced = {} THEN None ELSE Cost(prices, amounts)
<1>1. RecipeCost(d, since, key) = [cost |-> cost, materials_priced |-> Cardinality(priced)]
  BY Zenon DEF RecipeCost
<1>2. \A m \in DOMAIN Recipe[key] : PostedPrice(posted, m) = price(m)
  <2>1. DOMAIN Recipe[key] \subseteq Wanted
    BY DEF Wanted
  <2> QED  BY <2>1, OnePriceOf
<1>3. PricedAt(posted, key) = priced
  BY <1>2 DEF PricedAt
<1>4. [m \in PricedAt(posted, key) |-> PostedPrice(posted, m)] = prices
  BY <1>2, <1>3
<1>5. [m \in PricedAt(posted, key) |-> Recipe[key][m]] = amounts
  BY <1>3
<1> HIDE DEF posted
<1>6. CostAt(posted, key) = Cost(prices, amounts)
  BY <1>4, <1>5, Zenon DEF CostAt
<1>7. priced # {}
  <2> SUFFICES ASSUME priced = {}
               PROVE  FALSE
    OBVIOUS
  <2>1. DOMAIN amounts = {}
    OBVIOUS
  <2> HIDE DEF priced, prices, amounts
  <2>2. Cost(prices, amounts) = 0
    BY <2>1, CostOfNothing
  <2> QED  BY <1>6, <2>2 DEF posted
<1> HIDE DEF priced, prices, amounts
<1>8. cost = CostAt(posted, key)
  BY <1>6, <1>7
<1> HIDE DEF cost
<1>9. /\ RecipeCost(d, since, key).cost = cost
      /\ RecipeCost(d, since, key).materials_priced = Cardinality(priced)
  BY <1>1
<1> QED  BY <1>3, <1>8, <1>9 DEF posted

LEMMA RowPrices ==
    ASSUME NEW d, IsHistory(d), NEW since, NEW row \in CraftingValue(d, since)
    PROVE  LET estimate == RecipeCost(d, since, row.key)
               search == SearchRow(d, since, row.key)
           IN  /\ estimate.materials_priced = Cardinality(DOMAIN Recipe[row.key])
               /\ estimate.cost = row.craft_cost
               /\ row.listed_now = search.listed_now
               /\ row.price = IF search.listed_now THEN search.current ELSE search.median
<1> DEFINE posted == Posted(d, since)
           price(k) == PostedPrice(posted, k)
           listed(k) == posted[k].current # None
           worth(k) == /\ CostAt(posted, k) # 0 /\ PricedAt(posted, k) = DOMAIN Recipe[k]
                       /\ price(k) >= CostAt(posted, k) \/ listed(k)
           rowOf(k) == [key |-> k, craft_cost |-> CostAt(posted, k), price |-> price(k),
                        listed_now |-> listed(k)]
<1>1. CraftingValue(d, since) = {rowOf(k) : k \in {j \in DOMAIN Recipe \cap DOMAIN posted : worth(j)}}
  BY Zenon DEF CraftingValue, CostAt, PricedAt
<1>2. \A k : /\ rowOf(k).key = k /\ rowOf(k).craft_cost = CostAt(posted, k)
             /\ rowOf(k).price = price(k) /\ rowOf(k).listed_now = listed(k)
  OBVIOUS
<1> HIDE DEF worth, rowOf
<1>3. PICK k \in DOMAIN Recipe \cap DOMAIN posted : worth(k) /\ row = rowOf(k)
  BY <1>1
<1>4. /\ row.key = k /\ row.craft_cost = CostAt(posted, k)
      /\ row.price = price(k) /\ row.listed_now = listed(k)
  BY <1>2, <1>3
<1>5. CostAt(posted, k) # 0 /\ PricedAt(posted, k) = DOMAIN Recipe[k]
  BY <1>3 DEF worth
<1> DEFINE estimate == RecipeCost(d, since, k)
           search == SearchRow(d, since, k)
           active == ActiveRows(d, since, k)
           every == EveryRow(d, since, k)
<1>6. estimate.materials_priced = Cardinality(DOMAIN Recipe[k]) /\ estimate.cost = CostAt(posted, k)
  <2> HIDE DEF posted
  <2> QED  BY <1>5, SameRecipeCost DEF posted
<1>7. /\ posted[k].historical = MedianPrice(every)
      /\ posted[k].current = MedianPrice(active)
  BY PostedRow
<1>8. /\ search.listed_now = (active # {})
      /\ search.current = MedianPrice(active)
      /\ search.median = MedianPrice(every)
  BY SearchOf
<1>9. MedianPrice(active) # None <=> active # {}
  BY KeyRows, KeyPrice
<1>10. k \in DOMAIN posted
  OBVIOUS
<1> HIDE DEF posted, estimate, search, active, every
<1>11. listed(k) = search.listed_now
  BY <1>7, <1>8, <1>9
<1>12. price(k) = IF listed(k) THEN posted[k].current ELSE posted[k].historical
  BY <1>10 DEF PostedPrice
<1>13. price(k) = IF search.listed_now THEN search.current ELSE search.median
  BY <1>7, <1>8, <1>11, <1>12
<1>14. row.listed_now = search.listed_now
  BY <1>4, <1>11
<1> HIDE DEF price, listed
<1> QED  BY <1>4, <1>6, <1>13, <1>14 DEF estimate, search

-----------------------------------------------------------------------------
(* The properties *)

LEMMA HistoryTypes == Spec => []IsHistory(db)
  BY HistoryInvariance, HistoryIsHistory, PTL

\* What vanished at the latest snapshot is in every window, and a wider window
\* only adds (store.recently_removed, both branches).
THEOREM WindowsContainTheDelta == Spec => []DeltaIsInEveryWindow
<1>1. IsHistory(db) => DeltaIsInEveryWindow
  <2> SUFFICES ASSUME IsHistory(db), NEW since \in Cutoffs, NEW w \in Windows \ {None}
               PROVE  /\ RemovedSincePrevious(db, since) \subseteq RemovedWithin(db, since, w)
                      /\ \A v \in Windows \ {None} :
                          v <= w => RemovedWithin(db, since, v)
                                      \subseteq RemovedWithin(db, since, w)
    BY DEF DeltaIsInEveryWindow
  <2>1. Windows \ {None} \subseteq Nat
    BY HistoryAssumption
  <2> QED  BY <2>1, DeltaWithin, WiderAddsOnly
<1> QED  BY <1>1, HistoryTypes, PTL

\* No lifetime is taken of a listing that was there at the start, and none is
\* negative while the capture times follow the ids (store._best_seller_rows).
THEOREM SaneLifetimes == Spec => []LifetimesAreSane
<1>1. IsHistory(db) => LifetimesAreSane
  <2> SUFFICES ASSUME IsHistory(db), NEW since \in Cutoffs, NEW i \in ItemsIn(Seen(db, since)),
                      NEW tx \in DOMAIN SellerRow(db, since, i).timed
               PROVE  /\ ClockForward => SellerRow(db, since, i).timed[tx] >= 0
                      /\ tx \notin TxsIn(db, Min(Visible(db, since)))
    BY DEF LifetimesAreSane, BestSellers
  <2>1. ClockForward => SellerRow(db, since, i).timed[tx] >= 0
    BY TimedIsPositive DEF ClockForward
  <2>2. tx \notin TxsIn(db, Min(Visible(db, since)))
    BY TimedIsNotCensored
  <2> QED  BY <2>1, <2>2
<1> QED  BY <1>1, HistoryTypes, PTL

\* A reader under a cutoff is served what a reader of a database without the
\* hidden snapshots would be, by every view (store.py, "read window").
THEOREM CutoffIsSound == Spec => []CutoffIsProjection
<1>1. IsHistory(db) => CutoffIsProjection
  BY CutOverview, CutActiveListings, CutRemoved, CutNotOnSale, CutBestSellers,
     CutCraftingValue, CutItemPage, CutPrices, CutRecipeCost DEF CutoffIsProjection
<1> QED  BY <1>1, HistoryTypes, PTL

\* Item pages, search, what is on sale and what is missing never contradict one
\* another about an item (store.price_history, search_items, active_listings,
\* items_not_on_sale).
THEOREM OneAccountOfWhatIsListed == Spec => []AvailabilityAgrees
<1>1. IsHistory(db) => AvailabilityAgrees
  BY ViewsAgree DEF AvailabilityAgrees
<1> QED  BY <1>1, HistoryTypes, PTL

\* Both pricing paths agree: best value costs a recipe what the item page
\* estimates and asks for it what search shows, whichever medians, rows and
\* spellings they go by (store.crafting_value, _material_prices, search_items).
THEOREM OnePrice == Spec => []PricesAgree
<1>1. IsHistory(db) => PricesAgree
  BY RowPrices DEF PricesAgree
<1> QED  BY <1>1, HistoryTypes, PTL

\* The windows, the item pages and best sellers derive the same departures, with
\* the same reasons, counts and lifetimes (store.recently_removed, price_history,
\* best_sellers).
THEOREM OneAccountOfDepartures == Spec => []DeparturesAgree
<1>1. IsHistory(db) => DeparturesAgree
  <2> SUFFICES ASSUME IsHistory(db), NEW since \in Cutoffs,
                      NEW w \in Windows \ {None}, Covers(w)
               PROVE  SameDepartures(db, since, w)
    BY Zenon DEF DeparturesAgree, SameDepartures
  <2>1. w \in Nat
    BY HistoryAssumption
  <2>2. \A i, j \in DOMAIN db : db[i].at - db[j].at <= w
    BY DEF Covers
  <2> QED  BY <2>1, <2>2, DeparturesTold
<1> QED  BY <1>1, HistoryTypes, PTL
=============================================================================
