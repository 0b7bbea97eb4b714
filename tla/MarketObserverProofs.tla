------------------------- MODULE MarketObserverProofs -------------------------
(***************************************************************************)
(* The observer's event stream, for every set of transactions, every       *)
(* window and every sequence of snapshots, whatever the clock does.        *)
(***************************************************************************)
EXTENDS MarketObserver, TLAPS

ObserverInv == ObserverTypeOK /\ MirrorIsActive

\* Which transactions one call announces and which it removes.
LEMMA EventSets ==
    ASSUME NEW rows, NEW at
    PROVE  /\ {e.tx : e \in {f \in EventsOf(rows, at) : f.kind = "LISTED"}}
                = DOMAIN rows \ DOMAIN tracked
           /\ {e.tx : e \in {f \in EventsOf(rows, at) : f.kind = "REMOVED"}}
                = DOMAIN tracked \ DOMAIN rows
<1>1. \A f \in EventsOf(rows, at) :
        \/ f.kind = "LISTED" /\ f.tx \in DOMAIN rows \ DOMAIN tracked
        \/ f.kind = "REMOVED" /\ f.tx \in DOMAIN tracked \ DOMAIN rows
  BY DEF EventsOf, Listed, Removed
<1>2. ASSUME NEW tx \in DOMAIN rows \ DOMAIN tracked
      PROVE  \E f \in EventsOf(rows, at) : f.kind = "LISTED" /\ f.tx = tx
  <2>1. Listed(tx, at) \in EventsOf(rows, at)
    BY DEF EventsOf
  <2> QED  BY <2>1 DEF Listed
<1>3. ASSUME NEW tx \in DOMAIN tracked \ DOMAIN rows
      PROVE  \E f \in EventsOf(rows, at) : f.kind = "REMOVED" /\ f.tx = tx
  <2>1. Removed(tx, at, Reason(tx, at)) \in EventsOf(rows, at)
    BY DEF EventsOf
  <2> QED  BY <2>1 DEF Removed
<1> QED  BY <1>1, <1>2, <1>3

\* One call of observe() keeps the invariant.
LEMMA ObserveInv ==
    ASSUME ObserverInv, NEW rows \in Snapshots, NEW at \in Clock, Observe(rows, at)
    PROVE  ObserverInv'
<1>1. /\ DOMAIN rows \subseteq Txs
      /\ rows \in [DOMAIN rows -> TTLs]
  BY DEF Snapshots
<1>2. MirrorIsActive'
  <2>1. mirror' = (DOMAIN tracked \ (DOMAIN tracked \ DOMAIN rows))
                    \cup (DOMAIN rows \ DOMAIN tracked)
    BY EventSets, Zenon DEF Observe, MirrorIsActive, ObserverInv
  <2>2. DOMAIN tracked' = DOMAIN rows
    BY DEF Observe
  <2> QED  BY <2>1, <2>2 DEF MirrorIsActive
<1>3. /\ DOMAIN tracked' \subseteq Txs
      /\ tracked' \in [DOMAIN tracked' -> Tracked]
  BY <1>1, TimeAssumption DEF Observe, Tracked
<1>4. \A e \in events' :
        \/ \E tx \in Txs, t \in Clock : e = Listed(tx, t)
        \/ \E tx \in Txs, t \in Clock, r \in {"EXPIRED", "REMOVED"} : e = Removed(tx, t, r)
  <2>1. \A tx : Reason(tx, at) \in {"EXPIRED", "REMOVED"}
    BY DEF Reason
  <2>2. DOMAIN tracked \subseteq Txs
    BY DEF ObserverInv, ObserverTypeOK
  <2> QED  BY <1>1, <2>1, <2>2 DEF Observe, EventsOf
<1>5. mirror' \subseteq Txs
  BY <1>2, <1>3 DEF MirrorIsActive
<1> QED  BY <1>2, <1>3, <1>4, <1>5 DEF ObserverInv, ObserverTypeOK

\* What one call says is news to a consumer in step with the observer.
LEMMA ObserveNews ==
    ASSUME MirrorIsActive, NEW rows, NEW at, Observe(rows, at)
    PROVE  /\ \A e \in events' : e.kind = "LISTED" <=> e.tx \notin mirror
           /\ \A e, f \in events' : e.tx = f.tx => e = f
<1>1. ASSUME NEW e \in events'
      PROVE  \/ e = Listed(e.tx, at) /\ e.tx \in DOMAIN rows \ DOMAIN tracked
             \/ e = Removed(e.tx, at, Reason(e.tx, at)) /\ e.tx \in DOMAIN tracked \ DOMAIN rows
  BY <1>1 DEF Observe, EventsOf, Listed, Removed
<1>2. ASSUME NEW e \in events'
      PROVE  e.kind = "LISTED" <=> e.tx \notin mirror
  BY <1>1 DEF Listed, Removed, MirrorIsActive
<1>3. ASSUME NEW e \in events', NEW f \in events', e.tx = f.tx
      PROVE  e = f
  BY <1>1, <1>3
<1> QED  BY <1>2, <1>3

LEMMA ObserverInitInv == ObserverInit => ObserverInv
  BY DEF ObserverInit, ObserverInv, ObserverTypeOK, MirrorIsActive

LEMMA ObserverInvariance == ObserverSpec => []ObserverInv
<1>1. ObserverInv /\ [ObserverNext]_observerVars => ObserverInv'
  <2> SUFFICES ASSUME ObserverInv, [ObserverNext]_observerVars
               PROVE  ObserverInv'
    OBVIOUS
  <2>1. CASE ObserverNext
    BY <2>1, ObserveInv DEF ObserverNext
  <2>2. CASE UNCHANGED observerVars
    BY <2>2 DEF observerVars, ObserverInv, ObserverTypeOK, MirrorIsActive
  <2> QED  BY <2>1, <2>2
<1> QED  BY ObserverInitInv, <1>1, PTL DEF ObserverSpec

\* The consumer's copy is the observer's active set after every call, although
\* listings may come back and the clock may run backwards.
THEOREM MirrorCorrect == ObserverSpec => []MirrorIsActive
  BY ObserverInvariance, PTL DEF ObserverInv

\* Every call announces only what is new to the consumer and removes only what
\* the consumer has, and says one thing of one transaction.
THEOREM NewsCorrect == ObserverSpec => EventsAreNews
<1>1. ObserverInv /\ [ObserverNext]_observerVars
        => [ /\ \A e \in events' : e.kind = "LISTED" <=> e.tx \notin mirror
             /\ \A e, f \in events' : e.tx = f.tx => e = f ]_observerVars
  BY ObserveNews DEF ObserverNext, ObserverInv
<1> QED  BY <1>1, ObserverInvariance, PTL DEF ObserverSpec, EventsAreNews
=============================================================================
