------------------------- MODULE ObservedMarketProofs -------------------------
(***************************************************************************)
(* What the observer tells its consumer of a real market, for every set of *)
(* listings, every expiry window, every clock and every interleaving of    *)
(* polls with sales, withdrawals and timeouts.                             *)
(***************************************************************************)
EXTENDS ObservedMarket, MarketObserverProofs

\* A listing on sale has a countdown a snapshot can carry, and a listing that
\* timed out is past its expiry.
MarketClock ==
    \A tx \in Txs :
        /\ fate[tx] = "onSale" => expiry[tx] - now \in TTLs
        /\ fate[tx] = "timedOut" => expiry[tx] <= now

\* The observer's estimate is exact: a complete sweep dates a listing by the
\* clock that will time it out, whenever the sweep was taken.
ExactEstimates ==
    \A tx \in DOMAIN tracked :
        /\ fate[tx] # "unlisted"
        /\ tracked[tx].expected_expiry_at = expiry[tx]

\* RemovalsAreTrue is not inductive: what a removal says rests on the estimate
\* made at the last sighting, and the estimate on the market's own clock.
MarketInv ==
    /\ TypeOK
    /\ MirrorIsActive
    /\ MarketClock
    /\ ExactEstimates
    /\ RemovalsAreTrue

-----------------------------------------------------------------------------
LEMMA MarketInitInv == Init => MarketInv
<1> SUFFICES ASSUME Init  PROVE MarketInv
  OBVIOUS
<1>1. ObserverInv
  BY ObserverInitInv DEF Init
<1>2. now \in Clock
  BY ClockAssumption DEF Init, MarketInit
<1>3. TypeOK /\ MirrorIsActive
  BY <1>1, <1>2 DEF Init, MarketInit, TypeOK, ObserverInv
<1>4. MarketClock
  BY DEF Init, MarketInit, MarketClock
<1>5. ExactEstimates /\ RemovalsAreTrue
  BY DEF Init, ObserverInit, ExactEstimates, RemovalsAreTrue
<1> QED  BY <1>3, <1>4, <1>5 DEF MarketInv

\* A sweep is a snapshot the observer accepts, of exactly the listings on sale.
LEMMA SweepIsSnapshot ==
    ASSUME MarketInv
    PROVE  /\ Sweep \in Snapshots
           /\ DOMAIN Sweep = OnSale
           /\ \A tx \in OnSale : Sweep[tx] = expiry[tx] - now
<1>1. OnSale \in SUBSET Txs
  BY DEF OnSale
<1>2. Sweep \in [OnSale -> TTLs]
  BY DEF Sweep, OnSale, MarketInv, MarketClock
<1> QED  BY <1>1, <1>2 DEF Snapshots, Sweep

\* The market moves: no event is emitted, and no removal already claimed
\* becomes false.
LEMMA MarketStep ==
    ASSUME MarketInv, Market, UNCHANGED observerVars
    PROVE  MarketInv'
<1> USE DEF MarketInv
<1>1. /\ UNCHANGED <<tracked, events, mirror>>
      /\ now \in Int /\ expiry \in [Txs -> Int]
      /\ DOMAIN tracked \subseteq Txs
      /\ \A e \in events : e.tx \in Txs
  BY ClockAssumption DEF observerVars, TypeOK, ObserverTypeOK, Listed, Removed
<1>2. ObserverTypeOK' /\ MirrorIsActive'
  BY <1>1 DEF TypeOK, ObserverTypeOK, MirrorIsActive
\* What every move of the market keeps: fates are final, and so is an expiry.
<1>3. ASSUME NEW tx \in Txs, fate[tx] # "unlisted"
      PROVE  /\ fate'[tx] # "unlisted"
             /\ expiry'[tx] = expiry[tx]
             /\ fate[tx] \in {"taken", "timedOut"} => fate'[tx] = fate[tx]
  BY <1>3 DEF Market, Offer, Take, Tick, TypeOK
<1>4. TypeOK' /\ MarketClock'
  <2>1. CASE \E tx \in Txs, ttl \in TTLs : Offer(tx, ttl)
    <3> PICK t \in Txs, ttl \in TTLs : Offer(t, ttl)
      BY <2>1
    <3>1. ttl \in Int
      BY TimeAssumption
    <3>2. TypeOK'
      BY <1>1, <1>2, <3>1 DEF Offer, TypeOK
    <3>3. MarketClock'
      BY <1>1, <3>1 DEF Offer, MarketClock, TypeOK
    <3> QED  BY <3>2, <3>3
  <2>2. CASE \E tx \in Txs : Take(tx)
    BY <1>1, <1>2, <2>2 DEF Take, TypeOK, MarketClock
  <2>3. CASE Tick
    <3>1. now' = now + 1 /\ now' \in Clock /\ now' \in Int
      BY <2>3, ClockAssumption DEF Tick, TypeOK
    <3>2. TypeOK'
      BY <1>1, <1>2, <2>3, <3>1 DEF Tick, TypeOK
    <3>3. ASSUME NEW tx \in Txs, fate'[tx] = "onSale"
          PROVE  expiry'[tx] - now' \in TTLs
      <4>1. /\ fate[tx] = "onSale" /\ expiry' = expiry
            /\ ~(expiry[tx] <= now + 1) /\ expiry[tx] - now \in TTLs
        BY <2>3, <3>3 DEF Tick, MarketClock
      <4>2. expiry[tx] - (now + 1) \in 1 .. (expiry[tx] - now)
        BY <1>1, <4>1
      <4> QED  BY <3>1, <4>1, <4>2, CountdownAssumption
    <3>4. ASSUME NEW tx \in Txs, fate'[tx] = "timedOut"
          PROVE  expiry'[tx] <= now'
      BY <1>1, <2>3, <3>1, <3>4 DEF Tick, MarketClock
    <3> QED  BY <3>2, <3>3, <3>4 DEF MarketClock
  <2> QED  BY <2>1, <2>2, <2>3 DEF Market
<1>5. ExactEstimates'
  BY <1>1, <1>3 DEF ExactEstimates
<1>6. RemovalsAreTrue'
  <2> SUFFICES ASSUME NEW e \in events, e.kind = "REMOVED"
               PROVE  /\ fate'[e.tx] \in {"taken", "timedOut"}
                      /\ e.reason = "REMOVED" /\ ExpiryWindow > 0 => fate'[e.tx] = "taken"
                      /\ e.reason = "EXPIRED" => expiry'[e.tx] - e.at < ExpiryWindow
    BY <1>1 DEF RemovalsAreTrue
  <2>1. /\ fate[e.tx] \in {"taken", "timedOut"}
        /\ e.reason = "REMOVED" /\ ExpiryWindow > 0 => fate[e.tx] = "taken"
        /\ e.reason = "EXPIRED" => expiry[e.tx] - e.at < ExpiryWindow
    BY DEF RemovalsAreTrue
  <2>2. fate'[e.tx] = fate[e.tx] /\ expiry'[e.tx] = expiry[e.tx]
    BY <1>1, <1>3, <2>1
  <2> QED  BY <2>1, <2>2
<1> QED  BY <1>2, <1>4, <1>5, <1>6

\* A poll: what it claims of the listings that vanished is true of them.
LEMMA PollStep ==
    ASSUME MarketInv, Poll
    PROVE  MarketInv'
<1> USE DEF MarketInv
<1>1. /\ Observe(Sweep, now) /\ UNCHANGED <<now, expiry, fate>>
      /\ now \in Clock /\ now \in Int /\ expiry \in [Txs -> Int]
      /\ ExpiryWindow \in Int
  BY ClockAssumption, TimeAssumption DEF Poll, marketVars, TypeOK
<1>2. ObserverInv'
  BY <1>1, SweepIsSnapshot, ObserveInv DEF ObserverInv, TypeOK
<1>3. TypeOK' /\ MirrorIsActive' /\ MarketClock'
  BY <1>1, <1>2 DEF ObserverInv, TypeOK, MarketClock
<1>4. ExactEstimates'
  <2>1. tracked' = [tx \in OnSale |-> [ttl |-> Sweep[tx], last_seen_at |-> now,
                                       expected_expiry_at |-> now + Sweep[tx]]]
    BY <1>1, SweepIsSnapshot DEF Observe
  <2>2. \A tx \in OnSale : now + Sweep[tx] = expiry[tx] /\ fate[tx] = "onSale"
    BY <1>1, SweepIsSnapshot DEF OnSale
  <2> QED  BY <1>1, <2>1, <2>2 DEF ExactEstimates
<1>5. RemovalsAreTrue'
  <2> SUFFICES ASSUME NEW e \in events', e.kind = "REMOVED"
               PROVE  /\ fate[e.tx] \in {"taken", "timedOut"}
                      /\ e.reason = "REMOVED" /\ ExpiryWindow > 0 => fate[e.tx] = "taken"
                      /\ e.reason = "EXPIRED" => expiry[e.tx] - e.at < ExpiryWindow
    BY <1>1 DEF RemovalsAreTrue
  <2>1. PICK tx \in DOMAIN tracked \ DOMAIN Sweep : e = Removed(tx, now, Reason(tx, now))
    BY <1>1 DEF Observe, EventsOf, Listed
  <2>2. /\ tx \in Txs /\ fate[tx] # "unlisted" /\ fate[tx] # "onSale"
        /\ tracked[tx].expected_expiry_at = expiry[tx]
    BY <2>1, SweepIsSnapshot DEF OnSale, ExactEstimates, TypeOK, ObserverTypeOK
  <2>3. /\ fate[tx] \in {"taken", "timedOut"}
        /\ fate[tx] = "timedOut" => expiry[tx] <= now
    BY <2>2 DEF TypeOK, MarketClock
  <2>4. /\ e.tx = tx /\ e.at = now
        /\ e.reason = IF expiry[tx] - now < ExpiryWindow THEN "EXPIRED" ELSE "REMOVED"
    BY <2>1, <2>2 DEF Removed, Reason
  <2>5. expiry[tx] \in Int
    BY <1>1, <2>2
  <2> QED  BY <1>1, <2>3, <2>4, <2>5
<1> QED  BY <1>3, <1>4, <1>5

LEMMA MarketInvariance == Spec => []MarketInv
<1>1. MarketInv /\ [Next]_vars => MarketInv'
  <2> SUFFICES ASSUME MarketInv, [Next]_vars
               PROVE  MarketInv'
    OBVIOUS
  <2>1. CASE Market /\ UNCHANGED observerVars
    BY <2>1, MarketStep
  <2>2. CASE Poll
    BY <2>2, PollStep
  <2>3. CASE UNCHANGED vars
    BY <2>3 DEF vars, MarketInv, TypeOK, ObserverTypeOK, MirrorIsActive, MarketClock,
                ExactEstimates, RemovalsAreTrue
  <2> QED  BY <2>1, <2>2, <2>3 DEF Next
<1> QED  BY MarketInitInv, <1>1, PTL DEF Spec

-----------------------------------------------------------------------------
\* The observer and the market it watches keep their types.
THEOREM MarketTypes == Spec => []TypeOK
  BY MarketInvariance, PTL DEF MarketInv

\* The consumer's copy of the market is the observer's active set after every
\* poll (observer.py, observe and current_listings).
THEOREM MarketMirror == Spec => []MirrorIsActive
  BY MarketInvariance, PTL DEF MarketInv

\* A removal is claimed only of a listing that left; with a positive window
\* REMOVED only of a sold or withdrawn one; and EXPIRED only within the window
\* of its expiry: for any window and any time between polls (observer.py,
\* _disappearance_reason; docs/observation.md).
THEOREM RemovalsCorrect == Spec => []RemovalsAreTrue
  BY MarketInvariance, PTL DEF MarketInv

\* Each poll tells the consumer only what is news to it.
THEOREM MarketNews == Spec => EventsAreNews
<1>1. MarketInv /\ [Next]_vars
        => [ /\ \A e \in events' : e.kind = "LISTED" <=> e.tx \notin mirror
             /\ \A e, f \in events' : e.tx = f.tx => e = f ]_observerVars
  <2> SUFFICES ASSUME MarketInv, [Next]_vars, ~ UNCHANGED observerVars
               PROVE  /\ \A e \in events' : e.kind = "LISTED" <=> e.tx \notin mirror
                      /\ \A e, f \in events' : e.tx = f.tx => e = f
    OBVIOUS
  <2>1. Observe(Sweep, now)
    BY DEF Next, vars, observerVars, Poll
  <2> QED  BY <2>1, ObserveNews DEF MarketInv
<1> QED  BY <1>1, MarketInvariance, PTL DEF Spec, EventsAreNews
=============================================================================
