---------------------------- MODULE ObservedMarket ----------------------------
(***************************************************************************)
(* The observer watching a real market.  The market is the game server's   *)
(* and is modelled only by what the observer's code assumes of it: it      *)
(* transmits active listings only, a listing carries the seconds left to   *)
(* its expiry, and it leaves by being sold, withdrawn or timing out, which *)
(* the server never announces (docs/observation.md).  That a poll hands    *)
(* the observer one complete and fresh snapshot is an assumption of this   *)
(* module, the one observe() is written for; MarketWatch drops it and has  *)
(* the snapshots MarketClient really parses.                               *)
(***************************************************************************)
EXTENDS MarketObserver, FiniteSets

CONSTANT MaxNow      \* bound on the clock

ASSUME ClockAssumption == MaxNow \in Nat /\ Clock = 0 .. MaxNow
ASSUME CountdownAssumption ==
    \A ttl \in TTLs : ttl \in Nat /\ 1 .. ttl \subseteq TTLs

VARIABLES
    now,             \* the time of the clock all parties share
    expiry,          \* tx -> the instant the listing times out
    fate             \* tx -> where the listing is in its life

marketVars == <<now, expiry, fate>>
vars == <<tracked, events, mirror, now, expiry, fate>>

OnSale == {tx \in Txs : fate[tx] = "onSale"}

\* What a complete sweep returns at this instant.
Sweep == [tx \in OnSale |-> expiry[tx] - now]

-----------------------------------------------------------------------------
MarketInit ==
    /\ now = 0
    /\ expiry = [tx \in Txs |-> 0]
    /\ fate = [tx \in Txs |-> "unlisted"]

Init == MarketInit /\ ObserverInit

\* Transaction ids are never reused: a listing is put up once.
Offer(tx, ttl) ==
    /\ fate[tx] = "unlisted"
    /\ fate' = [fate EXCEPT ![tx] = "onSale"]
    /\ expiry' = [expiry EXCEPT ![tx] = now + ttl]
    /\ UNCHANGED now

\* A buyer takes the listing, or the seller withdraws it.
Take(tx) ==
    /\ fate[tx] = "onSale"
    /\ fate' = [fate EXCEPT ![tx] = "taken"]
    /\ UNCHANGED <<now, expiry>>

Tick ==
    /\ now < MaxNow
    /\ now' = now + 1
    /\ fate' = [tx \in Txs |-> IF fate[tx] = "onSale" /\ expiry[tx] <= now'
                               THEN "timedOut" ELSE fate[tx]]
    /\ UNCHANGED expiry

Market ==
    \/ \E tx \in Txs, ttl \in TTLs : Offer(tx, ttl)
    \/ \E tx \in Txs : Take(tx)
    \/ Tick

Poll == Observe(Sweep, now) /\ UNCHANGED marketVars

Next ==
    \/ Market /\ UNCHANGED observerVars
    \/ Poll

Spec == Init /\ [][Next]_vars

-----------------------------------------------------------------------------
(* Properties *)

TypeOK ==
    /\ ObserverTypeOK
    /\ now \in Clock
    /\ expiry \in [Txs -> Int]
    /\ fate \in [Txs -> {"unlisted", "onSale", "taken", "timedOut"}]

\* A removal is never claimed of a listing still on sale, and REMOVED ("sold
\* or withdrawn") is never claimed of one that timed out, however long the
\* poll interval and however small the (positive) window; EXPIRED is claimed of
\* a taken listing only inside the window (docs/observation.md, one-day rule).
RemovalsAreTrue ==
    \A e \in events : e.kind = "REMOVED" =>
        /\ fate[e.tx] \in {"taken", "timedOut"}
        /\ e.reason = "REMOVED" /\ ExpiryWindow > 0 => fate[e.tx] = "taken"
        /\ e.reason = "EXPIRED" => expiry[e.tx] - e.at < ExpiryWindow
=============================================================================
