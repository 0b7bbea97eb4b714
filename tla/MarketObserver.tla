---------------------------- MODULE MarketObserver ----------------------------
(***************************************************************************)
(* The diff engine of aoeo_market/observer.py.  It keeps one record per    *)
(* listing it believes active and turns each snapshot handed to observe()  *)
(* into LISTED and REMOVED events.  observe() runs to completion in one    *)
(* loop ("Not thread-safe; drive it from one loop"), so it is one action.  *)
(***************************************************************************)
EXTENDS Integers

CONSTANTS
    Txs,             \* transaction ids
    TTLs,            \* values of seconds_till_expiry
    Clock,           \* instants observe() may be called at
    ExpiryWindow,    \* expiry_window_seconds (store.py: EXPIRY_WINDOW_SECONDS)
    None             \* no reason: the event is a LISTED event

ASSUME TimeAssumption ==
    /\ TTLs \subseteq Int
    /\ Clock \subseteq Int
    /\ ExpiryWindow \in Int

VARIABLES
    tracked,         \* _tracked: tx -> [ttl, last_seen_at, expected_expiry_at]
    events,          \* what the latest call of observe() returned
    mirror           \* history: a consumer's copy of the market, kept from the events

observerVars == <<tracked, events, mirror>>

\* A snapshot: the listings' countdowns by transaction (parse_listings and the
\* store's primary key both leave one listing per transaction).
Snapshots == UNION {[S -> TTLs] : S \in SUBSET Txs}

Listed(tx, at) == [kind |-> "LISTED", tx |-> tx, at |-> at, reason |-> None]
Removed(tx, at, reason) == [kind |-> "REMOVED", tx |-> tx, at |-> at, reason |-> reason]

-----------------------------------------------------------------------------
ObserverInit ==
    /\ tracked = [tx \in {} |-> None]
    /\ events = {}
    /\ mirror = {}

\* Mutants: the reason is left unset; it is read off the countdown last seen.
ReasonUnset(tx, now) ==
    IF tracked[tx].expected_expiry_at - now < ExpiryWindow THEN "EXPIRED" ELSE None
ReasonAtLastSight(tx, now) ==
    IF tracked[tx].ttl < ExpiryWindow THEN "EXPIRED" ELSE "REMOVED"

\* A listing that vanished is EXPIRED when its expected expiry is less than
\* the window away at the moment its absence is noticed.
Reason(tx, now) ==
    IF tracked[tx].expected_expiry_at - now < ExpiryWindow THEN "EXPIRED" ELSE "REMOVED"

\* Mutant: every listing is announced at every poll.
EventsRepeated(rows, now) ==
    {Listed(tx, now) : tx \in DOMAIN rows}
        \cup {Removed(tx, now, Reason(tx, now)) : tx \in DOMAIN tracked \ DOMAIN rows}

EventsOf(rows, now) ==
    {Listed(tx, now) : tx \in DOMAIN rows \ DOMAIN tracked}
        \cup {Removed(tx, now, Reason(tx, now)) : tx \in DOMAIN tracked \ DOMAIN rows}

\* Mutant: listings that vanished stay tracked.
ObserveKeeping(rows, now) ==
    /\ tracked' = [tx \in DOMAIN rows \cup DOMAIN tracked |->
                    IF tx \in DOMAIN rows
                    THEN [ttl |-> rows[tx], last_seen_at |-> now,
                          expected_expiry_at |-> now + rows[tx]]
                    ELSE tracked[tx]]
    /\ events' = EventsOf(rows, now)
    /\ mirror' = (mirror \ {e.tx : e \in {f \in EventsOf(rows, now) : f.kind = "REMOVED"}})
                    \cup {e.tx : e \in {f \in EventsOf(rows, now) : f.kind = "LISTED"}}

\* Every listing of the snapshot is tracked with a fresh estimate; the ones
\* missing from it are dropped.
Observe(rows, now) ==
    /\ tracked' = [tx \in DOMAIN rows |->
                    [ttl |-> rows[tx], last_seen_at |-> now,
                     expected_expiry_at |-> now + rows[tx]]]
    /\ events' = EventsOf(rows, now)
    /\ mirror' = (mirror \ {e.tx : e \in {f \in EventsOf(rows, now) : f.kind = "REMOVED"}})
                    \cup {e.tx : e \in {f \in EventsOf(rows, now) : f.kind = "LISTED"}}

ObserverNext == \E rows \in Snapshots, now \in Clock : Observe(rows, now)

ObserverSpec == ObserverInit /\ [][ObserverNext]_observerVars

-----------------------------------------------------------------------------
(* Properties *)

Tracked == [ttl : TTLs, last_seen_at : Clock, expected_expiry_at : Int]

ObserverTypeOK ==
    /\ DOMAIN tracked \subseteq Txs
    /\ tracked \in [DOMAIN tracked -> Tracked]
    /\ \A e \in events :
        \/ \E tx \in Txs, at \in Clock : e = Listed(tx, at)
        \/ \E tx \in Txs, at \in Clock, r \in {"EXPIRED", "REMOVED"} : e = Removed(tx, at, r)
    /\ mirror \subseteq Txs

\* Someone who only reads the event stream always holds exactly the set of
\* active listings, however listings come, go and come back.
MirrorIsActive == mirror = DOMAIN tracked

\* The stream is well formed: a transaction is never announced while it is
\* already in the consumer's copy nor removed while it is not, and one call
\* never says two things of one transaction.
EventsAreNews ==
    [][ /\ \A e \in events' : e.kind = "LISTED" <=> e.tx \notin mirror
        /\ \A e, f \in events' : e.tx = f.tx => e = f ]_observerVars
=============================================================================
