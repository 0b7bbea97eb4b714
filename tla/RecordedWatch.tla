---------------------------- MODULE RecordedWatch ----------------------------
(***************************************************************************)
(* A live observer whose sweeps are also recorded: MarketHistory and       *)
(* MarketObserver given the same listings, poll by poll, to compare what   *)
(* the two say of a departure.  The store may fail, and the loop goes on   *)
(* to observe() all the same (cli._watch); the snapshot carries the        *)
(* server's stamp, the observer its own clock.  Any sweep may follow any   *)
(* other, as observe() admits; which ones the watch loop gets to see is    *)
(* MarketWatch's subject.                                                  *)
(***************************************************************************)
EXTENDS MarketHistory

VARIABLES
    tracked, events, mirror,    \* the observer's
    now,                        \* its clock at the latest poll
    recorded                    \* history: the latest polls stored in a row

watchVars == <<db, tracked, events, mirror, now, recorded>>

Observer == INSTANCE MarketObserver WITH Clock <- Times

WatchInit ==
    /\ Init /\ Observer!ObserverInit
    /\ now \in Times /\ recorded = 0

\* _record_snapshot: stored, or reported to have failed.
Store(rows) ==
    \/ (\E at \in Times : Record(rows, at)) /\ recorded' = recorded + 1
    \/ UNCHANGED db /\ recorded' = 0

\* One iteration of the watch loop; the clock goes forward.
Poll(rows) ==
    /\ Store(rows)
    /\ now' \in {t \in Times : t >= now}
    /\ Observer!Observe(rows, now')

WatchNext == \E rows \in Sweeps : Poll(rows)

WatchSpec == WatchInit /\ [][WatchNext]_watchVars

-----------------------------------------------------------------------------
(* What the documentation says and the code does not do *)

\* recently_removed's docstring: "Classified like the live observer".  Of two
\* polls in a row that were both stored, the store's reason for a listing that
\* left is the observer's.
ClassifiedLikeTheObserver ==
    recorded >= 2 =>
        \A e \in events : \A g \in RemovedSincePrevious(db, None) :
            e.kind = "REMOVED" /\ g.tx = e.tx => g.reason = e.reason
=============================================================================
