----------------------------- MODULE SnapshotLog -----------------------------
(***************************************************************************)
(* What the snapshot database promises to everything that reads it: a log  *)
(* of immutable snapshots, each appended whole under an id above every id  *)
(* already present.  Nothing is ever changed or removed (docs/market-      *)
(* website.md: "append-only", "The database only grows").  SnapshotStore   *)
(* is the detailed specification of aoeo_market/store.py shown to          *)
(* implement this one.                                                     *)
(***************************************************************************)
EXTENDS Integers

VARIABLE log       \* snapshot id -> the snapshot, a function over a finite set

Ids == Nat \ {0}

LogInit == DOMAIN log \subseteq Ids

\* One whole snapshot appears, above everything stored before it.
Append ==
    \E id \in DOMAIN log' \ DOMAIN log :
        /\ id \in Ids
        /\ \A old \in DOMAIN log : old < id
        /\ DOMAIN log' = DOMAIN log \cup {id}
        /\ \A old \in DOMAIN log : log'[old] = log[old]

LogSpec == LogInit /\ [][Append]_log
=============================================================================
