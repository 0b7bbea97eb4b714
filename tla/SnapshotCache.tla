---------------------------- MODULE SnapshotCache ----------------------------
(***************************************************************************)
(* store.SnapshotCache under concurrent callers: the memo of the expensive *)
(* read views.  A caller resolves the latest snapshot id, asks the cache,  *)
(* and on a miss computes the view outside the cache's lock and puts it.   *)
(* WebApp happens to call it under its own lock; this module is the class  *)
(* by itself, which promises to be safe for request threads.               *)
(*                                                                         *)
(* A view is represented by the id of the newest snapshot it was computed  *)
(* from.  The listings views read the snapshot they were asked for, the    *)
(* history views (best sellers, best value) whatever is stored when they   *)
(* run.                                                                    *)
(***************************************************************************)
EXTENDS Integers

CONSTANTS
    Callers,     \* request threads
    Keys,        \* cache keys
    Pinned,      \* the keys whose view reads exactly the requested snapshot
    MaxId        \* bound on the snapshots appended

ASSUME CacheAssumption == Pinned \subseteq Keys /\ MaxId \in Nat \ {0}

VARIABLES
    latest,      \* id of the newest stored snapshot
    snapshot_id, \* the cache's current id, 0 for None
    values,      \* the cache's memoized views, a function over some keys
    pc,          \* where each caller is
    req,         \* caller -> [id, key] it asks for
    result       \* caller -> the view computed or found

vars == <<latest, snapshot_id, values, pc, req, result>>

Empty == [k \in {} |-> 0]

-----------------------------------------------------------------------------
Init ==
    /\ latest = 1
    /\ snapshot_id = 0
    /\ values = Empty
    /\ pc = [c \in Callers |-> "idle"]
    /\ req \in [Callers -> [id : {1}, key : Keys]]
    /\ result = [c \in Callers |-> 0]

\* A snapshot is appended (record_snapshot).
NewSnapshot ==
    /\ latest < MaxId
    /\ latest' = latest + 1
    /\ UNCHANGED <<snapshot_id, values, pc, req, result>>

\* Mutant: the id the next snapshot will have.
ResolveNext(c, key) ==
    /\ pc[c] = "idle"
    /\ req' = [req EXCEPT ![c] = [id |-> latest + 1, key |-> key]]
    /\ pc' = [pc EXCEPT ![c] = "get"]
    /\ UNCHANGED <<latest, snapshot_id, values, result>>

\* The view function resolves the latest id before it consults the cache.
Resolve(c, key) ==
    /\ pc[c] = "idle"
    /\ req' = [req EXCEPT ![c] = [id |-> latest, key |-> key]]
    /\ pc' = [pc EXCEPT ![c] = "get"]
    /\ UNCHANGED <<latest, snapshot_id, values, result>>

\* Mutant: a new id drops nothing.
ValuesKept(id) == values

\* Entering get or put with another id drops everything memoized.
ValuesFor(id) == IF id = snapshot_id THEN values ELSE Empty

Hit(c) == req[c].key \in DOMAIN ValuesFor(req[c].id)

\* get, its locked part: a hit returns the memoized view.
Get(c) ==
    /\ pc[c] = "get"
    /\ snapshot_id' = req[c].id
    /\ values' = ValuesFor(req[c].id)
    /\ \/ /\ Hit(c)
          /\ result' = [result EXCEPT ![c] = ValuesFor(req[c].id)[req[c].key]]
          /\ pc' = [pc EXCEPT ![c] = "done"]
       \/ /\ ~Hit(c)
          /\ pc' = [pc EXCEPT ![c] = "compute"]
          /\ UNCHANGED result
    /\ UNCHANGED <<latest, req>>

\* The computation, outside the lock.
Compute(c) ==
    /\ pc[c] = "compute"
    /\ result' = [result EXCEPT ![c] = IF req[c].key \in Pinned THEN req[c].id ELSE latest]
    /\ pc' = [pc EXCEPT ![c] = "put"]
    /\ UNCHANGED <<latest, snapshot_id, values, req>>

\* Mutant: put does not look at the id the cache has moved to meanwhile.
PutUnchecked(c) ==
    /\ pc[c] = "put"
    /\ values' = [k \in DOMAIN values \cup {req[c].key} |->
                    IF k = req[c].key THEN result[c] ELSE values[k]]
    /\ pc' = [pc EXCEPT ![c] = "done"]
    /\ UNCHANGED <<latest, snapshot_id, req, result>>

Put(c) ==
    /\ pc[c] = "put"
    /\ snapshot_id' = req[c].id
    /\ values' = [k \in DOMAIN ValuesFor(req[c].id) \cup {req[c].key} |->
                    IF k = req[c].key THEN result[c] ELSE ValuesFor(req[c].id)[k]]
    /\ pc' = [pc EXCEPT ![c] = "done"]
    /\ UNCHANGED <<latest, req, result>>

\* The view is returned; the thread takes its next request.
Return(c) ==
    /\ pc[c] = "done"
    /\ pc' = [pc EXCEPT ![c] = "idle"]
    /\ UNCHANGED <<latest, snapshot_id, values, req, result>>

\* clear: no caller in the repository, but part of the class.
Clear ==
    /\ snapshot_id' = 0
    /\ values' = Empty
    /\ UNCHANGED <<latest, pc, req, result>>

CallerStep(c) ==
    \/ \E key \in Keys : Resolve(c, key)
    \/ Get(c)
    \/ Compute(c)
    \/ Put(c)
    \/ Return(c)

Next == NewSnapshot \/ Clear \/ \E c \in Callers : CallerStep(c)

Spec == Init /\ [][Next]_vars

-----------------------------------------------------------------------------
(* Properties *)

TypeOK ==
    /\ latest \in 1 .. MaxId
    /\ snapshot_id \in 0 .. MaxId
    /\ DOMAIN values \subseteq Keys
    /\ values \in [DOMAIN values -> 0 .. MaxId]
    /\ pc \in [Callers -> {"idle", "get", "compute", "put", "done"}]
    /\ req \in [Callers -> [id : 1 .. MaxId, key : Keys]]
    /\ result \in [Callers -> 0 .. MaxId]

\* A view computed for the requested id: exactly it when the view reads one
\* snapshot, never older than it when the view reads the whole history.
Answers(view, id, key) ==
    /\ view >= id
    /\ key \in Pinned => view = id

\* Every memoized view answers the id the cache says it is for, although two
\* threads may compute one key at once, for different ids, and put late.
CacheCoherent ==
    \A k \in DOMAIN values : Answers(values[k], snapshot_id, k)

\* Whatever the interleaving, a caller is never handed a view older than the
\* snapshot it resolved, nor, for a listings view, one of another snapshot.
CallersGetTheirSnapshot ==
    \A c \in Callers : pc[c] \in {"put", "done"} => Answers(result[c], req[c].id, req[c].key)
=============================================================================
