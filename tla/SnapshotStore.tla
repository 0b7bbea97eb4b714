---------------------------- MODULE SnapshotStore ----------------------------
(***************************************************************************)
(* The DuckDB snapshot database of aoeo_market/store.py and the two write  *)
(* transactions run on it: record_snapshot, which appends one snapshot row *)
(* and its listings, and backfill_expires_at, which fills the absolute     *)
(* expiry of rows written before that column existed.  One connection      *)
(* writes at a time (DuckDB's file lock, WebApp's lock), so there is one   *)
(* session; it may fail or be killed between any two statements.           *)
(***************************************************************************)
EXTENDS Integers, Sequences, FiniteSets

CONSTANTS
    Batches,     \* what a caller hands to record_snapshot: sequences of [tx, ttl]
    Times,       \* capture times (Unix seconds)
    Txs,         \* transaction ids
    TTLs,        \* values of seconds_till_expiry
    Legacy,      \* the database found at start: its rows may lack expires_at
    MaxId,       \* bound on the ids the sequence hands out
    None         \* SQL NULL

\* A stored listing: the countdown it carried and its absolute expiry.
Rows == [ttl : TTLs, exp : Int \cup {None}]

\* A stored snapshot, and a listing as a caller submits it.
IsSnapshot(s) ==
    /\ s = [at |-> s.at, rows |-> s.rows]
    /\ s.at \in Times
    /\ DOMAIN s.rows \subseteq Txs
    /\ s.rows \in [DOMAIN s.rows -> Rows]
Listings == [tx : Txs, ttl : TTLs]

ASSUME BatchesAssumption == Batches \subseteq Seq(Listings)
ASSUME NumbersAssumption == Times \subseteq Int /\ TTLs \subseteq Int /\ MaxId \in Nat
ASSUME LegacyAssumption ==
    /\ DOMAIN Legacy \subseteq 1 .. MaxId
    /\ \A id \in DOMAIN Legacy :
        /\ IsSnapshot(Legacy[id])
        /\ \A tx \in DOMAIN Legacy[id].rows :
            Legacy[id].rows[tx].exp \in {None, Legacy[id].at + Legacy[id].rows[tx].ttl}
ASSUME NoneAssumption == None \notin Int

VARIABLES
    db,          \* committed snapshots: id -> [at, rows], what every reader sees
    seq,         \* next value of snapshots_id_seq
    sess,        \* the write session: its statement, and the uncommitted work
    asked,       \* history: id -> the call to record_snapshot that id was issued to
    returned     \* history: ids record_snapshot has returned to a caller

vars == <<db, seq, sess, asked, returned>>

Idle == [at |-> None, kind |-> "idle"]

MissingExpiry(d) == {id \in DOMAIN d : \E tx \in DOMAIN d[id].rows : d[id].rows[tx].exp = None}

-----------------------------------------------------------------------------
Init ==
    /\ db = Legacy
    /\ seq \in {n \in 1 .. MaxId + 1 : \A id \in DOMAIN Legacy : id < n}
    /\ sess = Idle
    /\ asked = [id \in {} |-> None]
    /\ returned = {}

\* Mutant: the id is handed out as soon as the snapshot row is inserted.
InsertAndReturn(batch, at) ==
    /\ sess.kind = "idle"
    /\ seq <= MaxId
    /\ sess' = [kind |-> "record", id |-> seq, at |-> at, batch |-> batch,
                n |-> 0, rows |-> [tx \in {} |-> None]]
    /\ seq' = seq + 1
    /\ asked' = [id \in DOMAIN asked \cup {seq} |->
                    IF id = seq THEN [at |-> at, batch |-> batch] ELSE asked[id]]
    /\ returned' = returned \cup {seq}
    /\ UNCHANGED db

\* BEGIN TRANSACTION; INSERT INTO snapshots ... RETURNING id.  The id comes
\* from the sequence, whose advance a rollback does not undo.
InsertSnapshot(batch, at) ==
    /\ sess.kind = "idle"
    /\ seq <= MaxId
    /\ sess' = [kind |-> "record", id |-> seq, at |-> at, batch |-> batch,
                n |-> 0, rows |-> [tx \in {} |-> None]]
    /\ seq' = seq + 1
    /\ asked' = [id \in DOMAIN asked \cup {seq} |->
                    IF id = seq THEN [at |-> at, batch |-> batch] ELSE asked[id]]
    /\ UNCHANGED <<db, returned>>

\* Mutant: the expiry column is left NULL, as before it existed.
InsertWithoutExpiry ==
    /\ sess.kind = "record"
    /\ sess.n < Len(sess.batch)
    /\ LET l == sess.batch[sess.n + 1]
       IN  /\ l.tx \notin DOMAIN sess.rows
           /\ sess' = [sess EXCEPT
                !.n = @ + 1,
                !.rows = [tx \in DOMAIN @ \cup {l.tx} |->
                            IF tx = l.tx THEN [ttl |-> l.ttl, exp |-> None] ELSE @[tx]]]
    /\ UNCHANGED <<db, seq, asked, returned>>

\* One row of the executemany: the expiry instant is computed from the
\* capture time and the countdown; the primary key is (snapshot, transaction).
InsertListing ==
    /\ sess.kind = "record"
    /\ sess.n < Len(sess.batch)
    /\ LET l == sess.batch[sess.n + 1]
       IN  /\ l.tx \notin DOMAIN sess.rows
           /\ sess' = [sess EXCEPT
                !.n = @ + 1,
                !.rows = [tx \in DOMAIN @ \cup {l.tx} |->
                            IF tx = l.tx THEN [ttl |-> l.ttl, exp |-> sess.at + l.ttl]
                                         ELSE @[tx]]]
    /\ UNCHANGED <<db, seq, asked, returned>>

\* A statement raises: a duplicate transaction in the batch, an I/O error, a
\* value the column cannot hold.  ROLLBACK, and the exception goes on.
Rollback ==
    /\ sess.kind \in {"record", "backfill"}
    /\ sess' = Idle
    /\ UNCHANGED <<db, seq, asked, returned>>

\* Mutant: no transaction, the rows inserted so far are visible.
CommitPartial ==
    /\ sess.kind = "record"
    /\ db' = [id \in DOMAIN db \cup {sess.id} |->
                IF id = sess.id THEN [at |-> sess.at, rows |-> sess.rows] ELSE db[id]]
    /\ sess' = [kind |-> "committed", id |-> sess.id, at |-> sess.at]
    /\ UNCHANGED <<seq, asked, returned>>

\* COMMIT: the snapshot row and all its listings become visible together.
CommitSnapshot ==
    /\ sess.kind = "record"
    /\ sess.n = Len(sess.batch)
    /\ db' = [id \in DOMAIN db \cup {sess.id} |->
                IF id = sess.id THEN [at |-> sess.at, rows |-> sess.rows] ELSE db[id]]
    /\ sess' = [kind |-> "committed", id |-> sess.id, at |-> sess.at]
    /\ UNCHANGED <<seq, asked, returned>>

\* Mutant: nextval instead of the row's id.
ReturnNextId ==
    /\ sess.kind = "committed"
    /\ returned' = returned \cup {sess.id + 1}
    /\ sess' = Idle
    /\ UNCHANGED <<db, seq, asked>>

ReturnId ==
    /\ sess.kind = "committed"
    /\ returned' = returned \cup {sess.id}
    /\ sess' = Idle
    /\ UNCHANGED <<db, seq, asked>>

\* backfill_expires_at: nothing to do unless some expiry is NULL.
BeginBackfill ==
    /\ sess.kind = "idle"
    /\ MissingExpiry(db) # {}
    /\ sess' = [kind |-> "backfill", at |-> None]
    /\ UNCHANGED <<db, seq, asked, returned>>

\* Mutant: the countdown is stored as if it were an instant.
FilledRelative(s) ==
    [s EXCEPT !.rows = [tx \in DOMAIN s.rows |->
        IF s.rows[tx].exp = None
        THEN [ttl |-> s.rows[tx].ttl, exp |-> s.rows[tx].ttl]
        ELSE s.rows[tx]]]

Filled(s) ==
    [s EXCEPT !.rows = [tx \in DOMAIN s.rows |->
        IF s.rows[tx].exp = None
        THEN [ttl |-> s.rows[tx].ttl, exp |-> s.at + s.rows[tx].ttl]
        ELSE s.rows[tx]]]

CommitBackfill ==
    /\ sess.kind = "backfill"
    /\ db' = [id \in DOMAIN db |-> Filled(db[id])]
    /\ sess' = Idle
    /\ UNCHANGED <<seq, asked, returned>>

\* Mutant: the sequence starts over in the new process.
CrashResetsIds ==
    /\ sess # Idle
    /\ sess' = Idle
    /\ seq' = 1
    /\ UNCHANGED <<db, asked, returned>>

\* The process dies.  What was committed survives; the sequence restarts
\* somewhere above every committed id.
Crash ==
    /\ sess # Idle
    /\ sess' = Idle
    /\ seq' \in {n \in 1 .. seq : \A id \in DOMAIN db : id < n}
    /\ UNCHANGED <<db, asked, returned>>

RecordSnapshot ==
    \/ \E batch \in Batches, at \in Times : InsertSnapshot(batch, at)
    \/ InsertListing
    \/ CommitSnapshot
    \/ ReturnId

Next ==
    \/ RecordSnapshot
    \/ BeginBackfill
    \/ CommitBackfill
    \/ Rollback
    \/ Crash

Spec == Init /\ [][Next]_vars

-----------------------------------------------------------------------------
(* Properties *)

TypeOK ==
    /\ DOMAIN db \subseteq 1 .. MaxId
    /\ \A id \in DOMAIN db : IsSnapshot(db[id])
    /\ seq \in 1 .. MaxId + 1
    /\ sess.kind \in {"idle", "record", "committed", "backfill"}
    /\ sess.kind = "record" =>
        /\ sess.id \in 1 .. MaxId /\ sess.at \in Times
        /\ sess.batch \in Batches /\ sess.n \in 0 .. Len(sess.batch)
    /\ DOMAIN asked \subseteq 1 .. MaxId
    /\ \A id \in DOMAIN asked : asked[id] \in [at : Times, batch : Batches]
    /\ returned \subseteq 1 .. MaxId

\* rows holds exactly the first n listings of the batch, none lost to a clash.
Holds(rows, batch, n) ==
    /\ DOMAIN rows = {batch[i].tx : i \in 1 .. n}
    /\ \A i \in 1 .. n : rows[batch[i].tx].ttl = batch[i].ttl
    /\ \A i, j \in 1 .. n : batch[i].tx = batch[j].tx => i = j

\* A snapshot is stored whole or not at all: whatever failed or crashed in
\* between, each stored id holds every listing of the call it was issued to,
\* under that call's capture time, and no batch with a repeated transaction
\* ever got in (record_snapshot's BEGIN/COMMIT/ROLLBACK).
StoredWhole ==
    \A id \in DOMAIN db \ DOMAIN Legacy :
        /\ id \in DOMAIN asked
        /\ db[id].at = asked[id].at
        /\ Holds(db[id].rows, asked[id].batch, Len(asked[id].batch))

\* An id handed back to a caller names a committed snapshot, across crashes,
\* and is never issued again to another call.
ReturnedIsStored ==
    \A id \in returned : id \in DOMAIN db /\ id < seq

\* The absolute expiry of a row, inserted or backfilled, is its own snapshot's
\* capture time plus its own countdown (store.py's comment above the backfill
\* statement: historical rows get exactly the instant new ones store).
ExpiryIsExact ==
    \A id \in DOMAIN db : \A tx \in DOMAIN db[id].rows :
        db[id].rows[tx].exp \in {None, db[id].at + db[id].rows[tx].ttl}

\* backfill is a one-shot command: once no stored row misses its expiry, no
\* later write brings such a row back.
BackfillIsOneShot == [][MissingExpiry(db) = {} => MissingExpiry(db)' = {}]_vars

\* Refinement: with the expiry column put aside, the committed snapshots are
\* the append-only log every reader relies on.
WithoutExpiry(s) == [at |-> s.at, ttl |-> [tx \in DOMAIN s.rows |-> s.rows[tx].ttl]]

StoredLog == [id \in DOMAIN db |-> WithoutExpiry(db[id])]

Log == INSTANCE SnapshotLog WITH log <- StoredLog

AppendOnlyLog == Log!LogSpec
=============================================================================
