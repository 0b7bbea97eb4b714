------------------------- MODULE SnapshotStoreProofs --------------------------
(***************************************************************************)
(* The snapshot database for every set of batches, capture times and       *)
(* listings, every database found at start and any bound on the ids:       *)
(* snapshots are stored whole, returned ids are stored, expiries are       *)
(* exact, and the store implements the append-only log of SnapshotLog.     *)
(***************************************************************************)
EXTENDS SnapshotStore, TLAPS

\* The session's id is fresh: taken from the sequence, above all that is stored.
RecordingOK ==
    sess.kind = "record" =>
        /\ sess = [kind |-> "record", id |-> sess.id, at |-> sess.at,
                   batch |-> sess.batch, n |-> sess.n, rows |-> sess.rows]
        /\ sess.id < seq
        /\ \A id \in DOMAIN db : id < sess.id
        /\ sess.id \in DOMAIN asked
        /\ asked[sess.id] = [at |-> sess.at, batch |-> sess.batch]

\* The rows inserted so far are those of the batch so far, with their expiry.
RowsOK ==
    sess.kind = "record" =>
        /\ Holds(sess.rows, sess.batch, sess.n)
        /\ DOMAIN sess.rows \subseteq Txs
        /\ sess.rows \in [DOMAIN sess.rows -> Rows]
        /\ \A tx \in DOMAIN sess.rows : sess.rows[tx].exp = sess.at + sess.rows[tx].ttl

CommittedOK == sess.kind = "committed" => sess.id \in DOMAIN db

IdsBelow == \A id \in DOMAIN db : id < seq

\* The properties of SnapshotStore are not inductive: whether the next commit
\* stores a whole and fresh snapshot depends on what the session holds.
StoreInv ==
    /\ TypeOK
    /\ RecordingOK
    /\ RowsOK
    /\ CommittedOK
    /\ IdsBelow
    /\ StoredWhole
    /\ ReturnedIsStored
    /\ ExpiryIsExact

-----------------------------------------------------------------------------
\* One more listing of the batch, under a transaction not inserted before.
LEMMA HoldsExtended ==
    ASSUME NEW batch \in Seq(Listings), NEW n \in Nat, n < Len(batch),
           NEW rows, Holds(rows, batch, n), batch[n + 1].tx \notin DOMAIN rows,
           NEW row, row.ttl = batch[n + 1].ttl,
           NEW more, more = [tx \in DOMAIN rows \cup {batch[n + 1].tx} |->
                               IF tx = batch[n + 1].tx THEN row ELSE rows[tx]]
    PROVE  Holds(more, batch, n + 1)
<1>1. 1 .. (n + 1) = (1 .. n) \cup {n + 1}
  OBVIOUS
<1>2. \A i \in 1 .. n : batch[i].tx \in DOMAIN rows /\ batch[i].tx # batch[n + 1].tx
  BY DEF Holds
<1>3. DOMAIN more = {batch[i].tx : i \in 1 .. (n + 1)}
  BY <1>1 DEF Holds
<1>4. ASSUME NEW i \in 1 .. (n + 1)
      PROVE  more[batch[i].tx].ttl = batch[i].ttl
  <2>1. CASE i = n + 1
    BY <2>1
  <2>2. CASE i \in 1 .. n
    BY <1>2, <2>2 DEF Holds
  <2> QED  BY <1>1, <2>1, <2>2
<1>5. ASSUME NEW i \in 1 .. (n + 1), NEW j \in 1 .. (n + 1), batch[i].tx = batch[j].tx
      PROVE  i = j
  BY <1>1, <1>2, <1>5 DEF Holds
<1> QED  BY <1>3, <1>4, <1>5 DEF Holds

\* Filling the expiries of a snapshot changes nothing else of it.
LEMMA FilledKeeps ==
    ASSUME NEW s, IsSnapshot(s),
           \A tx \in DOMAIN s.rows : s.rows[tx].exp \in {None, s.at + s.rows[tx].ttl}
    PROVE  /\ IsSnapshot(Filled(s))
           /\ Filled(s).at = s.at
           /\ DOMAIN Filled(s).rows = DOMAIN s.rows
           /\ \A tx \in DOMAIN s.rows : Filled(s).rows[tx].ttl = s.rows[tx].ttl
           /\ \A tx \in DOMAIN s.rows : Filled(s).rows[tx].exp = s.at + s.rows[tx].ttl
<1> DEFINE filled == [tx \in DOMAIN s.rows |->
                        IF s.rows[tx].exp = None
                        THEN [ttl |-> s.rows[tx].ttl, exp |-> s.at + s.rows[tx].ttl]
                        ELSE s.rows[tx]]
<1>1. Filled(s) = [at |-> s.at, rows |-> filled]
  BY DEF Filled, IsSnapshot
<1>2. s.at \in Int /\ \A tx \in DOMAIN s.rows : s.rows[tx] \in Rows /\ s.rows[tx].ttl \in Int
  BY NumbersAssumption DEF IsSnapshot, Rows
<1>3. filled \in [DOMAIN s.rows -> Rows]
  BY <1>2 DEF Rows
<1>4. \A tx \in DOMAIN s.rows :
        filled[tx].ttl = s.rows[tx].ttl /\ filled[tx].exp = s.at + s.rows[tx].ttl
  OBVIOUS
<1> HIDE DEF filled
<1>5. IsSnapshot(Filled(s))
  BY <1>1, <1>3 DEF IsSnapshot
<1> QED  BY <1>1, <1>3, <1>4, <1>5

\* A record session with one more row keeps its other fields.
LEMMA SessionAdvanced ==
    ASSUME NEW s, NEW next, NEW more,
           s = [kind |-> "record", id |-> s.id, at |-> s.at, batch |-> s.batch,
                n |-> s.n, rows |-> s.rows]
    PROVE  [s EXCEPT !.n = next, !.rows = more]
             = [kind |-> "record", id |-> s.id, at |-> s.at, batch |-> s.batch,
                n |-> next, rows |-> more]
<1>1. [s EXCEPT !.n = next]
        = [kind |-> "record", id |-> s.id, at |-> s.at, batch |-> s.batch,
           n |-> next, rows |-> s.rows]
  OBVIOUS
<1>2. ASSUME NEW r, r = [kind |-> "record", id |-> s.id, at |-> s.at, batch |-> s.batch,
                         n |-> next, rows |-> s.rows]
      PROVE  [r EXCEPT !.rows = more]
               = [kind |-> "record", id |-> s.id, at |-> s.at, batch |-> s.batch,
                  n |-> next, rows |-> more]
  BY <1>2
<1> QED  BY <1>1, <1>2, Zenon

-----------------------------------------------------------------------------
LEMMA StoreInitInv == Init => StoreInv
<1> SUFFICES ASSUME Init  PROVE StoreInv
  OBVIOUS
<1>1. sess.kind = "idle"
  BY DEF Init, Idle
<1>2. TypeOK
  BY <1>1, LegacyAssumption DEF Init, TypeOK
<1>3. RecordingOK /\ RowsOK /\ CommittedOK
  BY <1>1 DEF RecordingOK, RowsOK, CommittedOK
<1>4. IdsBelow /\ StoredWhole /\ ReturnedIsStored /\ ExpiryIsExact
  BY LegacyAssumption DEF Init, IdsBelow, StoredWhole, ReturnedIsStored, ExpiryIsExact
<1> QED  BY <1>2, <1>3, <1>4 DEF StoreInv

-----------------------------------------------------------------------------
\* The sequence hands out an id above everything stored and returned.
LEMMA InsertSnapshotStep ==
    ASSUME StoreInv, NEW batch \in Batches, NEW at \in Times, InsertSnapshot(batch, at)
    PROVE  StoreInv'
<1> USE DEF StoreInv
<1>1. /\ sess' = [kind |-> "record", id |-> seq, at |-> at, batch |-> batch,
                  n |-> 0, rows |-> [tx \in {} |-> None]]
      /\ seq' = seq + 1 /\ seq <= MaxId /\ seq \in 1 .. MaxId + 1
      /\ asked' = [id \in DOMAIN asked \cup {seq} |->
                    IF id = seq THEN [at |-> at, batch |-> batch] ELSE asked[id]]
      /\ db' = db /\ returned' = returned
      /\ MaxId \in Nat
  BY NumbersAssumption DEF InsertSnapshot, TypeOK
<1>2. seq \in 1 .. MaxId /\ seq' \in 1 .. MaxId + 1 /\ Len(batch) \in Nat
  BY <1>1, BatchesAssumption
<1>3. \A id \in DOMAIN db : id \in Int /\ id < seq /\ id # seq
  BY DEF TypeOK, IdsBelow
<1>4. TypeOK'
  <2>1. DOMAIN asked' \subseteq 1 .. MaxId
    BY <1>1, <1>2 DEF TypeOK
  <2>2. \A id \in DOMAIN asked' : asked'[id] \in [at : Times, batch : Batches]
    BY <1>1 DEF TypeOK
  <2> QED  BY <1>1, <1>2, <2>1, <2>2 DEF TypeOK
<1>5. RecordingOK'
  BY <1>1, <1>2, <1>3 DEF RecordingOK
<1>6. RowsOK' /\ CommittedOK'
  BY <1>1 DEF RowsOK, CommittedOK, Holds
<1>7. IdsBelow' /\ ReturnedIsStored'
  BY <1>1, <1>2, <1>3 DEF IdsBelow, ReturnedIsStored, TypeOK
<1>8. StoredWhole' /\ ExpiryIsExact'
  BY <1>1, <1>3 DEF StoredWhole, ExpiryIsExact
<1> QED  BY <1>4, <1>5, <1>6, <1>7, <1>8

\* One row of the batch; one that repeats a transaction cannot be inserted.
LEMMA InsertListingStep ==
    ASSUME StoreInv, InsertListing
    PROVE  StoreInv'
<1> USE DEF StoreInv
<1> DEFINE l == sess.batch[sess.n + 1]
           row == [ttl |-> l.ttl, exp |-> sess.at + l.ttl]
           more == [tx \in DOMAIN sess.rows \cup {l.tx} |->
                      IF tx = l.tx THEN row ELSE sess.rows[tx]]
<1>1. /\ sess.kind = "record" /\ sess.n < Len(sess.batch) /\ l.tx \notin DOMAIN sess.rows
      /\ UNCHANGED <<db, seq, asked, returned>>
  BY DEF InsertListing
<1>2. sess' = [kind |-> "record", id |-> sess.id, at |-> sess.at, batch |-> sess.batch,
               n |-> sess.n + 1, rows |-> more]
  <2>1. sess = [kind |-> "record", id |-> sess.id, at |-> sess.at, batch |-> sess.batch,
                n |-> sess.n, rows |-> sess.rows]
    BY <1>1 DEF RecordingOK
  <2>2. sess' = [sess EXCEPT !.n = sess.n + 1, !.rows = more]
    BY DEF InsertListing
  <2> HIDE DEF more
  <2>3. [sess EXCEPT !.n = sess.n + 1, !.rows = more]
          = [kind |-> "record", id |-> sess.id, at |-> sess.at, batch |-> sess.batch,
             n |-> sess.n + 1, rows |-> more]
    BY <2>1, SessionAdvanced, Zenon
  <2> QED  BY <2>2, <2>3, Zenon
<1>3. /\ sess.batch \in Seq(Listings) /\ sess.n \in Nat
      /\ sess.n + 1 \in 1 .. Len(sess.batch) /\ l \in Listings /\ sess.at \in Times
  BY <1>1, BatchesAssumption DEF TypeOK
<1> HIDE DEF l
<1>4. l.tx \in Txs /\ l.ttl \in TTLs
  BY <1>3 DEF Listings
<1>5. Holds(more, sess.batch, sess.n + 1)
  <2>1. row.ttl = l.ttl
    OBVIOUS
  <2>2. Holds(sess.rows, sess.batch, sess.n)
    BY <1>1 DEF RowsOK
  <2> HIDE DEF row
  <2> QED  BY <1>1, <1>3, <2>1, <2>2, HoldsExtended DEF l
<1>6. RowsOK'
  <2>1. row \in Rows
    <3>1. sess.at \in Int
      BY <1>3, NumbersAssumption
    <3>2. l.ttl \in Int
      BY <1>4, NumbersAssumption
    <3>3. sess.at + l.ttl \in Int
      BY <3>1, <3>2
    <3> QED  BY <1>4, <3>3 DEF Rows
  <2>2. row.exp = sess.at + row.ttl
    OBVIOUS
  <2> HIDE DEF row
  <2>3. /\ DOMAIN more \subseteq Txs
        /\ more \in [DOMAIN more -> Rows]
        /\ \A tx \in DOMAIN more : more[tx].exp = sess.at + more[tx].ttl
    BY <1>1, <1>4, <2>1, <2>2 DEF RowsOK
  <2> HIDE DEF more
  <2> QED  BY <1>2, <1>5, <2>3 DEF RowsOK
<1> HIDE DEF more
<1>7. TypeOK'
  BY <1>1, <1>2, <1>3 DEF TypeOK
<1>8. RecordingOK' /\ CommittedOK'
  BY <1>1, <1>2 DEF RecordingOK, CommittedOK
<1>9. IdsBelow' /\ StoredWhole' /\ ReturnedIsStored' /\ ExpiryIsExact'
  BY <1>1 DEF IdsBelow, StoredWhole, ReturnedIsStored, ExpiryIsExact
<1> QED  BY <1>6, <1>7, <1>8, <1>9

\* The whole batch becomes visible at once, under the id it was given.
LEMMA CommitSnapshotStep ==
    ASSUME StoreInv, CommitSnapshot
    PROVE  StoreInv'
<1> USE DEF StoreInv
<1> DEFINE s == [at |-> sess.at, rows |-> sess.rows]
<1>1. /\ sess.kind = "record" /\ sess.n = Len(sess.batch)
      /\ sess' = [kind |-> "committed", id |-> sess.id, at |-> sess.at]
      /\ db' = [id \in DOMAIN db \cup {sess.id} |-> IF id = sess.id THEN s ELSE db[id]]
      /\ UNCHANGED <<seq, asked, returned>>
  BY DEF CommitSnapshot
<1>2. /\ sess.id \in 1 .. MaxId /\ sess.at \in Times /\ sess.id < seq
      /\ sess.id \in DOMAIN asked
      /\ asked[sess.id] = [at |-> sess.at, batch |-> sess.batch]
      /\ sess.id \notin DOMAIN db
  BY <1>1 DEF TypeOK, RecordingOK
<1>3. /\ Holds(sess.rows, sess.batch, Len(sess.batch))
      /\ DOMAIN sess.rows \subseteq Txs
      /\ sess.rows \in [DOMAIN sess.rows -> Rows]
      /\ \A tx \in DOMAIN sess.rows : sess.rows[tx].exp = sess.at + sess.rows[tx].ttl
  BY <1>1 DEF RowsOK
<1>4. IsSnapshot(s)
  BY <1>2, <1>3 DEF IsSnapshot
<1>5. TypeOK'
  <2>1. \A id \in DOMAIN db' : IsSnapshot(db'[id])
    BY <1>1, <1>4 DEF TypeOK
  <2> HIDE DEF s
  <2> QED  BY <1>1, <1>2, <2>1 DEF TypeOK
<1>6. StoredWhole'
  <2> SUFFICES ASSUME NEW id \in DOMAIN db' \ DOMAIN Legacy
               PROVE  /\ id \in DOMAIN asked
                      /\ db'[id].at = asked[id].at
                      /\ Holds(db'[id].rows, asked[id].batch, Len(asked[id].batch))
    BY <1>1 DEF StoredWhole
  <2>1. CASE id = sess.id
    BY <1>1, <1>2, <1>3, <2>1
  <2>2. CASE id # sess.id
    BY <1>1, <2>2 DEF StoredWhole
  <2> QED  BY <2>1, <2>2
<1>7. ExpiryIsExact'
  BY <1>1, <1>3 DEF ExpiryIsExact
<1> HIDE DEF s
<1>8. RecordingOK' /\ RowsOK' /\ CommittedOK'
  BY <1>1 DEF RecordingOK, RowsOK, CommittedOK
<1>9. IdsBelow' /\ ReturnedIsStored'
  BY <1>1, <1>2 DEF IdsBelow, ReturnedIsStored
<1> QED  BY <1>5, <1>6, <1>7, <1>8, <1>9

\* The session ends without touching the database: ROLLBACK or a crash; the
\* sequence stays, or restarts above everything stored.
LEMMA SessionEnds ==
    ASSUME StoreInv, sess' = Idle, UNCHANGED <<db, asked, returned>>,
           seq' \in 1 .. MaxId + 1, IdsBelow'
    PROVE  StoreInv'
<1> USE DEF StoreInv
<1>1. sess'.kind = "idle"
  BY DEF Idle
<1>2. TypeOK'
  BY <1>1 DEF TypeOK
<1>3. RecordingOK' /\ RowsOK' /\ CommittedOK'
  BY <1>1 DEF RecordingOK, RowsOK, CommittedOK
<1>4. StoredWhole' /\ ExpiryIsExact'
  BY DEF StoredWhole, ExpiryIsExact
<1>5. ReturnedIsStored'
  BY DEF ReturnedIsStored, IdsBelow
<1> QED  BY <1>2, <1>3, <1>4, <1>5

\* The id handed back is the committed one.
LEMMA ReturnIdStep ==
    ASSUME StoreInv, ReturnId
    PROVE  StoreInv'
<1> USE DEF StoreInv
<1>1. /\ sess.kind = "committed" /\ sess' = Idle /\ sess'.kind = "idle"
      /\ returned' = returned \cup {sess.id}
      /\ UNCHANGED <<db, seq, asked>>
      /\ sess.id \in DOMAIN db
  BY DEF ReturnId, Idle, CommittedOK
<1>2. TypeOK'
  BY <1>1 DEF TypeOK
<1>3. RecordingOK' /\ RowsOK' /\ CommittedOK'
  BY <1>1 DEF RecordingOK, RowsOK, CommittedOK
<1>4. IdsBelow' /\ StoredWhole' /\ ExpiryIsExact'
  BY <1>1 DEF IdsBelow, StoredWhole, ExpiryIsExact
<1>5. ReturnedIsStored'
  BY <1>1 DEF ReturnedIsStored, IdsBelow
<1> QED  BY <1>2, <1>3, <1>4, <1>5

\* The backfill changes only expiries that were missing.
LEMMA CommitBackfillStep ==
    ASSUME StoreInv, CommitBackfill
    PROVE  StoreInv'
<1> USE DEF StoreInv
<1>1. /\ db' = [id \in DOMAIN db |-> Filled(db[id])]
      /\ sess' = Idle /\ sess'.kind = "idle"
      /\ UNCHANGED <<seq, asked, returned>>
  BY DEF CommitBackfill, Idle
<1>2. ASSUME NEW id \in DOMAIN db
      PROVE  /\ IsSnapshot(db'[id])
             /\ db'[id].at = db[id].at
             /\ DOMAIN db'[id].rows = DOMAIN db[id].rows
             /\ \A tx \in DOMAIN db[id].rows :
                  /\ db'[id].rows[tx].ttl = db[id].rows[tx].ttl
                  /\ db'[id].rows[tx].exp = db[id].at + db[id].rows[tx].ttl
  BY <1>1, FilledKeeps DEF TypeOK, ExpiryIsExact
<1>3. TypeOK'
  BY <1>1, <1>2 DEF TypeOK
<1>4. RecordingOK' /\ RowsOK' /\ CommittedOK' /\ IdsBelow' /\ ReturnedIsStored'
  BY <1>1 DEF RecordingOK, RowsOK, CommittedOK, IdsBelow, ReturnedIsStored
<1>5. StoredWhole'
  <2> SUFFICES ASSUME NEW id \in DOMAIN db \ DOMAIN Legacy
               PROVE  /\ id \in DOMAIN asked
                      /\ db'[id].at = asked[id].at
                      /\ Holds(db'[id].rows, asked[id].batch, Len(asked[id].batch))
    BY <1>1 DEF StoredWhole
  <2>1. /\ id \in DOMAIN asked
        /\ db[id].at = asked[id].at
        /\ Holds(db[id].rows, asked[id].batch, Len(asked[id].batch))
    BY DEF StoredWhole
  <2> QED  BY <1>2, <2>1 DEF Holds
<1>6. ExpiryIsExact'
  BY <1>1, <1>2 DEF ExpiryIsExact
<1> QED  BY <1>3, <1>4, <1>5, <1>6

LEMMA StoreNext ==
    ASSUME StoreInv, [Next]_vars
    PROVE  StoreInv'
<1>1. CASE RecordSnapshot
  BY <1>1, InsertSnapshotStep, InsertListingStep, CommitSnapshotStep, ReturnIdStep
     DEF RecordSnapshot
<1>2. CASE BeginBackfill
  <2>1. sess'.kind = "backfill" /\ UNCHANGED <<db, seq, asked, returned>>
    BY <1>2 DEF BeginBackfill
  <2>2. TypeOK'
    BY <2>1 DEF StoreInv, TypeOK
  <2> QED  BY <2>1, <2>2 DEF StoreInv, RecordingOK, RowsOK, CommittedOK, IdsBelow,
                             StoredWhole, ReturnedIsStored, ExpiryIsExact
<1>3. CASE CommitBackfill
  BY <1>3, CommitBackfillStep
<1>4. CASE Rollback
  <2>1. IdsBelow' /\ seq' \in 1 .. MaxId + 1
    BY <1>4 DEF Rollback, StoreInv, IdsBelow, TypeOK
  <2> QED  BY <1>4, <2>1, SessionEnds DEF Rollback
<1>5. CASE Crash
  <2>1. IdsBelow'
    BY <1>5 DEF Crash, IdsBelow
  <2>2. seq' \in 1 .. MaxId + 1
    BY <1>5, NumbersAssumption DEF Crash, StoreInv, TypeOK
  <2> QED  BY <1>5, <2>1, <2>2, SessionEnds DEF Crash
<1>6. CASE UNCHANGED vars
  BY <1>6 DEF vars, StoreInv, TypeOK, RecordingOK, RowsOK, CommittedOK, IdsBelow,
              StoredWhole, ReturnedIsStored, ExpiryIsExact, Holds
<1> QED  BY <1>1, <1>2, <1>3, <1>4, <1>5, <1>6 DEF Next

LEMMA StoreInvariance == Spec => []StoreInv
  BY StoreInitInv, StoreNext, PTL DEF Spec

\* Only a commit changes what readers see: one snapshot more, above all the
\* others, or the same snapshots with their missing expiries filled in.
LEMMA Commits ==
    ASSUME StoreInv, [Next]_vars
    PROVE  \/ CommitSnapshot
           \/ CommitBackfill
           \/ UNCHANGED db
  BY DEF Next, RecordSnapshot, InsertSnapshot, InsertListing, ReturnId, BeginBackfill,
         Rollback, Crash, vars

-----------------------------------------------------------------------------
\* The database, the session and its history keep their types.
THEOREM StoreTypes == Spec => []TypeOK
  BY StoreInvariance, PTL DEF StoreInv

\* Whatever fails or crashes between its statements, record_snapshot stores a
\* snapshot whole or not at all (store.py, record_snapshot).
THEOREM WholeSnapshots == Spec => []StoredWhole
  BY StoreInvariance, PTL DEF StoreInv

\* An id returned to a caller is stored and never issued again.
THEOREM ReturnedIds == Spec => []ReturnedIsStored
  BY StoreInvariance, PTL DEF StoreInv

\* Inserted or backfilled, an expiry is the snapshot's time plus the countdown
\* (store.py, record_snapshot and backfill_expires_at).
THEOREM ExactExpiries == Spec => []ExpiryIsExact
  BY StoreInvariance, PTL DEF StoreInv

\* After one backfill no row misses its expiry again.
THEOREM BackfillOnce == Spec => BackfillIsOneShot
<1>1. ASSUME StoreInv, [Next]_vars, MissingExpiry(db) = {}
      PROVE  MissingExpiry(db)' = {}
  <2> SUFFICES ASSUME NEW id \in DOMAIN db', NEW tx \in DOMAIN db'[id].rows
               PROVE  db'[id].rows[tx].exp # None
    BY DEF MissingExpiry
  <2>1. \A i \in DOMAIN db, t \in Txs : t \in DOMAIN db[i].rows => db[i].rows[t].exp # None
    BY <1>1 DEF MissingExpiry
  <2>2. CASE CommitSnapshot
    <3>1. CASE id = sess.id
      <4>1. /\ db'[id].rows = sess.rows /\ sess.at \in Int
            /\ sess.rows[tx] \in Rows /\ sess.rows[tx].exp = sess.at + sess.rows[tx].ttl
        BY <1>1, <2>2, <3>1, NumbersAssumption
           DEF CommitSnapshot, StoreInv, RowsOK, TypeOK
      <4>2. sess.rows[tx].ttl \in Int
        BY <4>1, NumbersAssumption DEF Rows
      <4> QED  BY <4>1, <4>2, NoneAssumption
    <3>2. CASE id # sess.id
      BY <1>1, <2>2, <3>2 DEF CommitSnapshot, MissingExpiry
    <3> QED  BY <3>1, <3>2
  <2>3. CASE CommitBackfill
    <3>1. /\ id \in DOMAIN db /\ IsSnapshot(db[id]) /\ tx \in DOMAIN db[id].rows
          /\ db'[id].rows[tx].exp = db[id].at + db[id].rows[tx].ttl
      BY <1>1, <2>3, FilledKeeps DEF CommitBackfill, StoreInv, TypeOK, ExpiryIsExact
    <3>2. db[id].at \in Int /\ db[id].rows[tx].ttl \in Int
      BY <3>1, NumbersAssumption DEF IsSnapshot, Rows
    <3> QED  BY <3>1, <3>2, NoneAssumption
  <2>4. CASE UNCHANGED db
    BY <1>1, <2>4 DEF MissingExpiry
  <2> QED  BY <1>1, <2>2, <2>3, <2>4, Commits
<1>2. StoreInv /\ [Next]_vars => [MissingExpiry(db) = {} => MissingExpiry(db)' = {}]_vars
  BY <1>1
<1> QED  BY <1>2, StoreInvariance, PTL DEF Spec, BackfillIsOneShot

\* The store implements the append-only log its readers rely on.
THEOREM StoreIsLog == Spec => AppendOnlyLog
<1>1. Init => Log!LogInit
  BY LegacyAssumption, NumbersAssumption DEF Init, Log!LogInit, Log!Ids, StoredLog
<1>2. ASSUME StoreInv, [Next]_vars
      PROVE  Log!Append \/ UNCHANGED StoredLog
  <2>1. CASE CommitSnapshot
    <3>1. /\ sess.id \in 1 .. MaxId /\ sess.id \notin DOMAIN db
          /\ \A old \in DOMAIN db : old < sess.id
          /\ DOMAIN db' = DOMAIN db \cup {sess.id}
          /\ \A old \in DOMAIN db : db'[old] = db[old]
      BY <1>2, <2>1 DEF CommitSnapshot, StoreInv, RecordingOK, TypeOK
    <3>2. /\ DOMAIN StoredLog = DOMAIN db /\ DOMAIN StoredLog' = DOMAIN db'
          /\ \A old \in DOMAIN db : StoredLog'[old] = StoredLog[old]
      BY <3>1 DEF StoredLog
    <3>3. sess.id \in Log!Ids
      BY <3>1, NumbersAssumption DEF Log!Ids
    <3> QED  BY <3>1, <3>2, <3>3 DEF Log!Append
  <2>2. CASE CommitBackfill
    <3>1. DOMAIN db' = DOMAIN db
      BY <2>2 DEF CommitBackfill
    <3>2. ASSUME NEW id \in DOMAIN db
          PROVE  WithoutExpiry(db'[id]) = WithoutExpiry(db[id])
      <4>1. /\ db'[id].at = db[id].at
            /\ DOMAIN db'[id].rows = DOMAIN db[id].rows
            /\ \A tx \in DOMAIN db[id].rows : db'[id].rows[tx].ttl = db[id].rows[tx].ttl
        BY <1>2, <2>2, FilledKeeps DEF CommitBackfill, StoreInv, TypeOK, ExpiryIsExact
      <4> QED  BY <4>1 DEF WithoutExpiry
    <3> QED  BY <3>1, <3>2 DEF StoredLog
  <2>3. CASE UNCHANGED db
    BY <2>3 DEF StoredLog
  <2> QED  BY <1>2, <2>1, <2>2, <2>3, Commits
<1>3. StoreInv /\ [Next]_vars => [Log!Append]_StoredLog
  BY <1>2
<1> QED  BY <1>1, <1>3, StoreInvariance, PTL DEF Spec, AppendOnlyLog, Log!LogSpec
=============================================================================
