--------------------------- MODULE MCSnapshotStore ---------------------------
(* A database with one old row without expiry, and four kinds of batch:    *)
(* empty, one listing, two listings, and one that repeats a transaction.   *)
EXTENDS SnapshotStore, TLC

CONSTANTS t1, t2

MCTxs == {t1, t2}
L(tx, ttl) == [tx |-> tx, ttl |-> ttl]
MCBatches == {<<>>, <<L(t1, 3)>>, <<L(t1, 3), L(t2, 5)>>, <<L(t2, 5), L(t2, 3)>>}
MCLegacy == (1 :> [at |-> 10, rows |-> (t1 :> [ttl |-> 5, exp |-> None])])
=============================================================================
