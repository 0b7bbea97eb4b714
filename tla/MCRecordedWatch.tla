---------------------------- MODULE MCRecordedWatch ----------------------------
(* Two listings of one item, and an ingredient nobody lists.               *)
EXTENDS RecordedWatch, TLC

CONSTANTS t1, t2, Gear, gear, ore

MCTxs == {t1, t2}
MCItems == {Gear}
MCLower == (Gear :> gear)
MCItemOf == (t1 :> Gear @@ t2 :> Gear)
MCKindOf == (t1 :> 1 @@ t2 :> 1)
MCUnitPrice == (t1 :> 3 @@ t2 :> 1)
MCRecipe == (gear :> (ore :> 2))
MCCountdownOf == (t1 :> {1, 2} @@ t2 :> {2})
=============================================================================
