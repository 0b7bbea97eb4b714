--------------------------- MODULE MCMarketHistory ---------------------------
(* Three listings of two items, one item an ingredient of the other; one   *)
(* listing is seen on both sides of the expiry window, two are of the same *)
(* item and of different kinds.                                            *)
EXTENDS MarketHistory, TLC

CONSTANTS t1, t2, t3, Gear, Ore, gear, ore

MCTxs == {t1, t2, t3}
MCLower == (Gear :> gear @@ Ore :> ore)
MCItemOf == (t1 :> Gear @@ t2 :> Ore @@ t3 :> Ore)
MCKindOf == (t1 :> 1 @@ t2 :> 1 @@ t3 :> 2)
MCUnitPrice == (t1 :> 3 @@ t2 :> 1 @@ t3 :> 2)
MCRecipe == (gear :> (ore :> 2))
MCCountdownOf == (t1 :> {1, 2} @@ t2 :> {2} @@ t3 :> {1})
MCCutoffs == {None, 1}
MCWindows == {None, 0, 1}
=============================================================================
