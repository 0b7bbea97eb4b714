---------------------------- MODULE MCMarketWatch ----------------------------
(* Two listings of two categories: each poll has two replies to wait for.  *)
EXTENDS MarketWatch

CONSTANTS t1, t2

MCTxs == {t1, t2}
MCCategories == <<{t1}, {t2}>>
=============================================================================
