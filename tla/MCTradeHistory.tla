--------------------------- MODULE MCTradeHistory ---------------------------
(* TradeHistory for TLC: one account that trades and one that does not.    *)
EXTENDS TradeHistory
CONSTANTS a1, a2, bots, o1, o2, o3, o4
Symmetry == Permutations({o1, o2, o3, o4})
=============================================================================
