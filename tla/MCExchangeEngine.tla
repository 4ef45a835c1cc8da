------------------------- MODULE MCExchangeEngine -------------------------
(***************************************************************************)
(* ExchangeEngine on small instances: two accounts, two prices, quantities *)
(* of one and two, four or five orders.                                    *)
(***************************************************************************)
EXTENDS ExchangeEngine

Symmetry == Permutations(Users)
=============================================================================
