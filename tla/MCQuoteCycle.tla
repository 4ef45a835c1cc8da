---------------------------- MODULE MCQuoteCycle ----------------------------
(* QuoteCycle for TLC: one rung a side at two prices, with slots enough for*)
(* what a cycle places while the orders of the last one are still unwritten.  *)
EXTENDS QuoteCycle
=============================================================================
