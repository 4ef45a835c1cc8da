--------------------------- MODULE MCRequestGate ---------------------------
(* RequestGate for TLC: four calls and two slots, so that calls queue, and *)
(* two of them can be refused together and fill the gate with retries.     *)
EXTENDS RequestGate
CONSTANTS c1, c2, c3, c4
=============================================================================
