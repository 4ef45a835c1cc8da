---------------------------- MODULE MCOrderRows ----------------------------
(* OrderRows for TLC.  One order: a row is only written for replies about  *)
(* its own order, and what stands between two of them on a stream is shown *)
(* by the replies and requests of the order itself.                        *)
EXTENDS OrderRows
CONSTANT o1
=============================================================================
