--------------------------- MODULE MCEngineStream ---------------------------
(* EngineStream on a stream of two or three entries, two crashes and a lost connection. *)
EXTENDS EngineStream
=============================================================================
