--------------------------- MODULE MCEngineBook ---------------------------
(***************************************************************************)
(* EngineBook for two accounts and two prices.                             *)
(***************************************************************************)
EXTENDS EngineBook

Symmetry == Permutations(Users)

\* What InDoubles leaves out: with quantities off the grid of exact doubles, an
\* order of 4 and one of 3 that are filled one after the other leave their level
\* a quantity, and a best price nobody is behind.
EmptyLevelOffTheGrid ==
  LET Held(n) == NearestDouble(4, n)
  IN  Held(Held(Held(4 + 3) - 4) - 3) > 0

ASSUME GhostLevelAssumption == EmptyLevelOffTheGrid
=============================================================================
