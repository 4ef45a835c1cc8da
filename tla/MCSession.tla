----------------------------- MODULE MCSession -----------------------------
(* Session for TLC: two accounts and three requests under way at once, so  *)
(* that a refused request, one whose body is still being read and a sign-in*)
(* can meet.                                                               *)
EXTENDS Session, TLC
CONSTANTS ann, ben, q1, q2, q3
Symmetry == Permutations({ann, ben}) \cup Permutations({q1, q2, q3})
=============================================================================
