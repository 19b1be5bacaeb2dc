--------------------------- MODULE MCLoopBreaker ---------------------------
(* A small instance of LoopBreaker: three calls over a table of two. *)
EXTENDS LoopBreaker, TLC

\* The calls differ in nothing but their name.
Symmetry == Permutations(Calls)
=============================================================================
