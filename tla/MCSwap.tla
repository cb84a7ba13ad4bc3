------------------------------- MODULE MCSwap -------------------------------
(* Three paths, and three calls, all of which may overlap.                 *)
EXTENDS Swap, TLC

Symmetry == Permutations(Req) \cup Permutations(Path) \cup Permutations(Temp)
=============================================================================
