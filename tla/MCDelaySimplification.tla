----------------------- MODULE MCDelaySimplification ------------------------
(* Instances of DelaySimplification for TLC.                                  *)
EXTENDS DelaySimplification, TLC
CONSTANTS p, q, r, s
Symmetry == Permutations(Goals)
=============================================================================
