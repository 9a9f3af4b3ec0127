--------------------------- MODULE MCMobileSession ---------------------------
(* MobileSession for TLC: tasks and pairs are symmetric.                     *)
EXTENDS MobileSession, TLC

Symmetry == Permutations(Tasks) \cup Permutations(Pairs)
=============================================================================
