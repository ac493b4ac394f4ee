----------------------------- MODULE MCHandles -----------------------------
(* Handles on small instances.                                             *)
EXTENDS Handles, TLC

CallerSymmetry == Permutations(Callers)
=============================================================================
