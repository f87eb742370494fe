---------------------------- MODULE MCLifecycle ----------------------------
(* Lifecycle for TLC: the volunteers play the same part, so states that     *)
(* differ by a permutation of them are one.                                 *)
EXTENDS LifecycleContract, Pages, TLC

Symmetry == Permutations(Volunteers)
=============================================================================
