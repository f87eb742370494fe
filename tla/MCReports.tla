------------------------------ MODULE MCReports ------------------------------
(* Reports for TLC: reporters and workers play the same part. *)
EXTENDS Reports, TLC

Symmetry == Permutations(Reporters) \cup Permutations(Workers)
=============================================================================
