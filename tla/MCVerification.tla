--------------------------- MODULE MCVerification ---------------------------
(* Verification for TLC: users, codes and workers play the same part. *)
EXTENDS Verification, TLC

Symmetry == Permutations(Users) \cup Permutations(Codes) \cup Permutations(Workers)
=============================================================================
