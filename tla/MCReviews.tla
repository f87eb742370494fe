----------------------------- MODULE MCReviews -----------------------------
(* Reviews for TLC: the volunteers play the same part. *)
EXTENDS Reviews, TLC

Symmetry == Permutations(Volunteers) \cup Permutations(Workers)
=============================================================================
