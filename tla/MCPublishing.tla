----------------------------- MODULE MCPublishing -----------------------------
(* Publishing for TLC: requests, workers and moderators play the same part. *)
EXTENDS Publishing, TLC

Symmetry == Permutations(Requests) \cup Permutations(Workers) \cup Permutations(Moderators)
=============================================================================
