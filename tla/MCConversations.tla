-------------------------- MODULE MCConversations --------------------------
(* Conversations for TLC: the workers play the same part. *)
EXTENDS Conversations, TLC

Symmetry == Permutations(Workers)
=============================================================================
