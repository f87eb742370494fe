---------------------------- MODULE MCAccounts ----------------------------
(***************************************************************************)
(* Accounts for TLC: one mailbox, whose address is written in two ways.    *)
(***************************************************************************)
EXTENDS Accounts, TLC

BoxOf(e) == IF e = "A" THEN "a" ELSE e

\* Those of Quiet register and change their address, and no page sends them a
\* letter: they are there to take an address before another does.
CONSTANT Quiet
NoLetters ==
  \A u \in Quiet :
    /\ \A w \in Workers : throttle[w][u] = "open"
    /\ \A e \in Held : link[<<u, e>>] = "none" /\ <<u, e>> \notin unseen

Symmetry == Permutations(Workers)
=============================================================================
