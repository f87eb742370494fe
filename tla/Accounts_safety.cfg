\* Two users who want one mailbox, written in two ways; two workers.
CONSTANTS
  w1 = w1
  w2 = w2
  u1 = u1
  u2 = u2
  Users = {u1, u2}
  Addresses = {"a", "A"}
  Lower = {"a"}
  Box <- BoxOf
  Workers = {w1, w2}
  Gone = "deleted"
  Quiet = {u2}
SPECIFICATION Spec
CONSTRAINT NoLetters
SYMMETRY Symmetry
INVARIANTS
  ConfirmedWasProven
PROPERTIES
  SaidSentIsSent
  OnlyAStalePageUndoes
