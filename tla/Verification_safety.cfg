\* A user, two workers, two codes for two uses each, three records.
CONSTANTS
  u1 = u1
  c1 = c1
  c2 = c2
  w1 = w1
  w2 = w2
  Users = {u1}
  Codes = {c1, c2}
  Workers = {w1, w2}
  MaxUses = 2
  ReapplyAfter = 1
  MaxRecords = 3
SPECIFICATION Spec
SYMMETRY Symmetry
INVARIANTS
  CodesAccounted
  VerifiedHasApproved
PROPERTIES
  KeepsBadges
