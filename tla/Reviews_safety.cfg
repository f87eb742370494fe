\* One volunteer, two overlapping cron calls, fair clock and jobs; no symmetry.
CONSTANTS
  v1 = v1
  o = o
  w1 = w1
  w2 = w2
  Volunteers = {v1}
  Owner = o
  Workers = {w1, w2}
  RemindAfter = 1
  Window = 2
SPECIFICATION FairSpec
INVARIANTS
  ExchangeInv
  EachAnnounced
  NudgedOnce
  OnlyARaceHides
PROPERTIES
  EveryReviewShows
  KeepsExchange
CHECK_DEADLOCK FALSE
