\* One volunteer; revocation, block, deletion and web requests at any time.
CONSTANTS
  v1 = v1
  o = o
  Volunteers = {v1}
  Owner = o
  MaxNeeded = 2
  Premoderated = 1
  Lead = 1
  Duration = 0
  AutoConfirmAfter = 0
  ExpireAfterEnd = 1
SPECIFICATION SteadySpec
INVARIANTS
  VisitNeedsVerified
  NobodyWaitsForTheGone
