\* The quota is overfilled after an edit that was moderated again.
CONSTANTS
  v1 = v1
  v2 = v2
  o = o
  Volunteers = {v1, v2}
  Owner = o
  MaxNeeded = 2
  Premoderated = 1
  Lead = 1
  Duration = 0
  AutoConfirmAfter = 0
  ExpireAfterEnd = 1
SPECIFICATION Spec
SYMMETRY Symmetry
INVARIANTS
  NotOverfilled
