\* Two volunteers, two overlapping calls, one of which may fail; a reminder one
\* day and the expiry two days after the end.
CONSTANTS
  v1 = v1
  v2 = v2
  o = o
  c1 = c1
  c2 = c2
  Volunteers = {v1, v2}
  Calls = {c1, c2}
  Owner = o
  MaxNeeded = 2
  Premoderated = 0
  Lead = 1
  Duration = 0
  AutoConfirmAfter = 0
  ExpireAfterEnd = 1
  RemindAfter = 0
  MaxFailures = 1
SPECIFICATION SteadyFairSpec
PROPERTIES
  NudgedOnceInTime
  CallLeavesNothingToDo
  EveryRequestSettles
