\* Two volunteers, up to two needed, one premoderated request; one day ahead and one day of grace.
CONSTANTS
  v1 = v1
  v2 = v2
  o = o
  Volunteers = {v1, v2}
  Owner = o
  MaxNeeded = 2
  Premoderated = 1
  Lead = 1
  Duration = 0
  AutoConfirmAfter = 0
  ExpireAfterEnd = 1
SPECIFICATION Spec
SYMMETRY Symmetry
INVARIANTS
  NoPendingLeftBehind
  WorkHasTeam
  AwaitingMeansAllDone
  PagesMatchServices
  PagesTellTheTruth
PROPERTIES
  ClosedIsFinal
  CompletedWithTeam
  OnlyARestartSkipsConfirmation
  KeepsContract
