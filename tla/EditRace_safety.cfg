\* Two volunteers, up to two needed, the edit view interleaved with everything.
CONSTANTS
  v1 = v1
  v2 = v2
  o = o
  Volunteers = {v1, v2}
  Owner = o
  MaxNeeded = 2
  Premoderated = 1
  Lead = 1
  Duration = 0
  AutoConfirmAfter = 0
  ExpireAfterEnd = 1
SPECIFICATION SteadySpec
SYMMETRY Symmetry
INVARIANTS
  RaceInv
PROPERTIES
  OnlyAStaleFormReopens
