\* Two reporters, two workers, three reports about an object of each kind.  With
\* the object deleted and no report open nobody has anything to do.
CONSTANTS
  r1 = r1
  r2 = r2
  w1 = w1
  w2 = w2
  Reporters = {r1, r2}
  Workers = {w1, w2}
  MaxReports = 3
CHECK_DEADLOCK FALSE
SPECIFICATION Spec
SYMMETRY Symmetry
INVARIANTS
  ResolvedMeansMeasured
  NoneLeftBehind
PROPERTIES
  KeepsDesk
