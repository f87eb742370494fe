\* Two requests, two workers, one moderator's page; one open request, the
\* first is premoderated.
CONSTANTS
  q1 = q1
  q2 = q2
  w1 = w1
  w2 = w2
  m1 = m1
  Requests = {q1, q2}
  Workers = {w1, w2}
  Moderators = {m1}
  MaxActive = 1
  Premoderated = 1
  Levels = {1, 2}
  MaxForms = 2
SPECIFICATION Spec
SYMMETRY Symmetry
INVARIANTS
  PublicWasReviewed
  FewOverLimit
