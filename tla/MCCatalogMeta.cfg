\* Two requests at a time, three publications of good and broken files.
SPECIFICATION Spec
CONSTANTS
  q1 = q1
  q2 = q2
  good = good
  better = better
  broken = broken
  None = None
  Requests = {q1, q2}
  Contents = {good, better, broken}
  Served = {good, better}
  MaxPublications = 3
INVARIANTS
  CacheTellsTheFile
PROPERTIES
  Answered
  ViewSpec
