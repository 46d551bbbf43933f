\* Two workers, three links, an interruption at any moment.
SPECIFICATION Spec
CONSTANTS
  w1 = w1
  w2 = w2
  Workers = {w1, w2}
  Candidates = 3
  Rule <- ThreeRules
INVARIANTS
  CondemnedByGet
PROPERTIES
  Terminates
  OnceSpec
CHECK_DEADLOCK FALSE
