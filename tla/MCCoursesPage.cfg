\* Two queries, two copies, three calls at the same time.
SPECIFICATION Spec
CONSTANTS
  go = go
  rust = rust
  monday = monday
  tuesday = tuesday
  None = None
  Queries = {go, rust}
  Copies = {monday, tuesday}
  Hits <- TwoDays
  MaxCalls = 3
  MaxFetches = 1
INVARIANTS
  OneSearch
  BatchesInOrder
  ListAnswers
PROPERTIES
  Settles
