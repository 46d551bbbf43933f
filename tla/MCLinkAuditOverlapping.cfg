\* Two runs of the tool that overlap freely.
SPECIFICATION Spec
CONSTANTS
  l1 = l1
  l2 = l2
  r1 = r1
  r2 = r2
  Links = {l1}
  Runs = {r1, r2}
  Answers <- DeadOrNot
  Catalogues <- OneCatalogue
  ConfirmationsRequired = 2
  MaxAudits = 2
INVARIANTS
  CountsAreHonest
  TombstonesProven
SYMMETRY Symmetry
