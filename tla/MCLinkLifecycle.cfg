\* Two links, one run of the audit at a time and one build.
SPECIFICATION LifecycleSpec
CONSTANTS
  l1 = l1
  l2 = l2
  r1 = r1
  Links = {l1, l2}
  Runs = {r1}
  Answers <- AnyAnswer
  Catalogues <- AnyCatalogue
  ConfirmationsRequired = 2
  MaxAudits = 3
INVARIANTS
  AllOrNothing
  NothingOverdue
PROPERTIES
  LedgerSpec
  NoResurrection
SYMMETRY Symmetry
