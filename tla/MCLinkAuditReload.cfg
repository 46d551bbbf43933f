\* One run at a time: can the next run load what this one published?
SPECIFICATION Spec
CONSTANTS
  l1 = l1
  l2 = l2
  r1 = r1
  r2 = r2
  Links = {l1}
  Runs = {r1}
  Answers <- AnyAnswer
  Catalogues <- OneCatalogue
  ConfirmationsRequired = 2
  MaxAudits = 2
INVARIANTS
  ReportLoads
