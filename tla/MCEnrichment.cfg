\* Four links of which three have a rule, more than there are workers.
SPECIFICATION Spec
CONSTANTS
  good = good
  unfit = unfit
  NoEntry = NoEntry
  Nothing = Nothing
  Links = {1, 2, 3, 4}
  Ruled = {1, 2, 3}
  Bodies <- MCBodies
  Contents = {good, unfit}
  Publishable = {good}
  Concurrency = 2
  StaleAfter = 1
  MaxEntries = 4
  MaxTime = 1
INVARIANTS
  OnlyAnswers
  PublishedWhole
PROPERTIES
  NothingForgotten
  Ends
