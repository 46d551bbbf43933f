\* Two tabs that share the database: can the imported copy be booted from?
SPECIFICATION Spec
CONSTANTS
  t1 = t1
  t2 = t2
  v1 = v1
  v2 = v2
  v3 = v3
  c1 = c1
  c2 = c2
  None = None
  Tabs = {t1, t2}
  Versions = {v1, v2}
  Contents = {c1}
INVARIANTS
  ActiveReadable
