\* One tab or two, three versions, two contents; eight catalogues of three entries.
SPECIFICATION WorkerSpec
CONSTANTS
  t1 = t1
  t2 = t2
  v1 = v1
  v2 = v2
  v3 = v3
  c1 = c1
  c2 = c2
  None = None
  Null = Null
  Tabs = {t1, t2}
  Versions = {v1, v2, v3}
  Contents = {c1, c2}
  Names <- MCNames
  Normal <- MCNormal
  Service = "service"
  Catalogs <- MCCatalogs
  Queries <- MCQueries
  Hits <- MCHits
  Near <- MCNear
  Long = {"typo"}
  Batch = 2
INVARIANTS
  RecordsPaired
  SearchesTheCopy
  NothingStale
  FacetsTellTheTotals
  EveryMatchOnce
PROPERTIES
  CopySpec
SYMMETRY Symmetry
