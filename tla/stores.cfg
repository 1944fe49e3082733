SPECIFICATION FairSpec
CONSTANTS
  Defs <- MCDefs
  Procs = {"p1", "p2"}
  CachedDefs = {"d1"}
  TTL = 2
  MaxGraph = 2
  Scenarios <- MCScenarios
CHECK_DEADLOCK FALSE
INVARIANTS StoresAgree QueriesAgree PagesCover
PROPERTIES CleanupByAge CacheConverges
