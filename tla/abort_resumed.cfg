SPECIFICATION Spec
CONSTANTS
  Def <- ForkDef
  Steps = {"f", "a", "b", "d", "j", "c", "ua", "ub"}
  Virtual <- MCVirtual
  Instances = {"fork"}
  Start <- MCStart
  DLQEnabled <- MCDLQEnabled
  Workers = {"w1", "w2"}
  StoreKind = "postgres"
  Handlers <- Everywhere
  CancelKinds <- AbortsFork
  PluginRejects = {}
  Together <- MCTogether
  Pool <- MCPool
  MaxQueueIds = 20
  MaxDeadLetters = 0
  MaxCrashes = 0
PROPERTIES FinalStays
CHECK_DEADLOCK FALSE
