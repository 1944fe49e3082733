SPECIFICATION Spec
CONSTANTS
  Def <- HumanDef
  Steps = {"ha", "hh", "hc", "hua"}
  Virtual <- MCVirtual
  Instances = {"human"}
  Start <- MCStart
  DLQEnabled <- MCDLQEnabled
  Workers = {"w1"}
  StoreKind = "postgres"
  Handlers <- Everywhere
  CancelKinds <- NoCancel
  PluginRejects = {}
  Together <- MCTogether
  Pool <- MCPool
  MaxQueueIds = 9
  MaxDeadLetters = 0
  MaxCrashes = 0
INVARIANTS NotForgotten
CHECK_DEADLOCK FALSE
