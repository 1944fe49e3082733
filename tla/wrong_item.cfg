SPECIFICATION Spec
CONSTANTS
  Def <- ForkConditionDef
  Steps = {"kf", "ka", "kk", "kx", "ky", "kb", "kj", "kc", "kua"}
  Virtual <- MCVirtual
  Instances = {"condition", "condition2"}
  Start <- MCStart
  DLQEnabled <- MCDLQEnabled
  Workers = {"w1"}
  StoreKind = "postgres"
  Handlers <- Everywhere
  CancelKinds <- MCCancelKinds
  PluginRejects = {}
  Together <- MCTogether
  Pool <- MCPool
  MaxQueueIds = 20
  MaxDeadLetters = 0
  MaxCrashes = 0
PROPERTIES OtherItemsStay
CHECK_DEADLOCK FALSE
