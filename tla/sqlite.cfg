SPECIFICATION Spec
CONSTANTS
  Def <- SqliteDef
  Steps = {"pa", "ps", "pb", "pc", "pua", "pub", "kf", "ka", "kk", "kx", "ky", "kb", "kj", "kc", "kua", "ha", "hh", "hc", "hua"}
  Virtual <- MCVirtual
  Instances = {"savepoint", "condition", "human"}
  Start <- MCStart
  DLQEnabled <- MCDLQEnabled
  Workers = {"w1", "w2"}
  StoreKind = "sqlite"
  Handlers <- Everywhere
  CancelKinds <- MCCancelKinds
  PluginRejects = {"savepoint"}
  Together <- MCTogether
  Pool <- MCPool
  MaxQueueIds = 14
  MaxDeadLetters = 0
  MaxCrashes = 1
INVARIANTS SagaUndone QueueSound StepsCreatedOnce JoinAfterBranches CompletedMeansDone
 
CHECK_DEADLOCK FALSE
