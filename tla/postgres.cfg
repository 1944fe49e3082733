SPECIFICATION Spec
CONSTANTS
  Def <- PostgresDef
  Steps = {"sa", "sb", "sc", "sua", "sub", "f", "a", "b", "d", "j", "c", "ua", "ub"}
  Virtual <- MCVirtual
  Instances = {"saga", "fork"}
  Start <- MCStart
  DLQEnabled <- MCDLQEnabled
  Workers = {"w1", "w2"}
  StoreKind = "postgres"
  Handlers <- Everywhere
  CancelKinds <- MCCancelKinds
  PluginRejects = {}
  Together <- MCTogether
  Pool <- MCPool
  MaxQueueIds = 12
  MaxDeadLetters = 1
  MaxCrashes = 1
INVARIANTS Inv ExclusiveClaims JoinAfterBranches NotForgotten DeadLetterKept OneExecutionPerStep
CHECK_DEADLOCK FALSE
