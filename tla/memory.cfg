SPECIFICATION FairSpec
CONSTANTS
  Def <- MemoryDef
  Steps = {"sa", "sb", "sc", "sua", "sub", "ta", "tb", "tua", "f", "a", "b", "d", "j", "c", "ua", "ub", "gf", "ga", "gb", "gd", "gj", "gp", "gx", "gy", "gk"}
  Virtual <- MCVirtual
  Instances = {"saga", "short1", "short2", "fork", "any"}
  Start <- MCStart
  DLQEnabled <- MCDLQEnabled
  Workers = {"w1", "w2"}
  StoreKind = "memory"
  Handlers <- Distributed
  CancelKinds <- MCCancelKinds
  PluginRejects = {}
  Together <- MCTogether
  Pool <- MCPool
  MaxQueueIds = 20
  MaxDeadLetters = 0
  MaxCrashes = 0
INVARIANTS TypeOK  CompensationsBounded SagaUndone CompletedMeansDone StepsCreatedOnce
PROPERTIES FinalStays NothingAfterStop Terminates OtherItemsStay
CHECK_DEADLOCK FALSE
