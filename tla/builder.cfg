SPECIFICATION Spec
CONSTANTS
  Names <- MCNames
  JoinName <- MCJoinName
  Virtual <- MCVirtual
  MaxCost = 7
  MaxDepth = 3
CHECK_DEADLOCK FALSE
INVARIANTS RollbackReachesRoot JoinsWaitForBranches CyclesFound
