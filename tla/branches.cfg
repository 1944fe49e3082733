SPECIFICATION FairSpec
CONSTANTS
  Workers = {w1, w2}
  Nobody = nobody
  Fork = "fork"
  JoinRows <- MCJoinRows
  Inst = "instance"
  JoinState = "joinState"
  NoRow = "none"
  Scenarios <- MCScenarios
CHECK_DEADLOCK FALSE
INVARIANTS UndoneOrSkipped
PROPERTIES ImplementsForkJoin Settles
