SPECIFICATION Spec
CONSTANTS
  Workers = {w1, w2}
  Nobody = nobody
  Fork = "fork"
  JoinRows <- MCJoinRows
  Inst = "instance"
  JoinState = "joinState"
  NoRow = "none"
  Scenarios <- MCReserveAndShip
CHECK_DEADLOCK FALSE
INVARIANTS NothingLeftCompleted
