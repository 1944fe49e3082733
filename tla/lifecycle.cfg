SPECIFICATION FairSpec
CONSTANTS
  Workers = {w1, w2}
  Steps = {"s1", "s2"}
  NoStep = "none"
  Nobody = nobody
  Scenarios <- MCScenarios
  MaxRequests = 1
CHECK_DEADLOCK FALSE
INVARIANTS GracefulShutdown NoItemLost
PROPERTIES ShutdownSettles CancelReachesHandlers
