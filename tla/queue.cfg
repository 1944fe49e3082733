SPECIFICATION FairSpec
CONSTANTS
  Workers = {a, b}
  Remote = b
  Nobody = nobody
  Priorities = {0, 2}
  Delays = {0, 1}
  Cap = 2
  Cooldown = 1
  Jitter = 1
  Width = 3
  BaseDelay = 1
  MaxRetries = 4
  OnFailureDelay = 1
  Scenarios <- MCScenarios
CHECK_DEADLOCK FALSE
PROPERTIES NoStarvation NotOvertaken BackoffHolds
