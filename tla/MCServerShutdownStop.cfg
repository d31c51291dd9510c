SPECIFICATION FairSpec
CONSTANTS
  MaxTasks = 3
  Capacity = 2
  NumAcceptors = 1
  MaxConns = 1
  MaxTimers = 2
  NoTask = NoTask
PROPERTY StopIsSafe
CHECK_DEADLOCK FALSE
