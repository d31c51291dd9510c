SPECIFICATION FairSpec
CONSTANTS
  MaxTasks = 3
  Capacity = 2
  NumAcceptors = 1
  MaxConns = 1
  MaxTimers = 2
  NoTask = NoTask
INVARIANTS RunReturnsAfterStop PollerForgetsFirst
PROPERTY StopCompletes
CHECK_DEADLOCK FALSE
