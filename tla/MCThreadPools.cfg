CONSTANTS
  NumWorkers = 3
  Tasks = {t1, t2, t3}
  NULL = NULL
SPECIFICATION PoolsSpec
INVARIANTS
  TypeOK
  FreeListExact
  PriorTasksServed
  NoUseAfterDestroy
  NormalWakeupsSuffice
PROPERTIES
  ImplementsThreadPool
  StopTerminates
  AcceptedTasksRun
  NormalImplementsThreadPool
  NormalAcceptedTasksRun
