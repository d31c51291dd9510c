SPECIFICATION Spec
CONSTANTS
  Testers = {t1, t2, t3}  Increments = 2
  NULL = NULL
INVARIANT MCSCounterExact
CHECK_DEADLOCK FALSE
