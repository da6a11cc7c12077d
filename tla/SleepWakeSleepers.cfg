SPECIFICATION SleepSpec
CONSTANTS
  NULL = NULL
  FREE = FREE
  WAIT = WAIT
  BLOCK = BLOCK
  KLIST = KLIST
  N = 2
  kTimerReset = 2
INVARIANT SleepersDoNotRun
CHECK_DEADLOCK FALSE
