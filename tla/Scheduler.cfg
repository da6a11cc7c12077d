SPECIFICATION Spec
CONSTANTS
  NULL = NULL
  FREE = FREE
  WAIT = WAIT
  BLOCK = BLOCK
  KLIST = KLIST
  N = 5
  kTimerReset = 15
INVARIANTS TypeOK WaitQueueInv FreeListInv OwnStack
PROPERTIES ImplementsRoundRobin EveryThreadRuns
