SPECIFICATION Spec
CONSTANTS
  NULL = NULL
  kMemBlockTypeNum = 4
  PoolSize = 10
  Area = 17
  K_END = 2
  Sizes = {1, 2, 3, 8}
  MaxHeld = 4
  Unset = {0}
  Release = "lone"
INVARIANTS Tiling ListsSorted BlocksConserved HeldIsAllocated BlocksAligned
  RefusesOnlyWhenFull PoolSuffices
PROPERTY ImplementsBlockPool
\* Users that hold MaxHeld areas and may release none of them call no more.
CHECK_DEADLOCK FALSE
