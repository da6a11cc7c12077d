SPECIFICATION Spec
CONSTANTS
  NULL = NULL
  kMemBlockTypeNum = 4
  PoolSize = 10
  Area = 17
  K_END = 2
  Sizes = {1, 2, 3, 8}
  MaxHeld = 4
  Unset = {0, 12}
  Release = "any"
INVARIANT FreeListsCircular
