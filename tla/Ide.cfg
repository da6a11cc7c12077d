SPECIFICATION Spec
CONSTANTS
  NULL = NULL
  HEAD = HEAD
  Blocks = {b1, b2}
  Clients = {c1}
  Requests = {r1, r2}
  BlockNums = {1}
  kBlockSize = 2
INVARIANT QueueStoresAll
CHECK_DEADLOCK FALSE
