SPECIFICATION LibrarySpec
CONSTANTS
  NULL = NULL
  HEAD = HEAD
  Nodes = {n1, n2, n3, n4, n5}
  LINES = 2
  COLUMNS = 4
  IntMax = 15
  Strings <- SmallStrings
  Pads = {0, 2, 5}
  MaxCalls = 2
INVARIANTS QueueInv CursorOnScreen NumberReads TextOnScreen
PROPERTY ImplementsFifo
