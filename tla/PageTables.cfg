SPECIFICATION Spec
CONSTANTS
  kPteMaxNum = 8
  kPdeNum = 12
  kUPdeNum = 9
  kKPdeDirectMappingNum = 2
  TableFrames = {13, 14, 15}
  Absent = Absent
  Stale = {Absent}
  Touched = {20}
  MaxDepth = 5
INVARIANT NoFaultWithinItself
CHECK_DEADLOCK FALSE
