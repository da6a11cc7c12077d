SPECIFICATION Spec
CONSTANTS
  kProcInitNum = 16
  kUPdeNum = 3
  kPdeNum = 4
PROPERTY RuntimeConstants
CHECK_DEADLOCK FALSE
