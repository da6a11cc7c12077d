SPECIFICATION KSpec
CONSTANTS
  NULL = NULL
  Absent = Absent
  Unset = Unset
  Devices = {32, 33, 46}
  kPdeNum = 5
  kUPdeNum = 2
  kKPdeDirectMappingNum = 2
  Stale <- SmallStale
  GdtLimitAddr = 8192
  LoaderCs = 8
  Keys = {28}
  MaxBytes = 3
INVARIANTS KTypeOK SegmentsRight GatesEnterKernel GateHasHandler OpenIrqHasHandler
  AllAcknowledged AnswersFromController InstalledIsTested RequestHasByte CursorNotBelowStart
PROPERTIES MappedRight ImplementsInterrupts RequestsHandled BytesTaken BootEnds
CHECK_DEADLOCK FALSE
