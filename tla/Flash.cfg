CONSTANTS
  PageSize = 2
  SectorSize = 2
  DeviceSize = 4
  ReadSize = 3
  Requests <- FewRequests
  None = None
SPECIFICATION FairSpec
INVARIANTS SuccessIsTrue
PROPERTIES OnlyRangeTouched OperationsReturn
CHECK_DEADLOCK FALSE
