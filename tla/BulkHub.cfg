CONSTANTS
  Depth = 1
  a = a
  b = b
  Data = {a, b}
  Sizes = {0, 2, 3}
  Images <- Whole
  Chunks <- Pieces
  Ids = {0, 1, 2, 3}
  Commands <- Everything
  FsFails = TRUE
  PowerCuts = TRUE
  Absent = Absent
  Closed = Closed
  None = None
SPECIFICATION HubFairSpec
INVARIANTS TypeOK AcknowledgedIsStored LeftClean WorkerBelongs InOrder EndAckTruthful
PROPERTIES ErrorSticks TransferEnds CallsReturn
