CONSTANTS
  Depth = 1
  a = a
  b = b
  Data = {a, b}
  Sizes = {0, 2}
  Images <- Pair
  Chunks <- Units
  Ids = {0, 1}
  Commands <- Everything
  FsFails = FALSE
  PowerCuts = FALSE
  Absent = Absent
  Closed = Closed
  None = None
SPECIFICATION HubSpec
INVARIANTS HubKeepsSession

