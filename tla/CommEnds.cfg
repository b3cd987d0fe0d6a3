CONSTANTS
  a = a
  b = b
  a1 = a1
  a2 = a2
  b1 = b1
  Senders = {a1, a2}
  Commands = {a}
  Sends <- Shared
  Answered = {a}
  NumSlots = 2
  MaxRetry <- OneEach
  MaxMsgs <- TwoOne
  LastGen = 2
  FaultMsgs <- OneEach
  LockFails = TRUE
  None = None
SPECIFICATION FairSpec
PROPERTIES TransactionEnds FaultNoticed
CHECK_DEADLOCK FALSE
