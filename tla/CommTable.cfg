CONSTANTS
  a = a
  b = b
  a1 = a1
  a2 = a2
  b1 = b1
  Senders = {a1, a2, b1}
  Commands = {a, b}
  Sends <- SharedAndOwn
  Answered = {a}
  NumSlots = 2
  MaxRetry <- OneNone
  MaxMsgs <- TwoOne
  LastGen = 2
  FaultMsgs <- NoneEach
  LockFails = TRUE
  None = None
SPECIFICATION Spec
INVARIANTS OneSenderPerSlot  FramesCurrent ReleasedOnce
CHECK_DEADLOCK FALSE
