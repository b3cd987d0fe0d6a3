CONSTANTS
  NumSources = 2
  MaxVolume = 1
  QueueSize = 1
  LookupFails = TRUE
  None = None
SPECIFICATION FairSpec
INVARIANTS NothingLeftBehind
PROPERTIES MutesOnlySilent SelectNeedsTwoPresses RequestServed UnmuteServed
