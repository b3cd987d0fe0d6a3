CONSTANTS
  NumSources = 2
  MaxVolume = 1
  main = main
  work = work
  Threads = {main, work}
  Allowed <- AllCalls
  Timeouts = TRUE
  ReadFaults = FALSE
  LateErrors = FALSE
  NoThread = NoThread
SPECIFICATION AudioSpec
INVARIANTS TypeOK OneSelectedInRam OneSelectedOnFlash RamMatchesFlash SavedIsKept NoCircularWait
