CONSTANTS
  NumSources = 2
  MaxVolume = 0
  main = main
  work = work
  Threads = {main, work}
  Allowed <- UiCalls
  Timeouts = FALSE
  ReadFaults = TRUE
  LateErrors = TRUE
  NoThread = NoThread
SPECIFICATION FairSpec
PROPERTIES CallsReturn
