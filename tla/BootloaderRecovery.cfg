CONSTANTS
  Payload = 2
  Block = 1
  Avail = 6
  MaxLost = 2
  RetryMax = 2
  IdMod = 5
  SeqMod = 2
  Sizes = {0, 5, 7}
  good = good
  bad = bad
  Data = {good}
  Images <- AnnouncedImages
  Erased = Erased
  Scrap = Scrap
  None = None
SPECIFICATION Spec
INVARIANTS TypeOK LostListExact ReportWatched
PROPERTIES WrittenOnce AbortIsFinal
