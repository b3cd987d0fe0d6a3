CONSTANTS
  Payload = 2
  Block = 1
  Avail = 4
  MaxLost = 2
  RetryMax = 2
  IdMod = 4
  SeqMod = 2
  Sizes = {0, 3, 5}
  good = good
  bad = bad
  Data = {good}
  Images <- TwoOnly
  Erased = Erased
  Scrap = Scrap
  None = None
SPECIFICATION Spec
INVARIANTS FlashOpenForWrites
