CONSTANTS
  Payload = 2
  Block = 1
  Avail = 4
  MaxLost = 2
  RetryMax = 1
  IdMod = 4
  SeqMod = 2
  Sizes = {3}
  good = good
  bad = bad
  Data = {good, bad}
  Images <- TwoOnly
  Erased = Erased
  Scrap = Scrap
  None = None
SPECIFICATION FairSpec
INVARIANTS UpgradeOnlyIntact EndAnswerTruthful
PROPERTIES ImplementsUpdate SilentHostEndsSession MessagesAnswered
