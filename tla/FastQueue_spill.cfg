SPECIFICATION FairSpec
CONSTANTS
  a = a  b = b  c = c  d = d
  Ids = {a, b, c, d}
  SizeOf <- Sizes
  RamMaxMessages = 3
  RamMaxBytes = 3
  Watermark = 75
  SpillBatchMessages = 2
  SpillBatchBytes = 2
  MaxRamAge = TRUE
  DisconnectGrace = TRUE
  MaxFailures = 2
CHECK_DEADLOCK FALSE
INVARIANT TypeOK
INVARIANT QueueShape
INVARIANT NothingForgotten
INVARIANT RamBounded
PROPERTY CleanStop
PROPERTY RamAges
