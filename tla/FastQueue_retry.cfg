SPECIFICATION Spec
CONSTANTS
  a = a  b = b  c = c  d = d
  Ids = {a, b, c}
  SizeOf <- Sizes
  RamMaxMessages = 2
  RamMaxBytes = 4
  Watermark = 75
  SpillBatchMessages = 2
  SpillBatchBytes = 2
  MaxRamAge = FALSE
  DisconnectGrace = TRUE
  MaxFailures = 2
CHECK_DEADLOCK FALSE
INVARIANT RetryArmed
