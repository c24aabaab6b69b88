SPECIFICATION Spec
CONSTANTS
  Cases <- MCHandoff
  Coalesce = TRUE
  SSTP_HEADER_LEN = 1
  MAX_HEADER_BYTES = 3
  CHUNK = 3
  SndBuf = 1
  MaxKeyUpdates = 1
  MaxTicks = 1
INVARIANTS NothingLost
CHECK_DEADLOCK FALSE
