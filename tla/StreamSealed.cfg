SPECIFICATION Spec
CONSTANTS
  Cases <- MCHandoff
  Coalesce = FALSE
  SSTP_HEADER_LEN = 1
  MAX_HEADER_BYTES = 3
  CHUNK = 3
  SndBuf = 1
  MaxKeyUpdates = 1
  MaxTicks = 1
INVARIANTS SealedOnce
CHECK_DEADLOCK FALSE
