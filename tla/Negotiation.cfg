SPECIFICATION Spec
CONSTANTS
  MAX_CONFIGURE = 3
  MAX_TERMINATE = 2
  Methods = {"Pap", "MsChapV2"}
  LcpWants <- MCLcpWants
  IpcpWants <- MCIpcpWants
  Assigned <- MCAssigned
  Strays <- MCStrays
  Identifiers = 6
  MaxTimeouts = 1
  MaxOdd = 1
INVARIANTS
  SidesAgree
PROPERTIES
  MtuWithinMru
  Converges
CHECK_DEADLOCK FALSE
