\* Does the process end once Enter has been pressed?
CONSTANTS
  MaxQueue = 2
  Buf = {b1, b2, b3, b4, b5}
  NULL = NULL
  Nobody = Nobody
  ExitOnSendError = TRUE
SPECIFICATION FairSpec
PROPERTIES
  EnterExits
CHECK_DEADLOCK FALSE
