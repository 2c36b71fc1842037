\* Does every buffer stay reachable until it is sent?
CONSTANTS
  MaxQueue = 2
  Buf = {b1, b2, b3, b4, b5}
  NULL = NULL
  Nobody = Nobody
  ExitOnSendError = TRUE
SPECIFICATION Spec
INVARIANTS
  NothingLost
CHECK_DEADLOCK FALSE
