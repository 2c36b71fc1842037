\* Is every packet in the queue sent some day?
CONSTANTS
  MaxQueue = 2
  Buf = {b1, b2, b3, b4, b5}
  NULL = NULL
  Nobody = Nobody
  ExitOnSendError = TRUE
SPECIFICATION FairSpec
PROPERTIES
  EveryPacketSent
CHECK_DEADLOCK FALSE
