\* Everything about the queue on three slots, with a buffer for each slot and each
\* hand: malloc fails when all are used or lost.  All buffers differ: no symmetry.
CONSTANTS
  MaxQueue = 3
  Buf = {b1, b2, b3, b4, b5}
  NULL = NULL
  Nobody = Nobody
  ExitOnSendError = TRUE
SPECIFICATION FairSpec
INVARIANTS TypeOK Integrity NoLostWakeup OrphanedOnlyByStop
PROPERTIES LossOnlyWhenFull ImplementsStack RxServed TxServed StopEnds
\* A thread that ends with the mutex locked stops the process for good.
CHECK_DEADLOCK FALSE
