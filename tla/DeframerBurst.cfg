\* Is every packet queued when frames follow each other without a pause?
CONSTANTS
  RxMin = 3
  TxMin = 4
  UartMaxLen = 12
  PktError = 5
  Packets <- SomePackets
  NoiseBytes = {0, 126}
  MaxFrames = 2
  MaxNoise = 0
SPECIFICATION Spec
INVARIANTS BurstTaken
CHECK_DEADLOCK FALSE
