\* Three frames and a byte of noise, cut into reads at every place; a buffer that
\* overflows; five bytes are here what the 255 of PKT_ERROR are in the code.
CONSTANTS
  RxMin = 3
  TxMin = 4
  UartMaxLen = 12
  PktError = 5
  Packets <- SomePackets
  NoiseBytes = {0, 126}
  MaxFrames = 3
  MaxNoise = 1
SPECIFICATION Spec
INVARIANTS TypeOK NoneLost Contiguous GivesUpAtPktError
PROPERTIES FrameTaken
\* The line falls silent after MaxFrames frames.
CHECK_DEADLOCK FALSE
