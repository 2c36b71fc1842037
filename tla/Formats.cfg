\* Raw packets of up to four bytes; the alphabet has the special bytes, their
\* escaped forms, the packet types, and sums that make the checksum special.
\* Payload sizes around every threshold, with and without the magic number.
\* The OSC buffer is scaled so that three bytes fit and four do not.
CONSTANTS
  RxMin = 1
  TxMin = 2
  Alphabet = {0, 3, 4, 16, 17, 61, 93, 125, 126, 144}
  MaxRaw = 4
  Device <- Devices
  Origin <- Origins
  SeqNo <- Seqs
  Address <- Letters
  BufLen = 44
  Samples <- SizedPackets
SPECIFICATION FormatsSpec
INVARIANTS RoundTrip NeverEarly NoForgery Contract Printed Returned
\* The raw packet does not grow for ever.
CHECK_DEADLOCK FALSE
