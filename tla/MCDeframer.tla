---------------------------- MODULE MCDeframer ----------------------------
EXTENDS Deframer

\* Packets with a byte to be escaped and with the escape byte for a checksum;
\* one too short to be accepted; and the one whose frame has PktError bytes.
SomePackets == {<<144, 17, 2>>, <<144, 240, 2>>, <<16, 5, 6>>, <<144>>}
=============================================================================
