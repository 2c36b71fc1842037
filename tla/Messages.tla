------------------------------ MODULE Messages ------------------------------
(***************************************************************************)
(* The packets fwd takes from its radio, the messages it makes of them     *)
(* (fwd.c:190-219), and what dst, src and osc demand of a message before   *)
(* they use it.  A payload is its size, whether it begins with the magic   *)
(* number of a relay request, and that request; no other byte of it is     *)
(* looked at on the way.  Sizes are those of the packed C structures.      *)
(***************************************************************************)
EXTENDS Integers

CONSTANTS Device,   \* addresses of radios
          Origin,   \* <<address, port>> pairs that can be in a request
          SeqNo     \* sequence numbers

-----------------------------------------------------------------------------
RxPktSize   == 14     \* rx_pkt_t
TxPktSize   == 16     \* tx_pkt_t
MsgHdrSize  == 3      \* msg_hdr_t and msg_t
PktMsgSize  == 11     \* pkt_msg_t
RelaySize   == 34     \* relay_msg_t
RequestSize == 27     \* relay_pkt_data_t
UartMaxLen  == 2048   \* UART_MAX_LEN

Relay == [origin : Origin, seq : SeqNo]

Payload == [size : 0 .. UartMaxLen - RxPktSize, magic : BOOLEAN, relay : Relay]

(* What pkt_decode lets through: a received packet with its header, or a   *)
(* transmit request, which no radio sends to its host.                     *)
Packet == {p \in [type : {"rx", "tx"}, len : RxPktSize .. UartMaxLen,
                  src : Device, payload : Payload] :
              IF p.type = "rx" THEN p.len = RxPktSize + p.payload.size
                               ELSE p.len >= TxPktSize}

U16(n) == n % 65536

-----------------------------------------------------------------------------
(* fwd. *)

\* What tx does not skip.
Forwarded(p) == p.type = "rx"

\* Faulty variant: the magic number alone makes a request.
IsRequest_AnySize(p) == p.payload.magic

IsRequest(p) == /\ U16(p.len - RxPktSize) >= RequestSize
                /\ p.payload.magic

\* Faulty variant: the magic number taken off the payload stays counted.
MessageLen_Magic(p) == IF IsRequest(p)
                       THEN U16(RelaySize + U16(p.len - RxPktSize))
                       ELSE U16(PktMsgSize + U16(p.len - RxPktSize))

MessageLen(p) == IF IsRequest(p)
                 THEN U16(RelaySize + U16(p.len - RxPktSize) - RequestSize)
                 ELSE U16(PktMsgSize + U16(p.len - RxPktSize))

(* The message for p.  It goes out with as many bytes as its length field  *)
(* says; data is how many of them are copied from the payload.             *)
Message(p) == [type |-> IF IsRequest(p) THEN "relay" ELSE "pkt",
               len  |-> MessageLen(p),
               src  |-> p.src,
               data |-> p.payload.size - (IF IsRequest(p) THEN RequestSize ELSE 0),
               relay |-> p.payload.relay]

-----------------------------------------------------------------------------
(* The receivers.  size is what recvfrom returned. *)

DstAccepts(m, size) == /\ size >= MsgHdrSize
                       /\ size = m.len
                       /\ CASE m.type = "pkt"   -> m.len >= PktMsgSize
                            [] m.type = "relay" -> m.len >= RelaySize
                            [] OTHER -> FALSE

\* dst returns a message only to a real address.
Returnable(o) == o[1] # 0 /\ o[2] # 0

SrcAccepts(m, size, own) == /\ size >= RelaySize
                            /\ size = m.len
                            /\ m.type = "relay"
                            /\ m.relay.origin = own

\* Faulty variant: the header counts as data.
OscBytes_Whole(m) == m.len - MsgHdrSize

\* osc prints only packet messages, and so many bytes of them.
OscTakes(m) == m.type = "pkt"
OscBytes(m) == m.len - PktMsgSize

-----------------------------------------------------------------------------
(* The contract between the programs.  p is a packet fwd forwards. *)

(* The length fwd writes is the length of what it copies, and it fits the  *)
(* receiver's buffer and the structure of its type; so dst, which checks   *)
(* both, queues every message fwd sends (fwd.c:197-219, dst.c:118-147).    *)
DstTakesAll(p) == LET m == Message(p)
                  IN  Forwarded(p) => /\ DstAccepts(m, m.len)
                                      /\ m.len <= UartMaxLen
                                      /\ m.len = m.data + (IF m.type = "pkt"
                                                           THEN PktMsgSize ELSE RelaySize)

(* osc prints every byte of the radio's payload and nothing that follows   *)
(* it in memory (fwd.c:217-219, dst.c:296, osc.c:152-157).                 *)
WholePayload(p) == LET m == Message(p)
                   IN  Forwarded(p) /\ OscTakes(m) => OscBytes(m) = p.payload.size

(* A request sent back unchanged is one its own source counts; a payload   *)
(* too short to hold a request is never taken for one (fwd.c:202-214,      *)
(* dst.c:278, src.c:208-235).                                              *)
SourceTakesItsOwn(p) == LET m == Message(p)
                        IN  Forwarded(p) /\ m.type = "relay" =>
                              /\ p.payload.size >= RequestSize
                              /\ SrcAccepts(m, m.len, p.payload.relay.origin)
=============================================================================
