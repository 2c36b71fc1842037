--------------------------- MODULE MessagesProofs ---------------------------
(***************************************************************************)
(* The contract between fwd, dst, src and osc for every packet there is:   *)
(* all addresses, and payloads of every size that fits a buffer.           *)
(***************************************************************************)
EXTENDS Messages, TLAPS

Size(p) == p.payload.size

(* The sizes involved are far from the 16 bits they are computed in. *)
LEMMA Lengths ==
    ASSUME NEW p \in Packet, Forwarded(p)
    PROVE  /\ Size(p) \in 0 .. 2034
           /\ IsRequest(p) => Size(p) >= 27
           /\ IsRequest(p) => MessageLen(p) = Size(p) + 7
           /\ ~IsRequest(p) => MessageLen(p) = Size(p) + 11
<1>1. Size(p) \in 0 .. 2034
  <2>1. Size(p) \in 0 .. UartMaxLen - RxPktSize
    BY DEF Packet, Payload, Size
  <2>2. UartMaxLen - RxPktSize = 2034
    BY DEF UartMaxLen, RxPktSize
  <2> QED
    BY <2>1, <2>2
<1>2. p.len = 14 + Size(p)
  BY DEF Packet, Forwarded, RxPktSize, Size
<1>3. p.len - 14 = Size(p)
  BY <1>1, <1>2
<1>4. /\ Size(p) % 65536 = Size(p)
      /\ (34 + Size(p) - 27) % 65536 = Size(p) + 7
      /\ (11 + Size(p)) % 65536 = Size(p) + 11
  BY SMTT(40), <1>1
<1>5. U16(p.len - RxPktSize) = Size(p)
  BY <1>3, <1>4 DEF U16, RxPktSize
<1>6. IsRequest(p) => Size(p) >= 27
  BY <1>5 DEF IsRequest, RequestSize
<1>7. IsRequest(p) => MessageLen(p) = U16(34 + Size(p) - 27)
  BY <1>5 DEF MessageLen, RelaySize, RequestSize
<1>8. ~IsRequest(p) => MessageLen(p) = U16(11 + Size(p))
  BY <1>5 DEF MessageLen, PktMsgSize
<1>9. U16(34 + Size(p) - 27) = Size(p) + 7 /\ U16(11 + Size(p)) = Size(p) + 11
  BY <1>4 DEF U16
<1> QED
  BY <1>1, <1>6, <1>7, <1>8, <1>9

(* Whatever fwd makes of a packet, dst accepts, and the length it carries  *)
(* is that of what was copied (fwd.c:197-219, dst.c:118-147).              *)
THEOREM DstAlwaysTakes == \A p \in Packet : DstTakesAll(p)
<1> SUFFICES ASSUME NEW p \in Packet, Forwarded(p) PROVE DstTakesAll(p)
  BY DEF DstTakesAll
<1> DEFINE m == Message(p)
<1>1. PICK n \in 0 .. 2034 : n = Size(p)
  BY Lengths
<1>2. CASE IsRequest(p)
  <2>1. m.type = "relay" /\ m.len = n + 7 /\ m.data = n - 27 /\ n >= 27
    BY <1>1, <1>2, Lengths DEF Message, RequestSize, Size
  <2>2. /\ n + 7 >= 3 /\ n + 7 >= 34 /\ n + 7 <= 2048
        /\ n + 7 = (n - 27) + 34
    BY <2>1
  <2> HIDE DEF m
  <2>3. DstAccepts(m, m.len)
    BY <2>1, <2>2 DEF DstAccepts, MsgHdrSize, RelaySize
  <2>4. m.len <= UartMaxLen /\ m.len = m.data + RelaySize /\ m.type # "pkt"
    BY <2>1, <2>2 DEF UartMaxLen, RelaySize
  <2> QED
    BY <2>3, <2>4 DEF DstTakesAll, m
<1>3. CASE ~IsRequest(p)
  <2>1. m.type = "pkt" /\ m.len = n + 11 /\ m.data = n - 0
    BY <1>1, <1>3, Lengths DEF Message, Size
  <2>2. /\ n + 11 >= 3 /\ n + 11 >= 11 /\ n + 11 <= 2048
        /\ n + 11 = (n - 0) + 11
    OBVIOUS
  <2> HIDE DEF m
  <2>3. DstAccepts(m, m.len)
    BY <2>1, <2>2 DEF DstAccepts, MsgHdrSize, PktMsgSize
  <2>4. m.len <= UartMaxLen /\ m.len = m.data + PktMsgSize
    BY <2>1, <2>2 DEF UartMaxLen, PktMsgSize
  <2> QED
    BY <2>1, <2>3, <2>4 DEF DstTakesAll, m
<1> QED
  BY <1>2, <1>3

(* osc prints the payload of a packet to its last byte (osc.c:152-157).    *)
THEOREM OscPrintsAll == \A p \in Packet : WholePayload(p)
<1> SUFFICES ASSUME NEW p \in Packet, Forwarded(p), OscTakes(Message(p))
             PROVE  OscBytes(Message(p)) = p.payload.size
  BY DEF WholePayload
<1>1. ~IsRequest(p)
  BY DEF OscTakes, Message
<1>2. OscBytes(Message(p)) = (Size(p) + 11) - 11
  BY <1>1, Lengths DEF Message, OscBytes, PktMsgSize
<1>3. (Size(p) + 11) - 11 = Size(p)
  BY Lengths
<1> QED
  BY <1>2, <1>3 DEF Size

(* A request that comes back is one its source accepts (src.c:208-235).    *)
THEOREM SourceAlwaysTakes == \A p \in Packet : SourceTakesItsOwn(p)
<1> SUFFICES ASSUME NEW p \in Packet, Forwarded(p), Message(p).type = "relay"
             PROVE  /\ p.payload.size >= RequestSize
                    /\ SrcAccepts(Message(p), Message(p).len, p.payload.relay.origin)
  BY DEF SourceTakesItsOwn
<1>1. IsRequest(p)
  BY DEF Message
<1>2. /\ Message(p).len = Size(p) + 7
      /\ Message(p).relay.origin = p.payload.relay.origin
  BY <1>1, Lengths DEF Message
<1>3. Size(p) >= 27 /\ Size(p) + 7 >= 34
  BY <1>1, Lengths
<1>4. p.payload.size >= RequestSize
  BY <1>3 DEF Size, RequestSize
<1> QED
  BY <1>2, <1>3, <1>4 DEF SrcAccepts, RelaySize
=============================================================================
