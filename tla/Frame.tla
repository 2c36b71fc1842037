------------------------------- MODULE Frame -------------------------------
(***************************************************************************)
(* XBee API frames (packet.c): sync byte, two length bytes, the packet,    *)
(* one checksum byte, with four byte values escaped on the wire.           *)
(*                                                                         *)
(* A raw packet is what pkt_hdr_t calls raw: the type byte and what        *)
(* follows it, without the length field.                                   *)
(***************************************************************************)
EXTENDS Integers, SequencesExt

CONSTANTS RxMin,   \* sizeof(rx_pkt_t) less the length field: 12
          TxMin    \* sizeof(tx_pkt_t) less the length field: 14

ASSUME FrameAssumption == RxMin \in Nat \ {0} /\ TxMin \in Nat \ {0}

Sync == 126
Esc  == 125
XOn  == 17
XOff == 19

RxInd == 144   \* PKT_TYPE_RX_IND
TxReq == 16    \* PKT_TYPE_TX_REQ

FrameLenMin == 4

NeedsEscape(b) == b \in {Sync, Esc, XOn, XOff}

\* b ^ FRAME_BYTE_ESC_XOR
Flip(b) == IF (b \div 32) % 2 = 1 THEN b - 32 ELSE b + 32

Sum8(s) == FoldLeft(LAMBDA x, b : (x + b) % 256, 0, s)

-----------------------------------------------------------------------------
(* Encoding. *)

\* Faulty variant: the escape byte itself is sent as it is.
Escaped_NotEsc(b) == IF NeedsEscape(b) /\ b # Esc THEN <<Esc, Flip(b)>> ELSE <<b>>

Escaped(b) == IF NeedsEscape(b) THEN <<Esc, Flip(b)>> ELSE <<b>>

Stuffed(s) == FoldLeft(LAMBDA x, b : x \o Escaped(b), <<>>, s)

\* The two length bytes and the packet, as they are before escaping.
Body(raw) == <<Len(raw) \div 256, Len(raw) % 256>> \o raw

\* frame_encode: the checksum is the one byte it never escapes.
Encode(raw) == <<Sync>> \o Stuffed(Body(raw)) \o <<255 - Sum8(raw)>>

\* An XBee in API mode 2 escapes the checksum as well.
RadioEncode(raw) == <<Sync>> \o Stuffed(Body(raw) \o <<255 - Sum8(raw)>>)

-----------------------------------------------------------------------------
(* Decoding. *)

\* One byte b more, after an escape byte if x.esc.
Undo(x, b) == IF x.esc        THEN [out |-> Append(x.out, Flip(b)), esc |-> FALSE]
              ELSE IF b = Esc THEN [out |-> x.out, esc |-> TRUE]
              ELSE                 [out |-> Append(x.out, b), esc |-> FALSE]

\* Undo the escapes of s; esc: s ends inside an escape.
Unstuff(s) == FoldLeft(Undo, [out |-> <<>>, esc |-> FALSE], s)

\* Faulty variants of the next definition: the length bytes are not compared;
\* the checksum is not.
Complete_AnyLength(s) ==
  LET u == Unstuff(Tail(s))
      n == Len(u.out) - 3
  IN  ~u.esc /\ n >= 0 /\ u.out[n + 3] = 255 - Sum8(SubSeq(u.out, 3, n + 2))
Complete_NoChecksum(s) ==
  LET u == Unstuff(Tail(s))
      n == Len(u.out) - 3
  IN  ~u.esc /\ n >= 0 /\ u.out[1] * 256 + u.out[2] = n

(* The bytes s, from a sync byte on, are exactly one frame: frame_decode   *)
(* looks at all of them, and bytes after a frame make it fail.             *)
Complete(s) ==
  LET u == Unstuff(Tail(s))
      n == Len(u.out) - 3
  IN  /\ ~u.esc
      /\ n >= 0
      /\ u.out[1] * 256 + u.out[2] = n
      /\ u.out[n + 3] = 255 - Sum8(SubSeq(u.out, 3, n + 2))

\* The packet of a complete frame.
Payload(s) == LET u == Unstuff(Tail(s)).out IN SubSeq(u, 3, Len(u) - 1)

(* pkt_decode takes the two types the program knows, if they have all      *)
(* their fixed fields; <<>> stands for no packet (hdr.len = 0).            *)
Accepted(raw) == \/ raw # <<>> /\ raw[1] = RxInd /\ Len(raw) >= RxMin
                 \/ raw # <<>> /\ raw[1] = TxReq /\ Len(raw) >= TxMin

(* pkt_decode on the bytes buf: used is its result, the number of bytes    *)
(* the caller is to drop; raw the packet it found; buf the bytes after it. *)
(* Bytes before the first sync byte are overwritten by moving what follows *)
(* to the front, within the caller's buffer and without telling it: the    *)
(* caller's last bytes are then there twice, and are not part of used.     *)
Decode(buf) ==
  LET at   == SelectInSeq(buf, LAMBDA b : b = Sync)
      src  == SubSeq(buf, at, Len(buf))
      left == src \o SubSeq(buf, Len(src) + 1, Len(buf))
  IN  IF Len(buf) < FrameLenMin THEN [used |-> 0, raw |-> <<>>, buf |-> buf]
      ELSE IF at = 0            THEN [used |-> Len(buf), raw |-> <<>>, buf |-> buf]
      ELSE IF Complete(src)
           THEN [used |-> Len(src), buf |-> left,
                 raw |-> IF Accepted(Payload(src)) THEN Payload(src) ELSE <<>>]
           ELSE [used |-> 0, raw |-> <<>>, buf |-> left]
=============================================================================
