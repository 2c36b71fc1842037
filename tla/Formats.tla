------------------------------- MODULE Formats -------------------------------
(***************************************************************************)
(* The formats, none of which has a state: Frame's operators on raw        *)
(* packets, Messages' on the packets of radios and Osc's on the bytes of   *)
(* sensors.  bytes is a raw packet that grows, and a sensor's for osc too; *)
(* packet is one of Samples, and bytes grows along with one of them only.  *)
(***************************************************************************)
EXTENDS Frame, Osc

CONSTANTS Alphabet, MaxRaw,        \* raw packets: their bytes, their length
          Device, Origin, SeqNo,   \* see Messages
          Samples                  \* packets of radios

M == INSTANCE Messages

ASSUME FormatsAssumption == /\ Alphabet \subseteq 0 .. 255
                            /\ MaxRaw \in 0 .. 65535
                            /\ Samples \subseteq M!Packet

VARIABLES bytes, packet

FormatsInit == bytes = <<>> /\ packet \in Samples

Some == CHOOSE p \in Samples : TRUE

Grow == /\ packet = Some
        /\ Len(bytes) < MaxRaw
        /\ \E b \in Alphabet : bytes' = Append(bytes, b)
        /\ UNCHANGED packet

FormatsSpec == FormatsInit /\ [][Grow]_<<bytes, packet>>

-----------------------------------------------------------------------------
\* The frames a radio, and the src command, make of bytes.
Frames == {RadioEncode(bytes), Encode(bytes)}

\* One byte of f is damaged, but not into an escape byte.
Damaged(f) == {[f EXCEPT ![i] = b] : i \in DOMAIN f, b \in Alphabet \ {Esc}}

(* What was framed is found again, byte for byte, whatever bytes it has    *)
(* (packet.c:42-77, 88-130); for frames of src, unless the checksum, which *)
(* it does not escape, is the escape byte.                                 *)
RoundTrip == \A f \in Frames : \/ Complete(f) /\ Payload(f) = bytes
                               \/ f = Encode(bytes) /\ f[Len(f)] = Esc

(* However the bytes of a frame are split over several reads, no proper    *)
(* part of it passes for a frame (packet.c:65, 73-77), so fwd.c may try    *)
(* after each read (fwd.c:117-118).                                        *)
NeverEarly == \A f \in Frames : \A n \in 1 .. Len(f) - 1 : ~Complete(SubSeq(f, 1, n))

(* One damaged byte, of an escape, the length or the sync byte included,   *)
(* makes no other packet out of a frame (packet.c:28-77).  Damage into an  *)
(* escape byte may: it changes two bytes at once, and the sum can come out *)
(* the same.                                                               *)
NoForgery == \A f \in Frames : \A g \in Damaged(f) : Decode(g).raw \in {<<>>, bytes}

(* See Messages: what fwd sends, dst queues (fwd.c:197-219).               *)
Contract == M!DstTakesAll(packet)

(* What osc prints is the payload, byte for byte, and an OSC receiver      *)
(* finds it in what osc sends; osc sends nothing rather than a part        *)
(* (osc.c:142-162, tinyosc.c:148-218).                                     *)
Printed == M!WholePayload(packet) /\ ReadsBack(HexText(bytes))

(* See Messages: a returned request is its source's (src.c:208-235).       *)
Returned == M!SourceTakesItsOwn(packet)
=============================================================================
