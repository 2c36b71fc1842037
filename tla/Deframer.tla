------------------------------ MODULE Deframer ------------------------------
(***************************************************************************)
(* The rx thread of fwd.c from the serial line to the packet it queues: it *)
(* reads what the line has, appends it to a buffer and tries to decode the *)
(* whole buffer as one frame.                                              *)
(*                                                                         *)
(* The line is a sequence of bytes: a radio (or the src command on the     *)
(* other side of a serial cable) writes whole frames, noise adds single    *)
(* bytes, and a read takes any number of bytes the buffer has room for.    *)
(***************************************************************************)
EXTENDS Frame

CONSTANTS UartMaxLen,   \* size of the buffer: 2048
          PktError,     \* PKT_ERROR, a number of bytes as well: 255
          Packets,      \* raw packets that may be framed; their frames fit the buffer
          NoiseBytes,   \* bytes that may come from nowhere
          MaxFrames,    \* bound on the frames written
          MaxNoise      \* bound on the bytes of noise

ASSUME DeframerAssumption == /\ UartMaxLen \in Nat \ {0}
                             /\ PktError \in Nat \ {0}
                             /\ Packets \subseteq Seq(0 .. 255)
                             /\ \A raw \in Packets : /\ Len(raw) < 65536
                                                     /\ Len(RadioEncode(raw)) <= UartMaxLen
                             /\ NoiseBytes \subseteq 0 .. 255
                             /\ MaxFrames \in Nat
                             /\ MaxNoise \in Nat

VARIABLES wire,   \* bytes on the line, not read yet
          buf,    \* the first len bytes of the thread's buffer
          rx,     \* has the thread returned, and why?
          sent,   \* packets written to the line
          noise,  \* bytes of noise so far
          calm,   \* no noise yet, and each frame read before the next one came
          seen,   \* all bytes read since the buffer was last empty
          got     \* packets that went on to the queue

vars == <<wire, buf, rx, sent, noise, calm, seen, got>>

TypeOK == /\ wire \in Seq(0 .. 255)
          /\ buf \in Seq(0 .. 255) /\ Len(buf) <= UartMaxLen
          /\ rx \in {"running", "hungup", "gaveup"}
          /\ sent \in Seq(Packets) /\ Len(sent) <= MaxFrames
          /\ noise \in 0 .. MaxNoise
          /\ calm \in BOOLEAN
          /\ seen \in Seq(0 .. 255)
          /\ got \in Seq(Seq(0 .. 255))

Init == /\ wire = <<>>
        /\ buf = <<>>
        /\ rx = "running"
        /\ sent = <<>>
        /\ noise = 0
        /\ calm = TRUE
        /\ seen = <<>>
        /\ got = <<>>

Write == /\ Len(sent) < MaxFrames
         /\ \E raw \in Packets : /\ wire' = wire \o RadioEncode(raw)
                                 /\ sent' = Append(sent, raw)
         /\ calm' = (calm /\ wire = <<>>)
         /\ UNCHANGED <<buf, rx, noise, seen, got>>

Noise == /\ noise < MaxNoise
         /\ \E b \in NoiseBytes : wire' = Append(wire, b)
         /\ noise' = noise + 1
         /\ calm' = FALSE
         /\ UNCHANGED <<buf, rx, sent, seen, got>>

\* A full buffer is thrown away.
Start == IF Len(buf) >= UartMaxLen THEN <<>> ELSE buf

\* What was read since the buffer was last empty; an overflow empties it.
FromEmpty == IF Len(buf) >= UartMaxLen THEN <<>> ELSE seen

\* Faulty variant: the bytes already there are not subtracted.
Room_Whole == UartMaxLen

Room == UartMaxLen - Len(Start)

\* Faulty variants: the decoder gets the new bytes only, or gets them first.
Input_Fresh(chunk)  == chunk
Input_Before(chunk) == chunk \o Start

Input(chunk) == Start \o chunk

\* Faulty variant: whatever was decoded, the buffer is emptied.
Rest_Emptied(d) == <<>>

\* What is left when the bytes the decoder used are dropped.
Rest(d) == SubSeq(d.buf, d.used + 1, Len(d.buf))

\* Faulty variant: any number of bytes from the error value on is taken for it.
Failed_AtLeast(d) == d.used >= PktError

\* The error value is a possible number of used bytes, and taken for the error then.
Failed(d) == d.used = PktError

(* One turn of the loop: n bytes are read, appended and decoded; PKT_ERROR *)
(* ends the thread, a packet is queued.                                    *)
Read == /\ rx = "running"
        /\ \E n \in 1 .. Len(wire) :
             LET chunk == SubSeq(wire, 1, n)
                 d     == Decode(Input(chunk))
                 fail  == Failed(d)
             IN  /\ n <= Room
                 /\ wire' = SubSeq(wire, n + 1, Len(wire))
                 /\ rx'   = IF fail THEN "gaveup" ELSE "running"
                 /\ buf'  = IF fail THEN d.buf ELSE Rest(d)
                 /\ seen' = IF buf' = <<>> THEN <<>> ELSE FromEmpty \o chunk
                 /\ got'  = IF fail \/ d.raw = <<>> THEN got ELSE Append(got, d.raw)
        /\ UNCHANGED <<sent, noise, calm>>

\* End of file or an error on the line: the thread returns.
ReadFails == /\ rx = "running"
             /\ rx' = "hungup"
             /\ UNCHANGED <<wire, buf, sent, noise, calm, seen, got>>

Next == Write \/ Noise \/ Read \/ ReadFails

Spec == Init /\ [][Next]_vars

-----------------------------------------------------------------------------
(* The packets of which pkt_decode says that they are for the program.     *)
Keep(w, raw) == IF Accepted(raw) THEN Append(w, raw) ELSE w

Wanted(s) == FoldLeft(Keep, <<>>, s)

\* Its frame is not as long as the error value: the thread goes on after it.
Ordinary(raw) == Len(RadioEncode(raw)) # PktError

\* What arrived has been read; no hang-up, no frame the thread dies of.
AllRead == /\ rx # "hungup"
           /\ wire = <<>>
           /\ \A i \in DOMAIN sent : Ordinary(sent[i])

(* With frames far enough apart, and however each is cut into reads, every *)
(* packet the line has delivered in full has been queued, in order and     *)
(* once (fwd.c:101-124).                                                   *)
NoneLost == (calm /\ AllRead) => got = Wanted(sent)

(* The buffer holds what was read since it was last empty, all of it and   *)
(* once, as long as nothing has to be corrected: the decoder moves bytes   *)
(* within it without telling (fwd.c:117-121, packet.c:28-34).              *)
Contiguous == calm => buf = seen

\* The bytes this step reads.
Chunk == SubSeq(wire, 1, Len(wire) - Len(wire'))

(* With noise, with frames that follow each other at once, and after the   *)
(* buffer has overflowed: a frame that starts on an empty buffer and ends  *)
(* a read is queued (fwd.c:102-121).                                       *)
FrameTaken ==
  [][\A raw \in {p \in Packets : Accepted(p) /\ Ordinary(p)} :
        (Chunk # <<>> /\ FromEmpty \o Chunk = RadioEncode(raw)) => got' = Append(got, raw)]_vars

\* The number of the frame on which the thread gave up.
Fatal(i) == ~Ordinary(sent[i]) /\ got = Wanted(SubSeq(sent, 1, i - 1))

(* On a calm line the thread gives up only at a frame of exactly PKT_ERROR *)
(* bytes, which it takes for an error (fwd.c:117-118): all packets sent    *)
(* before that frame have been queued by then, and it and what follows     *)
(* never will be.                                                          *)
GivesUpAtPktError == (calm /\ rx = "gaveup") => \E i \in DOMAIN sent : Fatal(i)

-----------------------------------------------------------------------------
(* What the documentation leads one to expect, and does not hold.          *)

(* README.md:43-44: packets read from the port are sent, also those that   *)
(* follow each other without a pause, on a line without noise.             *)
BurstTaken == (noise = 0 /\ AllRead) => got = Wanted(sent)
=============================================================================
