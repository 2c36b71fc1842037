--------------------------- MODULE DeframerProofs ---------------------------
(***************************************************************************)
(* What module Deframer's run checks on three frames of a few bytes, for   *)
(* any packets whose frames fit the buffer, any noise and any number of    *)
(* frames and reads.  The lemmas about the codec are FormatsProofs'.       *)
(***************************************************************************)
EXTENDS Deframer, FormatsProofs

-----------------------------------------------------------------------------
(* The packets that are to be queued, one by one. *)

KeepOne == [x \in Seq(Seq(Byte)) \X Packets |-> Keep(x[1], x[2])]

LEMMA PacketsAre ==
  /\ Packets \subseteq Raw
  /\ \A raw \in Packets : raw \in Seq(Byte) /\ Len(RadioEncode(raw)) <= UartMaxLen
BY DeframerAssumption DEF Raw, Byte

LEMMA KeepOneType ==
  /\ KeepOne \in [Seq(Seq(Byte)) \X Packets -> Seq(Seq(Byte))] /\ <<>> \in Seq(Seq(Byte))
  /\ \A v \in Seq(Seq(Byte)) : \A raw \in Packets : KeepOne[<<v, raw>>] = Keep(v, raw)
<1>1. ASSUME NEW v \in Seq(Seq(Byte)), NEW raw \in Packets
      PROVE  Keep(v, raw) \in Seq(Seq(Byte))
  <2>1. raw \in Seq(Byte)
    BY PacketsAre
  <2>2. Append(v, raw) \in Seq(Seq(Byte))
    BY <2>1, AppendProperties
  <2> QED
    BY <2>2 DEF Keep
<1>2. <<>> \in Seq(Seq(Byte))
  OBVIOUS
<1>3. KeepOne \in [Seq(Seq(Byte)) \X Packets -> Seq(Seq(Byte))]
  BY <1>1 DEF KeepOne
<1>4. ASSUME NEW v \in Seq(Seq(Byte)), NEW raw \in Packets
      PROVE  KeepOne[<<v, raw>>] = Keep(v, raw)
  <2>1. <<v, raw>> \in Seq(Seq(Byte)) \X Packets /\ <<v, raw>>[1] = v /\ <<v, raw>>[2] = raw
    OBVIOUS
  <2> QED
    BY <2>1 DEF KeepOne
<1> QED
  BY <1>2, <1>3, <1>4

LEMMA WantedFold ==
  ASSUME NEW s \in Seq(Packets)
  PROVE  IsFold(Wanted(s), Seq(Seq(Byte)), <<>>, KeepOne, s)
<1> DEFINE P(g) == g = [T \in SUBSET (DOMAIN s) |->
                          IF T = {} THEN <<>> ELSE Keep(g[T \ {Max(T)}], s[Max(T)])]
           f == CHOOSE g : P(g)
<1>1. Wanted(s) = f[DOMAIN s]
  BY DEF Wanted, FoldLeft, MapThenFoldSet
<1>2. DOMAIN s = 1 .. Len(s) /\ Len(s) \in Nat
  OBVIOUS
<1>3. /\ KeepOne \in [Seq(Seq(Byte)) \X Packets -> Seq(Seq(Byte))] /\ <<>> \in Seq(Seq(Byte))
      /\ \A v \in Seq(Seq(Byte)) : \A raw \in Packets : KeepOne[<<v, raw>>] = Keep(v, raw)
  BY KeepOneType
<1>4. \E g : P(g)
  <2>1. PICK g \in [SUBSET (1 .. Len(s)) -> Seq(Seq(Byte))] : Folding(g, <<>>, KeepOne, s)
    BY <1>3, FoldingExists
  <2>2. \A T \in SUBSET (1 .. Len(s)) :
           T # {} => KeepOne[<<g[T \ {Max(T)}], s[Max(T)]>>] = Keep(g[T \ {Max(T)}], s[Max(T)])
    BY <1>3, LastOf
  <2>3. P(g)
    BY <1>2, <2>1, <2>2 DEF Folding
  <2> QED
    BY <2>3
<1>5. P(f)
  BY <1>4
<1> HIDE DEF f
<1>6. f[{}] = <<>>
  BY <1>5
<1>7. ASSUME NEW T \in SUBSET (1 .. Len(s)), T # {}, f[T \ {Max(T)}] \in Seq(Seq(Byte))
      PROVE  f[T] = KeepOne[<<f[T \ {Max(T)}], s[Max(T)]>>]
  <2>1. f[T] = Keep(f[T \ {Max(T)}], s[Max(T)])
    BY <1>2, <1>5, <1>7
  <2>2. s[Max(T)] \in Packets
    BY <1>7, LastOf
  <2> QED
    BY <1>3, <1>7, <2>1, <2>2
<1>8. \A v \in Seq(Seq(Byte)) : \A i \in 1 .. Len(s) : KeepOne[<<v, s[i]>>] \in Seq(Seq(Byte))
  BY <1>3
<1>9. IsFold(f[1 .. Len(s)], Seq(Seq(Byte)), <<>>, KeepOne, s)
  BY <1>2, <1>3, <1>6, <1>7, <1>8, FoldFromSets
<1> QED
  BY <1>1, <1>2, <1>9

LEMMA WantedEmpty == Wanted(<<>>) = <<>>
<1>1. <<>> \in Seq(Packets) /\ Len(<<>>) \in Nat /\ <<>> \in Seq(Seq(Byte))
  OBVIOUS
<1>2. IsFold(Wanted(<<>>), Seq(Seq(Byte)), <<>>, KeepOne, <<>>)
  BY <1>1, WantedFold
<1>3. IsFold(<<>>, Seq(Seq(Byte)), <<>>, KeepOne, <<>>)
  BY <1>1, FoldEmpty
<1> QED
  BY <1>1, <1>2, <1>3, FoldUnique

LEMMA WantedNext ==
  ASSUME NEW s \in Seq(Packets), NEW raw \in Packets
  PROVE  /\ Wanted(s) \in Seq(Seq(Byte))
         /\ Wanted(Append(s, raw)) = IF Accepted(raw) THEN Append(Wanted(s), raw) ELSE Wanted(s)
<1>1. Append(s, raw) \in Seq(Packets) /\ Len(Append(s, raw)) \in Nat
  OBVIOUS
<1>2. KeepOne \in [Seq(Seq(Byte)) \X Packets -> Seq(Seq(Byte))] /\ <<>> \in Seq(Seq(Byte))
  BY KeepOneType
<1>3. IsFold(Wanted(s), Seq(Seq(Byte)), <<>>, KeepOne, s)
  BY WantedFold
<1>4. /\ Wanted(s) \in Seq(Seq(Byte))
      /\ IsFold(KeepOne[<<Wanted(s), raw>>], Seq(Seq(Byte)), <<>>, KeepOne, Append(s, raw))
  BY <1>2, <1>3, FoldAppend
<1>5. IsFold(Wanted(Append(s, raw)), Seq(Seq(Byte)), <<>>, KeepOne, Append(s, raw))
  BY <1>1, WantedFold
<1>6. Wanted(Append(s, raw)) = KeepOne[<<Wanted(s), raw>>]
  BY <1>1, <1>4, <1>5, FoldUnique
<1>7. Wanted(Append(s, raw)) = Keep(Wanted(s), raw)
  BY <1>4, <1>6, KeepOneType
<1> QED
  BY <1>4, <1>7 DEF Keep

-----------------------------------------------------------------------------
(* A frame that is read bit by bit. *)

LEMMA PacketFrame ==
  ASSUME NEW raw \in Packets
  PROVE  \E t : /\ RadioEncode(raw) = <<Sync>> \o t /\ Framed(t, raw) /\ t \in Seq(Byte)
                /\ Unstuff(t) = [out |-> Whole(raw), esc |-> FALSE]
                /\ raw \in Raw
<1>1. raw \in Raw
  BY PacketsAre
<1>2. PICK t : /\ RadioEncode(raw) = <<Sync>> \o t /\ Framed(t, raw)
               /\ Unstuff(t) = [out |-> Whole(raw), esc |-> FALSE]
  BY <1>1, RadioFramed
<1>3. t \in Seq(Byte)
  BY <1>2 DEF Framed
<1> QED
  BY <1>1, <1>2, <1>3

LEMMA FrameType ==
  ASSUME NEW raw \in Packets
  PROVE  /\ RadioEncode(raw) \in Seq(Byte) /\ RadioEncode(raw) # <<>>
         /\ Len(RadioEncode(raw)) \in 4 .. UartMaxLen
         /\ RadioEncode(raw)[1] = Sync
<1>1. PICK t : /\ RadioEncode(raw) = <<Sync>> \o t /\ Framed(t, raw) /\ t \in Seq(Byte)
               /\ Unstuff(t) = [out |-> Whole(raw), esc |-> FALSE] /\ raw \in Raw
  BY PacketFrame
<1> DEFINE f == <<Sync>> \o t
<1>2. Sync \in Byte
  BY DEF Sync, Byte
<1>3. f \in Seq(Byte) /\ Len(f) = Len(t) + 1 /\ f[1] = Sync
  BY <1>1, <1>2, FrontIs
<1> HIDE DEF f
<1>4. Len(t) >= 3 /\ Len(t) \in Nat
  <2>1. Len(Unstuff(t).out) <= Len(t)
    BY <1>1, OutNotLonger
  <2>2. Unstuff(t).out = Whole(raw)
    BY <1>1
  <2>3. Len(Whole(raw)) = Len(raw) + 3 /\ Len(raw) \in Nat
    BY ZenonT(60), <1>1, WholeParts DEF Parts
  <2>4. Len(t) \in Nat
    BY <1>1
  <2> QED
    BY <2>1, <2>2, <2>3, <2>4
<1>5. Len(f) \in 4 .. UartMaxLen
  <2>1. Len(f) <= UartMaxLen
    BY <1>1, PacketsAre DEF f
  <2>2. UartMaxLen \in Nat
    BY DeframerAssumption
  <2> QED
    BY <1>3, <1>4, <2>1, <2>2
<1>6. f # <<>>
  BY <1>5
<1> QED
  BY <1>1, <1>3, <1>5, <1>6 DEF f

(* A part of a frame is left alone, the whole frame is used up. *)
LEMMA FrameDecode ==
  ASSUME NEW raw \in Packets, NEW x \in Seq(Byte), NEW y \in Seq(Byte), x # <<>>,
         x \o y = RadioEncode(raw)
  PROVE  Decode(x) = IF y = <<>>
                     THEN [used |-> Len(x), buf |-> x,
                           raw |-> IF Accepted(raw) THEN raw ELSE <<>>]
                     ELSE [used |-> 0, raw |-> <<>>, buf |-> x]
<1>1. PICK t : /\ RadioEncode(raw) = <<Sync>> \o t /\ Framed(t, raw) /\ t \in Seq(Byte)
               /\ Unstuff(t) = [out |-> Whole(raw), esc |-> FALSE] /\ raw \in Raw
  BY PacketFrame
<1>2. Sync \in Byte /\ Len(x) \in Nat /\ Len(y) \in Nat /\ Len(x) # 0 /\ Len(t) \in Nat
  BY <1>1, EmptySeq DEF Sync, Byte
<1> DEFINE f == <<Sync>> \o t
<1>3. f \in Seq(Byte) /\ Len(f) = Len(t) + 1 /\ f[1] = Sync
  BY <1>1, <1>2, FrontIs
<1>4. f = x \o y /\ f = RadioEncode(raw)
  BY <1>1
<1> HIDE DEF f
<1>5. /\ Len(x \o y) = Len(x) + Len(y)
      /\ \A i \in 1 .. Len(x) + Len(y) : (x \o y)[i] = IF i <= Len(x) THEN x[i] ELSE y[i - Len(x)]
  BY Zenon, ConcatProperties
<1>6. Len(f) = Len(x) + Len(y) /\ x[1] = Sync
  <2>1. 1 \in 1 .. Len(x) + Len(y) /\ 1 <= Len(x)
    BY <1>2
  <2> QED
    BY <1>3, <1>4, <1>5, <2>1
<1>7. Decode(x) = IF Len(x) >= FrameLenMin /\ Complete(x)
           THEN [used |-> Len(x), buf |-> x,
                 raw |-> IF Accepted(Payload(x)) THEN Payload(x) ELSE <<>>]
           ELSE [used |-> 0, raw |-> <<>>, buf |-> x]
  BY Zenon, <1>6, DecodeSynced
<1>8. CASE y = <<>>
  <2>1. x = f
    <3>1. x \o <<>> = x
      BY ConcatEmptySeq
    <3> QED
      BY <1>4, <1>8, <3>1
  <2>2. Complete(f) /\ Payload(f) = raw
    <3>1. Complete(<<Sync>> \o t) /\ Payload(<<Sync>> \o t) = raw
      BY <1>1, FoundAgain
    <3> QED
      BY <3>1 DEF f
  <2>3. Len(f) >= FrameLenMin
    BY <1>4, FrameType DEF FrameLenMin
  <2> QED
    BY <1>7, <1>8, <2>1, <2>2, <2>3
<1>9. CASE y # <<>>
  <2>1. Len(y) # 0
    BY <1>9, EmptySeq
  <2>2. Len(x) \in 1 .. Len(t)
    BY <1>2, <1>3, <1>6, <2>1
  <2>3. PICK p, q \in Seq(Byte) : /\ t = p \o q /\ q # <<>>
                                  /\ SubSeq(<<Sync>> \o t, 1, Len(x)) = <<Sync>> \o p
    BY <1>1, <1>2, <2>2, PrefixOfFront
  <2>4. x = <<Sync>> \o p
    <3>1. 1 \in 1 .. Len(x) /\ Len(x) \in 1 .. Len(x)
      BY <1>2
    <3>2. SubSeq(x \o y, 1, Len(x)) = SubSeq(x, 1, Len(x))
      BY <3>1, SubSeqOfConcat1
    <3>3. SubSeq(x, 1, Len(x)) = x
      BY SubSeqFull
    <3> QED
      BY <1>4, <2>3, <3>2, <3>3 DEF f
  <2>5. ~Right(Unstuff(p))
    BY <1>1, <2>3, NotYet
  <2>6. ~Complete(x)
    BY <2>4, <2>5, CompleteIs
  <2> QED
    BY <1>7, <1>9, <2>6
<1> QED
  BY <1>8, <1>9

-----------------------------------------------------------------------------
(* Every step is a step of the inductive invariant. *)

\* The types, without the bounds on what is sent and on the noise.
Bytes4 == /\ wire \in Seq(Byte) /\ buf \in Seq(Byte) /\ seen \in Seq(Byte)
          /\ Len(buf) <= UartMaxLen

\* All that was sent was read and decoded ...
AllDone == wire = <<>> /\ buf = <<>> /\ got = Wanted(sent)

\* ... or the last frame is on its way, the thread has some of it.
Partway == \E s \in Seq(Packets), raw \in Packets :
              /\ sent = Append(s, raw)
              /\ wire # <<>>
              /\ buf \o wire = RadioEncode(raw)
              /\ got = Wanted(s)

Calm == calm => /\ buf = seen
                /\ rx = "running" => AllDone \/ Partway
                /\ rx = "gaveup" => \E i \in DOMAIN sent : Fatal(i)

\* The buffer is what was read since it was empty, if that begins a frame.
Synced == rx = "running" => /\ seen = <<>> => buf = <<>>
                            /\ seen # <<>> /\ seen[1] = Sync => buf = seen

DInv == TypeOK /\ Calm /\ Synced

LEMMA Typed == TypeOK => Bytes4
BY DEF TypeOK, Bytes4, Byte

\* A turn that reads chunk and leaves rest on the line.
Turn(chunk, rest) ==
  /\ rx = "running"
  /\ wire = chunk \o rest /\ chunk # <<>>
  /\ Chunk = chunk
  /\ Len(Start \o chunk) <= UartMaxLen
  /\ wire' = rest
  /\ LET d == Decode(Start \o chunk)
     IN  \/ d.used = PktError /\ rx' = "gaveup" /\ buf' = d.buf /\ got' = got
         \/ d.used # PktError /\ rx' = "running" /\ buf' = Rest(d)
            /\ got' = IF d.raw = <<>> THEN got ELSE Append(got, d.raw)
  /\ seen' = IF buf' = <<>> THEN <<>> ELSE FromEmpty \o chunk
  /\ UNCHANGED <<sent, noise, calm>>

LEMMA StartType ==
  ASSUME Bytes4
  PROVE  Start \in Seq(Byte) /\ FromEmpty \in Seq(Byte) /\ Len(Start) \in Nat
<1>1. <<>> \in Seq(Byte)
  OBVIOUS
<1>2. Start \in Seq(Byte) /\ FromEmpty \in Seq(Byte)
  BY <1>1 DEF Bytes4, Start, FromEmpty
<1>3. Len(Start) \in Nat
  BY <1>2
<1> QED
  BY <1>2, <1>3

\* Appending a packet leaves what was sent before as it was.
LEMMA FrontKept ==
  ASSUME NEW s \in Seq(Packets), NEW raw \in Packets, NEW i \in 1 .. Len(s) + 1
  PROVE  SubSeq(Append(s, raw), 1, i - 1) = SubSeq(s, 1, i - 1)
<1>1. Len(s) \in Nat
  OBVIOUS
<1>2. /\ Append(s, raw) \in Seq(Packets) /\ Len(Append(s, raw)) = Len(s) + 1
      /\ \A j \in 1 .. Len(s) : Append(s, raw)[j] = s[j]
  BY AppendProperties
<1> DEFINE p == SubSeq(Append(s, raw), 1, i - 1)
           q == SubSeq(s, 1, i - 1)
<1>3. /\ p \in Seq(Packets) /\ Len(p) = i - 1
      /\ \A j \in 1 .. i - 1 : p[j] = Append(s, raw)[j]
  <2>1. \A j \in 1 .. i - 1 : Append(s, raw)[j] \in Packets
    BY <1>1, <1>2
  <2> QED
    BY <1>1, <2>1, SubSeqProperties
<1>4. /\ q \in Seq(Packets) /\ Len(q) = i - 1
      /\ \A j \in 1 .. i - 1 : q[j] = s[j]
  <2>1. \A j \in 1 .. i - 1 : s[j] \in Packets
    BY <1>1
  <2> QED
    BY <1>1, <2>1, SubSeqProperties
<1>5. \A j \in 1 .. i - 1 : p[j] = q[j]
  BY <1>1, <1>2, <1>3, <1>4
<1> HIDE DEF p, q
<1>6. p = q
  BY <1>3, <1>4, <1>5, SeqEqual
<1> QED
  BY <1>6 DEF p, q

\* Nothing but the last packet is new.
LEMMA FrontOfAppend ==
  ASSUME NEW s \in Seq(Packets), NEW raw \in Packets
  PROVE  SubSeq(Append(s, raw), 1, Len(s)) = s
<1>1. Len(s) \in Nat /\ Len(s) + 1 \in 1 .. Len(s) + 1 /\ (Len(s) + 1) - 1 = Len(s)
  OBVIOUS
<1>2. SubSeq(Append(s, raw), 1, Len(s)) = SubSeq(s, 1, Len(s))
  BY <1>1, FrontKept
<1> QED
  BY <1>2, SubSeqFull

LEMMA SplitOff ==
  ASSUME NEW w \in Seq(Byte), NEW n \in 1 .. Len(w)
  PROVE  LET p == SubSeq(w, 1, n)
             q == SubSeq(w, n + 1, Len(w))
         IN  /\ p \in Seq(Byte) /\ Len(p) = n /\ p # <<>>
             /\ q \in Seq(Byte) /\ Len(q) = Len(w) - n
             /\ w = p \o q
             /\ p = SubSeq(w, 1, Len(w) - Len(q))
<1> DEFINE p == SubSeq(w, 1, n)
           q == SubSeq(w, n + 1, Len(w))
<1>1. Len(w) \in Nat /\ n \in 1 .. Len(w)
  OBVIOUS
<1>2. p \in Seq(Byte) /\ Len(p) = n
  <2>1. \A i \in 1 .. n : w[i] \in Byte
    BY <1>1
  <2>2. p \in Seq(Byte) /\ Len(p) = IF 1 <= n THEN n - 1 + 1 ELSE 0
    BY <1>1, <2>1, SubSeqProperties
  <2> QED
    BY <1>1, <2>2
<1>3. q \in Seq(Byte) /\ Len(q) = Len(w) - n
  <2>1. \A i \in n + 1 .. Len(w) : w[i] \in Byte
    BY <1>1
  <2>2. q \in Seq(Byte) /\ Len(q) = IF n + 1 <= Len(w) THEN Len(w) - (n + 1) + 1 ELSE 0
    BY <1>1, <2>1, SubSeqProperties
  <2> QED
    BY <1>1, <2>2
<1>4. p # <<>>
  BY <1>1, <1>2
<1>5. w = p \o q
  <2>1. 1 \in 1 .. Len(w) + 1 /\ n \in 1 - 1 .. Len(w) /\ Len(w) \in n .. Len(w)
    BY <1>1
  <2>2. p \o q = SubSeq(w, 1, Len(w))
    BY Zenon, <2>1, ConcatAdjacentSubSeq
  <2> QED
    BY <2>2, SubSeqFull
<1>6. Len(w) - Len(q) = n
  BY <1>1, <1>3
<1> QED
  BY <1>2, <1>3, <1>4, <1>5, <1>6

LEMMA ReadIsTurn ==
  ASSUME Bytes4, Read
  PROVE  \E chunk, rest \in Seq(Byte) : Turn(chunk, rest)
<1>1. PICK n \in 1 .. Len(wire) :
        LET chunk == SubSeq(wire, 1, n)
            d     == Decode(Input(chunk))
            fail  == Failed(d)
        IN  /\ n <= Room
            /\ wire' = SubSeq(wire, n + 1, Len(wire))
            /\ rx'   = IF fail THEN "gaveup" ELSE "running"
            /\ buf'  = IF fail THEN d.buf ELSE Rest(d)
            /\ seen' = IF buf' = <<>> THEN <<>> ELSE FromEmpty \o chunk
            /\ got'  = IF fail \/ d.raw = <<>> THEN got ELSE Append(got, d.raw)
  BY DEF Read
<1> DEFINE chunk == SubSeq(wire, 1, n)
           rest == SubSeq(wire, n + 1, Len(wire))
           d == Decode(Start \o chunk)
<1>2. rx = "running" /\ UNCHANGED <<sent, noise, calm>>
  BY DEF Read
<1>3. /\ chunk \in Seq(Byte) /\ Len(chunk) = n /\ chunk # <<>>
      /\ rest \in Seq(Byte) /\ wire = chunk \o rest
      /\ chunk = SubSeq(wire, 1, Len(wire) - Len(rest))
  BY SplitOff DEF Bytes4
<1>4. wire' = rest /\ n <= Room
  BY <1>1
<1>5. Chunk = chunk
  BY <1>3, <1>4 DEF Chunk
<1>6. Len(Start \o chunk) <= UartMaxLen
  <2>1. Start \in Seq(Byte) /\ Len(Start) \in Nat
    BY StartType
  <2>2. Len(Start \o chunk) = Len(Start) + n
    BY <1>3, <2>1, ConcatProperties
  <2>3. UartMaxLen \in Nat
    BY DeframerAssumption
  <2> QED
    BY <1>4, <2>1, <2>2, <2>3 DEF Room
<1>7. seen' = IF buf' = <<>> THEN <<>> ELSE FromEmpty \o chunk
  BY <1>1
<1>8. \/ d.used = PktError /\ rx' = "gaveup" /\ buf' = d.buf /\ got' = got
      \/ d.used # PktError /\ rx' = "running" /\ buf' = Rest(d)
         /\ got' = IF d.raw = <<>> THEN got ELSE Append(got, d.raw)
  BY <1>1 DEF Input, Failed
<1> HIDE DEF chunk, rest
<1>9. Turn(chunk, rest)
  BY <1>2, <1>3, <1>4, <1>5, <1>6, <1>7, <1>8 DEF Turn
<1> QED
  BY <1>3, <1>9

(* The bytes in the buffer, when what was read begins a frame. *)
LEMMA StartIs ==
  ASSUME Bytes4, Synced, rx = "running", NEW chunk \in Seq(Byte), chunk # <<>>,
         (FromEmpty \o chunk)[1] = Sync
  PROVE  Start = FromEmpty
<1>1. CASE Len(buf) >= UartMaxLen
  BY <1>1 DEF Start, FromEmpty
<1>2. CASE ~(Len(buf) >= UartMaxLen)
  <2>1. Start = buf /\ FromEmpty = seen
    BY <1>2 DEF Start, FromEmpty
  <2>2. CASE seen = <<>>
    BY <2>1, <2>2 DEF Synced
  <2>3. CASE seen # <<>>
    <3>1. seen \in Seq(Byte) /\ Len(seen) \in Nat /\ Len(chunk) \in Nat
      BY DEF Bytes4
    <3>2. Len(seen) # 0
      BY <2>3, <3>1, EmptySeq
    <3>3. 1 \in 1 .. Len(seen) + Len(chunk) /\ 1 <= Len(seen)
      BY <3>1, <3>2
    <3>4. \A i \in 1 .. Len(seen) + Len(chunk) :
             (seen \o chunk)[i] = IF i <= Len(seen) THEN seen[i] ELSE chunk[i - Len(seen)]
      BY Zenon, <3>1, ConcatProperties
    <3>5. seen[1] = Sync
      BY <2>1, <3>3, <3>4
    <3> QED
      BY <2>1, <2>3, <3>5 DEF Synced
  <2> QED
    BY <2>2, <2>3
<1> QED
  BY <1>1, <1>2

(* What a turn leaves is within the buffer. *)
LEMMA TurnType ==
  ASSUME Bytes4, NEW chunk \in Seq(Byte), NEW rest \in Seq(Byte), Turn(chunk, rest)
  PROVE  /\ Bytes4'
         /\ Start \o chunk \in Seq(Byte) /\ Start \o chunk # <<>>
         /\ FromEmpty \o chunk # <<>>
         /\ got \in Seq(Seq(Byte)) => got' \in Seq(Seq(Byte))
<1> DEFINE x == Start \o chunk
           z == FromEmpty \o chunk
           d == Decode(x)
<1>1. Start \in Seq(Byte) /\ FromEmpty \in Seq(Byte) /\ Len(Start) \in Nat
  BY StartType
<1>2. x \in Seq(Byte) /\ z \in Seq(Byte) /\ x # <<>> /\ z # <<>>
  <2>1. chunk # <<>>
    BY DEF Turn
  <2>2. x \in Seq(Byte) /\ z \in Seq(Byte)
    BY <1>1, ConcatProperties
  <2>3. x # <<>> /\ z # <<>>
    BY <1>1, <2>1, ConcatEqualIffEmpty
  <2> QED
    BY <2>2, <2>3
<1>3. Len(x) <= UartMaxLen
  BY DEF Turn
<1> HIDE DEF x, z
<1>4. /\ d.used \in 0 .. Len(x)
      /\ d.buf \in Seq(Byte) /\ Len(d.buf) = Len(x)
      /\ d.raw \in Seq(Byte)
  BY <1>2, DecodeType
<1>5. Rest(d) \in Seq(Byte) /\ Len(Rest(d)) <= Len(x)
  <2> DEFINE b == d.buf
             u == d.used
  <2>1. b \in Seq(Byte) /\ Len(b) = Len(x) /\ u \in 0 .. Len(x) /\ Len(x) \in Nat
    BY <1>2, <1>4
  <2> HIDE DEF b, u
  <2>2. u + 1 \in Int /\ Len(b) \in Int /\ \A i \in u + 1 .. Len(b) : b[i] \in Byte
    BY <2>1
  <2>3. /\ SubSeq(b, u + 1, Len(b)) \in Seq(Byte)
        /\ Len(SubSeq(b, u + 1, Len(b))) = IF u + 1 <= Len(b) THEN Len(b) - (u + 1) + 1 ELSE 0
    BY <2>2, SubSeqProperties
  <2>4. Len(SubSeq(b, u + 1, Len(b))) <= Len(x)
    BY <2>1, <2>3
  <2> QED
    BY <2>3, <2>4 DEF Rest, b, u
<1>6. buf' = d.buf \/ buf' = Rest(d)
  BY DEF Turn, x
<1>7. buf' \in Seq(Byte) /\ Len(buf') <= UartMaxLen
  <2>1. buf' \in Seq(Byte) /\ Len(buf') <= Len(x)
    <3>1. Len(x) \in Nat
      BY <1>2
    <3> QED
      BY <1>4, <1>5, <1>6, <3>1
  <2>2. Len(buf') \in Nat /\ Len(x) \in Nat /\ UartMaxLen \in Nat
    BY <1>2, <2>1, DeframerAssumption
  <2> QED
    BY <1>3, <2>1, <2>2
<1>8. seen' \in Seq(Byte) /\ wire' \in Seq(Byte)
  <2>1. <<>> \in Seq(Byte)
    OBVIOUS
  <2> QED
    BY <1>2, <2>1 DEF Turn, z
<1>9. got \in Seq(Seq(Byte)) => got' \in Seq(Seq(Byte))
  <2>1. got \in Seq(Seq(Byte)) => Append(got, d.raw) \in Seq(Seq(Byte))
    BY <1>4, AppendProperties
  <2>2. got' = got \/ got' = Append(got, d.raw)
    BY DEF Turn, x
  <2> QED
    BY <2>1, <2>2
<1> QED
  BY <1>2, <1>7, <1>8, <1>9 DEF Bytes4, x, z

LEMMA TurnSynced ==
  ASSUME Bytes4, Synced, NEW chunk \in Seq(Byte), NEW rest \in Seq(Byte), Turn(chunk, rest)
  PROVE  Synced'
<1> DEFINE x == Start \o chunk
           z == FromEmpty \o chunk
           d == Decode(x)
<1>1. x \in Seq(Byte) /\ x # <<>> /\ z # <<>>
  BY TurnType
<1>2. seen' = IF buf' = <<>> THEN <<>> ELSE z
  BY DEF Turn
<1>3. rx' = "running" => buf' = Rest(d)
  BY DEF Turn
<1>4. rx = "running" /\ chunk # <<>>
  BY DEF Turn
<1>5. ASSUME rx' = "running", seen' # <<>>, seen'[1] = Sync PROVE buf' = seen'
  <2>1. buf' # <<>> /\ seen' = z
    BY <1>2, <1>5
  <2>2. Start = FromEmpty
    BY <1>4, <1>5, <2>1, StartIs
  <2>3. x = z /\ x[1] = Sync
    BY <1>5, <2>1, <2>2
  <2> HIDE DEF x, z
  <2>4. Decode(x) = IF Len(x) >= FrameLenMin /\ Complete(x)
           THEN [used |-> Len(x), buf |-> x,
                 raw |-> IF Accepted(Payload(x)) THEN Payload(x) ELSE <<>>]
           ELSE [used |-> 0, raw |-> <<>>, buf |-> x]
    BY Zenon, <1>1, <2>3, DecodeSynced
  <2>5. d.buf = x /\ (d.used = 0 \/ d.used = Len(x))
    <3>1. CASE Len(x) >= FrameLenMin /\ Complete(x)
      BY <2>4, <3>1
    <3>2. CASE ~(Len(x) >= FrameLenMin /\ Complete(x))
      BY <2>4, <3>2
    <3> QED
      BY <3>1, <3>2
  <2>6. buf' = SubSeq(x, d.used + 1, Len(x))
    BY <1>3, <1>5, <2>5 DEF Rest
  <2>7. Len(x) \in Nat
    BY <1>1
  <2>8. d.used # Len(x)
    <3> SUFFICES ASSUME d.used = Len(x) PROVE FALSE
      OBVIOUS
    <3>1. SubSeq(x, Len(x) + 1, Len(x)) = <<>>
      BY <2>7, SubSeqEmpty
    <3> QED
      BY <2>1, <2>6, <3>1
  <2>9. buf' = SubSeq(x, 0 + 1, Len(x))
    BY <2>5, <2>6, <2>8
  <2>10. SubSeq(x, 0 + 1, Len(x)) = x
    BY <1>1, SubSeqFull
  <2> QED
    BY <2>1, <2>3, <2>9, <2>10
<1>6. ASSUME rx' = "running", seen' = <<>> PROVE buf' = <<>>
  BY <1>1, <1>2, <1>6
<1> QED
  BY <1>5, <1>6 DEF Synced

(* With frames far enough apart a turn reads more of the frame that is on  *)
(* its way, or all of it.                                                  *)
LEMMA TurnCalm ==
  ASSUME Bytes4, Calm, calm, NEW chunk \in Seq(Byte), NEW rest \in Seq(Byte), Turn(chunk, rest)
  PROVE  Calm'
<1>1. rx = "running" /\ wire = chunk \o rest /\ chunk # <<>> /\ wire' = rest /\ sent' = sent
  BY DEF Turn
<1>2. wire # <<>> /\ wire \in Seq(Byte) /\ buf \in Seq(Byte) /\ seen = buf
  <2>1. wire # <<>>
    BY <1>1, ConcatEqualIffEmpty
  <2> QED
    BY <2>1 DEF Bytes4, Calm
<1>3. Partway
  BY <1>1, <1>2 DEF Calm, AllDone
<1>4. PICK s \in Seq(Packets), raw \in Packets :
        /\ sent = Append(s, raw) /\ buf \o wire = RadioEncode(raw) /\ got = Wanted(s)
  BY <1>3 DEF Partway
<1>5. Len(buf) < UartMaxLen
  <2>1. Len(buf \o wire) = Len(buf) + Len(wire)
    BY <1>2, ConcatProperties
  <2>2. Len(RadioEncode(raw)) \in 4 .. UartMaxLen
    BY FrameType
  <2>3. Len(buf) \in Nat /\ Len(wire) \in Nat /\ Len(wire) # 0
    BY <1>2, EmptySeq
  <2>4. UartMaxLen \in Nat
    BY DeframerAssumption
  <2> QED
    BY <1>4, <2>1, <2>2, <2>3, <2>4
<1>6. Start = buf /\ FromEmpty = buf
  <2>1. Len(buf) \in Nat /\ UartMaxLen \in Nat
    BY <1>2, DeframerAssumption
  <2>2. ~(Len(buf) >= UartMaxLen)
    BY <1>5, <2>1
  <2> QED
    BY <1>2, <2>2 DEF Start, FromEmpty
<1> DEFINE x == buf \o chunk
           d == Decode(x)
<1>7. x \in Seq(Byte) /\ x # <<>>
  BY <1>6, TurnType
<1>8. x \o rest = RadioEncode(raw)
  <2>1. (buf \o chunk) \o rest = buf \o (chunk \o rest)
    BY <1>2, ConcatAssociative
  <2> QED
    BY <1>1, <1>4, <2>1
<1>9. /\ \/ d.used = PktError /\ rx' = "gaveup" /\ buf' = d.buf /\ got' = got
         \/ d.used # PktError /\ rx' = "running" /\ buf' = Rest(d)
            /\ got' = IF d.raw = <<>> THEN got ELSE Append(got, d.raw)
      /\ seen' = IF buf' = <<>> THEN <<>> ELSE x
  BY <1>6 DEF Turn
<1> HIDE DEF x
<1>10. d = IF rest = <<>>
           THEN [used |-> Len(x), buf |-> x, raw |-> IF Accepted(raw) THEN raw ELSE <<>>]
           ELSE [used |-> 0, raw |-> <<>>, buf |-> x]
  BY <1>7, <1>8, FrameDecode
<1> HIDE DEF d
<1>11. CASE rest # <<>>
  <2>1. d.used = 0 /\ d.raw = <<>> /\ d.buf = x
    BY <1>10, <1>11
  <2>2. d.used # PktError
    BY <2>1, DeframerAssumption
  <2>3. Rest(d) = x
    <3>1. Rest(d) = SubSeq(x, 0 + 1, Len(x))
      BY <2>1 DEF Rest
    <3>2. SubSeq(x, 0 + 1, Len(x)) = x
      BY <1>7, SubSeqFull
    <3> QED
      BY <3>1, <3>2
  <2>4. rx' = "running" /\ buf' = x /\ got' = got /\ seen' = x
    BY <1>7, <1>9, <2>1, <2>2, <2>3
  <2>5. Partway'
    BY <1>1, <1>4, <1>8, <1>11, <2>4 DEF Partway
  <2> QED
    BY <2>4, <2>5 DEF Calm
<1>12. CASE rest = <<>>
  <2>1. d.used = Len(x) /\ d.buf = x /\ d.raw = IF Accepted(raw) THEN raw ELSE <<>>
    BY <1>10, <1>12
  <2>2. x = RadioEncode(raw)
    <3>1. x \o <<>> = x
      BY <1>7, ConcatEmptySeq
    <3> QED
      BY <1>8, <1>12, <3>1
  <2>3. CASE d.used = PktError
    <3>1. rx' = "gaveup" /\ buf' = x /\ seen' = x /\ got' = Wanted(s)
      BY <1>4, <1>7, <1>9, <2>1, <2>3
    <3>2. ~Ordinary(raw)
      BY <2>1, <2>2, <2>3 DEF Ordinary
    <3>3. /\ Len(s) + 1 \in DOMAIN sent /\ sent[Len(s) + 1] = raw
          /\ SubSeq(sent, 1, (Len(s) + 1) - 1) = s
      <4>1. Len(Append(s, raw)) = Len(s) + 1 /\ Append(s, raw)[Len(s) + 1] = raw
            /\ Append(s, raw) \in Seq(Packets) /\ Len(s) \in Nat
        BY AppendProperties
      <4>2. Len(s) + 1 \in 1 .. Len(Append(s, raw))
        BY <4>1
      <4>3. SubSeq(Append(s, raw), 1, Len(s)) = s
        BY <4>1, FrontOfAppend
      <4>4. (Len(s) + 1) - 1 = Len(s)
        BY <4>1
      <4> QED
        BY <1>4, <4>1, <4>2, <4>3, <4>4
    <3>4. \E i \in DOMAIN sent' : Fatal(i)'
      BY <1>1, <3>1, <3>2, <3>3 DEF Fatal, Ordinary
    <3> QED
      BY <3>1, <3>4 DEF Calm
  <2>4. CASE d.used # PktError
    <3>1. Rest(d) = <<>>
      <4>1. Rest(d) = SubSeq(x, Len(x) + 1, Len(x))
        BY <2>1 DEF Rest
      <4>2. Len(x) \in Nat
        BY <1>7
      <4>3. SubSeq(x, Len(x) + 1, Len(x)) = <<>>
        BY <4>2, SubSeqEmpty
      <4> QED
        BY <4>1, <4>3
    <3>2. rx' = "running" /\ buf' = <<>> /\ seen' = <<>>
      BY <1>9, <2>4, <3>1
    <3>3. got' = IF d.raw = <<>> THEN got ELSE Append(got, d.raw)
      BY <1>9, <2>4
    <3>4. Accepted(raw) => raw # <<>>
      BY DEF Accepted
    <3>5. got' = Wanted(Append(s, raw))
      <4>1. Wanted(Append(s, raw)) = IF Accepted(raw) THEN Append(Wanted(s), raw) ELSE Wanted(s)
        BY WantedNext
      <4>2. CASE Accepted(raw)
        BY <1>4, <2>1, <3>3, <3>4, <4>1, <4>2
      <4>3. CASE ~Accepted(raw)
        BY <1>4, <2>1, <3>3, <4>1, <4>3
      <4> QED
        BY <4>2, <4>3
    <3>6. AllDone'
      BY <1>1, <1>4, <1>12, <3>2, <3>5 DEF AllDone
    <3> QED
      BY <3>2, <3>6 DEF Calm
  <2> QED
    BY <2>3, <2>4
<1> QED
  BY <1>11, <1>12

LEMMA TurnStep ==
  ASSUME DInv, NEW chunk \in Seq(Byte), NEW rest \in Seq(Byte), Turn(chunk, rest)
  PROVE  DInv'
<1>1. Bytes4 /\ Calm /\ Synced /\ TypeOK
  BY Typed DEF DInv
<1>2. UNCHANGED <<sent, noise, calm>> /\ rx' \in {"running", "gaveup"}
  BY DEF Turn
<1>3. Bytes4' /\ got' \in Seq(Seq(Byte))
  <2>1. got \in Seq(Seq(Byte))
    BY <1>1 DEF TypeOK, Byte
  <2> QED
    BY <1>1, <2>1, TurnType
<1>4. TypeOK'
  BY <1>1, <1>2, <1>3 DEF TypeOK, Bytes4, Byte
<1>5. Calm'
  <2>1. CASE calm
    BY <1>1, <2>1, TurnCalm
  <2>2. CASE ~calm
    BY <1>2, <2>2 DEF Calm
  <2> QED
    BY <2>1, <2>2
<1>6. Synced'
  BY <1>1, TurnSynced
<1> QED
  BY <1>4, <1>5, <1>6 DEF DInv

LEMMA WriteStep ==
  ASSUME DInv, Write
  PROVE  DInv'
<1>1. Bytes4 /\ Calm /\ Synced /\ TypeOK
  BY Typed DEF DInv
<1>2. PICK raw \in Packets : wire' = wire \o RadioEncode(raw) /\ sent' = Append(sent, raw)
  BY DEF Write
<1>3. /\ Len(sent) < MaxFrames /\ calm' = (calm /\ wire = <<>>)
      /\ UNCHANGED <<buf, rx, noise, seen, got>>
  BY DEF Write
<1>4. RadioEncode(raw) \in Seq(Byte) /\ RadioEncode(raw) # <<>>
  BY FrameType
<1>5. wire' \in Seq(Byte)
  <2>1. wire \in Seq(Byte)
    BY <1>1 DEF Bytes4
  <2> QED
    BY <1>2, <1>4, <2>1, ConcatProperties
<1>6. /\ sent \in Seq(Packets) /\ sent' \in Seq(Packets) /\ Len(sent) \in Nat
      /\ Len(sent') = Len(sent) + 1 /\ \A i \in 1 .. Len(sent) : sent'[i] = sent[i]
  <2>1. sent \in Seq(Packets)
    BY <1>1 DEF TypeOK
  <2>2. Len(sent) \in Nat
    BY <2>1
  <2> QED
    BY <1>2, <2>1, <2>2, AppendProperties
<1>7. TypeOK'
  <2>1. Len(sent') <= MaxFrames
    BY <1>3, <1>6, DeframerAssumption
  <2>2. calm' \in BOOLEAN
    BY <1>3
  <2> QED
    BY <1>1, <1>3, <1>5, <1>6, <2>1, <2>2 DEF TypeOK, Byte
<1>8. Synced'
  BY <1>1, <1>3 DEF Synced
<1>9. Calm'
  <2> SUFFICES ASSUME calm' PROVE Calm'
    BY DEF Calm
  <2>1. calm /\ wire = <<>>
    BY <1>3
  <2>2. buf' = seen'
    BY <1>1, <1>3, <2>1 DEF Calm
  <2>3. ASSUME rx' = "running" PROVE Partway'
    <3>1. AllDone
      BY <1>1, <1>3, <2>1, <2>3 DEF Calm, Partway
    <3>2. wire' = RadioEncode(raw) /\ buf' = <<>>
      <4>1. <<>> \o RadioEncode(raw) = RadioEncode(raw)
        BY <1>4, ConcatEmptySeq
      <4> QED
        BY <1>2, <1>3, <2>1, <3>1, <4>1 DEF AllDone
    <3>3. buf' \o wire' = RadioEncode(raw)
      BY <1>4, <3>2, ConcatEmptySeq
    <3> QED
      BY <1>2, <1>3, <1>4, <1>6, <3>1, <3>2, <3>3 DEF AllDone, Partway
  <2>4. ASSUME rx' = "gaveup" PROVE \E i \in DOMAIN sent' : Fatal(i)'
    <3>1. PICK i \in DOMAIN sent : Fatal(i)
      BY <1>1, <1>3, <2>1, <2>4 DEF Calm
    <3>2. i \in 1 .. Len(sent)
      BY <1>6
    <3>3. i \in 1 .. Len(sent') /\ sent'[i] = sent[i]
      BY <1>6, <3>2
    <3>4. i \in DOMAIN sent'
      BY <1>6, <3>3
    <3>5. SubSeq(sent', 1, i - 1) = SubSeq(sent, 1, i - 1)
      BY <1>2, <1>6, <3>2, FrontKept
    <3>6. ~Ordinary(sent'[i]) /\ got' = Wanted(SubSeq(sent', 1, i - 1))
      BY <1>3, <3>1, <3>3, <3>5 DEF Fatal
    <3> QED
      BY <3>4, <3>6 DEF Fatal, Ordinary
  <2> QED
    BY <2>2, <2>3, <2>4 DEF Calm
<1> QED
  BY <1>7, <1>8, <1>9 DEF DInv

LEMMA NoiseStep ==
  ASSUME DInv, Noise
  PROVE  DInv'
<1>1. Bytes4 /\ Calm /\ Synced /\ TypeOK
  BY Typed DEF DInv
<1>2. PICK b \in NoiseBytes : wire' = Append(wire, b)
  BY DEF Noise
<1>3. /\ noise < MaxNoise /\ noise' = noise + 1 /\ calm' = FALSE
      /\ UNCHANGED <<buf, rx, sent, seen, got>>
  BY DEF Noise
<1>4. wire' \in Seq(Byte)
  <2>1. wire \in Seq(Byte) /\ b \in Byte
    BY <1>1, DeframerAssumption DEF Bytes4, Byte
  <2> QED
    BY <1>2, <2>1, AppendProperties
<1>5. noise' \in 0 .. MaxNoise
  BY <1>1, <1>3, DeframerAssumption DEF TypeOK
<1>6. TypeOK'
  BY <1>1, <1>3, <1>4, <1>5 DEF TypeOK, Byte
<1>7. Synced' /\ Calm'
  BY <1>1, <1>3 DEF Synced, Calm
<1> QED
  BY <1>6, <1>7 DEF DInv

LEMMA FailStep ==
  ASSUME DInv, ReadFails \/ UNCHANGED vars
  PROVE  DInv'
<1>1. CASE ReadFails
  <2>1. rx' = "hungup" /\ UNCHANGED <<wire, buf, sent, noise, calm, seen, got>>
    BY <1>1 DEF ReadFails
  <2>2. TypeOK'
    BY <2>1 DEF DInv, TypeOK
  <2>3. Calm' /\ Synced'
    BY <2>1 DEF DInv, Calm, Synced
  <2> QED
    BY <2>2, <2>3 DEF DInv
<1>2. CASE UNCHANGED vars
  <2>1. UNCHANGED <<wire, buf, rx, sent, noise, calm, seen, got>>
    BY <1>2 DEF vars
  <2>2. TypeOK'
    BY <2>1 DEF DInv, TypeOK
  <2>3. Calm' /\ Synced'
    BY <2>1 DEF DInv, Calm, Synced, AllDone, Partway, Fatal
  <2> QED
    BY <2>2, <2>3 DEF DInv
<1> QED
  BY <1>1, <1>2

LEMMA DeframerHolds == Spec => []DInv
<1>1. Init => DInv
  <2> SUFFICES ASSUME Init PROVE DInv
    OBVIOUS
  <2>1. /\ wire = <<>> /\ buf = <<>> /\ rx = "running" /\ sent = <<>> /\ noise = 0
        /\ calm = TRUE /\ seen = <<>> /\ got = <<>>
    BY DEF Init
  <2>2. TypeOK
    <3>1. Len(<<>>) = 0 /\ 0 <= UartMaxLen /\ 0 <= MaxFrames /\ 0 \in 0 .. MaxNoise
      BY DeframerAssumption
    <3>2. \A S : <<>> \in Seq(S)
      OBVIOUS
    <3> QED
      BY <2>1, <3>1, <3>2 DEF TypeOK
  <2>3. Calm /\ Synced
    BY <2>1, WantedEmpty DEF Calm, Synced, AllDone
  <2> QED
    BY <2>2, <2>3 DEF DInv
<1>2. DInv /\ [Next]_vars => DInv'
  <2> SUFFICES ASSUME DInv, [Next]_vars PROVE DInv'
    OBVIOUS
  <2>1. CASE Read
    <3>1. PICK chunk, rest \in Seq(Byte) : Turn(chunk, rest)
      BY <2>1, Typed, ReadIsTurn DEF DInv
    <3> QED
      BY <3>1, TurnStep
  <2>2. CASE Write
    BY <2>2, WriteStep
  <2>3. CASE Noise
    BY <2>3, NoiseStep
  <2>4. CASE ReadFails \/ UNCHANGED vars
    BY <2>4, FailStep
  <2> QED
    BY <2>1, <2>2, <2>3, <2>4 DEF Next
<1> QED
  BY <1>1, <1>2, PTL DEF Spec

-----------------------------------------------------------------------------
(* Type correctness: the decoder never makes the buffer longer than what   *)
(* the thread has read into it, whatever the line brings (fwd.c:101-124,   *)
(* packet.c:28-77).                                                        *)
THEOREM TypeCorrect == Spec => []TypeOK
<1>1. DInv => TypeOK
  BY DEF DInv
<1> QED
  BY <1>1, DeframerHolds, PTL

(* However the frames are cut into reads: all that arrived was queued, in  *)
(* order and once, if each was read before the next one came.              *)
THEOREM NothingLost == Spec => []NoneLost
<1>1. DInv => NoneLost
  <2> SUFFICES ASSUME DInv, calm, AllRead PROVE got = Wanted(sent)
    BY DEF NoneLost
  <2>1. Calm /\ rx \in {"running", "hungup", "gaveup"}
    BY DEF DInv, TypeOK
  <2>2. rx = "running" /\ wire = <<>>
    BY <2>1 DEF Calm, AllRead, Fatal
  <2>3. AllDone
    BY <2>1, <2>2 DEF Calm, Partway
  <2> QED
    BY <2>3 DEF AllDone
<1> QED
  BY <1>1, DeframerHolds, PTL

(* The decoder, which moves bytes within the buffer, never does so while   *)
(* there is nothing to correct.                                            *)
THEOREM BufferContiguous == Spec => []Contiguous
<1>1. DInv => Contiguous
  BY DEF DInv, Calm, Contiguous
<1> QED
  BY <1>1, DeframerHolds, PTL

(* Without noise and without haste: one frame ends the thread, the one of  *)
(* PKT_ERROR bytes, and nothing sent before it is missing or sent after it *)
(* is queued (fwd.c:117-118).                                              *)
THEOREM OnlyPktErrorStops == Spec => []GivesUpAtPktError
<1>1. DInv => GivesUpAtPktError
  BY DEF DInv, Calm, GivesUpAtPktError
<1> QED
  BY <1>1, DeframerHolds, PTL

(* Whatever noise there was and whatever overflowed: a frame that the      *)
(* thread has, from an empty buffer on, at the end of a read is queued.    *)
THEOREM FramesTaken == Spec => FrameTaken
<1> DEFINE Taken(raw) == (Chunk # <<>> /\ FromEmpty \o Chunk = RadioEncode(raw))
                            => got' = Append(got, raw)
<1>1. ASSUME DInv, [Next]_vars, NEW raw \in Packets, Accepted(raw), Ordinary(raw)
      PROVE  Taken(raw)
  <2> SUFFICES ASSUME Chunk # <<>>, FromEmpty \o Chunk = RadioEncode(raw)
               PROVE  got' = Append(got, raw)
    OBVIOUS
  <2>1. Bytes4 /\ Synced
    BY <1>1, Typed DEF DInv
  <2>2. CASE Read
    <3>1. PICK chunk, rest \in Seq(Byte) : Turn(chunk, rest)
      BY <2>1, <2>2, ReadIsTurn
    <3>2. rx = "running" /\ Chunk = chunk /\ chunk # <<>>
      BY <3>1 DEF Turn
    <3>3. RadioEncode(raw)[1] = Sync
      BY FrameType
    <3>4. Start = FromEmpty
      BY <2>1, <3>2, <3>3, StartIs
    <3> DEFINE x == Start \o chunk
               d == Decode(x)
    <3>5. x \in Seq(Byte) /\ x # <<>>
      BY <2>1, <3>1, TurnType
    <3>6. x = RadioEncode(raw)
      BY <3>2, <3>4
    <3>7. /\ d.used # PktError => got' = IF d.raw = <<>> THEN got ELSE Append(got, d.raw)
      BY <3>1 DEF Turn
    <3> HIDE DEF x
    <3>8. x \o <<>> = RadioEncode(raw) /\ <<>> \in Seq(Byte)
      BY <3>5, <3>6, ConcatEmptySeq
    <3>9. d = [used |-> Len(x), buf |-> x, raw |-> IF Accepted(raw) THEN raw ELSE <<>>]
      BY <3>5, <3>8, FrameDecode
    <3>10. d.used = Len(x) /\ d.raw = raw
      BY <1>1, <3>9
    <3>11. d.used # PktError
      BY <1>1, <3>6, <3>10 DEF Ordinary
    <3>12. raw # <<>>
      BY <1>1 DEF Accepted
    <3> QED
      BY <3>7, <3>10, <3>11, <3>12
  <2>3. ASSUME Len(wire') \in Nat, Len(wire) \in Nat, Len(wire') >= Len(wire) PROVE FALSE
    <3>1. Len(wire) - Len(wire') \in Int /\ Len(wire) - Len(wire') < 1
      BY <2>3
    <3>2. SubSeq(wire, 1, Len(wire) - Len(wire')) = <<>>
      BY <3>1, SubSeqEmpty
    <3> QED
      BY <3>2 DEF Chunk
  <2>4. CASE ReadFails \/ UNCHANGED vars
    <3>1. wire' = wire /\ Len(wire) \in Nat
      BY <2>1, <2>4 DEF ReadFails, vars, Bytes4
    <3> QED
      BY <2>3, <3>1
  <2>5. CASE Write
    <3>1. PICK r \in Packets : wire' = wire \o RadioEncode(r)
      BY <2>5 DEF Write
    <3>2. wire \in Seq(Byte) /\ RadioEncode(r) \in Seq(Byte)
      BY <2>1, FrameType DEF Bytes4
    <3>3. Len(wire') = Len(wire) + Len(RadioEncode(r))
      BY <3>1, <3>2, ConcatProperties
    <3>4. Len(wire) \in Nat /\ Len(RadioEncode(r)) \in Nat
      BY <3>2
    <3> QED
      BY <2>3, <3>3, <3>4
  <2>6. CASE Noise
    <3>1. PICK b \in NoiseBytes : wire' = Append(wire, b)
      BY <2>6 DEF Noise
    <3>2. wire \in Seq(Byte) /\ b \in Byte
      BY <2>1, DeframerAssumption DEF Bytes4, Byte
    <3>3. Len(wire') = Len(wire) + 1 /\ Len(wire) \in Nat
      BY <3>1, <3>2, AppendProperties
    <3> QED
      BY <2>3, <3>3
  <2> QED
    BY <1>1, <2>2, <2>4, <2>5, <2>6 DEF Next
<1>2. DInv /\ [Next]_vars => \A raw \in {p \in Packets : Accepted(p) /\ Ordinary(p)} : Taken(raw)
  BY <1>1
<1>3. DInv /\ [Next]_vars =>
        [\A raw \in {p \in Packets : Accepted(p) /\ Ordinary(p)} : Taken(raw)]_vars
  BY <1>2
<1> QED
  BY <1>3, DeframerHolds, PTL DEF Spec, FrameTaken
=============================================================================
