---------------------------- MODULE RelayProofs ----------------------------
(***************************************************************************)
(* What module Relay's run checks on two sources and two radios, for any   *)
(* numbers of sources, sensors and radios, any sizes of payloads and any   *)
(* cache; and that all programs together are the channel of ReturnChannel. *)
(***************************************************************************)
EXTENDS Relay, MessagesProofs, SequenceTheorems, FiniteSetTheorems

-----------------------------------------------------------------------------
(* Packets. *)

LEMMA HeardIsPacket ==
  ASSUME NEW d \in Device, NEW pl \in Payload
  PROVE  Heard(d, pl) \in Packet /\ Forwarded(Heard(d, pl))
<1>1. \A n \in 0 .. UartMaxLen - RxPktSize : RxPktSize + n \in RxPktSize .. UartMaxLen
  BY DEF RxPktSize, UartMaxLen
<1>2. pl.size \in 0 .. UartMaxLen - RxPktSize
  BY DEF Payload
<1>3. \A n : n \in 0 .. UartMaxLen - RxPktSize => RxPktSize + n \in RxPktSize .. UartMaxLen
  BY <1>1
<1>4. RxPktSize + pl.size \in RxPktSize .. UartMaxLen
  BY <1>2, <1>3, Zenon
<1>5. /\ Heard(d, pl) \in [type : {"rx", "tx"}, len : RxPktSize .. UartMaxLen,
                          src : Device, payload : Payload]
      /\ Heard(d, pl).type = "rx"
      /\ Heard(d, pl).len = RxPktSize + Heard(d, pl).payload.size
  BY <1>4 DEF Heard
<1> QED
  BY <1>5 DEF Packet, Forwarded

LEMMA RequestLen == ASSUME NEW s \in Source PROVE PktLen[s] \in 27 .. 2034
<1>1. PktLen \in [Source -> RequestSize .. UartMaxLen - RxPktSize]
  BY RelayAssumption, Zenon
<1>2. RequestSize .. UartMaxLen - RxPktSize = 27 .. 2034
  BY DEF RequestSize, UartMaxLen, RxPktSize
<1> QED
  BY <1>1, <1>2

LEMMA SmallLength == ASSUME NEW k \in 27 .. 2034 PROVE U16(k) = k
<1>1. k % 65536 = k
  BY SMTT(60)
<1> QED
  BY <1>1 DEF U16

\* A request of a source, and what the others make of it.
LEMMA SourcePacket ==
  ASSUME NEW s \in Source, NEW q \in SeqNo
  PROVE  LET p == Request(s, q)
             m == Message(p)
         IN  /\ p \in Packet /\ Forwarded(p)
             /\ m.type = "relay" /\ m.relay.origin = OriginOf[s]
             /\ Usable(m) /\ Returnable(OriginOf[s])
             /\ SrcAccepts(m, m.len, OriginOf[s])
<1> DEFINE pl == [size |-> PktLen[s], magic |-> TRUE, relay |-> [origin |-> OriginOf[s], seq |-> q]]
           p == Request(s, q)
           m == Message(p)
<1>1. pl \in Payload /\ RadioOf[s] \in Device /\ OriginOf[s] \in Origin /\ Returnable(OriginOf[s])
  <2>1. PktLen[s] \in 0 .. UartMaxLen - RxPktSize
    BY RequestLen DEF UartMaxLen, RxPktSize
  <2> QED
    BY <2>1, RelayAssumption DEF Payload, Relay
<1>2. p = Heard(RadioOf[s], pl)
  BY DEF Request
<1>3. p \in Packet /\ Forwarded(p)
  BY <1>1, <1>2, HeardIsPacket
<1>4. p.len = RxPktSize + PktLen[s] /\ p.payload.magic /\ p.payload.relay.origin = OriginOf[s]
  BY <1>2 DEF Heard
<1>5. IsRequest(p)
  <2>1. PICK k \in 27 .. 2034 : k = PktLen[s]
    BY RequestLen
  <2>2. p.len - RxPktSize = k
    BY <1>4, <2>1 DEF RxPktSize
  <2>3. U16(k) = k
    BY SmallLength
  <2>4. U16(p.len - RxPktSize) = k /\ k >= RequestSize
    BY <2>1, <2>2, <2>3 DEF RequestSize
  <2>5. p.payload.magic
    BY <1>4
  <2> HIDE DEF p
  <2> QED
    BY <2>4, <2>5 DEF IsRequest
<1>6. m.type = "relay" /\ m.relay.origin = OriginOf[s]
  BY <1>4, <1>5 DEF Message
<1>7. DstAccepts(m, m.len) /\ SrcAccepts(m, m.len, OriginOf[s])
  BY <1>3, <1>4, <1>6, DstAlwaysTakes, SourceAlwaysTakes DEF DstTakesAll, SourceTakesItsOwn
<1> QED
  BY <1>1, <1>3, <1>6, <1>7 DEF Usable

\* What a sensor sends is never returned to anyone.
LEMMA SensorPacket ==
  ASSUME NEW d \in Sensor, NEW pl \in SensorPayload
  PROVE  LET p == Heard(d, pl)
             m == Message(p)
         IN  /\ p \in Packet /\ Forwarded(p)
             /\ m.src = d
             /\ ~(Usable(m) /\ m.type = "relay")
<1> DEFINE p == Heard(d, pl)
           m == Message(p)
<1>1. d \in Device /\ pl \in Payload
  BY RelayAssumption
<1>2. p \in Packet /\ Forwarded(p)
  BY <1>1, HeardIsPacket
<1>3. m.src = d /\ m.relay = pl.relay /\ p.payload = pl
  BY DEF Message, Heard
<1>4. ASSUME m.type = "relay" PROVE ~Returnable(m.relay.origin)
  <2>1. IsRequest(p)
    BY <1>4 DEF Message
  <2>2. pl.magic /\ pl.size >= RequestSize
    BY <1>2, <1>3, <2>1, Lengths DEF IsRequest, Size, RequestSize
  <2> QED
    BY <1>3, <2>2, RelayAssumption
<1> QED
  BY <1>2, <1>3, <1>4 DEF Usable

-----------------------------------------------------------------------------
(* The invariant. *)

\* A transmission is what its sender made, and says when.
Genuine(t) ==
    /\ t \in Transmission
    /\ \/ /\ t.from \in Source
          /\ t.n <= written[t.from]
          /\ \E q \in SeqNo : t.packet = Request(t.from, q)
       \/ /\ t.from \in Sensor
          /\ t.n <= sensed[t.from]
          /\ \E pl \in SensorPayload : t.packet = Heard(t.from, pl)

Known == /\ \A f \in Fwd : \A t \in air[f] : Genuine(t)
         /\ \A h \in up \cup unix : Genuine(h.t)
         /\ \A h \in unix : h.t.from \in Sensor
         /\ \A r \in back : Genuine(r.t) /\ r.t.from \in Source /\ r.to = OriginOf[r.t.from]

\* Where a transmission is between a sender and the end of its way back.
Moving == (UNION {air[f] : f \in Fwd}) \cup {h.t : h \in up \cup back}

(* A sender and a number make a transmission. *)
Unique == \A t, u \in Moving : t.from = u.from /\ t.n = u.n => t = u

(* Of what one fwd heard there is one copy, in one place. *)
Apart == /\ \A f \in Fwd : \A t \in air[f] : [by |-> f, t |-> t] \notin up
         /\ \A r \in back : r.t \notin air[r.by] /\ [by |-> r.by, t |-> r.t] \notin up

(* Only the last transmission can be missing from the count. *)
Tally == \A s \in Source : /\ written[s] \in {cntExp[s], cntExp[s] + 1}
                           /\ txPc[s] = "write" => written[s] = cntExp[s]
                           /\ txPc[s] = "count" => written[s] = cntExp[s] + 1

IInv == /\ TypeOK
        /\ Known
        /\ Unique
        /\ Apart
        /\ Tally
        /\ FirstComeOnly
        /\ PlayedAsSent

LEMMA InitInv == Init => IInv
<1> SUFFICES ASSUME Init PROVE IInv
  OBVIOUS
<1> USE DEF Init
<1>1. cache \in Seq(Origin) /\ Len(cache) = 0 /\ DOMAIN cache = {}
  BY EmptySeq
<1>2. TypeOK
  BY <1>1, RelayAssumption DEF TypeOK
<1>3. Moving = {}
  BY DEF Moving
<1>4. Known /\ Unique /\ Apart /\ Tally
  BY <1>3 DEF Known, Unique, Apart, Tally
<1>5. FirstComeOnly /\ PlayedAsSent
  BY <1>1 DEF FirstComeOnly, PlayedAsSent, Entry
<1> QED
  BY <1>2, <1>4, <1>5 DEF IInv

-----------------------------------------------------------------------------
(* Each step preserves it. *)

LEMMA InMoving ==
  \A t : t \in Moving <=> \/ \E f \in Fwd : t \in air[f]
                          \/ \E h \in up : t = h.t
                          \/ \E r \in back : t = r.t
<1>1. \A t : t \in UNION {air[f] : f \in Fwd} <=> \E f \in Fwd : t \in air[f]
  OBVIOUS
<1>2. \A t : t \in {h.t : h \in up \cup back} <=> \E h \in up \cup back : t = h.t
  OBVIOUS
<1> QED
  BY <1>1, <1>2 DEF Moving

\* Steps that move no packet.
LEMMA OwnStep ==
  ASSUME IInv, NEW s \in Source,
         SrcFails(s) \/ PressEnter(s) \/ SrcCount(s) \/ CancelTx(s) \/ Join(s)
  PROVE  /\ IInv'
         /\ UNCHANGED <<written, cnt, air, up, back>>
<1> USE DEF IInv
<1>1. UNCHANGED <<seq, written, cnt, sensed, air, up, cache, refused, back, unix, played>>
  BY DEF SrcFails, PressEnter, SrcCount, CancelTx, Join
<1>2. Known'
  BY <1>1 DEF Known, Genuine
<1>3. Unique' /\ Apart' /\ FirstComeOnly' /\ PlayedAsSent'
  BY <1>1 DEF Unique, Moving, Apart, FirstComeOnly, Entry, PlayedAsSent
<1>4. TypeOK' /\ Tally'
  <2>1. CASE SrcCount(s)
    <3>1. /\ txPc[s] = "count" /\ txPc' = [txPc EXCEPT ![s] = "write"]
          /\ cntExp' = [cntExp EXCEPT ![s] = @ + 1] /\ main' = main
      BY <2>1 DEF SrcCount
    <3>2. written[s] = cntExp[s] + 1 /\ written[s] \in 0 .. MaxSent /\ cntExp[s] \in 0 .. MaxSent
      BY <3>1 DEF Tally, TypeOK
    <3>3. cntExp[s] + 1 \in 0 .. MaxSent
      BY <3>2
    <3>4. TypeOK'
      BY <1>1, <3>1, <3>3 DEF TypeOK
    <3>5. Tally'
      BY <1>1, <3>1, <3>2 DEF Tally, TypeOK
    <3> QED
      BY <3>4, <3>5
  <2>2. CASE CancelTx(s)
    <3>1. txPc[s] = "write" /\ txPc' = [txPc EXCEPT ![s] = "dead"] /\ UNCHANGED <<cntExp, main>>
      BY <2>2 DEF CancelTx
    <3>2. TypeOK'
      BY <1>1, <3>1 DEF TypeOK
    <3>3. Tally'
      BY <1>1, <3>1 DEF Tally, TypeOK
    <3> QED
      BY <3>2, <3>3
  <2>3. CASE SrcFails(s) \/ PressEnter(s) \/ Join(s)
    <3>1. /\ UNCHANGED <<txPc, cntExp>>
          /\ \E m \in {"stopping", "done", "exited"} : main' = [main EXCEPT ![s] = m]
      BY <2>3 DEF SrcFails, PressEnter, Join
    <3>2. TypeOK'
      BY <1>1, <3>1 DEF TypeOK
    <3>3. Tally'
      BY <1>1, <3>1 DEF Tally
    <3> QED
      BY <3>2, <3>3
  <2> QED
    BY <2>1, <2>2, <2>3
<1> QED
  BY <1>1, <1>2, <1>3, <1>4

\* A sender never repeats a number, so what it made is told from what it makes.
LEMMA TransmitStep ==
  ASSUME IInv, NEW t \in Transmission, Transmit(t), Genuine(t)',
         UNCHANGED <<up, back, unix>>,
         \A u : Genuine(u) => Genuine(u)' /\ ~(u.from = t.from /\ u.n = t.n)
  PROVE  air' \in [Fwd -> SUBSET Transmission] /\ Known' /\ Unique' /\ Apart'
<1> USE DEF IInv
<1>1. PICK R \in SUBSET Fwd :
         air' = [f \in Fwd |-> IF f \in R THEN air[f] \cup {t} ELSE air[f]]
  BY DEF Transmit
<1>2. air' \in [Fwd -> SUBSET Transmission] /\ \A f \in Fwd : air'[f] \subseteq air[f] \cup {t}
  BY <1>1 DEF TypeOK
<1>3. Known'
  BY <1>2 DEF Known
<1>4. \A u \in Moving : Genuine(u)
  <2>1. \A h \in up : Genuine(h.t)
    BY DEF Known
  <2>2. \A r \in back : Genuine(r.t)
    BY DEF Known
  <2> QED
    BY <2>1, <2>2, InMoving DEF Known
<1>5. Moving' \subseteq Moving \cup {t}
  BY <1>2 DEF Moving
<1>6. Unique'
  BY <1>4, <1>5 DEF Unique
<1>7. Apart'
  <2>1. t \notin Moving
    BY <1>4
  <2>2. \A f \in Fwd : [by |-> f, t |-> t] \notin up
    BY <2>1, InMoving
  <2>3. \A r \in back : r.t # t
    BY <2>1, InMoving
  <2>4. \A r \in back : r.by \in Fwd
    BY DEF TypeOK
  <2> QED
    BY <1>2, <2>2, <2>3, <2>4 DEF Apart
<1> QED
  BY <1>2, <1>3, <1>6, <1>7

\* A write, counted later or cut off.
LEMMA WritesStep ==
  ASSUME IInv, NEW s \in Source, txPc[s] = "write", Writes(s),
         NEW pc \in {"count", "dead"}, txPc' = [txPc EXCEPT ![s] = pc]
  PROVE  IInv'
<1> USE DEF IInv
<1> DEFINE q == NextSeq(seq[s])
<1>1. /\ written[s] < MaxSent
      /\ seq' = [seq EXCEPT ![s] = q] /\ written' = [written EXCEPT ![s] = @ + 1]
      /\ Transmit([from |-> s, n |-> written[s] + 1, packet |-> Request(s, q)])
      /\ UNCHANGED <<cntExp, cnt, main, sensed, up, cache, refused, back, unix, played>>
  BY DEF Writes
<1>2. q \in SeqNo
  BY RelayAssumption DEF NextSeq
<1>3. written[s] \in 0 .. MaxSent /\ written[s] + 1 \in 1 .. MaxSent /\ written'[s] = written[s] + 1
  BY <1>1, RelayAssumption DEF TypeOK
<1>4. PICK t \in Transmission :
         /\ t.from = s /\ t.n = written[s] + 1 /\ t.packet = Request(s, q)
         /\ Transmit(t)
  <2>1. Request(s, q) \in Packet
    BY <1>2, SourcePacket
  <2>2. [from |-> s, n |-> written[s] + 1, packet |-> Request(s, q)] \in Transmission
    BY <1>3, <2>1 DEF Transmission
  <2> QED
    BY <1>1, <2>2
<1>5. Genuine(t)'
  BY <1>2, <1>3, <1>4 DEF Genuine
<1>6. ASSUME NEW u, Genuine(u) PROVE Genuine(u)' /\ ~(u.from = t.from /\ u.n = t.n)
  <2>1. u.n \in 1 .. MaxSent
    BY <1>6 DEF Genuine, Transmission
  <2>2. CASE u.from \in Source
    <3>1. u.n <= written[u.from] /\ \E r \in SeqNo : u.packet = Request(u.from, r)
      BY <1>6, <2>2, RelayAssumption DEF Genuine
    <3>2. written[u.from] \in 0 .. MaxSent /\ (written'[u.from] = written[u.from] \/ u.from = s)
      BY <1>1, <2>2 DEF TypeOK
    <3>3. u.n <= written'[u.from] /\ ~(u.from = s /\ u.n = written[s] + 1)
      BY <1>3, <2>1, <3>1, <3>2
    <3> QED
      BY <1>4, <1>6, <2>2, <3>1, <3>3 DEF Genuine
  <2>3. CASE u.from \notin Source
    BY <1>1, <1>4, <1>6, <2>3 DEF Genuine
  <2> QED
    BY <2>2, <2>3
<1>7. air' \in [Fwd -> SUBSET Transmission] /\ Known' /\ Unique' /\ Apart'
  BY <1>1, <1>4, <1>5, <1>6, TransmitStep
<1>8. TypeOK'
  <2>1. /\ seq' \in [Source -> SeqNo] /\ txPc' \in [Source -> {"write", "count", "dead"}]
    BY <1>1, <1>2 DEF TypeOK
  <2>2. written' \in [Source -> 0 .. MaxSent]
    BY <1>1, <1>3 DEF TypeOK
  <2> QED
    BY <1>1, <1>7, <2>1, <2>2 DEF TypeOK
<1>9. Tally'
  BY <1>1, <1>3 DEF Tally, TypeOK
<1>10. FirstComeOnly' /\ PlayedAsSent'
  BY <1>1 DEF FirstComeOnly, Entry, PlayedAsSent
<1> QED
  BY <1>7, <1>8, <1>9, <1>10

LEMMA SenseStep == ASSUME IInv, NEW d \in Sensor, Sense(d) PROVE IInv'
<1> USE DEF IInv
<1>1. PICK pl \in SensorPayload :
         Transmit([from |-> d, n |-> sensed[d] + 1, packet |-> Heard(d, pl)])
  BY DEF Sense
<1>2. /\ sensed[d] < MaxSent /\ sensed' = [sensed EXCEPT ![d] = @ + 1]
      /\ UNCHANGED <<seq, written, cntExp, cnt, txPc, main, up, cache, refused, back, unix, played>>
  BY DEF Sense, srcVars
<1>3. sensed[d] \in 0 .. MaxSent /\ sensed[d] + 1 \in 1 .. MaxSent /\ sensed'[d] = sensed[d] + 1
  BY <1>2, RelayAssumption DEF TypeOK
<1>4. PICK t \in Transmission :
         /\ t.from = d /\ t.n = sensed[d] + 1 /\ t.packet = Heard(d, pl)
         /\ Transmit(t)
  <2>1. Heard(d, pl) \in Packet
    BY <1>1, SensorPacket
  <2>2. [from |-> d, n |-> sensed[d] + 1, packet |-> Heard(d, pl)] \in Transmission
    BY <1>3, <2>1 DEF Transmission
  <2> QED
    BY <1>1, <2>2
<1>5. Genuine(t)'
  BY <1>1, <1>3, <1>4 DEF Genuine
<1>6. ASSUME NEW u, Genuine(u) PROVE Genuine(u)' /\ ~(u.from = t.from /\ u.n = t.n)
  <2>1. u.n \in 1 .. MaxSent
    BY <1>6 DEF Genuine, Transmission
  <2>2. CASE u.from \in Sensor
    <3>1. u.n <= sensed[u.from] /\ \E pay \in SensorPayload : u.packet = Heard(u.from, pay)
      BY <1>6, <2>2, RelayAssumption DEF Genuine
    <3>2. sensed[u.from] \in 0 .. MaxSent /\ (sensed'[u.from] = sensed[u.from] \/ u.from = d)
      BY <1>2, <2>2 DEF TypeOK
    <3>3. u.n <= sensed'[u.from] /\ ~(u.from = d /\ u.n = sensed[d] + 1)
      BY <1>3, <2>1, <3>1, <3>2
    <3> QED
      BY <1>4, <1>6, <2>2, <3>1, <3>3 DEF Genuine
  <2>3. CASE u.from \notin Sensor
    BY <1>2, <1>4, <1>6, <2>3 DEF Genuine
  <2> QED
    BY <2>2, <2>3
<1>7. air' \in [Fwd -> SUBSET Transmission] /\ Known' /\ Unique' /\ Apart'
  BY <1>2, <1>4, <1>5, <1>6, TransmitStep
<1>8. TypeOK'
  <2>1. sensed' \in [Sensor -> 0 .. MaxSent]
    BY <1>2, <1>3 DEF TypeOK
  <2> QED
    BY <1>2, <1>7, <2>1 DEF TypeOK
<1>9. Tally' /\ FirstComeOnly' /\ PlayedAsSent'
  BY <1>2 DEF Tally, FirstComeOnly, Entry, PlayedAsSent
<1> QED
  BY <1>7, <1>8, <1>9

LEMMA InMovingNext ==
  \A t : t \in Moving' <=> \/ \E f \in Fwd : t \in air'[f]
                           \/ \E h \in up' : t = h.t
                           \/ \E r \in back' : t = r.t
<1>1. \A t : t \in UNION {air'[f] : f \in Fwd} <=> \E f \in Fwd : t \in air'[f]
  OBVIOUS
<1>2. \A t : t \in {h.t : h \in up' \cup back'} <=> \E h \in up' \cup back' : t = h.t
  OBVIOUS
<1> QED
  BY <1>1, <1>2 DEF Moving

LEMMA GenuineKept ==
  ASSUME UNCHANGED <<written, sensed>>
  PROVE  \A t : Genuine(t)' <=> Genuine(t)
BY DEF Genuine

\* Steps that only take packets away.
LEMMA ShrinkStep ==
  ASSUME IInv, UNCHANGED <<written, sensed>>,
         air' \in [Fwd -> SUBSET Transmission], \A f \in Fwd : air'[f] \subseteq air[f],
         up' \subseteq up, back' \subseteq back, unix' \subseteq unix
  PROVE  Known' /\ Unique' /\ Apart'
<1> USE DEF IInv
<1>1. Known'
  <2>1. \A t : Genuine(t)' <=> Genuine(t)
    BY GenuineKept
  <2> QED
    BY <2>1 DEF Known
<1>2. Moving' \subseteq Moving
  BY InMoving, InMovingNext
<1>3. Unique'
  BY <1>2 DEF Unique
<1>4. Apart'
  <2>1. \A r \in back : r.by \in Fwd
    BY DEF TypeOK
  <2> QED
    BY <2>1 DEF Apart
<1> QED
  BY <1>1, <1>3, <1>4

LEMMA LoseStep == ASSUME IInv, Lose PROVE IInv'
<1> USE DEF IInv
<1>1. UNCHANGED <<seq, written, cntExp, cnt, txPc, main, sensed, cache, refused, played>>
  BY DEF Lose, srcVars
<1>2. /\ air' \in [Fwd -> SUBSET Transmission] /\ \A f \in Fwd : air'[f] \subseteq air[f]
      /\ up' \subseteq up /\ back' \subseteq back /\ unix' \subseteq unix
  BY DEF Lose, TypeOK
<1>3. Known' /\ Unique' /\ Apart'
  BY <1>1, <1>2, ShrinkStep
<1>4. TypeOK'
  BY <1>1, <1>2 DEF TypeOK
<1>5. Tally' /\ FirstComeOnly' /\ PlayedAsSent'
  BY <1>1 DEF Tally, FirstComeOnly, Entry, PlayedAsSent
<1> QED
  BY <1>3, <1>4, <1>5

LEMMA SrcReceivesStep == ASSUME IInv, NEW s \in Source, SrcReceives(s) PROVE IInv'
<1> USE DEF IInv
<1>1. /\ UNCHANGED <<seq, written, cntExp, txPc, main, sensed, air, up, cache, refused, unix, played>>
      /\ back' \subseteq back
  BY DEF SrcReceives
<1>2. cnt' \in [Source -> Nat]
  <2>1. cnt' = [cnt EXCEPT ![s] = cnt[s] + 1] \/ cnt' = [cnt EXCEPT ![s] = cnt[s]]
    BY DEF SrcReceives
  <2>2. cnt \in [Source -> Nat] /\ cnt[s] + 1 \in Nat
    BY DEF TypeOK
  <2> QED
    BY <2>1, <2>2
<1>3. Known' /\ Unique' /\ Apart'
  <2>1. air' \in [Fwd -> SUBSET Transmission]
    BY <1>1 DEF TypeOK
  <2> QED
    BY <1>1, <2>1, ShrinkStep
<1>4. TypeOK'
  BY <1>1, <1>2 DEF TypeOK
<1>5. Tally' /\ FirstComeOnly' /\ PlayedAsSent'
  BY <1>1 DEF Tally, FirstComeOnly, Entry, PlayedAsSent
<1> QED
  BY <1>3, <1>4, <1>5

LEMMA FwdStep == ASSUME IInv, NEW f \in Fwd, FwdSends(f) PROVE IInv'
<1> USE DEF IInv
<1>1. PICK t \in air[f] :
         /\ air' = [air EXCEPT ![f] = @ \ {t}]
         /\ up' = up \cup (IF Forwarded(t.packet) THEN {[by |-> f, t |-> t]} ELSE {})
  BY DEF FwdSends
<1>2. UNCHANGED <<seq, written, cntExp, cnt, txPc, main, sensed, cache, refused, back, unix, played>>
  BY DEF FwdSends, srcVars
<1>3. Genuine(t) /\ t \in Transmission
  BY <1>1 DEF Known, Genuine
<1>4. /\ air' \in [Fwd -> SUBSET Transmission] /\ t \notin air'[f]
      /\ \A g \in Fwd : air'[g] \subseteq air[g]
  BY <1>1 DEF TypeOK
<1>5. up' \subseteq up \cup {[by |-> f, t |-> t]}
  BY <1>1
<1>6. Known'
  <2>1. \A u : Genuine(u)' <=> Genuine(u)
    BY <1>2, GenuineKept
  <2>2. \A h \in up' \cup unix' : Genuine(h.t)
    BY <1>2, <1>3, <1>5 DEF Known
  <2> QED
    BY <1>2, <1>4, <2>1, <2>2 DEF Known
<1>7. Unique'
  <2>1. \A h \in up' : h.t \in Moving
    BY <1>1, <1>5, InMoving
  <2>2. Moving' \subseteq Moving
    BY <1>2, <1>4, <2>1, InMoving, InMovingNext
  <2> QED
    BY <2>2 DEF Unique
<1>8. Apart'
  <2>1. \A r \in back : r.by \in Fwd
    BY DEF TypeOK
  <2>2. \A g \in Fwd : \A u \in air'[g] : [by |-> g, t |-> u] \notin up'
    BY <1>1, <1>4, <1>5 DEF Apart
  <2>3. \A r \in back' : r.t \notin air'[r.by] /\ [by |-> r.by, t |-> r.t] \notin up'
    BY <1>1, <1>2, <1>4, <1>5, <2>1 DEF Apart
  <2> QED
    BY <2>2, <2>3 DEF Apart
<1>9. TypeOK'
  <2>1. up' \cup unix' \subseteq Hop
    BY <1>2, <1>3, <1>5 DEF TypeOK, Hop
  <2> QED
    BY <1>2, <1>4, <2>1 DEF TypeOK
<1>10. Tally' /\ FirstComeOnly' /\ PlayedAsSent'
  BY <1>2 DEF Tally, FirstComeOnly, Entry, PlayedAsSent
<1> QED
  BY <1>6, <1>7, <1>8, <1>9, <1>10

\* What dst may take is a request of a source, or data of a sensor.
LEMMA TakenUp ==
  ASSUME IInv, NEW h \in up
  PROVE  LET m == Message(h.t.packet)
         IN  /\ h \in Hop /\ Genuine(h.t)
             /\ h.t.from \in Source =>
                  /\ Usable(m) /\ m.type = "relay" /\ m.relay.origin = OriginOf[h.t.from]
                  /\ OriginOf[h.t.from] \in Origin
             /\ h.t.from \notin Source =>
                  /\ h.t.from \in Sensor
                  /\ ~(Usable(m) /\ m.type = "relay")
<1> DEFINE m == Message(h.t.packet)
<1>1. h \in Hop /\ Genuine(h.t)
  BY DEF IInv, TypeOK, Known
<1>2. ASSUME h.t.from \in Source
      PROVE  /\ Usable(m) /\ m.type = "relay" /\ m.relay.origin = OriginOf[h.t.from]
             /\ OriginOf[h.t.from] \in Origin
  <2>1. PICK q \in SeqNo : h.t.packet = Request(h.t.from, q)
    BY <1>1, <1>2, RelayAssumption DEF Genuine
  <2> QED
    BY <1>2, <2>1, SourcePacket, RelayAssumption
<1>3. ASSUME h.t.from \notin Source
      PROVE  h.t.from \in Sensor /\ ~(Usable(m) /\ m.type = "relay")
  <2>1. PICK pl \in SensorPayload : h.t.packet = Heard(h.t.from, pl) /\ h.t.from \in Sensor
    BY <1>1, <1>3 DEF Genuine
  <2> QED
    BY <2>1, SensorPacket
<1> QED
  BY <1>1, <1>2, <1>3

\* A message turned back keeps its place among the others.
LEMMA TurnedBack ==
  ASSUME IInv, NEW h \in up, h.t.from \in Source,
         UNCHANGED <<written, sensed, air, unix>>, up' = Dequeued(h),
         back' = back \cup {[to |-> OriginOf[h.t.from], by |-> h.by, t |-> h.t]}
  PROVE  /\ Known' /\ Unique' /\ Apart'
         /\ back' \subseteq [to : Origin, by : Fwd, t : Transmission]
<1> USE DEF IInv
<1>1. h \in Hop /\ Genuine(h.t) /\ OriginOf[h.t.from] \in Origin
  BY TakenUp
<1>2. up' = up \ {h} /\ h.by \in Fwd /\ h.t \in Transmission /\ h = [by |-> h.by, t |-> h.t]
  BY <1>1 DEF Dequeued, Hop
<1>3. PICK r : /\ r = [to |-> OriginOf[h.t.from], by |-> h.by, t |-> h.t]
               /\ r.to = OriginOf[h.t.from] /\ r.by = h.by /\ r.t = h.t
               /\ back' = back \cup {r}
  OBVIOUS
<1>4. Known'
  <2>1. \A u : Genuine(u)' <=> Genuine(u)
    BY GenuineKept
  <2>2. \A x \in back' : Genuine(x.t) /\ x.t.from \in Source /\ x.to = OriginOf[x.t.from]
    BY <1>1, <1>3 DEF Known
  <2>3. \A x \in up' \cup unix' : Genuine(x.t)
    BY <1>2 DEF Known
  <2> QED
    BY <2>1, <2>2, <2>3 DEF Known
<1>5. Unique'
  <2>1. \A x \in back' : x.t \in Moving
    BY <1>3, InMoving
  <2>2. Moving' \subseteq Moving
    BY <1>2, <2>1, InMoving, InMovingNext
  <2> QED
    BY <2>2 DEF Unique
<1>6. Apart'
  <2>1. h.t \notin air[h.by]
    BY <1>2 DEF Apart
  <2>2. \A x \in back' : x.t \notin air[x.by] /\ [by |-> x.by, t |-> x.t] \notin up'
    BY <1>2, <1>3, <2>1 DEF Apart
  <2> QED
    BY <1>2, <2>2 DEF Apart
<1>7. back' \subseteq [to : Origin, by : Fwd, t : Transmission]
  <2>1. r \in [to : Origin, by : Fwd, t : Transmission]
    BY <1>1, <1>2, <1>3
  <2> QED
    BY <1>3, <2>1 DEF TypeOK
<1> QED
  BY <1>4, <1>5, <1>6, <1>7

\* The address cache, when dst returns a request.
LEMMA CacheStep ==
  ASSUME IInv, NEW h, NEW m, DstReturns(h, m), m.relay.origin \in Origin, played' = played
  PROVE  /\ cache' \in Seq(Origin) /\ Len(cache') <= MaxAddrCache
         /\ refused' \subseteq Origin
         /\ FirstComeOnly'
<1> USE DEF IInv
<1> DEFINE o == m.relay.origin
<1>1. /\ cache \in Seq(Origin) /\ Len(cache) \in Nat /\ Len(cache) <= MaxAddrCache
      /\ DOMAIN cache = 1 .. Len(cache) /\ refused \subseteq Origin
  BY LenProperties DEF TypeOK
<1>2. CASE UNCHANGED <<cache, refused>>
  BY <1>1, <1>2 DEF FirstComeOnly, Entry
<1>3. CASE Entry(o) = {} /\ ~CacheFull /\ cache' = Append(cache, o) /\ refused' = refused
  <2>1. Len(cache) < MaxAddrCache
    BY <1>1, <1>3, RelayAssumption DEF CacheFull
  <2>2. refused = {}
    BY <2>1 DEF FirstComeOnly
  <2>3. /\ cache' \in Seq(Origin) /\ Len(cache') = Len(cache) + 1
        /\ DOMAIN cache' = 1 .. Len(cache) + 1
        /\ \A i \in 1 .. Len(cache) : cache'[i] = cache[i]
        /\ cache'[Len(cache) + 1] = o
    BY <1>1, <1>3, AppendProperties
  <2>4. Len(cache) + 1 <= MaxAddrCache
    BY <1>1, <2>1, RelayAssumption
  <2>5. \A i \in 1 .. Len(cache) : cache[i] # o
    BY <1>1, <1>3 DEF Entry
  <2>6. \A i, j \in DOMAIN cache' : cache'[i] = cache'[j] => i = j
    <3>1. \A i \in 1 .. Len(cache) + 1 : i \in 1 .. Len(cache) \/ i = Len(cache) + 1
      BY <1>1
    <3>2. \A i, j \in 1 .. Len(cache) : cache[i] = cache[j] => i = j
      BY <1>1 DEF FirstComeOnly
    <3> QED
      BY <2>3, <2>5, <3>1, <3>2
  <2>7. FirstComeOnly'
    BY <1>3, <2>2, <2>6 DEF FirstComeOnly
  <2> QED
    BY <1>1, <1>3, <2>3, <2>4, <2>7
<1>4. CASE Entry(o) = {} /\ CacheFull /\ refused' = refused \cup {o} /\ cache' = cache
  <2>1. Len(cache) = MaxAddrCache
    <3>1. MaxAddrCache \in Nat /\ Len(cache) >= MaxAddrCache
      BY <1>4, RelayAssumption DEF CacheFull
    <3>2. \A a, b \in Nat : a <= b /\ a >= b => a = b
      OBVIOUS
    <3> QED
      BY <1>1, <3>1, <3>2, Zenon
  <2>2. \A x : Entry(x)' = Entry(x)
    BY <1>4 DEF Entry
  <2>3. FirstComeOnly'
    BY <1>4, <2>1, <2>2 DEF FirstComeOnly
  <2> QED
    BY <1>1, <1>4, <2>3
<1> QED
  BY <1>2, <1>3, <1>4 DEF DstReturns

LEMMA DstStep == ASSUME IInv, Dst PROVE IInv'
<1> USE DEF IInv
<1>1. PICK h \in up :
         /\ up' = Dequeued(h)
         /\ \/ DstIgnores(h, Message(h.t.packet))
            \/ DstReturns(h, Message(h.t.packet))
            \/ DstPasses(h, Message(h.t.packet))
  BY DEF Dst
<1> DEFINE m == Message(h.t.packet)
<1>2. UNCHANGED <<seq, written, cntExp, cnt, txPc, main, sensed, air, played>>
  BY DEF Dst, srcVars
<1>3. /\ up' \subseteq up /\ up' \subseteq Hop
      /\ air' \in [Fwd -> SUBSET Transmission]
  BY <1>1, <1>2 DEF Dequeued, TypeOK
<1>4. Tally' /\ PlayedAsSent'
  BY <1>2 DEF Tally, PlayedAsSent
<1>5. CASE DstIgnores(h, m)
  <2>1. UNCHANGED <<cache, refused, back, unix>>
    BY <1>5 DEF DstIgnores
  <2>2. Known' /\ Unique' /\ Apart'
    BY <1>2, <1>3, <2>1, ShrinkStep
  <2>3. TypeOK' /\ FirstComeOnly'
    BY <1>2, <1>3, <2>1 DEF TypeOK, FirstComeOnly, Entry
  <2> QED
    BY <1>4, <2>2, <2>3
<1>6. CASE DstReturns(h, m)
  <2>1. /\ h.t.from \in Source /\ m.relay.origin = OriginOf[h.t.from]
        /\ OriginOf[h.t.from] \in Origin
    BY <1>6, TakenUp DEF DstReturns
  <2>2. /\ cache' \in Seq(Origin) /\ Len(cache') <= MaxAddrCache
        /\ refused' \subseteq Origin /\ FirstComeOnly'
    BY <1>2, <1>6, <2>1, CacheStep
  <2>3. /\ unix' = unix
        /\ \/ back' = back
           \/ back' = back \cup {[to |-> OriginOf[h.t.from], by |-> h.by, t |-> h.t]}
    BY <1>6, <2>1 DEF DstReturns, Entry
  <2>4. /\ Known' /\ Unique' /\ Apart'
        /\ back' \subseteq [to : Origin, by : Fwd, t : Transmission]
    <3>1. CASE back' = back
      BY <1>2, <1>3, <2>3, <3>1, ShrinkStep DEF TypeOK
    <3>2. CASE back' = back \cup {[to |-> OriginOf[h.t.from], by |-> h.by, t |-> h.t]}
      BY <1>1, <1>2, <2>1, <2>3, <3>2, TurnedBack
    <3> QED
      BY <2>3, <3>1, <3>2
  <2>5. TypeOK'
    BY <1>2, <1>3, <2>2, <2>3, <2>4 DEF TypeOK
  <2> QED
    BY <1>4, <2>2, <2>4, <2>5
<1>7. CASE DstPasses(h, m)
  <2>1. unix' = unix \cup {h} /\ m.type = "pkt" /\ UNCHANGED <<cache, refused, back>>
    BY <1>7 DEF DstPasses
  <2>2. h \in Hop /\ Genuine(h.t) /\ h.t.from \in Sensor
    BY <2>1, TakenUp
  <2>3. Known'
    <3>1. \A u : Genuine(u)' <=> Genuine(u)
      BY <1>2, GenuineKept
    <3>2. \A x \in up' \cup unix' : Genuine(x.t)
      BY <1>3, <2>1, <2>2 DEF Known
    <3>3. \A x \in unix' : x.t.from \in Sensor
      BY <2>1, <2>2 DEF Known
    <3> QED
      BY <1>2, <2>1, <3>1, <3>2, <3>3 DEF Known
  <2>4. Unique' /\ Apart'
    <3>1. Moving' \subseteq Moving
      BY <1>2, <1>3, <2>1, InMoving, InMovingNext
    <3>2. Unique'
      BY <3>1 DEF Unique
    <3>3. Apart'
      BY <1>2, <1>3, <2>1 DEF Apart
    <3> QED
      BY <3>2, <3>3
  <2>5. TypeOK' /\ FirstComeOnly'
    BY <1>2, <1>3, <2>1, <2>2 DEF TypeOK, FirstComeOnly, Entry
  <2> QED
    BY <1>4, <2>3, <2>4, <2>5
<1> QED
  BY <1>1, <1>5, <1>6, <1>7

LEMMA OscStep == ASSUME IInv, Osc PROVE IInv'
<1> USE DEF IInv
<1>1. PICK h \in unix :
         /\ unix' = unix \ {h}
         /\ LET m == Message(h.t.packet)
            IN  played' = played \cup
                  (IF OscTakes(m) THEN {[src |-> m.src, bytes |-> OscBytes(m), t |-> h.t]}
                                  ELSE {})
  BY DEF Osc
<1>2. UNCHANGED <<seq, written, cntExp, cnt, txPc, main, sensed, air, up, cache, refused, back>>
  BY DEF Osc, srcVars
<1>3. /\ unix' \subseteq unix /\ air' \in [Fwd -> SUBSET Transmission]
  BY <1>1, <1>2 DEF TypeOK
<1>4. Known' /\ Unique' /\ Apart'
  BY <1>2, <1>3, ShrinkStep
<1>5. TypeOK' /\ Tally' /\ FirstComeOnly'
  BY <1>2, <1>3 DEF TypeOK, Tally, FirstComeOnly, Entry
<1>6. PlayedAsSent'
  <2> DEFINE m == Message(h.t.packet)
             x == [src |-> m.src, bytes |-> OscBytes(m), t |-> h.t]
  <2>1. Genuine(h.t) /\ h.t.from \in Sensor
    BY <1>1 DEF Known
  <2>2. PICK pl \in SensorPayload : h.t.packet = Heard(h.t.from, pl)
    BY <2>1, RelayAssumption DEF Genuine
  <2>3. h.t.packet \in Packet /\ Forwarded(h.t.packet) /\ m.src = h.t.from
    BY <2>1, <2>2, SensorPacket
  <2>4. OscTakes(m) => OscBytes(m) = h.t.packet.payload.size
    BY <2>3, OscPrintsAll DEF WholePayload
  <2>5. OscTakes(m) => /\ x.t.from \in Sensor
                       /\ x.src = x.t.from
                       /\ x.bytes = x.t.packet.payload.size
    BY <2>1, <2>3, <2>4
  <2>6. played' = played \/ (OscTakes(m) /\ played' = played \cup {x})
    BY <1>1
  <2> HIDE DEF x
  <2> QED
    BY <2>5, <2>6 DEF PlayedAsSent
<1> QED
  BY <1>4, <1>5, <1>6

LEMMA StepInv == IInv /\ [Next]_vars => IInv'
<1> SUFFICES ASSUME IInv, [Next]_vars PROVE IInv'
  OBVIOUS
<1>1. CASE UNCHANGED vars
  <2>1. UNCHANGED <<seq, written, cntExp, cnt, txPc, main, sensed, air, up, cache, refused, back,
                    unix, played>>
    BY <1>1 DEF vars, srcVars
  <2>2. TypeOK' /\ Tally' /\ FirstComeOnly' /\ PlayedAsSent'
    BY <2>1 DEF IInv, TypeOK, Tally, FirstComeOnly, Entry, PlayedAsSent
  <2>3. Known' /\ Unique' /\ Apart'
    BY <2>1, ShrinkStep DEF IInv, TypeOK
  <2> QED
    BY <2>2, <2>3 DEF IInv
<1>2. CASE Next
  <2>1. ASSUME NEW s \in Source, \/ SrcWrite(s) \/ SrcFails(s) \/ SrcReceives(s)
                                 \/ PressEnter(s) \/ Stops(s)
        PROVE  IInv'
    <3>1. CASE SrcWrite(s)
      <4>1. txPc[s] = "write" /\ Writes(s) /\ txPc' = [txPc EXCEPT ![s] = "count"]
        BY <3>1 DEF SrcWrite
      <4> QED
        BY <4>1, WritesStep
    <3>2. CASE CancelInWrite(s)
      <4>1. txPc[s] = "write" /\ Writes(s) /\ txPc' = [txPc EXCEPT ![s] = "dead"]
        BY <3>2 DEF CancelInWrite
      <4> QED
        BY <4>1, WritesStep
    <3> QED
      BY <2>1, <3>1, <3>2, OwnStep, SrcReceivesStep DEF Stops
  <2>2. ASSUME NEW d \in Sensor, Sense(d) PROVE IInv'
    BY <2>2, SenseStep
  <2>3. ASSUME NEW f \in Fwd, FwdSends(f) PROVE IInv'
    BY <2>3, FwdStep
  <2>4. CASE Dst \/ Osc \/ Lose
    BY <2>4, DstStep, OscStep, LoseStep
  <2>5. CASE Quiet
    BY <1>1, <2>5 DEF Quiet
  <2> QED
    BY <1>2, <2>1, <2>2, <2>3, <2>4, <2>5 DEF Next
<1> QED
  BY <1>1, <1>2

-----------------------------------------------------------------------------
(* The properties of the run. *)

LEMMA Holds == Spec => []IInv
<1>1. Init => IInv
  BY InitInv
<1>2. IInv /\ [Next]_vars => IInv'
  BY StepInv
<1> QED
  BY <1>1, <1>2, PTL DEF Spec

(* All variables keep their types; of the address cache this is that it    *)
(* never holds more than MAX_ADDR_CACHE entries (dst.c:62-76).             *)
THEOREM TypeCorrect == Spec => []TypeOK
<1>1. IInv => TypeOK
  BY DEF IInv
<1> QED
  BY <1>1, Holds, PTL

(* Only a source's own requests come back to it, and it counts each        *)
(* (src.c:208-240, dst.c:256-287).                                         *)
THEOREM OwnRepliesOnly == Spec => []RepliesComeHome
<1>1. IInv => RepliesComeHome
  <2> SUFFICES ASSUME IInv, NEW r \in back
               PROVE  \E s \in Source : r.t.from = s /\ r.to = OriginOf[s] /\ Counts(s, r)
    BY DEF RepliesComeHome
  <2>1. Genuine(r.t) /\ r.t.from \in Source /\ r.to = OriginOf[r.t.from]
    BY DEF IInv, Known
  <2>2. PICK q \in SeqNo : r.t.packet = Request(r.t.from, q)
    BY <2>1, RelayAssumption DEF Genuine
  <2>3. Counts(r.t.from, r)
    BY <2>1, <2>2, SourcePacket DEF Counts
  <2> QED
    BY <2>1, <2>3
<1> QED
  BY <1>1, Holds, PTL

(* osc plays sensors' data, whole, and no source's request (osc.c:137-157).*)
THEOREM SensorsPlayed == Spec => []PlayedAsSent
<1>1. IInv => PlayedAsSent
  BY DEF IInv
<1> QED
  BY <1>1, Holds, PTL

(* Who is refused stays refused: the cache is filled once (dst.c:62-76).   *)
THEOREM CacheFilledOnce == Spec => []FirstComeOnly
<1>1. IInv => FirstComeOnly
  BY DEF IInv
<1> QED
  BY <1>1, Holds, PTL

-----------------------------------------------------------------------------
(* The refinement: every step is one of ReturnChannel, or none. *)

\* The transmission t, heard by f, may still come back to its source.
Held(f, t) == /\ t.from \in Source
              /\ \/ t \in air[f]
                 \/ [by |-> f, t |-> t] \in up
                 \/ \E r \in back : r.by = f /\ r.t = t

WayIsHeld == \A c : c \in OnTheWay <=> \E f \in Fwd : \E t \in Transmission :
                                          Held(f, t) /\ c = Copy(f, t)

LEMMA OnTheWayIs == TypeOK => WayIsHeld
<1> SUFFICES ASSUME TypeOK PROVE WayIsHeld
  OBVIOUS
<1>1. \A c : c \in InAir <=> \E f \in Fwd : \E t \in air[f] : c = Copy(f, t)
  BY DEF InAir
<1>2. \A c : c \in {Copy(h.by, h.t) : h \in up \cup back}
               <=> \E h \in up \cup back : c = Copy(h.by, h.t)
  OBVIOUS
<1>3. \A f, t : Copy(f, t).from = t.from
  BY DEF Copy
<1>4. \A f \in Fwd : air[f] \subseteq Transmission
  BY DEF TypeOK
<1>5. \A h \in up : h.by \in Fwd /\ h.t \in Transmission /\ h = [by |-> h.by, t |-> h.t]
  BY DEF TypeOK, Hop
<1>6. \A r \in back : r.by \in Fwd /\ r.t \in Transmission
  BY DEF TypeOK
<1>7. \A f, t : LET h == [by |-> f, t |-> t] IN h.by = f /\ h.t = t
  OBVIOUS
<1>8. ASSUME NEW c \in OnTheWay
      PROVE  \E f \in Fwd : \E t \in Transmission : Held(f, t) /\ c = Copy(f, t)
  <2>1. c.from \in Source /\ (c \in InAir \/ \E h \in up \cup back : c = Copy(h.by, h.t))
    BY <1>2 DEF OnTheWay
  <2>2. CASE c \in InAir
    BY <1>1, <1>3, <1>4, <2>1, <2>2 DEF Held
  <2>3. ASSUME NEW h \in up, c = Copy(h.by, h.t)
        PROVE  \E f \in Fwd : \E t \in Transmission : Held(f, t) /\ c = Copy(f, t)
    BY <1>3, <1>5, <2>1, <2>3 DEF Held
  <2>4. ASSUME NEW r \in back, c = Copy(r.by, r.t)
        PROVE  \E f \in Fwd : \E t \in Transmission : Held(f, t) /\ c = Copy(f, t)
    BY <1>3, <1>6, <2>1, <2>4 DEF Held
  <2> QED
    BY <2>1, <2>2, <2>3, <2>4
<1>9. ASSUME NEW f \in Fwd, NEW t \in Transmission, Held(f, t)
      PROVE  Copy(f, t) \in OnTheWay
  <2>1. CASE t \in air[f]
    BY <1>1, <1>3, <1>9, <2>1 DEF Held, OnTheWay
  <2>2. CASE [by |-> f, t |-> t] \in up
    BY <1>2, <1>3, <1>7, <1>9, <2>2 DEF Held, OnTheWay
  <2>3. CASE \E r \in back : r.by = f /\ r.t = t
    BY <1>2, <1>3, <1>9, <2>3 DEF Held, OnTheWay
  <2> QED
    BY <1>9, <2>1, <2>2, <2>3 DEF Held
<1> QED
  BY <1>8, <1>9 DEF WayIsHeld

LEMMA OnTheWayNext == TypeOK' => WayIsHeld'
BY OnTheWayIs, PTL

LEMMA SameWay ==
  ASSUME TypeOK, TypeOK',
         \A f \in Fwd : \A t \in Transmission : Held(f, t)' <=> Held(f, t)
  PROVE  OnTheWay' = OnTheWay
<1>1. WayIsHeld /\ WayIsHeld'
  BY OnTheWayIs, OnTheWayNext
<1>2. \A c : c \in OnTheWay' <=> c \in OnTheWay
  BY <1>1 DEF WayIsHeld, Copy
<1> QED
  BY <1>2

LEMMA OneLess ==
  ASSUME IInv, TypeOK', NEW f \in Fwd, NEW t \in Transmission, Held(f, t),
         \A g \in Fwd : \A u \in Transmission :
            Held(g, u)' <=> Held(g, u) /\ ~(g = f /\ u = t)
  PROVE  Copy(f, t) \in OnTheWay /\ OnTheWay' = OnTheWay \ {Copy(f, t)}
<1>1. WayIsHeld /\ WayIsHeld'
  BY OnTheWayIs, OnTheWayNext DEF IInv
<1>2. \A g \in Fwd : \A u \in Transmission : Held(g, u) => u \in Moving
  <2> SUFFICES ASSUME NEW g \in Fwd, NEW u \in Transmission, Held(g, u) PROVE u \in Moving
    OBVIOUS
  <2>1. [by |-> g, t |-> u].t = u
    OBVIOUS
  <2> QED
    BY <2>1, InMoving DEF Held
<1>3. ASSUME NEW g \in Fwd, NEW u \in Transmission, Held(g, u), Copy(g, u) = Copy(f, t)
      PROVE  g = f /\ u = t
  <2>1. u.from = t.from /\ u.n = t.n /\ g = f
    BY <1>3 DEF Copy
  <2> QED
    BY <1>2, <1>3, <2>1 DEF IInv, Unique
<1>4. Copy(f, t) \in OnTheWay
  BY <1>1 DEF WayIsHeld
<1>5. \A c : c \in OnTheWay' <=> c \in OnTheWay /\ c # Copy(f, t)
  <2> SUFFICES ASSUME NEW c PROVE c \in OnTheWay' <=> c \in OnTheWay /\ c # Copy(f, t)
    OBVIOUS
  <2>1. c \in OnTheWay' <=> \E g \in Fwd : \E u \in Transmission : Held(g, u)' /\ c = Copy(g, u)
    BY <1>1 DEF WayIsHeld, Copy
  <2>2. c \in OnTheWay <=> \E g \in Fwd : \E u \in Transmission : Held(g, u) /\ c = Copy(g, u)
    BY <1>1 DEF WayIsHeld
  <2> QED
    BY <1>3, <2>1, <2>2
<1> QED
  BY <1>4, <1>5

LEMMA WritesMaps ==
  ASSUME IInv, IInv', NEW s \in Source, Writes(s)
  PROVE  Channel!Send(s)
<1> USE DEF IInv
<1> DEFINE q == NextSeq(seq[s])
<1>1. /\ written' = [written EXCEPT ![s] = @ + 1] /\ UNCHANGED <<cnt, up, back>>
      /\ Transmit([from |-> s, n |-> written[s] + 1, packet |-> Request(s, q)])
  BY DEF Writes
<1>2. PICK t : /\ t = [from |-> s, n |-> written[s] + 1, packet |-> Request(s, q)]
               /\ t.from = s /\ t.n = written[s] + 1
               /\ Transmit(t)
  BY <1>1
<1>3. PICK R \in SUBSET Fwd :
         air' = [f \in Fwd |-> IF f \in R THEN air[f] \cup {t} ELSE air[f]]
  BY <1>2 DEF Transmit
<1>4. \A f \in R : t \in Transmission
  BY <1>3 DEF TypeOK
<1>5. \A f \in Fwd : \A u \in Transmission : Held(f, u)' <=> Held(f, u) \/ (f \in R /\ u = t)
  BY <1>1, <1>2, <1>3 DEF Held
<1>6. WayIsHeld /\ WayIsHeld'
  BY OnTheWayIs, OnTheWayNext
<1>7. \A c : c \in Channel!Replies(s, written[s] + 1, R) <=> \E f \in R : c = Copy(f, t)
  BY <1>2 DEF Channel!Replies, Copy
<1>8. OnTheWay' = OnTheWay \cup Channel!Replies(s, written[s] + 1, R)
  <2> SUFFICES ASSUME NEW c
               PROVE  c \in OnTheWay' <=> \/ c \in OnTheWay
                                          \/ c \in Channel!Replies(s, written[s] + 1, R)
    OBVIOUS
  <2>1. c \in OnTheWay' <=> \E f \in Fwd : \E u \in Transmission : Held(f, u)' /\ c = Copy(f, u)
    BY <1>6 DEF WayIsHeld, Copy
  <2>2. c \in OnTheWay <=> \E f \in Fwd : \E u \in Transmission : Held(f, u) /\ c = Copy(f, u)
    BY <1>6 DEF WayIsHeld
  <2> QED
    BY <1>3, <1>4, <1>5, <1>7, <2>1, <2>2
<1> QED
  BY <1>1, <1>3, <1>8 DEF Channel!Send

LEMMA SenseMaps == ASSUME IInv, IInv', NEW d \in Sensor, Sense(d) PROVE OnTheWay' = OnTheWay
<1>1. PICK pl \in SensorPayload :
         Transmit([from |-> d, n |-> sensed[d] + 1, packet |-> Heard(d, pl)])
  BY DEF Sense
<1>2. PICK t : t.from = d /\ Transmit(t)
  BY <1>1
<1>3. PICK R \in SUBSET Fwd :
         air' = [f \in Fwd |-> IF f \in R THEN air[f] \cup {t} ELSE air[f]]
  BY <1>2 DEF Transmit
<1>4. t.from \notin Source
  BY <1>2, RelayAssumption
<1>5. \A f \in Fwd : \A u \in Transmission : Held(f, u)' <=> Held(f, u)
  BY <1>3, <1>4 DEF Held, Sense
<1> QED
  BY <1>5, SameWay DEF IInv

LEMMA FwdMaps == ASSUME IInv, IInv', NEW f \in Fwd, FwdSends(f) PROVE OnTheWay' = OnTheWay
<1> USE DEF IInv
<1>1. PICK t \in air[f] :
         /\ air' = [air EXCEPT ![f] = @ \ {t}]
         /\ up' = up \cup (IF Forwarded(t.packet) THEN {[by |-> f, t |-> t]} ELSE {})
  BY DEF FwdSends
<1>2. back' = back
  BY DEF FwdSends
<1>3. Genuine(t)
  BY <1>1 DEF Known
<1>4. t.from \in Source => Forwarded(t.packet)
  <2> SUFFICES ASSUME t.from \in Source PROVE Forwarded(t.packet)
    OBVIOUS
  <2>1. PICK q \in SeqNo : t.packet = Request(t.from, q)
    BY <1>3, RelayAssumption DEF Genuine
  <2> QED
    BY <2>1, SourcePacket
<1>5. ASSUME NEW g \in Fwd, NEW u \in Transmission PROVE Held(g, u)' <=> Held(g, u)
  <2>1. u \in air'[g] <=> u \in air[g] /\ ~(g = f /\ u = t)
    BY <1>1 DEF TypeOK
  <2>2. u.from \in Source => ([by |-> g, t |-> u] \in up'
                                <=> [by |-> g, t |-> u] \in up \/ (g = f /\ u = t))
    BY <1>1, <1>4
  <2> QED
    BY <1>1, <1>2, <2>1, <2>2 DEF Held
<1> QED
  BY <1>5, SameWay

\* What is taken out of one place was in no other.
LEMMA Taken ==
  ASSUME IInv
  PROVE  /\ \A f \in Fwd : \A t \in air[f] :
               [by |-> f, t |-> t] \notin up /\ ~\E r \in back : r.by = f /\ r.t = t
         /\ \A h \in up : /\ h.by \in Fwd /\ h.t \in Transmission
                          /\ h = [by |-> h.by, t |-> h.t]
                          /\ h.t \notin air[h.by]
                          /\ ~\E r \in back : r.by = h.by /\ r.t = h.t
         /\ \A r \in back : /\ r.by \in Fwd /\ r.t \in Transmission /\ r.t.from \in Source
                            /\ r.t \notin air[r.by] /\ [by |-> r.by, t |-> r.t] \notin up
                            /\ \A q \in back : q.by = r.by /\ q.t = r.t => q = r
<1> USE DEF IInv
<1>1. \A h \in up : /\ h.by \in Fwd /\ h.t \in Transmission
                    /\ h = [by |-> h.by, t |-> h.t]
  BY DEF TypeOK, Hop
<1>2. \A r \in back : /\ r.by \in Fwd /\ r.t \in Transmission
                      /\ r = [to |-> r.to, by |-> r.by, t |-> r.t]
  BY DEF TypeOK
<1>3. \A r \in back : r.t.from \in Source /\ r.to = OriginOf[r.t.from]
  BY DEF Known
<1>4. \A q, r \in back : q.by = r.by /\ q.t = r.t => q = r
  BY <1>2, <1>3
<1>5. \A r \in back : r.t \notin air[r.by] /\ [by |-> r.by, t |-> r.t] \notin up
  BY DEF Apart
<1>6. \A f \in Fwd : \A t \in air[f] : [by |-> f, t |-> t] \notin up
  BY DEF Apart
<1> QED
  BY <1>1, <1>2, <1>3, <1>4, <1>5, <1>6

LEMMA DstMaps ==
  ASSUME IInv, IInv', Dst
  PROVE  \/ OnTheWay' = OnTheWay
         \/ \E c \in OnTheWay : OnTheWay' = OnTheWay \ {c}
<1>1. PICK h \in up :
         /\ up' = Dequeued(h)
         /\ \/ DstIgnores(h, Message(h.t.packet))
            \/ DstReturns(h, Message(h.t.packet))
            \/ DstPasses(h, Message(h.t.packet))
  BY DEF Dst
<1> DEFINE m == Message(h.t.packet)
<1>2. air' = air /\ up' = up \ {h}
  BY <1>1 DEF Dst, Dequeued
<1>3. /\ h.by \in Fwd /\ h.t \in Transmission /\ h = [by |-> h.by, t |-> h.t]
      /\ h.t \notin air[h.by] /\ ~\E r \in back : r.by = h.by /\ r.t = h.t
  BY <1>1, Taken
<1>4. \A g, u : [by |-> g, t |-> u] = h <=> g = h.by /\ u = h.t
  BY <1>3
<1>5. CASE h.t.from \notin Source
  <2>1. back' = back
    BY <1>1, <1>5, TakenUp DEF DstIgnores, DstReturns, DstPasses
  <2>2. \A g \in Fwd : \A u \in Transmission : Held(g, u)' <=> Held(g, u)
    BY <1>2, <1>4, <1>5, <2>1 DEF Held
  <2> QED
    BY <2>2, SameWay DEF IInv
<1>6. CASE h.t.from \in Source
  <2>1. DstReturns(h, m) /\ m.relay.origin = OriginOf[h.t.from]
    BY <1>1, <1>6, TakenUp DEF DstIgnores, DstPasses
  <2>2. CASE back' = back
    <3>1. Held(h.by, h.t)
      BY <1>1, <1>3, <1>6 DEF Held
    <3>2. \A g \in Fwd : \A u \in Transmission :
             Held(g, u)' <=> Held(g, u) /\ ~(g = h.by /\ u = h.t)
      BY <1>2, <1>3, <1>4, <2>2 DEF Held
    <3> QED
      BY <1>3, <3>1, <3>2, OneLess DEF IInv
  <2>3. CASE back' = back \cup {[to |-> OriginOf[h.t.from], by |-> h.by, t |-> h.t]}
    <3>1. PICK x : x.by = h.by /\ x.t = h.t /\ back' = back \cup {x}
      BY <2>3
    <3>2. ASSUME NEW g \in Fwd, NEW u \in Transmission PROVE Held(g, u)' <=> Held(g, u)
      <4>1. (\E r \in back' : r.by = g /\ r.t = u)
               <=> (\E r \in back : r.by = g /\ r.t = u) \/ (g = h.by /\ u = h.t)
        BY <3>1
      <4>2. [by |-> g, t |-> u] \in up'
               <=> [by |-> g, t |-> u] \in up /\ ~(g = h.by /\ u = h.t)
        BY <1>2, <1>4
      <4>3. g = h.by /\ u = h.t => [by |-> g, t |-> u] \in up
        BY <1>1, <1>4
      <4> QED
        BY <1>2, <4>1, <4>2, <4>3 DEF Held
    <3> QED
      BY <3>2, SameWay DEF IInv
  <2> QED
    BY <2>1, <2>2, <2>3 DEF DstReturns, Entry
<1> QED
  BY <1>5, <1>6

LEMMA BackMaps ==
  ASSUME IInv, IInv', NEW r \in back, back' = back \ {r}, UNCHANGED <<air, up>>
  PROVE  Copy(r.by, r.t) \in OnTheWay /\ OnTheWay' = OnTheWay \ {Copy(r.by, r.t)}
<1>1. /\ r.by \in Fwd /\ r.t \in Transmission /\ r.t.from \in Source
      /\ r.t \notin air[r.by] /\ [by |-> r.by, t |-> r.t] \notin up
      /\ \A q \in back : q.by = r.by /\ q.t = r.t => q = r
  BY Taken
<1>2. Held(r.by, r.t)
  BY <1>1 DEF Held
<1>3. \A g \in Fwd : \A u \in Transmission :
         Held(g, u)' <=> Held(g, u) /\ ~(g = r.by /\ u = r.t)
  BY <1>1 DEF Held
<1> QED
  BY <1>1, <1>2, <1>3, OneLess DEF IInv

LEMMA LoseMaps ==
  ASSUME IInv, IInv', Lose
  PROVE  \/ OnTheWay' = OnTheWay
         \/ \E c \in OnTheWay : OnTheWay' = OnTheWay \ {c}
<1>1. ASSUME NEW f \in Fwd, NEW t \in air[f], air' = [air EXCEPT ![f] = @ \ {t}],
             UNCHANGED <<up, back>>
      PROVE  \/ OnTheWay' = OnTheWay
             \/ \E c \in OnTheWay : OnTheWay' = OnTheWay \ {c}
  <2>1. \A g \in Fwd : \A u : u \in air'[g] <=> u \in air[g] /\ ~(g = f /\ u = t)
    BY <1>1 DEF IInv, TypeOK
  <2>2. t \in Transmission
    BY <1>1 DEF IInv, TypeOK
  <2>3. [by |-> f, t |-> t] \notin up /\ ~\E r \in back : r.by = f /\ r.t = t
    BY <1>1, Taken
  <2>4. CASE t.from \in Source
    <3>1. Held(f, t)
      BY <1>1, <2>4 DEF Held
    <3>2. \A g \in Fwd : \A u \in Transmission : Held(g, u)' <=> Held(g, u) /\ ~(g = f /\ u = t)
      BY <1>1, <2>1, <2>3 DEF Held
    <3> QED
      BY <1>1, <2>2, <3>1, <3>2, OneLess DEF IInv
  <2>5. CASE t.from \notin Source
    <3>1. \A g \in Fwd : \A u \in Transmission : Held(g, u)' <=> Held(g, u)
      BY <1>1, <2>1, <2>5 DEF Held
    <3> QED
      BY <3>1, SameWay DEF IInv
  <2> QED
    BY <2>4, <2>5
<1>2. ASSUME NEW h \in up, up' = up \ {h}, UNCHANGED <<air, back>>
      PROVE  \/ OnTheWay' = OnTheWay
             \/ \E c \in OnTheWay : OnTheWay' = OnTheWay \ {c}
  <2>1. /\ h.by \in Fwd /\ h.t \in Transmission /\ h = [by |-> h.by, t |-> h.t]
        /\ h.t \notin air[h.by] /\ ~\E r \in back : r.by = h.by /\ r.t = h.t
    BY <1>2, Taken
  <2>2. \A g, u : [by |-> g, t |-> u] = h <=> g = h.by /\ u = h.t
    BY <2>1
  <2>3. CASE h.t.from \in Source
    <3>1. Held(h.by, h.t)
      BY <1>2, <2>1, <2>3 DEF Held
    <3>2. \A g \in Fwd : \A u \in Transmission :
             Held(g, u)' <=> Held(g, u) /\ ~(g = h.by /\ u = h.t)
      BY <1>2, <2>1, <2>2 DEF Held
    <3> QED
      BY <2>1, <3>1, <3>2, OneLess DEF IInv
  <2>4. CASE h.t.from \notin Source
    <3>1. \A g \in Fwd : \A u \in Transmission : Held(g, u)' <=> Held(g, u)
      BY <1>2, <2>2, <2>4 DEF Held
    <3> QED
      BY <3>1, SameWay DEF IInv
  <2> QED
    BY <2>3, <2>4
<1>3. ASSUME NEW r \in back, back' = back \ {r}, UNCHANGED <<air, up>>
      PROVE  \E c \in OnTheWay : OnTheWay' = OnTheWay \ {c}
  BY <1>3, BackMaps
<1>4. CASE UNCHANGED <<air, up, back>>
  BY <1>4 DEF OnTheWay, InAir
<1> QED
  BY <1>1, <1>2, <1>3, <1>4 DEF Lose

LEMMA SrcReceivesMaps ==
  ASSUME IInv, IInv', NEW s \in Source, SrcReceives(s)
  PROVE  \E c \in OnTheWay : Channel!Receive(c)
<1>1. PICK r \in back : /\ r.to = OriginOf[s]
                        /\ back' = back \ {r}
                        /\ cnt' = [cnt EXCEPT ![s] = IF Counts(s, r) THEN @ + 1 ELSE @]
  BY DEF SrcReceives
<1>2. UNCHANGED <<written, air, up>>
  BY DEF SrcReceives
<1>3. Genuine(r.t) /\ r.t.from = s
  BY <1>1, RelayAssumption DEF IInv, Known
<1>4. Counts(s, r)
  <2>1. PICK q \in SeqNo : r.t.packet = Request(s, q)
    BY <1>3, RelayAssumption DEF Genuine
  <2> QED
    BY <1>3, <2>1, SourcePacket DEF Counts
<1>5. Copy(r.by, r.t) \in OnTheWay /\ OnTheWay' = OnTheWay \ {Copy(r.by, r.t)}
  BY <1>1, <1>2, BackMaps
<1>6. Copy(r.by, r.t).from = s
  BY <1>3 DEF Copy
<1>7. Channel!Receive(Copy(r.by, r.t))
  BY <1>1, <1>2, <1>4, <1>5, <1>6 DEF Channel!Receive
<1> QED
  BY <1>5, <1>7

LEMMA StepMaps == IInv /\ IInv' /\ [Next]_vars => [Channel!Next]_(Channel!cvars)
<1> SUFFICES ASSUME IInv, IInv', [Next]_vars PROVE [Channel!Next]_(Channel!cvars)
  OBVIOUS
<1>1. ASSUME UNCHANGED <<written, cnt, air, up, back>> PROVE UNCHANGED Channel!cvars
  BY <1>1 DEF Channel!cvars, OnTheWay, InAir
<1>2. CASE UNCHANGED vars
  BY <1>1, <1>2 DEF vars, srcVars
<1>3. ASSUME NEW s \in Source, \/ SrcWrite(s) \/ SrcFails(s) \/ SrcReceives(s)
                               \/ PressEnter(s) \/ Stops(s)
      PROVE  [Channel!Next]_(Channel!cvars)
  <2>1. CASE SrcWrite(s) \/ CancelInWrite(s)
    BY <2>1, WritesMaps DEF SrcWrite, CancelInWrite, Channel!Next
  <2>2. CASE SrcReceives(s)
    BY <2>2, SrcReceivesMaps DEF Channel!Next
  <2>3. CASE SrcFails(s) \/ PressEnter(s) \/ SrcCount(s) \/ CancelTx(s) \/ Join(s)
    BY <1>1, <2>3, OwnStep
  <2> QED
    BY <1>3, <2>1, <2>2, <2>3 DEF Stops
<1>4. ASSUME NEW d \in Sensor, Sense(d) PROVE UNCHANGED Channel!cvars
  BY <1>4, SenseMaps DEF Sense, srcVars, Channel!cvars
<1>5. ASSUME NEW f \in Fwd, FwdSends(f) PROVE UNCHANGED Channel!cvars
  BY <1>5, FwdMaps DEF FwdSends, srcVars, Channel!cvars
<1>6. CASE Dst \/ Lose
  <2>1. UNCHANGED <<written, cnt>>
    BY <1>6 DEF Dst, Lose, srcVars
  <2>2. \/ OnTheWay' = OnTheWay
        \/ \E c \in OnTheWay : OnTheWay' = OnTheWay \ {c}
    BY <1>6, DstMaps, LoseMaps
  <2>3. ASSUME NEW c \in OnTheWay, OnTheWay' = OnTheWay \ {c} PROVE Channel!Next
    BY <2>1, <2>3 DEF Channel!Next, Channel!Lose
  <2> QED
    BY <2>1, <2>2, <2>3 DEF Channel!cvars
<1>7. CASE Osc \/ Quiet
  BY <1>1, <1>7 DEF Osc, Quiet, vars, srcVars
<1> QED
  BY <1>2, <1>3, <1>4, <1>5, <1>6, <1>7 DEF Next

LEMMA InitMaps == Init => Channel!Init
<1> SUFFICES ASSUME Init PROVE Channel!Init
  OBVIOUS
<1>1. InAir = {} /\ up \cup back = {}
  BY DEF Init, InAir
<1>2. OnTheWay = {}
  BY <1>1 DEF OnTheWay
<1> QED
  BY <1>2 DEF Init, Channel!Init

(* All programs together are the channel: fwd, dst and the network make no *)
(* reply of their own and no second one of any (fwd.c:197-229, dst.c:256-  *)
(* 287, src.c:204-241).                                                    *)
THEOREM RelayIsChannel == Spec => ImplementsChannel
<1>1. Init => Channel!Init
  BY InitMaps
<1>2. IInv /\ IInv' /\ [Next]_vars => [Channel!Next]_(Channel!cvars)
  BY StepMaps
<1> QED
  BY <1>1, <1>2, Holds, PTL DEF Spec, ImplementsChannel, Channel!Spec

-----------------------------------------------------------------------------
(* What the channel's bound says of the programs. *)

\* The bound of the channel; the instance has its own name for a cardinality.
ChannelBound == \A s \in Source :
                   cnt[s] + Cardinality(Channel!DueTo(s)) <= Cardinality(Fwd) * written[s]

\* What a step of the channel keeps.
CInv == /\ written \in [Source -> Nat]
        /\ cnt \in [Source -> Nat]
        /\ \A s \in Source : IsFiniteSet(Channel!DueTo(s))
        /\ ChannelBound

LEMMA ChannelInit == ASSUME IsFiniteSet(Fwd) PROVE Channel!Init => CInv
<1> SUFFICES ASSUME Channel!Init PROVE CInv
  OBVIOUS
<1>1. \A s \in Source : Channel!DueTo(s) = {}
  BY DEF Channel!Init, Channel!DueTo
<1>2. IsFiniteSet({}) /\ Cardinality({}) = 0 /\ Cardinality(Fwd) \in Nat
  BY FS_EmptySet, FS_CardinalityType
<1>3. Cardinality(Fwd) * 0 = 0
  BY <1>2
<1>4. ASSUME NEW s \in Source
      PROVE  /\ IsFiniteSet(Channel!DueTo(s))
             /\ cnt[s] + Cardinality(Channel!DueTo(s)) <= Cardinality(Fwd) * written[s]
  <2>1. IsFiniteSet(Channel!DueTo(s)) /\ Cardinality(Channel!DueTo(s)) = 0
    BY <1>1, <1>2
  <2> QED
    BY <1>3, <2>1 DEF Channel!Init
<1> QED
  BY <1>4 DEF Channel!Init, CInv, ChannelBound

(* A request adds at most one reply for each radio. *)
LEMMA NewReplies ==
  ASSUME IsFiniteSet(Fwd), NEW R \in SUBSET Fwd, NEW s, NEW n
  PROVE  LET N == Channel!Replies(s, n, R)
         IN  /\ IsFiniteSet(N) /\ Cardinality(N) \in Nat /\ Cardinality(N) <= Cardinality(Fwd)
             /\ \A x \in N : x.from = s
<1> DEFINE N == Channel!Replies(s, n, R)
           g == [f \in R |-> [from |-> s, n |-> n, by |-> f]]
<1>1. IsFiniteSet(R) /\ Cardinality(R) <= Cardinality(Fwd)
  BY FS_Subset
<1>2. g \in Surjection(R, N)
  BY DEF Surjection, Channel!Replies
<1>3. IsFiniteSet(N) /\ Cardinality(N) <= Cardinality(R)
  BY <1>1, <1>2, FS_Surjection
<1>4. Cardinality(N) \in Nat /\ Cardinality(R) \in Nat /\ Cardinality(Fwd) \in Nat
  BY <1>1, <1>3, FS_CardinalityType
<1>5. \A x \in N : x.from = s
  BY DEF Channel!Replies
<1> QED
  BY <1>1, <1>3, <1>4, <1>5

LEMMA SendStep ==
  ASSUME IsFiniteSet(Fwd), CInv, NEW s \in Source, Channel!Send(s)
  PROVE  CInv'
<1> USE DEF CInv
<1> DEFINE F == Cardinality(Fwd)
<1>1. F \in Nat
  BY FS_CardinalityType
<1>2. PICK R \in SUBSET Fwd :
         OnTheWay' = OnTheWay \cup Channel!Replies(s, written[s] + 1, R)
  BY DEF Channel!Send
<1> DEFINE N == Channel!Replies(s, written[s] + 1, R)
<1>3. /\ IsFiniteSet(N) /\ Cardinality(N) \in Nat /\ Cardinality(N) <= F
      /\ \A x \in N : x.from = s
  BY NewReplies
<1> HIDE DEF N
<1>4. /\ cnt' = cnt /\ written' \in [Source -> Nat]
      /\ written'[s] = written[s] + 1
      /\ \A t \in Source \ {s} : written'[t] = written[t]
  BY DEF Channel!Send
<1>5. Channel!DueTo(s)' = Channel!DueTo(s) \cup N
  BY <1>2, <1>3 DEF Channel!DueTo, N
<1>6. \A t \in Source \ {s} : Channel!DueTo(t)' = Channel!DueTo(t)
  BY <1>2, <1>3 DEF Channel!DueTo, N
<1>7. /\ IsFiniteSet(Channel!DueTo(s)')
      /\ Cardinality(Channel!DueTo(s)) \in Nat /\ Cardinality(Channel!DueTo(s)') \in Nat
      /\ Cardinality(Channel!DueTo(s)') <= Cardinality(Channel!DueTo(s)) + F
  <2>1. /\ IsFiniteSet(Channel!DueTo(s) \cup N)
        /\ Cardinality(Channel!DueTo(s) \cup N) =
             Cardinality(Channel!DueTo(s)) + Cardinality(N) - Cardinality(Channel!DueTo(s) \cap N)
    BY <1>3, FS_Union
  <2>2. IsFiniteSet(Channel!DueTo(s) \cap N)
    BY <1>3, FS_Subset
  <2>3. /\ Cardinality(Channel!DueTo(s) \cap N) \in Nat /\ Cardinality(Channel!DueTo(s)) \in Nat
        /\ Cardinality(Channel!DueTo(s) \cup N) \in Nat
    BY <2>1, <2>2, FS_CardinalityType
  <2> QED
    BY <1>1, <1>3, <1>5, <2>1, <2>3
<1>8. cnt[s] + Cardinality(Channel!DueTo(s)) <= F * written[s]
  BY DEF ChannelBound
<1>9. F * (written[s] + 1) = F * written[s] + F /\ F * written[s] \in Nat
  BY <1>1
<1>10. cnt'[s] + Cardinality(Channel!DueTo(s)') <= F * written'[s]
  BY <1>1, <1>4, <1>7, <1>8, <1>9
<1>11. \A t \in Source \ {s} : cnt'[t] + Cardinality(Channel!DueTo(t)') <= F * written'[t]
  BY <1>4, <1>6 DEF ChannelBound
<1>12. ChannelBound'
  BY <1>10, <1>11 DEF ChannelBound
<1> QED
  BY <1>4, <1>6, <1>7, <1>12

LEMMA TakeStep ==
  ASSUME IsFiniteSet(Fwd), CInv, NEW r \in OnTheWay, Channel!Receive(r) \/ Channel!Lose(r)
  PROVE  CInv'
<1> USE DEF CInv
<1>1. written' = written /\ OnTheWay' = OnTheWay \ {r} /\ cnt' \in [Source -> Nat]
  BY DEF Channel!Receive, Channel!Lose
<1>2. \A s \in Source : /\ Channel!DueTo(s)' = Channel!DueTo(s) \ {r}
                        /\ r.from = s <=> r \in Channel!DueTo(s)
  BY <1>1 DEF Channel!DueTo
<1>3. Cardinality(Fwd) \in Nat
  BY FS_CardinalityType
<1>4. ASSUME NEW s \in Source
      PROVE  /\ IsFiniteSet(Channel!DueTo(s)')
             /\ cnt'[s] + Cardinality(Channel!DueTo(s)') <= Cardinality(Fwd) * written'[s]
  <2>1. /\ IsFiniteSet(Channel!DueTo(s)') /\ Cardinality(Channel!DueTo(s)) \in Nat
        /\ Cardinality(Channel!DueTo(s)') =
             IF r.from = s THEN Cardinality(Channel!DueTo(s)) - 1
                           ELSE Cardinality(Channel!DueTo(s))
    BY <1>2, FS_RemoveElement, FS_CardinalityType
  <2>2. cnt'[s] = cnt[s] \/ (r.from = s /\ cnt'[s] = cnt[s] + 1)
    BY DEF Channel!Receive, Channel!Lose
  <2>3. cnt[s] + Cardinality(Channel!DueTo(s)) <= Cardinality(Fwd) * written[s]
    BY DEF ChannelBound
  <2>4. Cardinality(Fwd) * written[s] \in Nat /\ cnt[s] \in Nat
    BY <1>3
  <2> QED
    BY <1>1, <2>1, <2>2, <2>3, <2>4
<1> QED
  BY <1>1, <1>4 DEF ChannelBound

LEMMA ChannelStep ==
  ASSUME IsFiniteSet(Fwd) PROVE CInv /\ [Channel!Next]_(Channel!cvars) => CInv'
<1>1. ASSUME CInv, UNCHANGED Channel!cvars PROVE CInv'
  BY <1>1 DEF CInv, ChannelBound, Channel!DueTo, Channel!cvars
<1> QED
  BY <1>1, SendStep, TakeStep DEF Channel!Next

LEMMA ChannelHolds == Spec => []CInv
<1>0. IsFiniteSet(Fwd)
  BY RelayAssumption
<1>1. Init => CInv
  BY <1>0, InitMaps, ChannelInit
<1>2. IInv /\ IInv' /\ [Next]_vars /\ CInv => CInv'
  BY <1>0, ChannelStep, StepMaps
<1> QED
  BY <1>1, <1>2, Holds, PTL DEF Spec

(* What a source has counted and may still count is at most one for each   *)
(* request and radio: what module ReturnChannel promises, of the programs  *)
(* (src.c:204-241).                                                        *)
THEOREM ChannelBounded == Spec => []Channel!Bounded
<1>1. ASSUME NEW S PROVE Channel!Cardinality(S) = Cardinality(S)
  BY Zenon DEF Channel!IsFiniteSet, IsFiniteSet, Channel!Cardinality, Cardinality
<1>2. CInv => Channel!Bounded
  BY <1>1 DEF CInv, ChannelBound, Channel!Bounded
<1> QED
  BY <1>2, ChannelHolds, PTL

(* A source counts at most one reply for each transmission and radio, and  *)
(* all transmissions but one at most are expected ones (src.c:43-46, 87-   *)
(* 126, 240).                                                              *)
THEOREM NeverTooMany == Spec => []CountBound
<1>1. ASSUME IInv, CInv PROVE CountBound
  <2> SUFFICES ASSUME NEW s \in Source
               PROVE  cnt[s] <= Cardinality(Fwd) *
                         (cntExp[s] + (IF txPc[s] = "write" THEN 0 ELSE 1))
    BY DEF CountBound
  <2> DEFINE F == Cardinality(Fwd)
             max == cntExp[s] + (IF txPc[s] = "write" THEN 0 ELSE 1)
  <2>1. cnt[s] + Cardinality(Channel!DueTo(s)) <= F * written[s]
    BY <1>1 DEF CInv, ChannelBound
  <2>2. Cardinality(Channel!DueTo(s)) \in Nat
    BY <1>1, FS_CardinalityType DEF CInv
  <2>3. F \in Nat /\ written[s] \in Nat /\ cnt[s] \in Nat /\ cntExp[s] \in Nat
    BY <1>1, FS_CardinalityType, RelayAssumption DEF IInv, TypeOK
  <2>4. max \in Nat /\ written[s] <= max
    <3>1. /\ written[s] = cntExp[s] \/ written[s] = cntExp[s] + 1
          /\ txPc[s] = "write" => written[s] = cntExp[s]
      BY <1>1 DEF IInv, Tally
    <3> QED
      BY <2>3, <3>1
  <2>5. \A a, b, c \in Nat : /\ a * b \in Nat
                             /\ b <= c => a * b <= a * c
    OBVIOUS
  <2> HIDE DEF F, max
  <2>6. F * written[s] \in Nat /\ F * max \in Nat /\ F * written[s] <= F * max
    BY <2>3, <2>4, <2>5
  <2>7. cnt[s] <= F * max
    BY <2>1, <2>2, <2>3, <2>6
  <2> QED
    BY <2>7 DEF F, max
<1> QED
  BY <1>1, Holds, ChannelHolds, PTL
=============================================================================
