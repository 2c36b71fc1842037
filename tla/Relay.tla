-------------------------------- MODULE Relay --------------------------------
(***************************************************************************)
(* All programs together.  Sources (src) and sensors transmit; each        *)
(* transmission is heard by any of the radios and handed to the radio's    *)
(* fwd; fwd sends a message to dst; dst returns requests to the source     *)
(* whose address they carry (dst.c:60-77, 256-287), and passes packets on  *)
(* to osc over the UNIX socket (dst.c:289-308); a source counts what comes *)
(* back (src.c:87-126, 204-241).                                           *)
(*                                                                         *)
(* The queues inside the programs and the network between them are one set *)
(* per hop: what is in a set may be taken in any order or be lost, which   *)
(* is what module WorkQueue allows of a queue, and UDP of a datagram.      *)
(***************************************************************************)
EXTENDS Messages, FiniteSets, Sequences

CONSTANTS Source,        \* running instances of src
          OriginOf,      \* the address a source listens on
          RadioOf,       \* the radio it writes to
          PktLen,        \* the size of its requests, which only a simulating
                         \* source can choose (src.c:108, 135; main.c:253)
          Sensor,        \* radios that send data of their own
          SensorPayload, \* what they send
          Fwd,           \* running instances of fwd
          MaxAddrCache,  \* MAX_ADDR_CACHE
          MaxSent        \* bound: transmissions of each sender

ASSUME RelayAssumption ==
    /\ OriginOf \in [Source -> Origin]
    /\ \A s \in Source : Returnable(OriginOf[s])
    /\ \A s, t \in Source : OriginOf[s] = OriginOf[t] => s = t
    /\ RadioOf \in [Source -> Device]
    /\ PktLen \in [Source -> RequestSize .. UartMaxLen - RxPktSize]
    /\ {0, 1} \subseteq SeqNo
    /\ Sensor \subseteq Device
    /\ Sensor \cap Source = {}
    /\ SensorPayload \subseteq Payload
    \* A sensor makes no request in the name of a source.
    /\ \A pl \in SensorPayload : (pl.magic /\ pl.size >= RequestSize)
                                      => ~Returnable(pl.relay.origin)
    /\ MaxAddrCache \in Nat
    /\ MaxSent \in Nat
    /\ IsFiniteSet(Fwd)

VARIABLES seq, written, cntExp, cnt,  \* of each source; written: its transmissions
          txPc,     \* its sending thread: write, count or dead
          main,     \* its main thread
          sensed,   \* packets each sensor has sent
          air,      \* what each fwd still has to forward
          up,       \* messages on their way to dst, each with the packet it is of
          cache,    \* addr_cache, in the order it is filled
          refused,  \* addresses dst had no entry for
          back,     \* requests on their way to the address in to
          unix,     \* packet messages on their way to osc
          played    \* what osc has sent out

srcVars == <<seq, written, cntExp, cnt, txPc, main>>
vars == <<srcVars, sensed, air, up, cache, refused, back, unix, played>>

-----------------------------------------------------------------------------
(* A transmission, told from others by who made it and when. *)
Transmission == [from : Source \cup Sensor, n : 1 .. MaxSent, packet : Packet]

\* A packet as the radios deliver it; a simulating source writes it itself.
Heard(radio, payload) == [type |-> "rx", len |-> RxPktSize + payload.size,
                          src |-> radio, payload |-> payload]

Request(s, q) == Heard(RadioOf[s], [size |-> PktLen[s], magic |-> TRUE,
                                    relay |-> [origin |-> OriginOf[s], seq |-> q]])

Hop == [by : Fwd, t : Transmission]

TypeOK == /\ seq \in [Source -> SeqNo]
          /\ written \in [Source -> 0 .. MaxSent]
          /\ cntExp \in [Source -> 0 .. MaxSent]
          /\ cnt \in [Source -> Nat]
          /\ txPc \in [Source -> {"write", "count", "dead"}]
          /\ main \in [Source -> {"running", "stopping", "done", "exited"}]
          /\ sensed \in [Sensor -> 0 .. MaxSent]
          /\ air \in [Fwd -> SUBSET Transmission]
          /\ up \cup unix \subseteq Hop
          /\ cache \in Seq(Origin) /\ Len(cache) <= MaxAddrCache
          /\ refused \subseteq Origin
          /\ back \subseteq [to : Origin, by : Fwd, t : Transmission]

Init == /\ seq = [s \in Source |-> 0]
        /\ written = [s \in Source |-> 0]
        /\ cntExp = [s \in Source |-> 0]
        /\ cnt = [s \in Source |-> 0]
        /\ txPc = [s \in Source |-> "write"]
        /\ main = [s \in Source |-> "running"]
        /\ sensed = [d \in Sensor |-> 0]
        /\ air = [f \in Fwd |-> {}]
        /\ up = {}
        /\ cache = <<>>
        /\ refused = {}
        /\ back = {}
        /\ unix = {}
        /\ played = {}

-----------------------------------------------------------------------------
(* Senders. *)

\* Some of the radios hear a transmission.
Transmit(t) == \E R \in SUBSET Fwd :
                  air' = [f \in Fwd |-> IF f \in R THEN air[f] \cup {t} ELSE air[f]]

\* The number is one byte: after the largest comes zero, which is skipped.
NextSeq(q) == IF q + 1 \in SeqNo THEN q + 1 ELSE 1

Writes(s) == /\ written[s] < MaxSent
             /\ seq' = [seq EXCEPT ![s] = NextSeq(@)]
             /\ written' = [written EXCEPT ![s] = @ + 1]
             /\ Transmit([from |-> s, n |-> written[s] + 1,
                          packet |-> Request(s, NextSeq(seq[s]))])
             /\ UNCHANGED <<cntExp, cnt, main, sensed, up, cache, refused, back, unix, played>>

SrcWrite(s) == /\ main[s] = "running"
               /\ txPc[s] = "write"
               /\ Writes(s)
               /\ txPc' = [txPc EXCEPT ![s] = "count"]

\* A failed write ends the program.
SrcFails(s) == /\ main[s] = "running"
               /\ txPc[s] = "write"
               /\ main' = [main EXCEPT ![s] = "exited"]
               /\ UNCHANGED <<seq, written, cntExp, cnt, txPc, sensed, air, up, cache, refused,
                              back, unix, played>>

SrcCount(s) == /\ main[s] \in {"running", "stopping"}
               /\ txPc[s] = "count"
               /\ cntExp' = [cntExp EXCEPT ![s] = @ + 1]
               /\ txPc' = [txPc EXCEPT ![s] = "write"]
               /\ UNCHANGED <<seq, written, cnt, main, sensed, air, up, cache, refused, back,
                              unix, played>>

Sense(d) == /\ sensed[d] < MaxSent
            /\ sensed' = [sensed EXCEPT ![d] = @ + 1]
            /\ \E pl \in SensorPayload : Transmit([from |-> d, n |-> sensed[d] + 1,
                                                   packet |-> Heard(d, pl)])
            /\ UNCHANGED <<srcVars, up, cache, refused, back, unix, played>>

-----------------------------------------------------------------------------
(* fwd, dst and osc. *)

FwdSends(f) == \E t \in air[f] :
                  /\ air' = [air EXCEPT ![f] = @ \ {t}]
                  /\ up' = up \cup (IF Forwarded(t.packet) THEN {[by |-> f, t |-> t]} ELSE {})
                  /\ UNCHANGED <<srcVars, sensed, cache, refused, back, unix, played>>

\* Faulty variant: only the port is compared.
Entry_Port(o) == {i \in DOMAIN cache : cache[i][2] = o[2]}

Entry(o) == {i \in DOMAIN cache : cache[i] = o}

\* Faulty variants: one entry too many, one too few.
CacheFull_Late  == Len(cache) > MaxAddrCache
CacheFull_Early == Len(cache) + 1 >= MaxAddrCache

CacheFull == Len(cache) >= MaxAddrCache

\* A message dst accepts and, if it is a request, knows where to return.
Usable(m) == /\ DstAccepts(m, m.len)
             /\ m.type = "relay" => Returnable(m.relay.origin)

DstIgnores(h, m) == ~Usable(m) /\ UNCHANGED <<cache, refused, back, unix>>

DstReturns(h, m) ==
    /\ Usable(m)
    /\ m.type = "relay"
    /\ LET o == m.relay.origin
       IN  \/ \E i \in Entry(o) :
                /\ back' = back \cup {[to |-> cache[i], by |-> h.by, t |-> h.t]}
                /\ UNCHANGED <<cache, refused>>
           \/ /\ Entry(o) = {}
              /\ ~CacheFull
              /\ cache' = Append(cache, o)
              /\ back' = back \cup {[to |-> o, by |-> h.by, t |-> h.t]}
              /\ UNCHANGED refused
           \/ /\ Entry(o) = {}
              /\ CacheFull
              /\ refused' = refused \cup {o}
              /\ UNCHANGED <<cache, back>>
    /\ UNCHANGED unix

DstPasses(h, m) == /\ Usable(m)
                   /\ m.type = "pkt"
                   /\ unix' = unix \cup {h}
                   /\ UNCHANGED <<cache, refused, back>>

\* Faulty variant: the message stays in the queue.
Dequeued_Kept(h) == up

Dequeued(h) == up \ {h}

Dst == \E h \in up : /\ up' = Dequeued(h)
                     /\ LET m == Message(h.t.packet)
                        IN  DstIgnores(h, m) \/ DstReturns(h, m) \/ DstPasses(h, m)
                     /\ UNCHANGED <<srcVars, sensed, air, played>>

Osc == \E h \in unix :
          /\ unix' = unix \ {h}
          /\ LET m == Message(h.t.packet)
             IN  played' = played \cup
                    (IF OscTakes(m) THEN {[src |-> m.src, bytes |-> OscBytes(m), t |-> h.t]}
                                    ELSE {})
          /\ UNCHANGED <<srcVars, sensed, air, up, cache, refused, back>>

\* A datagram, or a packet in a queue, is lost.
Lose == /\ \/ \E f \in Fwd : \E t \in air[f] : /\ air' = [air EXCEPT ![f] = @ \ {t}]
                                               /\ UNCHANGED <<up, back, unix>>
           \/ \E h \in up : up' = up \ {h} /\ UNCHANGED <<air, back, unix>>
           \/ \E r \in back : back' = back \ {r} /\ UNCHANGED <<air, up, unix>>
           \/ \E h \in unix : unix' = unix \ {h} /\ UNCHANGED <<air, up, back>>
        /\ UNCHANGED <<srcVars, sensed, cache, refused, played>>

-----------------------------------------------------------------------------
(* A source's receiving thread, and its end. *)

Counts(s, r) == LET m == Message(r.t.packet) IN SrcAccepts(m, m.len, OriginOf[s])

SrcReceives(s) == /\ main[s] \in {"running", "stopping"}
                  /\ \E r \in back :
                        /\ r.to = OriginOf[s]
                        /\ back' = back \ {r}
                        /\ cnt' = [cnt EXCEPT ![s] = IF Counts(s, r) THEN @ + 1 ELSE @]
                  /\ UNCHANGED <<seq, written, cntExp, txPc, main, sensed, air, up, cache,
                                 refused, unix, played>>

PressEnter(s) == /\ main[s] = "running"
                 /\ main' = [main EXCEPT ![s] = "stopping"]
                 /\ UNCHANGED <<seq, written, cntExp, cnt, txPc, sensed, air, up, cache,
                                refused, back, unix, played>>

\* write and nanosleep are the thread's cancellation points.
CancelTx(s) == /\ main[s] = "stopping"
               /\ txPc[s] = "write"
               /\ txPc' = [txPc EXCEPT ![s] = "dead"]
               /\ UNCHANGED <<seq, written, cntExp, cnt, main, sensed, air, up, cache,
                              refused, back, unix, played>>

\* In a write the thread may be cancelled when the bytes are already on the line.
CancelInWrite(s) == /\ main[s] = "stopping"
                    /\ txPc[s] = "write"
                    /\ Writes(s)
                    /\ txPc' = [txPc EXCEPT ![s] = "dead"]

\* The sending thread has ended; the receiving one, waiting in recvfrom, is
\* cancelled and ends, and the counts are printed.  Module Source has the steps.
Join(s) == /\ main[s] = "stopping"
           /\ txPc[s] = "dead"
           /\ main' = [main EXCEPT ![s] = "done"]
           /\ UNCHANGED <<seq, written, cntExp, cnt, txPc, sensed, air, up, cache, refused,
                          back, unix, played>>

-----------------------------------------------------------------------------
Stops(s) == SrcCount(s) \/ CancelTx(s) \/ CancelInWrite(s) \/ Join(s)

\* Nothing is on its way, and no one sends any more.
Quiet == /\ \A s \in Source : main[s] \in {"done", "exited"}
         /\ UNCHANGED vars

Next == \/ \E s \in Source : \/ SrcWrite(s) \/ SrcFails(s) \/ SrcReceives(s)
                             \/ PressEnter(s) \/ Stops(s)
        \/ \E d \in Sensor : Sense(d)
        \/ \E f \in Fwd : FwdSends(f)
        \/ Dst \/ Osc \/ Lose \/ Quiet

Spec == Init /\ [][Next]_vars

-----------------------------------------------------------------------------
\* A reply that may still come is a request in the air, on its way to dst, or
\* on its way back.
Copy(f, t) == [from |-> t.from, n |-> t.n, by |-> f]

InAir == UNION {{Copy(f, t) : t \in air[f]} : f \in Fwd}

OnTheWay == {c \in InAir \cup {Copy(h.by, h.t) : h \in up \cup back} : c.from \in Source}

Channel == INSTANCE ReturnChannel WITH sent <- written, got <- cnt, due <- OnTheWay

(* For its sources all of this is one channel, which gives at most one     *)
(* reply for each request and radio: dst and fwd make no copies, and no    *)
(* reply is counted by a source that did not ask (src.c:87-126, 204-241;   *)
(* fwd.c:197-229; dst.c:60-77, 256-287).                                   *)
ImplementsChannel == Channel!Spec

(* What comes back to an address is a request that was written by the      *)
(* source listening there, and that source counts it: the checks of        *)
(* src.c:208-235 never find anything to reject.                            *)
RepliesComeHome == \A r \in back : \E s \in Source :
                      /\ r.t.from = s
                      /\ r.to = OriginOf[s]
                      /\ Counts(s, r)

(* A source never counts more than one reply for each of its transmissions *)
(* and each radio that heard it.  Of the transmissions at most the last is *)
(* not counted: while the program runs a reply may be counted before it    *)
(* is (src.c:124, 240), and Enter may end the thread between the two       *)
(* (src.c:43-46), so that more may be printed than was expected            *)
(* (main.c:57-61).                                                         *)
CountBound == \A s \in Source :
                 cnt[s] <= Cardinality(Fwd) *
                              (cntExp[s] + (IF txPc[s] = "write" THEN 0 ELSE 1))

(* osc plays every byte of what a sensor sent, with the sensor's address,  *)
(* and never a source's request (fwd.c:197-219, osc.c:137-157).            *)
PlayedAsSent == \A x \in played : /\ x.t.from \in Sensor
                                  /\ x.src = x.t.from
                                  /\ x.bytes = x.t.packet.payload.size

(* Entries of the address cache are never given up: an address that found  *)
(* it full is refused for as long as dst runs, and one that did not never  *)
(* is (dst.c:62-76).                                                       *)
FirstComeOnly == /\ \A o \in refused : Entry(o) = {}
                 /\ refused # {} => Len(cache) = MaxAddrCache
                 /\ \A i, j \in DOMAIN cache : cache[i] = cache[j] => i = j
=============================================================================
