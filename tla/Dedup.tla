------------------------------- MODULE Dedup -------------------------------
(***************************************************************************)
(* The duplicate filter of dst (dst.c:33-36, 49-52, 116-189; built with    *)
(* SERNET_DST_DEDUP): a table of source addresses, and for each of them    *)
(* the time at which each number was last handled.  A message is dropped   *)
(* if its source and number were handled at most Window ago.               *)
(*                                                                         *)
(* The number of a relay is its sequence number, that of a packet the byte *)
(* at data[2] of the buffer, whatever that byte means (dst.c:139).  The    *)
(* buffer is one for all messages: a packet of less than three bytes does  *)
(* not reach that place and gets the byte an earlier datagram has left     *)
(* there, so that two copies of it may have different numbers.             *)
(***************************************************************************)
EXTENDS Integers, FiniteSets

CONSTANTS Msg,        \* messages; receiving one twice is receiving a copy
          RelayMsg,   \* those that are relays; the others are packets
          Addr,       \* source addresses
          SeqNo,      \* the values of one byte
          SrcOf,      \* source of a message
          SeqOf,      \* sequence number of a relay
          ByteOf,     \* byte at data[2]'s place; Nothing: it is too short
          MaxDedup,   \* MAX_DEDUP: entries of the table
          Window,     \* 80 ms, in ticks of the coarse clock
          MaxTime,    \* bound on the clock
          Nothing     \* no address, no message, no byte

ASSUME DedupAssumption == /\ RelayMsg \subseteq Msg
                          /\ SrcOf \in [Msg -> Addr]
                          /\ SeqOf \in [RelayMsg -> SeqNo]
                          /\ ByteOf \in [Msg -> SeqNo \cup {Nothing}]
                          /\ \A m \in RelayMsg : ByteOf[m] # Nothing
                          /\ MaxDedup \in Nat \ {0}
                          /\ Window \in Nat
                          /\ MaxTime \in Nat \ {0}
                          /\ Nothing \notin Addr
                          /\ Nothing \notin Msg
                          /\ Nothing \notin SeqNo

VARIABLES now,       \* CLOCK_MONOTONIC_COARSE; the machine has been up a second
          table,     \* the sources; only the first len are searched
          stm,       \* time stamps; 0: none
          len, rc,   \* dedup_len and dedup_rc
          left,      \* what the receive buffer has at data[2]
          arrived,   \* when each message was last handled with each number; 0: never
          msg,       \* the message being handled
          verdict    \* and what becomes of it

vars == <<now, table, stm, len, rc, left, arrived, msg, verdict>>

-----------------------------------------------------------------------------
Entry == 0 .. MaxDedup - 1

Time == 1 .. MaxTime

Stamps == [SeqNo -> 0 .. MaxTime]

TypeOK == /\ now \in Time
          /\ table \in [Entry -> Addr \cup {Nothing}]
          /\ stm \in [Entry -> Stamps]
          /\ len \in 0 .. MaxDedup - 1
          /\ rc \in 0 .. MaxDedup
          /\ left \in SeqNo
          /\ arrived \in [Msg -> Stamps]
          /\ msg \in Msg \cup {Nothing}
          /\ verdict \in {"none", "pass", "drop", "overrun"}

\* The buffer comes from malloc: what is in it is not known.
Init == /\ now = 1
        /\ table = [i \in Entry |-> Nothing]
        /\ stm = [i \in Entry |-> [q \in SeqNo |-> 0]]
        /\ len = 0
        /\ rc = 0
        /\ left \in SeqNo
        /\ arrived = [m \in Msg |-> [q \in SeqNo |-> 0]]
        /\ msg = Nothing
        /\ verdict = "none"

-----------------------------------------------------------------------------
\* data[2] of the buffer once m is in it.
Byte(m) == IF ByteOf[m] = Nothing THEN left ELSE ByteOf[m]

\* Faulty variant: a relay's number is looked for where a packet's is.
Number_OfPacket(m) == Byte(m)

\* The number by which the filter knows m.
Number(m) == IF m \in RelayMsg THEN SeqOf[m] ELSE Byte(m)

\* Faulty variant: the search stops one entry short.
Found_OneShort(a) == {i \in 0 .. len - 2 : table[i] = a}

Found(a) == {i \in 0 .. len - 1 : table[i] = a}

\* The entry the search stops at.
First(S) == CHOOSE i \in S : \A j \in S : i <= j

\* Received at most Window ago.
Recent(t) == t # 0 /\ now - t <= Window

\* Faulty variant: only a message that passes is stamped.
Stamp_PassOnly(i, q) == [stm EXCEPT ![i][q] = IF Recent(@) THEN @ ELSE now]

Stamp(i, q) == [stm EXCEPT ![i][q] = now]

\* Faulty variant: a recycled entry keeps its old stamps.
Recycled_Uncleared(i, q) == [stm[i] EXCEPT ![q] = now]

Recycled(i, q) == [[p \in SeqNo |-> 0] EXCEPT ![q] = now]

\* m is received, over what the buffer held, and its number determined.
Handle(m) == /\ verdict = "none"
             /\ msg' = m
             /\ left' = Byte(m)
             /\ arrived' = [arrived EXCEPT ![m][Number(m)] = now]
             /\ UNCHANGED now

KnownSource(m) == /\ Handle(m)
                  /\ Found(SrcOf[m]) # {}
                  /\ LET i == First(Found(SrcOf[m]))
                     IN  /\ verdict' = IF Recent(stm[i][Number(m)]) THEN "drop" ELSE "pass"
                         /\ stm' = Stamp(i, Number(m))
                  /\ UNCHANGED <<table, len, rc>>

\* Faulty variant: every entry is used, and the last one reused at once.
NewSource_Full(m) == /\ Handle(m)
                     /\ Found(SrcOf[m]) = {}
                     /\ len < MaxDedup
                     /\ table' = [table EXCEPT ![len] = SrcOf[m]]
                     /\ stm' = Stamp(len, Number(m))
                     /\ len' = len + 1
                     /\ verdict' = "pass"
                     /\ UNCHANGED rc

\* The table keeps growing until its last entry but one.
NewSource(m) == /\ Handle(m)
                /\ Found(SrcOf[m]) = {}
                /\ len + 1 < MaxDedup
                /\ table' = [table EXCEPT ![len] = SrcOf[m]]
                /\ stm' = Stamp(len, Number(m))
                /\ len' = len + 1
                /\ verdict' = "pass"
                /\ UNCHANGED rc

\* From then on entries are reused in turn, each of them once.
Recycle(m) == /\ Handle(m)
              /\ Found(SrcOf[m]) = {}
              /\ len + 1 >= MaxDedup
              /\ rc < MaxDedup
              /\ table' = [table EXCEPT ![rc] = SrcOf[m]]
              /\ stm' = [stm EXCEPT ![rc] = Recycled(rc, Number(m))]
              /\ rc' = rc + 1
              /\ verdict' = "pass"
              /\ UNCHANGED len

\* The next store would be outside the table: what follows is not modelled.
Overrun(m) == /\ Handle(m)
              /\ Found(SrcOf[m]) = {}
              /\ len + 1 >= MaxDedup
              /\ rc >= MaxDedup
              /\ verdict' = "overrun"
              /\ UNCHANGED <<table, stm, len, rc>>

\* Too short, too long, or of no known type: all it does is fill the buffer.
Reject == /\ verdict = "none"
          /\ left' \in SeqNo
          /\ UNCHANGED <<now, table, stm, len, rc, arrived, msg, verdict>>

\* The message is queued, or has been dropped, and the next one is awaited.
Done == /\ verdict \in {"pass", "drop"}
        /\ msg' = Nothing
        /\ verdict' = "none"
        /\ UNCHANGED <<now, table, stm, len, rc, left, arrived>>

Tick == /\ verdict # "overrun"
        /\ now < MaxTime
        /\ now' = now + 1
        /\ UNCHANGED <<table, stm, len, rc, left, arrived, msg, verdict>>

Receive(m) == KnownSource(m) \/ NewSource(m) \/ Recycle(m) \/ Overrun(m)

Undefined == verdict = "overrun" /\ UNCHANGED vars

Next == \/ \E m \in Msg : Receive(m)
        \/ Reject
        \/ Done
        \/ Tick
        \/ Undefined

Spec == Init /\ [][Next]_vars

-----------------------------------------------------------------------------
(* No source has two entries that are searched: its stamps are never split *)
(* between them, however often entries were reused (dst.c:180-187).        *)
SourcesDistinct == \A i, j \in 0 .. len - 1 :
                      (table[i] = table[j] /\ table[i] # Nothing) => i = j

\* The stamps s of source a tell the truth about the arrivals at.
TrueOf(a, s, at) ==
    \A q \in SeqNo : s[q] # 0 =>
       /\ \E m \in Msg : SrcOf[m] = a /\ at[m][q] = s[q]
       /\ \A m \in Msg : SrcOf[m] = a => at[m][q] <= s[q]

(* A stamp of an entry that is searched is the time of the latest message  *)
(* handled with its source and number, dropped ones included, also after   *)
(* the entry has been reused (dst.c:161-167, 184-187).                     *)
StampsTrue == \A i \in 0 .. len - 1 : TrueOf(table[i], stm[i], arrived)

(* Until entries are reused nothing handled is forgotten (dst.c:180-187).  *)
NothingForgotten ==
    rc = 0 => \A m \in Msg, q \in SeqNo :
                 arrived[m][q] # 0 => \E i \in Found(SrcOf[m]) :
                                         stm[i][q] >= arrived[m][q]

\* The number m itself carries; Nothing if it is too short for one.
Own(m) == IF m \in RelayMsg THEN SeqOf[m] ELSE ByteOf[m]

Handling == verdict = "none"

\* Dropped is what looks like a message handled at most Window ago: of one
\* source, and each with the number q or too short to have one of its own.
DropExplained == (Handling /\ verdict' = "drop") =>
                    \E n \in Msg, q \in SeqNo :
                       /\ SrcOf[n] = SrcOf[msg']
                       /\ {Own(n), Own(msg')} \subseteq {q, Nothing}
                       /\ Recent(arrived[n][q])

\* No message passes by the number it carries while that is recent, as long as
\* no entry was reused.
PassJustified == (Handling /\ verdict' = "pass" /\ rc' = 0) =>
                    \A n \in Msg : SrcOf[n] = SrcOf[msg'] =>
                       \A q \in SeqNo : q = Own(msg') => ~Recent(arrived[n][q])

(* What the filter drops need not be a copy.  dst.c:170-173 says that it   *)
(* happens a lot although no duplicates are sent, and dst.c:139 doubts the *)
(* number.  This says what else it can be: within the window its source    *)
(* sent another packet with the same third byte, the number has come       *)
(* round, or one of the two is too short to have a number and got the one  *)
(* left in the buffer.  (Simulating sources are one source here, as they   *)
(* share one radio address, src.c:151-154.)  Nothing else is dropped: none *)
(* for a stamp of the source that had the entry before, and no relay for a *)
(* byte of the address in it (dst.c:131-174, 184).                         *)
DropsOnlyLookAlikes == [][DropExplained]_vars

(* As long as fewer sources than entries have been heard, every repetition *)
(* within the window of a message that carries its number is dropped, one  *)
(* that arrives in the same tick included, and the window starts again     *)
(* with every copy (dst.c:161-176).  Of packets too short to have a number *)
(* it says nothing: their numbers are not those of their copies.           *)
RepeatsDropped == [][PassJustified]_vars

-----------------------------------------------------------------------------
(* What the documentation leads one to expect, and does not hold. *)

(* README.md:60-61 with any number of sources: the filter always has an    *)
(* entry for the next one.                                                 *)
TableSuffices == verdict # "overrun"
=============================================================================
