---------------------------- MODULE SourceProofs ----------------------------
(***************************************************************************)
(* What src writes, counts and sums up, for requests of any size, any      *)
(* width of the sequence number and any unit of time.                      *)
(***************************************************************************)
EXTENDS Source, SequenceTheorems, TLAPS

USE SourceAssumption

-----------------------------------------------------------------------------
(* Arithmetic. *)

(* The number after q, without the wrapping of a byte. *)
LEMMA NextNumber ==
  ASSUME NEW q \in 0 .. SeqMod - 1
  PROVE  NextSeq(q) = IF q = SeqMod - 1 THEN 1 ELSE q + 1
<1>1. CASE q = SeqMod - 1
  <2>1. (q + 1) % SeqMod = 0
    BY <1>1
  <2> QED
    BY <1>1, <2>1 DEF NextSeq
<1>2. CASE q # SeqMod - 1
  <2>1. (q + 1) % SeqMod = q + 1
    BY <1>2
  <2> QED
    BY <1>2, <2>1 DEF NextSeq
<1> QED
  BY <1>1, <1>2

LEMMA Products ==
  ASSUME NEW a \in Int, NEW b \in Int, NEW s \in Int
  PROVE  /\ a * s \in Int
         /\ (a + b) * s = a * s + b * s
         /\ (b - a) * s = b * s - a * s
         /\ (a + 1) * s = a * s + s
         /\ (a + b + 1) * s = a * s + b * s + s
         /\ (b - a - 1) * s = b * s - a * s - s
OBVIOUS

LEMMA SecondsFirst ==
  ASSUME NEW a \in Int, NEW b \in Int, NEW s \in Nat \ {0},
         NEW x \in 0 .. s - 1, NEW y \in 0 .. s - 1, a * s + x <= b * s + y
  PROVE  a < b \/ (a = b /\ x <= y)
<1>1. a * s \in Int /\ b * s \in Int
  OBVIOUS
<1>2. CASE a > b
  <2>1. a * s >= b * s + s
    BY <1>2
  <2> QED
    BY <1>1, <2>1
<1>3. CASE a = b
  BY <1>1, <1>3
<1> QED
  BY <1>2, <1>3

\* The parts of a proper time.
LEMMA Parts2 ==
  ASSUME NEW t \in Timespec
  PROVE  /\ t.sec \in Nat /\ t.nsec \in 0 .. Second - 1
         /\ Ticks(t) = t.sec * Second + t.nsec
         /\ Ticks(t) \in Nat
<1>1. t.sec \in Nat /\ t.nsec \in 0 .. Second - 1
  BY DEF Timespec
<1>2. t.sec * Second \in Nat
  BY <1>1
<1> QED
  BY <1>1, <1>2 DEF Ticks

LEMMA TsDiffExact ==
  ASSUME NEW a \in Timespec, NEW b \in Timespec, Ticks(a) <= Ticks(b)
  PROVE  TsDiff(a, b) \in Timespec /\ Ticks(TsDiff(a, b)) = Ticks(b) - Ticks(a)
<1>1. /\ a.sec * Second \in Int /\ b.sec * Second \in Int
      /\ (b.sec - a.sec) * Second = b.sec * Second - a.sec * Second
      /\ (b.sec - a.sec - 1) * Second = b.sec * Second - a.sec * Second - Second
  BY Parts2, Products
<1>2. a.sec < b.sec \/ (a.sec = b.sec /\ a.nsec <= b.nsec)
  BY Parts2, SecondsFirst
<1>3. CASE b.nsec - a.nsec < 0
  <2>1. TsDiff(a, b) = [sec |-> b.sec - a.sec - 1, nsec |-> Second + b.nsec - a.nsec]
    BY <1>3 DEF TsDiff
  <2>2. b.sec - a.sec - 1 \in Nat /\ Second + b.nsec - a.nsec \in 0 .. Second - 1
    BY <1>2, <1>3, Parts2
  <2> QED
    BY <1>1, <2>1, <2>2, Parts2 DEF Timespec, Ticks
<1>4. CASE ~(b.nsec - a.nsec < 0)
  <2>1. TsDiff(a, b) = [sec |-> b.sec - a.sec, nsec |-> b.nsec - a.nsec]
    BY <1>4 DEF TsDiff
  <2>2. b.sec - a.sec \in Nat /\ b.nsec - a.nsec \in 0 .. Second - 1
    BY <1>2, <1>4, Parts2
  <2> QED
    BY <1>1, <2>1, <2>2, Parts2 DEF Timespec, Ticks
<1> QED
  BY <1>3, <1>4

LEMMA TsAddExact ==
  ASSUME NEW a \in Timespec, NEW b \in Timespec
  PROVE  TsAdd(a, b) \in Timespec /\ Ticks(TsAdd(a, b)) = Ticks(a) + Ticks(b)
<1>1. /\ a.sec * Second \in Int /\ b.sec * Second \in Int
      /\ (a.sec + b.sec) * Second = a.sec * Second + b.sec * Second
      /\ (a.sec + b.sec + 1) * Second = a.sec * Second + b.sec * Second + Second
  BY Parts2, Products
<1>2. CASE a.nsec + b.nsec >= Second
  <2>1. TsAdd(a, b) = [sec |-> a.sec + b.sec + 1, nsec |-> a.nsec + b.nsec - Second]
    BY <1>2, Parts2 DEF TsAdd
  <2>2. a.sec + b.sec + 1 \in Nat /\ a.nsec + b.nsec - Second \in 0 .. Second - 1
    BY <1>2, Parts2
  <2>3. Ticks(TsAdd(a, b)) = (a.sec + b.sec + 1) * Second + (a.nsec + b.nsec - Second)
    BY <2>1 DEF Ticks
  <2>4. TsAdd(a, b) \in Timespec
    BY <2>1, <2>2 DEF Timespec
  <2> QED
    BY <1>1, <2>3, <2>4, Parts2
<1>3. CASE ~(a.nsec + b.nsec >= Second)
  <2>1. TsAdd(a, b) = [sec |-> a.sec + b.sec, nsec |-> a.nsec + b.nsec]
    BY <1>3 DEF TsAdd
  <2>2. a.sec + b.sec \in Nat /\ a.nsec + b.nsec \in 0 .. Second - 1
    BY <1>3, Parts2
  <2> QED
    BY <1>1, <2>1, <2>2, Parts2 DEF Timespec, Ticks
<1> QED
  BY <1>2, <1>3

LEMMA TickExact ==
  ASSUME now \in Timespec, Tick
  PROVE  now' \in Timespec /\ Ticks(now') = Ticks(now) + 1 /\ Ticks(now') <= MaxTime
<1>1. now.sec * Second \in Int /\ (now.sec + 1) * Second = now.sec * Second + Second
  BY Parts2, Products
<1>2. CASE now.nsec + 1 < Second
  <2>1. now' = [sec |-> now.sec, nsec |-> now.nsec + 1]
    BY <1>2 DEF Tick, Timespec
  <2> QED
    BY <1>1, <1>2, <2>1, Parts2 DEF Timespec, Ticks, Tick
<1>3. CASE ~(now.nsec + 1 < Second)
  <2>1. now' = [sec |-> now.sec + 1, nsec |-> 0] /\ now.nsec = Second - 1
    BY <1>3, Parts2 DEF Tick
  <2> QED
    BY <1>1, <2>1, Parts2 DEF Timespec, Ticks, Tick
<1> QED
  BY <1>2, <1>3

-----------------------------------------------------------------------------
(* The invariant. *)

(* How far the sending thread is says which requests are on the line and   *)
(* which of them have been counted.                                        *)
Line == LET n == Len(line)
        IN  /\ \A i \in 1 .. n - 1 : line[i].parts = Parts
            /\ tx \in {"stamp", "count", "sleep"} /\ n # 0 => line[n].parts = Parts
            /\ tx = "write" => line[n].parts = len /\ len < Parts
            /\ tx \in {"write", "count"} => n # 0 /\ cntExp = n - 1
            /\ tx \in {"stamp", "sleep"} => cntExp = n
            /\ cntExp \in {n - 1, n}

\* No request is begun beyond the bound but one, after Enter.
Bound == /\ main = "running" => Len(line) <= MaxSent
         /\ tx \notin {"write", "done"} => Len(line) <= MaxSent

(* Numbers go up by one, and from the largest to one. *)
Numbers == LET k == SeqMod - 1
           IN  /\ line # <<>> => seq = line[Len(line)].seq
               /\ line = <<>> => seq = 0
               /\ \A i \in DOMAIN line : line[i].seq # 0
               /\ \A i, j \in DOMAIN line :
                     i < j /\ j - i < k =>
                        line[j].seq = IF line[i].seq + (j - i) <= k
                                      THEN line[i].seq + (j - i)
                                      ELSE line[i].seq + (j - i) - k

Times == /\ \A i \in DOMAIN line : Ticks(line[i].ts) <= Ticks(now)
         /\ Ticks(sum) = elapsed

IInv == TypeOK /\ Line /\ Bound /\ Numbers /\ Times

LEMMA InitInv == Init => IInv
<1> SUFFICES ASSUME Init PROVE IInv
  OBVIOUS
<1> USE DEF Init
<1>1. Ticks([sec |-> 0, nsec |-> 0]) = 0 /\ [sec |-> 0, nsec |-> 0] \in Timespec
  BY DEF Ticks, Timespec
<1>2. line \in Seq(Request) /\ Len(line) = 0 /\ DOMAIN line = {}
  BY EmptySeq
<1>3. TypeOK
  BY <1>1, <1>2 DEF TypeOK
<1>4. Line /\ Bound /\ Numbers /\ Times
  BY <1>1, <1>2 DEF Line, Bound, Numbers, Times
<1> QED
  BY <1>3, <1>4 DEF IInv

LEMMA OnLineRequest ==
  ASSUME TypeOK, NEW i \in DOMAIN line
  PROVE  /\ line[i] \in Request
         /\ line[i].seq \in 0 .. SeqMod - 1
         /\ line[i].parts \in 0 .. Parts
         /\ line[i].ts \in Timespec
         /\ Ticks(line[i].ts) \in Nat
<1>1. line \in Seq(Request) /\ i \in 1 .. Len(line)
  BY LenProperties DEF TypeOK
<1>2. line[i] \in Request
  BY <1>1, ElementOfSeq
<1> QED
  BY <1>2, Parts2 DEF Request

(* What is on the line when nothing is written. *)
LEMMA LineFrame ==
  ASSUME IInv, UNCHANGED <<seq, line>>, now' \in Timespec, Ticks(now) <= Ticks(now'),
         Ticks(sum') = elapsed'
  PROVE  Numbers' /\ Times'
<1>1. Numbers'
  BY DEF IInv, Numbers
<1>2. \A i \in DOMAIN line : Ticks(line[i].ts) \in Nat
  BY OnLineRequest DEF IInv
<1>3. Ticks(now) \in Nat /\ Ticks(now') \in Nat
  BY Parts2 DEF IInv, TypeOK
<1>4. Times'
  BY <1>2, <1>3 DEF IInv, Times
<1> QED
  BY <1>1, <1>4

LEMMA StampStep == IInv /\ Stamp => IInv'
<1> SUFFICES ASSUME IInv, Stamp PROVE IInv'
  OBVIOUS
<1> DEFINE n == Len(line)
           q == NextSeq(seq)
           r == [seq |-> q, ts |-> now, parts |-> 0]
<1>1. /\ line \in Seq(Request) /\ n \in Nat /\ DOMAIN line = 1 .. n
      /\ seq \in 0 .. SeqMod - 1 /\ now \in Timespec
  BY LenProperties DEF IInv, TypeOK
<1>2. q = (IF seq = SeqMod - 1 THEN 1 ELSE seq + 1) /\ q \in 1 .. SeqMod - 1
  BY <1>1, NextNumber
<1>3. r \in Request /\ r.seq = q /\ r.ts = now /\ r.parts = 0
  BY <1>1, <1>2 DEF Request
<1>4. line' = Append(line, r) /\ seq' = q /\ len' = 0 /\ tx' = "write" /\ tx = "stamp"
  BY DEF Stamp
<1> HIDE DEF r, q
<1>5. /\ line' \in Seq(Request) /\ Len(line') = n + 1 /\ DOMAIN line' = 1 .. n + 1
      /\ line'[n + 1] = r /\ \A i \in 1 .. n : line'[i] = line[i]
  BY <1>1, <1>3, <1>4, AppendProperties, LenProperties
<1> HIDE DEF n
<1>6. n <= MaxSent
  BY DEF IInv, Bound, Stamp, n
<1>7. TypeOK'
  BY <1>1, <1>2, <1>4, <1>5, <1>6 DEF IInv, TypeOK, Stamp, rxVars, n
<1>8. Line' /\ Bound'
  BY <1>1, <1>3, <1>4, <1>5, <1>6 DEF IInv, Line, Bound, Stamp, n
<1>9. Numbers'
  <2> DEFINE k == SeqMod - 1
  <2>1. \A i \in 1 .. n : line[i].seq \in 1 .. k
    <3> TAKE i \in 1 .. n
    <3>1. line[i].seq \in 0 .. k
      BY <1>1, OnLineRequest DEF IInv
    <3>2. line[i].seq # 0
      BY <1>1 DEF IInv, Numbers
    <3> QED
      BY <3>1, <3>2
  <2>2. ASSUME NEW i \in 1 .. n, n + 1 - i < k
        PROVE  q = IF line[i].seq + (n + 1 - i) <= k
                   THEN line[i].seq + (n + 1 - i)
                   ELSE line[i].seq + (n + 1 - i) - k
    <3>1. PICK v \in 1 .. k : v = line[i].seq
      BY <2>1
    <3>2. seq = line[n].seq /\ n \in DOMAIN line /\ i \in DOMAIN line
      BY <1>1, <2>2 DEF IInv, Numbers, n
    <3>3. seq = IF v + (n - i) <= k THEN v + (n - i) ELSE v + (n - i) - k
      <4>1. CASE i = n
        BY <1>1, <3>1, <3>2, <4>1
      <4>2. CASE i < n
        <5>1. n - i < k
          BY <1>1, <2>2
        <5> QED
          BY <3>1, <3>2, <4>2, <5>1 DEF IInv, Numbers
      <4> QED
        BY <1>1, <2>2, <4>1, <4>2
    <3>4. i \in Nat /\ n \in Nat /\ n >= i /\ k \in Nat
      BY <1>1, <2>2
    <3> QED
      BY <1>2, <2>2, <3>1, <3>3, <3>4
  <2>3. \A i \in 1 .. n + 1 : line'[i].seq # 0
    BY <1>1, <1>2, <1>3, <1>5, <2>1
  <2>4. ASSUME NEW i \in 1 .. n + 1, NEW j \in 1 .. n + 1, i < j, j - i < k
        PROVE  line'[j].seq = IF line'[i].seq + (j - i) <= k
                              THEN line'[i].seq + (j - i)
                              ELSE line'[i].seq + (j - i) - k
    <3>1. i \in 1 .. n /\ line'[i] = line[i]
      BY <1>1, <1>5, <2>4
    <3>2. CASE j = n + 1
      <4>1. line'[j].seq = q /\ j - i = n + 1 - i
        BY <1>1, <1>3, <1>5, <3>2
      <4> QED
        BY <2>2, <2>4, <3>1, <4>1
    <3>3. CASE j # n + 1
      <4>1. j \in 1 .. n /\ line'[j] = line[j]
        BY <1>1, <1>5, <3>3
      <4>2. line[j].seq = IF line[i].seq + (j - i) <= k
                          THEN line[i].seq + (j - i)
                          ELSE line[i].seq + (j - i) - k
        BY SMTT(30), <1>1, <2>4, <3>1, <4>1 DEF IInv, Numbers
      <4> QED
        BY <3>1, <4>1, <4>2
    <3> QED
      BY <3>2, <3>3
  <2>5. /\ line' # <<>> => seq' = line'[Len(line')].seq
        /\ line' # <<>>
    BY <1>1, <1>3, <1>4, <1>5, EmptySeq
  <2> QED
    BY <1>5, <2>3, <2>4, <2>5 DEF Numbers
<1>10. Times'
  <2>1. UNCHANGED <<now, sum, elapsed>> /\ Ticks(now) \in Nat
    BY <1>1, Parts2 DEF Stamp, rxVars
  <2> QED
    BY <1>1, <1>3, <1>5, <2>1 DEF IInv, Times
<1> QED
  BY <1>7, <1>8, <1>9, <1>10 DEF IInv

\* The last request on the line has got k more parts, and is the same.
Filled(k) == LET n == Len(line)
             IN  /\ line' \in Seq(Request) /\ Len(line') = n /\ DOMAIN line' = DOMAIN line
                 /\ (line' = <<>>) = (line = <<>>)
                 /\ \A i \in DOMAIN line : /\ line'[i].seq = line[i].seq
                                           /\ line'[i].ts = line[i].ts
                                           /\ i # n => line'[i] = line[i]
                 /\ line'[n].parts = line[n].parts + k

LEMMA FillStep ==
  ASSUME TypeOK, Len(line) # 0, line[Len(line)].parts = len,
         NEW k \in 0 .. Parts - len, OnLine(k)
  PROVE  Filled(k)
<1> DEFINE n == Len(line)
           r == [line[n] EXCEPT !.parts = @ + k]
<1>1. line \in Seq(Request) /\ n \in Nat /\ n # 0 /\ DOMAIN line = 1 .. n /\ n \in DOMAIN line
  BY LenProperties DEF TypeOK
<1>2. line[n] \in Request /\ line[n].parts = len /\ len + k \in 0 .. Parts
  BY <1>1, OnLineRequest DEF TypeOK
<1>3. /\ r \in Request /\ r.parts = len + k
      /\ r.seq = line[n].seq /\ r.ts = line[n].ts
  BY SMTT(30), <1>2 DEF Request
<1>4. line' = [line EXCEPT ![n] = r]
  BY DEF OnLine
<1> HIDE DEF r
<1>5. /\ line' \in Seq(Request) /\ Len(line') = n
      /\ line'[n] = r /\ \A i \in 1 .. n : i # n => line'[i] = line[i]
  BY <1>1, <1>3, <1>4, ExceptSeq
<1>6. DOMAIN line' = 1 .. n
  BY <1>5, LenProperties
<1>7. line' # <<>> /\ line # <<>>
  BY <1>1, <1>5, EmptySeq
<1> HIDE DEF n
<1> QED
  BY <1>1, <1>2, <1>3, <1>5, <1>6, <1>7 DEF Filled, n

(* A step of the write, whole or short. *)
LEMMA WriteStep == IInv /\ Write => IInv'
<1> SUFFICES ASSUME IInv, Write PROVE IInv'
  OBVIOUS
<1> USE DEF IInv
<1>1. PICK k \in 1 .. Parts - len :
         /\ OnLine(k) /\ len' = len + k
         /\ tx' = IF len + k < Parts THEN "write" ELSE "count"
  BY DEF Write, Advanced, Unfinished
<1>2. len' \in 0 .. Parts /\ (tx' = "count" => len' = Parts) /\ tx' \in {"write", "count"}
  BY <1>1 DEF TypeOK
<1>3. Len(line) # 0 /\ line[Len(line)].parts = len
  BY DEF Line, Write
<1>4. Filled(k)
  BY <1>1, <1>3, FillStep DEF Line, Write
<1>5. TypeOK'
  BY <1>1, <1>2, <1>4 DEF TypeOK, Write, rxVars, Filled
<1>6. Line'
  <2> DEFINE n == Len(line)
  <2>1. /\ Len(line') = n /\ n \in Nat /\ DOMAIN line = 1 .. n
        /\ \A i \in 1 .. n - 1 : line'[i] = line[i]
        /\ line'[n].parts = len'
    BY <1>1, <1>3, <1>4, LenProperties DEF TypeOK, Filled
  <2>2. UNCHANGED cntExp /\ cntExp = n - 1 /\ \A i \in 1 .. n - 1 : line[i].parts = Parts
    BY DEF Line, Write
  <2>3. tx' = "write" => len' < Parts
    BY <1>1
  <2> QED
    BY <1>2, <1>3, <2>1, <2>2, <2>3 DEF Line
<1>7. Bound'
  BY <1>2, <1>4 DEF Bound, Write, Filled
<1>8. Numbers' /\ Times'
  BY <1>4 DEF Numbers, Times, Write, Filled, rxVars
<1> QED
  BY <1>5, <1>6, <1>7, <1>8

\* The thread is cancelled, and its last request stays as it is or grows.
LEMMA CancelStep == IInv /\ CancelTx => IInv'
<1> SUFFICES ASSUME IInv, CancelTx PROVE IInv'
  OBVIOUS
<1> USE DEF IInv
<1>1. tx' = "done" /\ UNCHANGED <<now, delay, seq, len, cntExp, rxVars, main>>
  BY DEF CancelTx
<1>2. CASE UNCHANGED line
  BY <1>1, <1>2 DEF TypeOK, Line, Bound, Numbers, Times, rxVars, CancelTx
<1>3. ASSUME tx = "write", NEW k \in 0 .. Parts - len, OnLine(k) PROVE IInv'
  <2>1. Len(line) # 0 /\ line[Len(line)].parts = len /\ Filled(k)
    BY <1>3, FillStep DEF Line
  <2>2. TypeOK'
    BY <1>1, <2>1 DEF TypeOK, rxVars, Filled
  <2>3. Line'
    <3>1. DOMAIN line = 1 .. Len(line) /\ Len(line) \in Nat
      BY LenProperties DEF TypeOK
    <3> QED
      BY <1>1, <2>1, <3>1 DEF Line, Filled
  <2>4. Bound' /\ Numbers' /\ Times'
    BY <1>1, <2>1 DEF Bound, Numbers, Times, Filled, rxVars, CancelTx
  <2> QED
    BY <2>2, <2>3, <2>4
<1> QED
  BY <1>2, <1>3 DEF CancelTx

LEMMA ReceiveStep == IInv /\ Receive => IInv'
<1> SUFFICES ASSUME IInv, Receive PROVE IInv'
  OBVIOUS
<1> USE DEF IInv
<1>1. UNCHANGED <<now, delay, txVars, rx, main>> /\ cnt' = cnt + 1 /\ cnt < MaxCnt
  BY DEF Receive
<1>2. PICK i \in DOMAIN line :
         /\ sum' = TsAdd(sum, TsDiff(line[i].ts, now))
         /\ elapsed' = elapsed + Ticks(now) - Ticks(line[i].ts)
  BY DEF Receive
<1>3. /\ line[i].ts \in Timespec /\ now \in Timespec /\ sum \in Timespec
      /\ Ticks(line[i].ts) <= Ticks(now)
      /\ Ticks(line[i].ts) \in Nat /\ Ticks(now) \in Nat /\ Ticks(sum) \in Nat
  BY OnLineRequest, Parts2 DEF Times, TypeOK
<1>4. PICK d \in Timespec : d = TsDiff(line[i].ts, now) /\ Ticks(d) = Ticks(now) - Ticks(line[i].ts)
  BY <1>3, TsDiffExact
<1>5. sum' \in Timespec /\ Ticks(sum') = Ticks(sum) + Ticks(d)
  BY <1>2, <1>3, <1>4, TsAddExact
<1>6. Ticks(sum') = elapsed' /\ elapsed' \in Nat
  BY <1>2, <1>3, <1>4, <1>5 DEF Times
<1>7. TypeOK'
  BY <1>1, <1>5, <1>6 DEF TypeOK, txVars
<1>8. Line' /\ Bound'
  BY <1>1 DEF Line, Bound, txVars
<1>9. Numbers' /\ Times'
  BY <1>1, <1>3, <1>6, LineFrame DEF txVars
<1> QED
  BY <1>7, <1>8, <1>9

\* Steps that write nothing and count no reply.
LEMMA OtherSteps ==
  ASSUME IInv, \/ WriteFails \/ Count \/ Wake \/ ReceiveEmpty \/ ReceiveFails
               \/ PressEnter \/ JoinTx \/ CancelRx \/ JoinRx \/ UNCHANGED vars
  PROVE  IInv'
<1> USE DEF IInv
<1>1. UNCHANGED <<now, delay, seq, len, line, cnt, sum, elapsed>>
  BY DEF WriteFails, Count, Wake, ReceiveEmpty, ReceiveFails, PressEnter, JoinTx, CancelRx,
         JoinRx, txVars, rxVars, vars
<1>2. /\ now \in Timespec /\ Ticks(now) \in Nat /\ Ticks(sum) = elapsed
      /\ Len(line) \in Nat
  BY Parts2, LenProperties DEF TypeOK, Times
<1>3. Numbers' /\ Times'
  BY <1>1, <1>2, LineFrame
<1>4. TypeOK' /\ Line' /\ Bound'
  <2>1. CASE Count
    <3>1. /\ tx = "count" /\ cntExp' = cntExp + 1 /\ tx' \in {"sleep", "stamp"}
          /\ UNCHANGED <<rx, main>>
      BY <2>1 DEF Count, rxVars
    <3>2. Len(line) # 0 /\ cntExp = Len(line) - 1 /\ Len(line) <= MaxSent
      BY <3>1 DEF Line, Bound
    <3> QED
      BY <1>1, <1>2, <3>1, <3>2 DEF TypeOK, Line, Bound
  <2>2. CASE Wake
    BY <1>1, <2>2 DEF Wake, TypeOK, Line, Bound, rxVars
  <2>3. CASE WriteFails \/ ReceiveFails \/ PressEnter \/ JoinTx
    BY <1>1, <2>3 DEF WriteFails, ReceiveFails, PressEnter, JoinTx, TypeOK, Line, Bound,
                      txVars, rxVars
  <2>4. CASE ReceiveEmpty \/ CancelRx \/ JoinRx \/ UNCHANGED vars
    BY <1>1, <2>4 DEF ReceiveEmpty, CancelRx, JoinRx, vars, TypeOK, Line, Bound, txVars, rxVars
  <2> QED
    BY <2>1, <2>2, <2>3, <2>4
<1> QED
  BY <1>3, <1>4

LEMMA InvStep == IInv /\ [Next]_vars => IInv'
<1>1. ASSUME IInv, Tick PROVE IInv'
  <2>1. now' \in Timespec /\ Ticks(now) <= Ticks(now') /\ Ticks(now') <= MaxTime
    BY <1>1, TickExact, Parts2 DEF IInv, TypeOK
  <2>2. UNCHANGED <<delay, txVars, rxVars, main>>
    BY <1>1 DEF Tick
  <2>3. Numbers' /\ Times'
    BY <1>1, <2>1, <2>2, LineFrame DEF IInv, Times, txVars, rxVars
  <2> QED
    BY <1>1, <2>1, <2>2, <2>3 DEF IInv, TypeOK, Line, Bound, txVars, rxVars
<1> QED
  BY <1>1, StampStep, WriteStep, CancelStep, ReceiveStep, OtherSteps DEF Next, TxRuns

LEMMA Invariant == Spec => []IInv
BY InitInv, InvStep, PTL DEF Spec

-----------------------------------------------------------------------------
(* The state stays well-typed: no write goes past the end of its request,  *)
(* and sums of times stay proper times.                                    *)
THEOREM TypeCorrect == Spec => []TypeOK
BY Invariant, PTL DEF IInv

(* However the writes are cut short and whenever Enter is pressed, only    *)
(* the last request can be torn, and the count is behind by it at most     *)
(* (src.c:111-124, 169-183).                                               *)
THEOREM CountsAgree == Spec => []CountsExact
<1>1. IInv => CountsExact
  BY DEF IInv, Line, CountsExact
<1> QED
  BY <1>1, Invariant, PTL

(* For any width of the number, two requests have the same one only after  *)
(* all others have been used (src.c:89).                                   *)
THEOREM NumbersDiffer == Spec => []SeqDistinct
<1>1. ASSUME IInv PROVE SeqDistinct
  <2> SUFFICES ASSUME NEW i \in DOMAIN line, NEW j \in DOMAIN line
               PROVE  /\ line[i].seq # 0
                      /\ i < j /\ j - i < SeqMod - 1 => line[i].seq # line[j].seq
    BY DEF SeqDistinct
  <2>1. /\ line[i].seq \in 0 .. SeqMod - 1 /\ line[i].seq # 0
        /\ i \in Int /\ j \in Int
    BY <1>1, OnLineRequest, LenProperties DEF IInv, Numbers, TypeOK
  <2>2. ASSUME i < j, j - i < SeqMod - 1
        PROVE  line[j].seq = IF line[i].seq + (j - i) <= SeqMod - 1
                             THEN line[i].seq + (j - i)
                             ELSE line[i].seq + (j - i) - (SeqMod - 1)
    BY <1>1, <2>2 DEF IInv, Numbers
  <2> QED
    BY <2>1, <2>2
<1> QED
  BY <1>1, Invariant, PTL

(* Borrowing and carrying between seconds and nanoseconds loses nothing,   *)
(* for any number of replies (local.h:28-48).                              *)
THEOREM SumExact == Spec => []RttExact
<1>1. IInv => RttExact
  BY DEF IInv, Times, RttExact
<1> QED
  BY <1>1, Invariant, PTL
=============================================================================
