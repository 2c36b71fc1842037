------------------------------- MODULE Source -------------------------------
(***************************************************************************)
(* One run of src in detail: the sending thread, whose writes to the       *)
(* serial line may be short, the receiving thread and its sum of round-    *)
(* trip times, and the main thread that stops both on Enter.  Module Relay *)
(* has several of these at work, with a write as one step.                 *)
(*                                                                         *)
(* Either sending thread is meant: src_tx_thread and src_tx_sim_thread     *)
(* differ in what they write only.  Reads and writes that a signal         *)
(* interrupts are repeated with the same arguments and are no steps.       *)
(***************************************************************************)
EXTENDS Integers, Sequences

CONSTANTS Parts,     \* the parts in which a request can be written
          SeqMod,    \* 256, the values of seq_t
          Second,    \* 1000000000, the nanoseconds of a second
          MaxSent,   \* bound: requests before Enter
          MaxCnt,    \* bound: replies
          MaxTime    \* bound: the clock

ASSUME SourceAssumption == /\ Parts \in Nat \ {0}
                           /\ SeqMod \in Nat /\ SeqMod > 1
                           /\ Second \in Nat \ {0}
                           /\ MaxSent \in Nat
                           /\ MaxCnt \in Nat
                           /\ MaxTime \in Nat

VARIABLES now,      \* CLOCK_MONOTONIC: whole seconds and the rest
          delay,    \* whether there is a pause between requests
          tx,       \* sending thread: stamp, write, count, sleep or done
          seq,      \* relay->seq
          len,      \* parts of the current request that have been written
          line,     \* requests on the serial line, each with number, time and parts
          cntExp,   \* t_rtt.cnt_exp
          rx,       \* receiving thread: recv or done
          cnt,      \* t_rtt.cnt
          sum,      \* t_rtt.sum
          elapsed,  \* history: all the time it is the sum of
          main      \* main thread: running, joinTx, joinRx, over, or exited

txVars == <<tx, seq, len, line, cntExp>>
rxVars == <<rx, cnt, sum, elapsed>>
vars == <<now, delay, txVars, rxVars, main>>

Timespec == [sec : Nat, nsec : 0 .. Second - 1]

\* How long it is.
Ticks(t) == t.sec * Second + t.nsec

Request == [seq : 0 .. SeqMod - 1, ts : Timespec, parts : 0 .. Parts]

TypeOK == /\ now \in Timespec /\ Ticks(now) <= MaxTime
          /\ delay \in BOOLEAN
          /\ tx \in {"stamp", "write", "count", "sleep", "done"}
          /\ seq \in 0 .. SeqMod - 1
          /\ len \in 0 .. Parts
          /\ line \in Seq(Request) /\ Len(line) <= MaxSent + 1
          /\ cntExp \in 0 .. MaxSent + 1
          /\ rx \in {"recv", "done"}
          /\ cnt \in 0 .. MaxCnt
          /\ sum \in Timespec
          /\ elapsed \in Nat
          /\ main \in {"running", "joinTx", "joinRx", "over", "exited"}

Init == /\ now = [sec |-> 0, nsec |-> 0]
        /\ delay \in BOOLEAN
        /\ tx = "stamp"
        /\ seq = 0
        /\ len = 0
        /\ line = <<>>
        /\ cntExp = 0
        /\ rx = "recv"
        /\ cnt = 0
        /\ sum = [sec |-> 0, nsec |-> 0]
        /\ elapsed = 0
        /\ main = "running"

Alive == main \notin {"over", "exited"}

Tick == /\ Alive
        /\ Ticks(now) < MaxTime
        /\ now' = IF now.nsec + 1 < Second THEN [now EXCEPT !.nsec = @ + 1]
                  ELSE [sec |-> now.sec + 1, nsec |-> 0]
        /\ UNCHANGED <<delay, txVars, rxVars, main>>

-----------------------------------------------------------------------------
(* The sending thread. *)

\* Faulty variant: zero is not skipped.
NextSeq_Zero(q) == (q + 1) % SeqMod

NextSeq(q) == IF (q + 1) % SeqMod = 0 THEN 1 ELSE (q + 1) % SeqMod

Stamp == /\ Alive
         /\ tx = "stamp"
         /\ Len(line) < MaxSent \/ main = "joinTx"
         /\ seq' = NextSeq(seq)
         /\ line' = Append(line, [seq |-> NextSeq(seq), ts |-> now, parts |-> 0])
         /\ len' = 0
         /\ tx' = "write"
         /\ UNCHANGED <<now, delay, cntExp, rxVars, main>>

\* n more parts of the current request are on the line.
OnLine(n) == line' = [line EXCEPT ![Len(line)].parts = @ + n]

\* Faulty variant: a short write is counted from the beginning.
Advanced_Set(n) == n

Advanced(n) == len + n

\* Faulty variant: one write for each request.
Unfinished_Never(n) == FALSE

Unfinished(n) == n < Parts

\* After Enter, the thread is cancelled instead.
Write == /\ main = "running"
         /\ tx = "write"
         /\ \E n \in 1 .. Parts - len :
               /\ OnLine(n)
               /\ len' = Advanced(n)
               /\ tx' = IF Unfinished(Advanced(n)) THEN "write" ELSE "count"
         /\ UNCHANGED <<now, delay, seq, cntExp, rxVars, main>>

WriteFails == /\ main = "running"
              /\ tx = "write"
              /\ main' = "exited"
              /\ UNCHANGED <<now, delay, txVars, rxVars>>

Count == /\ Alive
         /\ tx = "count"
         /\ cntExp' = cntExp + 1
         /\ tx' = IF delay THEN "sleep" ELSE "stamp"
         /\ UNCHANGED <<now, delay, seq, len, line, rxVars, main>>

Wake == /\ main = "running"
        /\ tx = "sleep"
        /\ tx' = "stamp"
        /\ UNCHANGED <<now, delay, seq, len, line, cntExp, rxVars, main>>

-----------------------------------------------------------------------------
(* The receiving thread. *)

\* Faulty variant: nothing is borrowed from the seconds.
TsDiff_NoBorrow(a, b) == [sec |-> b.sec - a.sec, nsec |-> (b.nsec - a.nsec) % Second]

\* The time from a to b.
TsDiff(a, b) == IF b.nsec - a.nsec < 0
                THEN [sec |-> b.sec - a.sec - 1, nsec |-> Second + b.nsec - a.nsec]
                ELSE [sec |-> b.sec - a.sec, nsec |-> b.nsec - a.nsec]

\* Both are proper times, so that at most one second is carried.
TsAdd(a, b) == LET n == a.nsec + b.nsec
               IN  IF n >= Second
                   THEN [sec |-> a.sec + b.sec + 1, nsec |-> n - Second]
                   ELSE [sec |-> a.sec + b.sec, nsec |-> n]

\* A reply to a request the line has taken; more than one radio may make one.
Receive == /\ main \in {"running", "joinTx"}
           /\ rx = "recv"
           /\ cnt < MaxCnt
           /\ \E i \in DOMAIN line :
                 /\ line[i].parts = Parts
                 /\ sum' = TsAdd(sum, TsDiff(line[i].ts, now))
                 /\ elapsed' = elapsed + Ticks(now) - Ticks(line[i].ts)
           /\ cnt' = cnt + 1
           /\ UNCHANGED <<now, delay, txVars, rx, main>>

\* An empty datagram ends the thread.
ReceiveEmpty == /\ main \in {"running", "joinTx"}
                /\ rx = "recv"
                /\ rx' = "done"
                /\ UNCHANGED <<now, delay, txVars, cnt, sum, elapsed, main>>

ReceiveFails == /\ main \in {"running", "joinTx"}
                /\ rx = "recv"
                /\ main' = "exited"
                /\ UNCHANGED <<now, delay, txVars, rxVars>>

-----------------------------------------------------------------------------
(* src_stop. *)

PressEnter == /\ main = "running"
              /\ main' = "joinTx"
              /\ UNCHANGED <<now, delay, txVars, rxVars>>

\* Faulty variant: only the pause is ended.
CancelTx_Sleep == /\ main = "joinTx"
                  /\ tx = "sleep"
                  /\ tx' = "done"
                  /\ UNCHANGED <<now, delay, seq, len, line, cntExp, rxVars, main>>

\* In write or in nanosleep; the write may have done its work, or some of it.
CancelTx == /\ main = "joinTx"
            /\ \/ tx = "sleep" /\ UNCHANGED line
               \/ tx = "write" /\ \E n \in 0 .. Parts - len : OnLine(n)
            /\ tx' = "done"
            /\ UNCHANGED <<now, delay, seq, len, cntExp, rxVars, main>>

JoinTx == /\ main = "joinTx"
          /\ tx = "done"
          /\ main' = "joinRx"
          /\ UNCHANGED <<now, delay, txVars, rxVars>>

\* In recvfrom.
CancelRx == /\ main = "joinRx"
            /\ rx = "recv"
            /\ rx' = "done"
            /\ UNCHANGED <<now, delay, txVars, cnt, sum, elapsed, main>>

\* The counts and the mean of the times are printed.
JoinRx == /\ main = "joinRx"
          /\ rx = "done"
          /\ main' = "over"
          /\ UNCHANGED <<now, delay, txVars, rxVars>>

-----------------------------------------------------------------------------
TxRuns == Stamp \/ Write \/ WriteFails \/ Count \/ Wake \/ CancelTx

Next == \/ Tick \/ TxRuns
        \/ Receive \/ ReceiveEmpty \/ ReceiveFails
        \/ PressEnter \/ JoinTx \/ CancelRx \/ JoinRx

Spec == Init /\ [][Next]_vars

(* The threads keep being scheduled.  Nobody has to press Enter, and the   *)
(* line and the network may stand still for ever.                          *)
Fairness == /\ WF_vars(Stamp) /\ WF_vars(Count) /\ WF_vars(CancelTx)
            /\ WF_vars(JoinTx) /\ WF_vars(CancelRx) /\ WF_vars(JoinRx)

FairSpec == Spec /\ Fairness

-----------------------------------------------------------------------------
(* Requests follow one another on the line whole, so that only the last    *)
(* can be torn, by the thread's cancellation; and cnt_exp counts them,     *)
(* except the last while it is being written or if it was cut off then     *)
(* (src.c:111-124, 169-183).                                               *)
CountsExact == /\ \A i \in 1 .. Len(line) - 1 : line[i].parts = Parts
               /\ cntExp \in {Len(line) - 1, Len(line)}
               /\ tx \in {"stamp", "sleep"} => cntExp = Len(line)

(* No request has the number of an earlier one before all numbers but zero *)
(* have been used: the filter in dst, which knows a request by its radio   *)
(* and its number, takes none for a copy of another (src.c:89;             *)
(* dst.c:149-169).                                                         *)
SeqDistinct == \A i, j \in DOMAIN line :
                  /\ line[i].seq # 0
                  /\ i < j /\ j - i < SeqMod - 1 => line[i].seq # line[j].seq

(* The sum is exactly the time that went by between each counted reply and *)
(* its request (src.c:88, 237-240; local.h:28-48).                         *)
RttExact == Ticks(sum) = elapsed

(* Enter ends the process, wherever its threads are, even in a write that  *)
(* the serial line never takes (src.c:41-52; main.c:347-349).              *)
StopEnds == main = "joinTx" ~> main \in {"over", "exited"}
=============================================================================
