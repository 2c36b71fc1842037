------------------------------ MODULE WorkQueue ------------------------------
(***************************************************************************)
(* The two threads and the bounded buffer that fwd.c, dst.c and osc.c all  *)
(* are built from.  The rx thread takes a message from its descriptor,     *)
(* copies it into a malloc'ed buffer and stores the pointer under a mutex; *)
(* the tx thread takes a pointer, handles the message and frees it.  The   *)
(* main thread waits for Enter, then cancels and joins rx, then tx.        *)
(*                                                                         *)
(* The state is that of the C objects: the array slot and the count cnt of *)
(* the static queue, its mutex, the two threads' positions (pc) and the    *)
(* buffer each has in hand, the set heap of allocated buffers, the pending *)
(* cancellation requests and the position of the main thread.              *)
(*                                                                         *)
(* Between Lock and the Wait, Put or Pop that releases the mutex a thread  *)
(* touches only data the mutex protects, so each of these is one step.     *)
(***************************************************************************)
EXTENDS Naturals, FiniteSets

CONSTANTS MaxQueue,         \* MAX_QUEUE: number of slots
          Buf,              \* heap buffers malloc can return
          NULL,             \* the null pointer
          Nobody,           \* the mutex is free
          ExitOnSendError   \* TRUE in fwd.c and osc.c, FALSE in dst.c

ASSUME QueueAssumption == /\ MaxQueue \in Nat \ {0}
                          /\ NULL \notin Buf
                          /\ Nobody \notin {"rx", "tx"}
                          /\ ExitOnSendError \in BOOLEAN

VARIABLES heap, slot, cnt, mutex, pc, hand, cancelled, main

vars == <<heap, slot, cnt, mutex, pc, hand, cancelled, main>>

-----------------------------------------------------------------------------
Thread == {"rx", "tx"}
Slot   == 0 .. MaxQueue - 1

(* Where a thread can be.  recv and send are its blocking system calls;    *)
(* lock: it wants the mutex; crit: it has it; wait: inside                 *)
(* pthread_cond_wait; unwind: cancelled inside pthread_cond_wait, which    *)
(* takes the mutex again before the thread ends; handle: tx has popped.    *)
PC == [rx |-> {"recv", "lock", "crit", "wait", "unwind", "dead"},
       tx |-> {"lock", "crit", "wait", "unwind", "handle", "send", "dead"}]

MainPC == {"running", "joinRx", "joinTx", "stopped", "exited"}

TypeOK == /\ heap \in SUBSET Buf
          /\ slot \in [Slot -> Buf \cup {NULL}]
          /\ cnt \in 0 .. MaxQueue
          /\ mutex \in Thread \cup {Nobody}
          /\ pc \in [Thread -> PC.rx \cup PC.tx]
          /\ \A t \in Thread : pc[t] \in PC[t]
          /\ hand \in [Thread -> Buf \cup {NULL}]
          /\ cancelled \in SUBSET Thread
          /\ main \in MainPC

\* The process is still there.
Alive == main \notin {"stopped", "exited"}

\* The buffers the queue holds.
Queued == {slot[i] : i \in 0 .. cnt - 1}

Init == /\ heap = {}
        /\ slot = [i \in Slot |-> NULL]
        /\ cnt = 0
        /\ mutex = Nobody
        /\ pc = [rx |-> "recv", tx |-> "lock"]
        /\ hand = [t \in Thread |-> NULL]
        /\ cancelled = {}
        /\ main = "running"

-----------------------------------------------------------------------------
(* The rx thread's blocking call.  A thread with a pending cancellation   *)
(* never returns from it: see CancelBlocked.                               *)

\* A message came in and has been copied to a fresh buffer.
Recv == /\ Alive
        /\ pc["rx"] = "recv"
        /\ "rx" \notin cancelled
        /\ \E b \in Buf \ heap : /\ heap' = heap \cup {b}
                                 /\ hand' = [hand EXCEPT !["rx"] = b]
        /\ pc' = [pc EXCEPT !["rx"] = "lock"]
        /\ UNCHANGED <<slot, cnt, mutex, cancelled, main>>

\* malloc's result is not tested: without memory the copy kills the process.
RecvNoMemory == /\ Alive
                /\ pc["rx"] = "recv"
                /\ "rx" \notin cancelled
                /\ heap = Buf
                /\ main' = "exited"
                /\ UNCHANGED <<heap, slot, cnt, mutex, pc, hand, cancelled>>

\* End of file or an error: the thread returns, the process goes on.
RecvEnds == /\ Alive
            /\ pc["rx"] = "recv"
            /\ "rx" \notin cancelled
            /\ pc' = [pc EXCEPT !["rx"] = "dead"]
            /\ UNCHANGED <<heap, slot, cnt, mutex, hand, cancelled, main>>

-----------------------------------------------------------------------------
(* The monitor. *)

\* Faulty variant: room is tested one too far.
Blocked_OffByOne(t) == IF t = "rx" THEN cnt > MaxQueue ELSE cnt = 0

Blocked(t) == IF t = "rx" THEN cnt >= MaxQueue ELSE cnt = 0

Lock(t) == /\ Alive
           /\ pc[t] = "lock"
           /\ mutex = Nobody
           /\ mutex' = t
           /\ pc' = [pc EXCEPT ![t] = "crit"]
           /\ UNCHANGED <<heap, slot, cnt, hand, cancelled, main>>

\* Faulty variant: instead of waiting the thread leaves its loop, mutex held.
Wait_Breaks(t) == /\ Alive
                  /\ pc[t] = "crit"
                  /\ Blocked(t)
                  /\ pc' = [pc EXCEPT ![t] = "dead"]
                  /\ UNCHANGED <<heap, slot, cnt, mutex, hand, cancelled, main>>

Wait(t) == /\ Alive
           /\ pc[t] = "crit"
           /\ Blocked(t)
           /\ mutex' = Nobody
           /\ pc' = [pc EXCEPT ![t] = "wait"]
           /\ UNCHANGED <<heap, slot, cnt, hand, cancelled, main>>

\* pthread_cond_wait may return without a signal.
SpuriousWakeup(t) == /\ Alive
                     /\ pc[t] = "wait"
                     /\ pc' = [pc EXCEPT ![t] = "lock"]
                     /\ UNCHANGED <<heap, slot, cnt, mutex, hand, cancelled, main>>

\* Faulty variant: the signal is forgotten.
Signal_Lost(p, t) == p

\* The threads' positions p after a signal to t's condition variable.
Signal(p, t) == IF p[t] = "wait" THEN [p EXCEPT ![t] = "lock"] ELSE p

Put == /\ Alive
       /\ pc["rx"] = "crit"
       /\ ~Blocked("rx")
       /\ slot' = [slot EXCEPT ![cnt] = hand["rx"]]
       /\ cnt' = cnt + 1
       /\ hand' = [hand EXCEPT !["rx"] = NULL]
       /\ pc' = [Signal(pc, "tx") EXCEPT !["rx"] = "recv"]
       /\ mutex' = Nobody
       /\ UNCHANGED <<heap, cancelled, main>>

\* Faulty variants: the count is not decremented; it is reset every time.
CountAfterPop_Same  == {cnt}
CountAfterPop_Reset == {0}

(* After --cnt the code clears slot[cnt + 1], the one above the popped     *)
(* pointer.  For the topmost slot that store is outside the array, where   *)
(* the count itself lies: it stays decremented or becomes 0, as the        *)
(* compiler orders the two stores.                                         *)
CountAfterPop == {cnt - 1} \cup (IF cnt = MaxQueue THEN {0} ELSE {})

\* Faulty variant: the oldest pointer is taken, the others stay where they are.
Pop_Oldest == /\ Alive
              /\ pc["tx"] = "crit"
              /\ ~Blocked("tx")
              /\ hand' = [hand EXCEPT !["tx"] = slot[0]]
              /\ cnt' = cnt - 1
              /\ pc' = [Signal(pc, "rx") EXCEPT !["tx"] = "handle"]
              /\ mutex' = Nobody
              /\ UNCHANGED <<heap, slot, cancelled, main>>

Pop == /\ Alive
       /\ pc["tx"] = "crit"
       /\ ~Blocked("tx")
       /\ hand' = [hand EXCEPT !["tx"] = slot[cnt - 1]]
       /\ slot' = [i \in Slot |-> IF i = cnt THEN NULL ELSE slot[i]]
       /\ cnt' \in CountAfterPop
       /\ pc' = [Signal(pc, "rx") EXCEPT !["tx"] = "handle"]
       /\ mutex' = Nobody
       /\ UNCHANGED <<heap, cancelled, main>>

-----------------------------------------------------------------------------
(* The tx thread outside the monitor. *)

\* tx gives up its buffer and goes back for the next.
Free == /\ heap' = heap \ {hand["tx"]}
        /\ hand' = [hand EXCEPT !["tx"] = NULL]
        /\ pc' = [pc EXCEPT !["tx"] = "lock"]

\* A message to be sent; a null pointer ends the thread.
Dispatch == /\ Alive
            /\ pc["tx"] = "handle"
            /\ pc' = [pc EXCEPT !["tx"] = IF hand["tx"] = NULL THEN "dead" ELSE "send"]
            /\ UNCHANGED <<heap, slot, cnt, mutex, hand, cancelled, main>>

\* A message the component does not forward.
Skip == /\ Alive
        /\ pc["tx"] = "handle"
        /\ hand["tx"] # NULL
        /\ Free
        /\ UNCHANGED <<slot, cnt, mutex, cancelled, main>>

\* The send returned; where ExitOnSendError is FALSE, a failed one as well.
SendDone == /\ Alive
            /\ pc["tx"] = "send"
            /\ "tx" \notin cancelled
            /\ Free
            /\ UNCHANGED <<slot, cnt, mutex, cancelled, main>>

SendFails == /\ Alive
             /\ ExitOnSendError
             /\ pc["tx"] = "send"
             /\ "tx" \notin cancelled
             /\ main' = "exited"
             /\ UNCHANGED <<heap, slot, cnt, mutex, pc, hand, cancelled>>

-----------------------------------------------------------------------------
(* Stopping.  Cancellation is deferred: it takes effect in recv, in send   *)
(* and in pthread_cond_wait, nowhere else.  No cleanup handler is          *)
(* installed, so a thread cancelled in pthread_cond_wait ends with the     *)
(* mutex locked.                                                           *)

PressEnter == /\ main = "running"
              /\ cancelled' = {"rx"}
              /\ main' = "joinRx"
              /\ UNCHANGED <<heap, slot, cnt, mutex, pc, hand>>

\* Faulty variant: tx is joined without having been cancelled.
JoinRx_NoCancel == /\ main = "joinRx"
                   /\ pc["rx"] = "dead"
                   /\ main' = "joinTx"
                   /\ UNCHANGED <<heap, slot, cnt, mutex, pc, hand, cancelled>>

JoinRx == /\ main = "joinRx"
          /\ pc["rx"] = "dead"
          /\ cancelled' = cancelled \cup {"tx"}
          /\ main' = "joinTx"
          /\ UNCHANGED <<heap, slot, cnt, mutex, pc, hand>>

JoinTx == /\ main = "joinTx"
          /\ pc["tx"] = "dead"
          /\ main' = "stopped"
          /\ UNCHANGED <<heap, slot, cnt, mutex, pc, hand, cancelled>>

CancelBlocked(t) == /\ Alive
                    /\ t \in cancelled
                    /\ pc[t] \in {"recv", "send"}
                    /\ pc' = [pc EXCEPT ![t] = "dead"]
                    /\ UNCHANGED <<heap, slot, cnt, mutex, hand, cancelled, main>>

CancelWait(t) == /\ Alive
                 /\ t \in cancelled
                 /\ pc[t] = "wait"
                 /\ pc' = [pc EXCEPT ![t] = "unwind"]
                 /\ UNCHANGED <<heap, slot, cnt, mutex, hand, cancelled, main>>

EndHoldingMutex(t) == /\ Alive
                      /\ pc[t] = "unwind"
                      /\ mutex = Nobody
                      /\ mutex' = t
                      /\ pc' = [pc EXCEPT ![t] = "dead"]
                      /\ UNCHANGED <<heap, slot, cnt, hand, cancelled, main>>

-----------------------------------------------------------------------------
\* What a thread does when it is scheduled, with nothing awaited from outside.
Runs(t) == \/ Lock(t)
           \/ Wait(t)
           \/ CancelBlocked(t)
           \/ CancelWait(t)
           \/ EndHoldingMutex(t)

RxRuns   == Runs("rx") \/ Put
TxRuns   == Runs("tx") \/ Pop \/ Dispatch \/ Skip \/ SendDone
MainRuns == JoinRx \/ JoinTx

Outside == \/ Recv
           \/ RecvNoMemory
           \/ RecvEnds
           \/ SendFails
           \/ PressEnter
           \/ \E t \in Thread : SpuriousWakeup(t)

\* The process is gone.
Ended == ~Alive /\ UNCHANGED vars

Next == RxRuns \/ TxRuns \/ MainRuns \/ Outside \/ Ended

Spec == Init /\ [][Next]_vars

(* Each thread keeps being scheduled, a send returns, and wake-ups without *)
(* a signal do not go on for ever.  Nothing is assumed of what arrives or  *)
(* of Enter, nor that the mutex is handed out fairly.                      *)
Fairness == /\ WF_vars(RxRuns)
            /\ WF_vars(TxRuns)
            /\ WF_vars(MainRuns)
            /\ <>[][\A t \in Thread : ~SpuriousWakeup(t)]_vars

FairSpec == Spec /\ Fairness

-----------------------------------------------------------------------------
(* Safety. *)

InHand == {hand[t] : t \in Thread} \ {NULL}

(* Every pointer the queue or a thread holds is to a live buffer, and no   *)
(* buffer is held twice; in particular tx never pops a null or dangling    *)
(* pointer, and free is never called twice on one buffer, although slots   *)
(* above the count keep stale pointers (fwd.c:185-186, 259).               *)
Integrity == /\ \A i \in 0 .. cnt - 1 : slot[i] \in heap \ InHand
             /\ \A i, j \in 0 .. cnt - 1 : slot[i] = slot[j] => i = j
             /\ InHand \subseteq heap
             /\ hand["rx"] = hand["tx"] => hand["rx"] = NULL
             /\ pc["tx"] \in {"handle", "send"} => hand["tx"] # NULL

(* A thread is inside pthread_cond_wait only while what it waits for has   *)
(* not happened, so no wake-up is ever missed (fwd.c:150-156, 182-187).    *)
NoLostWakeup == \A t \in Thread : pc[t] = "wait" => Blocked(t)

\* The mutex belongs to a thread that has ended.
Orphaned == \E t \in Thread : mutex = t /\ pc[t] = "dead"

(* Until Enter is pressed no thread ends with the mutex locked, so the     *)
(* survivor of two threads can always go on (fwd.c:160-161, 190-193).      *)
OrphanedOnlyByStop == Orphaned => main # "running"

\* A stored pointer stays, or is taken by tx, or the queue was full.
Kept == \A b \in Queued : \/ b \in Queued'
                         \/ b = hand'["tx"]
                         \/ cnt = MaxQueue

(* A pointer leaves the queue only into tx's hand; the one exception is a  *)
(* pop from a full queue (fwd.c:185-186).                                  *)
LossOnlyWhenFull == [][Kept]_vars

\* The queue implements the abstract stack.
Stack == INSTANCE BoundedStack
         WITH Limit <- MaxQueue, Elem <- Buf, Nothing <- NULL,
              stack <- [i \in 1 .. cnt |-> slot[i - 1]], held <- hand["tx"]

(* Seen from outside, the array, the mutex and the two condition variables *)
(* behave like one atomic stack (fwd.c:146-157, 180-188).                  *)
ImplementsStack == Stack!Spec

-----------------------------------------------------------------------------
(* Liveness, for FairSpec. *)

(* While the process runs, rx gets rid of the message it has in hand: the  *)
(* queue may be full, but tx makes room and wakes it (fwd.c:148-157).      *)
RxServed == (hand["rx"] # NULL /\ main = "running")
               ~> (hand["rx"] = NULL \/ main # "running")

(* While the process runs, a queue that holds something is popped, unless  *)
(* it was emptied by a pop from a full queue (fwd.c:180-188).              *)
TxServed == (cnt > 0 /\ main = "running") ~> (pc["tx"] = "handle" \/ main # "running")

(* After Enter the process ends, or a thread that was cancelled inside     *)
(* pthread_cond_wait has left the mutex locked (fwd.c:74-85).              *)
StopEnds == (main # "running") ~> (~Alive \/ Orphaned)

-----------------------------------------------------------------------------
(* What the documentation leads one to expect, and does not hold. *)

(* README.md:81-82: pressing Enter exits the program.                      *)
EnterExits == (main # "running") ~> ~Alive

(* README.md:43-44: the packets read from the port are sent.  No buffer    *)
(* becomes unreachable before it is sent.                                  *)
NothingLost == heap \subseteq Queued \cup InHand

(* README.md:43-44 again: a packet in the queue does not stay there while  *)
(* tx goes on sending others.                                              *)
EveryPacketSent == \A b \in Buf : (b \in Queued /\ main = "running")
                                     ~> (b \notin Queued \/ main # "running")
=============================================================================
