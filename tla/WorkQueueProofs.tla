-------------------------- MODULE WorkQueueProofs --------------------------
(***************************************************************************)
(* What module WorkQueue's runs check on a few slots and buffers, proved   *)
(* for every MaxQueue, every set Buf and both kinds of component.          *)
(*                                                                         *)
(* All of it follows from one inductive invariant, IInv: who owns the      *)
(* mutex is who is inside the monitor, what a thread holds follows from    *)
(* where it is, and only the main thread's request makes a thread unwind.  *)
(***************************************************************************)
EXTENDS WorkQueue, SequenceTheorems, TLAPS

(* The mutex is owned by the thread in the critical section, or by one     *)
(* that ended while it held it.                                            *)
Owner == \A t \in Thread : /\ pc[t] = "crit" => mutex = t
                           /\ mutex = t => pc[t] \in {"crit", "dead"}

(* rx has a buffer from the moment it received a message until it is in    *)
(* the queue, tx from the pop until it is freed.                           *)
Hands == /\ pc["rx"] \in {"lock", "crit", "wait", "unwind"} => hand["rx"] # NULL
         /\ pc["rx"] = "recv" => hand["rx"] = NULL
         /\ pc["tx"] \in {"lock", "crit", "wait", "unwind"} => hand["tx"] = NULL

\* A thread unwinds only when it was cancelled, and that takes Enter.
Stopping == /\ \A t \in Thread : pc[t] = "unwind" => t \in cancelled
            /\ cancelled # {} => main # "running"

IInv == /\ TypeOK
        /\ Owner
        /\ Hands
        /\ Integrity
        /\ NoLostWakeup
        /\ Stopping
        /\ OrphanedOnlyByStop

USE QueueAssumption DEF Thread, Slot, PC, MainPC

LEMMA InitInv == Init => IInv
<1> SUFFICES ASSUME Init PROVE IInv
  OBVIOUS
<1> USE DEF Init
<1>1. TypeOK
  BY DEF TypeOK
<1>2. Owner /\ Hands
  BY DEF Owner, Hands
<1>3. InHand = {}
  BY DEF InHand
<1>4. Integrity
  BY <1>3 DEF Integrity
<1>5. NoLostWakeup /\ Stopping /\ OrphanedOnlyByStop
  BY DEF NoLostWakeup, Stopping, OrphanedOnlyByStop, Orphaned
<1> QED
  BY <1>1, <1>2, <1>4, <1>5 DEF IInv

LEMMA TypeStep == TypeOK /\ [Next]_vars => TypeOK'
<1> SUFFICES ASSUME TypeOK, [Next]_vars PROVE TypeOK'
  OBVIOUS
<1> USE DEF TypeOK
<1>1. CASE Recv
  BY <1>1 DEF Recv
<1>2. CASE RecvNoMemory
  BY <1>2 DEF RecvNoMemory
<1>3. CASE RecvEnds
  BY <1>3 DEF RecvEnds
<1>4. ASSUME NEW t \in Thread, Runs(t) PROVE TypeOK'
  <2>1. PICK q \in PC[t] : pc' = [pc EXCEPT ![t] = q]
    BY <1>4 DEF Runs, Lock, Wait, CancelBlocked, CancelWait, EndHoldingMutex
  <2>2. /\ UNCHANGED <<heap, slot, cnt, hand, cancelled, main>>
        /\ mutex' \in {mutex, t, Nobody}
    BY <1>4 DEF Runs, Lock, Wait, CancelBlocked, CancelWait, EndHoldingMutex
  <2> QED
    BY <2>1, <2>2
<1>5. CASE Put
  BY <1>5 DEF Put, Signal, Blocked
<1>6. CASE Pop
  BY <1>6 DEF Pop, Signal, CountAfterPop, Blocked
<1>7. CASE Dispatch
  BY <1>7 DEF Dispatch
<1>8. CASE Skip \/ SendDone
  <2>1. Free /\ UNCHANGED <<slot, cnt, mutex, cancelled, main>>
    BY <1>8 DEF Skip, SendDone
  <2> QED
    BY <2>1 DEF Free
<1>9. CASE MainRuns \/ SendFails \/ PressEnter
  BY <1>9 DEF MainRuns, JoinRx, JoinTx, SendFails, PressEnter
<1>10. ASSUME NEW t \in Thread, SpuriousWakeup(t) PROVE TypeOK'
  BY <1>10 DEF SpuriousWakeup
<1>11. CASE Ended \/ UNCHANGED vars
  BY <1>11 DEF Ended, vars
<1> QED
  BY <1>1, <1>2, <1>3, <1>4, <1>5, <1>6, <1>7, <1>8, <1>9, <1>10, <1>11
     DEF Next, RxRuns, TxRuns, Outside

(* A step that moves no buffer keeps Integrity, unless it takes tx out of  *)
(* the monitor.                                                            *)
LEMMA IntegrityFrame ==
  ASSUME Integrity, UNCHANGED <<heap, slot, cnt, hand>>,
         pc'["tx"] \in {"handle", "send"} => hand["tx"] # NULL
  PROVE  Integrity'
BY DEF Integrity, InHand

(* Whatever a thread does by itself moves no buffer; it changes its own    *)
(* position, and the mutex's owner.                                        *)
LEMMA RunsStep ==
  ASSUME IInv, TypeOK', NEW t \in Thread, Runs(t) \/ SpuriousWakeup(t)
  PROVE  IInv'
<1> USE DEF IInv, TypeOK
<1>1. UNCHANGED <<heap, slot, cnt, hand, cancelled, main>>
  BY DEF Runs, Lock, Wait, CancelBlocked, CancelWait, EndHoldingMutex, SpuriousWakeup
<1>2. PICK q : /\ pc' = [pc EXCEPT ![t] = q]
               /\ q \in {"lock", "crit", "wait", "unwind", "dead"}
  BY DEF Runs, Lock, Wait, CancelBlocked, CancelWait, EndHoldingMutex, SpuriousWakeup
<1>3. Owner'
  BY DEF Owner, Runs, Lock, Wait, CancelBlocked, CancelWait, EndHoldingMutex, SpuriousWakeup
<1>4. q \in {"lock", "crit", "wait", "unwind"} => pc[t] \in {"lock", "crit", "wait", "unwind"}
  BY <1>2 DEF Runs, Lock, Wait, CancelBlocked, CancelWait, EndHoldingMutex, SpuriousWakeup
<1>5. Hands'
  BY <1>1, <1>2, <1>4 DEF Hands
<1>6. Integrity'
  BY <1>1, <1>2, IntegrityFrame DEF Integrity
<1>7. NoLostWakeup'
  <2>1. q = "wait" => Blocked(t)
    BY <1>2 DEF Runs, Lock, Wait, CancelBlocked, CancelWait, EndHoldingMutex, SpuriousWakeup
  <2> QED
    BY <1>1, <1>2, <2>1 DEF NoLostWakeup, Blocked
<1>8. Stopping'
  <2>1. q = "unwind" => t \in cancelled
    BY <1>2 DEF Runs, Lock, Wait, CancelBlocked, CancelWait, EndHoldingMutex, SpuriousWakeup
  <2> QED
    BY <1>1, <1>2, <2>1 DEF Stopping
<1>9. OrphanedOnlyByStop'
  <2> SUFFICES ASSUME NEW u \in Thread, mutex' = u, pc'[u] = "dead"
               PROVE  main # "running"
    BY <1>1 DEF OrphanedOnlyByStop, Orphaned
  <2>1. CASE mutex = u /\ pc[u] = "dead"
    BY <2>1 DEF OrphanedOnlyByStop, Orphaned
  <2>2. CASE ~(mutex = u /\ pc[u] = "dead")
    BY <2>2 DEF Runs, Lock, Wait, CancelBlocked, CancelWait, EndHoldingMutex,
       SpuriousWakeup, Owner, Stopping
  <2> QED
    BY <2>1, <2>2
<1> QED
  BY <1>3, <1>5, <1>6, <1>7, <1>8, <1>9

(* The other steps of rx and tx.  Only Put and Pop change the queue; Put   *)
(* moves a buffer that Integrity keeps apart from the stored ones into     *)
(* it, Pop takes the topmost one out.                                      *)
LEMMA RecvStep == ASSUME IInv, TypeOK', Recv PROVE IInv'
<1> USE DEF IInv, TypeOK, Recv
<1>1. PICK b \in Buf \ heap : heap' = heap \cup {b} /\ hand' = [hand EXCEPT !["rx"] = b]
  OBVIOUS
<1>2. Owner' /\ Hands'
  BY <1>1 DEF Owner, Hands
<1>3. Integrity'
  <2>1. InHand' \subseteq InHand \cup {b}
    BY <1>1 DEF InHand
  <2>2. \A i \in 0 .. cnt - 1 : slot[i] \in heap \ InHand /\ slot[i] # b
    BY <1>1 DEF Integrity
  <2>3. hand'["tx"] # b /\ hand'["rx"] = b
    BY <1>1 DEF Integrity, InHand
  <2> QED
    BY <1>1, <2>1, <2>2, <2>3 DEF Integrity
<1>4. NoLostWakeup' /\ Stopping'
  BY DEF NoLostWakeup, Blocked, Stopping
<1>5. OrphanedOnlyByStop'
  BY DEF OrphanedOnlyByStop, Orphaned, Owner
<1> QED
  BY <1>2, <1>3, <1>4, <1>5

LEMMA PutStep == ASSUME IInv, TypeOK', Put PROVE IInv'
<1> USE DEF IInv, TypeOK, Put
<1>1. /\ hand["rx"] \in heap \ {NULL} 
      /\ hand["rx"] # hand["tx"]
      /\ \A i \in 0 .. cnt - 1 : slot[i] # hand["rx"]
  BY DEF Integrity, InHand, Hands
<1>2. Owner' /\ Hands'
  BY DEF Owner, Hands, Signal
<1>3. Integrity'
  <2>1. cnt \in Slot /\ cnt' - 1 = cnt
    BY DEF Blocked
  <2>2. \A i \in 0 .. cnt : slot'[i] = IF i = cnt THEN hand["rx"] ELSE slot[i]
    BY <2>1
  <2>3. InHand' = InHand \ {hand["rx"]}
    BY <1>1 DEF InHand
  <2>4. \A i \in 0 .. cnt' - 1 : slot'[i] \in heap' \ InHand'
    BY <1>1, <2>1, <2>2, <2>3 DEF Integrity
  <2>5. \A i, j \in 0 .. cnt' - 1 : slot'[i] = slot'[j] => i = j
    BY <1>1, <2>1, <2>2 DEF Integrity
  <2>6. pc'["tx"] \in {"handle", "send"} => hand'["tx"] # NULL
    BY DEF Integrity, Signal
  <2> QED
    BY <2>3, <2>4, <2>5, <2>6 DEF Integrity
<1>4. NoLostWakeup' /\ Stopping'
  BY DEF NoLostWakeup, Blocked, Stopping, Signal
<1>5. OrphanedOnlyByStop'
  BY DEF OrphanedOnlyByStop, Orphaned
<1> QED
  BY <1>2, <1>3, <1>4, <1>5

LEMMA PopStep == ASSUME IInv, TypeOK', Pop PROVE IInv'
<1> DEFINE top  == slot[cnt - 1]
           left == 0 .. cnt' - 1
<1>1. /\ cnt \in Nat /\ 1 <= cnt /\ cnt <= MaxQueue
      /\ cnt' = 0 \/ cnt' = cnt - 1
  BY DEF IInv, TypeOK, Pop, Blocked, CountAfterPop
<1>2. /\ pc["tx"] = "crit"
      /\ hand' = [hand EXCEPT !["tx"] = top]
      /\ pc' = [Signal(pc, "rx") EXCEPT !["tx"] = "handle"]
      /\ mutex' = Nobody
      /\ UNCHANGED <<heap, cancelled, main>>
  BY DEF Pop
<1>3. \A i \in Slot : i # cnt => slot'[i] = slot[i]
  BY DEF Pop
<1>4. \A i \in left : i \in Slot /\ i \in 0 .. cnt - 1 /\ i # cnt /\ i # cnt - 1
  BY <1>1
<1>5. cnt - 1 \in 0 .. cnt - 1
  BY <1>1
<1> HIDE DEF left
<1>6. top \in heap \ InHand /\ top # NULL /\ hand["tx"] = NULL
  BY <1>2, <1>5 DEF IInv, TypeOK, Integrity, Hands
<1> HIDE DEF top
<1>7. Owner' /\ Hands'
  BY <1>2, <1>6 DEF IInv, TypeOK, Owner, Hands, Signal
<1>8. Integrity'
  <2>1. InHand' = InHand \cup {top}
    BY <1>2, <1>6 DEF IInv, TypeOK, InHand
  <2>2. \A i \in left : slot'[i] \in heap' \ InHand'
    BY <1>2, <1>3, <1>4, <1>5, <2>1 DEF IInv, Integrity, top
  <2>3. \A i, j \in left : slot'[i] = slot'[j] => i = j
    BY <1>3, <1>4 DEF IInv, Integrity
  <2>4. hand'["tx"] = top /\ hand'["rx"] # top
    BY <1>2, <1>6 DEF IInv, TypeOK, InHand
  <2> QED
    BY <1>2, <1>6, <2>1, <2>2, <2>3, <2>4 DEF IInv, Integrity, left
<1>9. NoLostWakeup' /\ Stopping'
  BY <1>1, <1>2 DEF IInv, TypeOK, NoLostWakeup, Blocked, Stopping, Signal
<1>10. OrphanedOnlyByStop'
  BY <1>2 DEF TypeOK, OrphanedOnlyByStop, Orphaned
<1> QED
  BY <1>7, <1>8, <1>9, <1>10 DEF IInv

LEMMA FreeStep == ASSUME IInv, TypeOK', Skip \/ SendDone PROVE IInv'
<1> USE DEF IInv, TypeOK
<1>1. /\ pc["tx"] \in {"handle", "send"}
      /\ heap' = heap \ {hand["tx"]}
      /\ hand' = [hand EXCEPT !["tx"] = NULL]
      /\ pc' = [pc EXCEPT !["tx"] = "lock"]
      /\ UNCHANGED <<slot, cnt, mutex, cancelled, main>>
  BY DEF Skip, SendDone, Free
<1>2. Owner' /\ Hands'
  BY <1>1 DEF Owner, Hands
<1>3. Integrity'
  <2>1. hand["tx"] \in InHand /\ InHand' = InHand \ {hand["tx"]}
    BY <1>1 DEF InHand, Integrity
  <2> QED
    BY <1>1, <2>1 DEF Integrity
<1>4. NoLostWakeup' /\ Stopping'
  BY <1>1 DEF NoLostWakeup, Blocked, Stopping
<1>5. OrphanedOnlyByStop'
  BY <1>1 DEF OrphanedOnlyByStop, Orphaned
<1> QED
  BY <1>2, <1>3, <1>4, <1>5

(* The inductive step: the remaining actions move no buffer.               *)
LEMMA InvStep == IInv /\ [Next]_vars => IInv'
<1> SUFFICES ASSUME IInv, [Next]_vars PROVE IInv'
  OBVIOUS
<1>0. TypeOK'
  BY TypeStep DEF IInv
<1>1. CASE Recv \/ Put \/ Pop
  BY <1>0, <1>1, RecvStep, PutStep, PopStep
<1>2. CASE Skip \/ SendDone
  BY <1>0, <1>2, FreeStep
<1>3. ASSUME NEW t \in Thread, Runs(t) \/ SpuriousWakeup(t) PROVE IInv'
  BY <1>0, <1>3, RunsStep
<1>4. CASE RecvEnds
  <2>1. UNCHANGED <<heap, slot, cnt, mutex, hand, cancelled, main>>
    BY <1>4 DEF RecvEnds
  <2>2. pc["rx"] = "recv" /\ pc' = [pc EXCEPT !["rx"] = "dead"]
    BY <1>4 DEF RecvEnds
  <2>3. Integrity'
    BY <2>1, <2>2, IntegrityFrame DEF IInv, TypeOK, Integrity
  <2>4. Owner' /\ Hands' /\ OrphanedOnlyByStop'
    BY <2>1, <2>2 DEF IInv, TypeOK, Owner, Hands, OrphanedOnlyByStop, Orphaned
  <2>5. NoLostWakeup' /\ Stopping'
    BY <2>1, <2>2 DEF IInv, TypeOK, NoLostWakeup, Blocked, Stopping
  <2> QED
    BY <1>0, <2>3, <2>4, <2>5 DEF IInv
<1>5. CASE Dispatch
  <2>1. UNCHANGED <<heap, slot, cnt, mutex, hand, cancelled, main>>
    BY <1>5 DEF Dispatch
  <2>2. pc["tx"] = "handle" /\ pc' = [pc EXCEPT !["tx"] = "send"]
    BY <1>5 DEF Dispatch, IInv, Integrity
  <2>3. Integrity'
    BY <2>1, <2>2, IntegrityFrame DEF IInv, TypeOK, Integrity
  <2>4. Owner' /\ Hands' /\ OrphanedOnlyByStop'
    BY <2>1, <2>2 DEF IInv, TypeOK, Owner, Hands, OrphanedOnlyByStop, Orphaned
  <2>5. NoLostWakeup' /\ Stopping'
    BY <2>1, <2>2 DEF IInv, TypeOK, NoLostWakeup, Blocked, Stopping
  <2> QED
    BY <1>0, <2>3, <2>4, <2>5 DEF IInv
<1>6. CASE RecvNoMemory \/ SendFails \/ PressEnter \/ MainRuns
  <2>1. UNCHANGED <<heap, slot, cnt, mutex, pc, hand>>
    BY <1>6 DEF RecvNoMemory, SendFails, PressEnter, MainRuns, JoinRx, JoinTx
  <2>2. cancelled \subseteq cancelled' /\ main' # "running"
    BY <1>6 DEF IInv, TypeOK, Stopping, RecvNoMemory, SendFails, PressEnter, MainRuns,
       JoinRx, JoinTx
  <2>3. Integrity'
    BY <2>1, IntegrityFrame DEF IInv, Integrity
  <2> QED
    BY <1>0, <2>1, <2>2, <2>3 DEF IInv, TypeOK, Owner, Hands, NoLostWakeup, Blocked,
       Stopping, OrphanedOnlyByStop
<1>7. CASE UNCHANGED vars
  <2> USE <1>7 DEF vars
  <2>1. Integrity'
    BY IntegrityFrame DEF IInv, Integrity
  <2> QED
    BY <1>0, <2>1 DEF IInv, Owner, Hands, NoLostWakeup, Blocked, Stopping,
       OrphanedOnlyByStop, Orphaned
<1> QED
  BY <1>1, <1>2, <1>3, <1>4, <1>5, <1>6, <1>7
     DEF Next, RxRuns, TxRuns, Outside, Ended

(* Every state the program reaches satisfies the invariant.                *)
THEOREM Invariant == Spec => []IInv
BY InitInv, InvStep, PTL DEF Spec

(* The program's objects keep their types; in particular the count never   *)
(* leaves the array (fwd.c:24-32, 150-154, 185).                           *)
THEOREM TypeCorrect == Spec => []TypeOK
<1>1. IInv => TypeOK
  BY DEF IInv
<1> QED
  BY Invariant, <1>1, PTL

(* No buffer is used after it was freed, freed twice or popped twice, and  *)
(* tx never pops a null pointer (fwd.c:146-157, 180-190, 259).             *)
THEOREM BuffersIntact == Spec => []Integrity
<1>1. IInv => Integrity
  BY DEF IInv
<1> QED
  BY Invariant, <1>1, PTL

(* Neither thread sleeps while it could go on (fwd.c:150-156, 182-187).    *)
THEOREM WakeupsArrive == Spec => []NoLostWakeup
<1>1. IInv => NoLostWakeup
  BY DEF IInv
<1> QED
  BY Invariant, <1>1, PTL

(* Only the cancellation of fwd_stop can leave the mutex locked by a       *)
(* thread that is gone (fwd.c:74-85).                                      *)
THEOREM OrphansOnlyByStop == Spec => []OrphanedOnlyByStop
<1>1. IInv => OrphanedOnlyByStop
  BY DEF IInv
<1> QED
  BY Invariant, <1>1, PTL

-----------------------------------------------------------------------------
(* The queue as a stack. *)

\* The stack the array stands for.
Entries == [i \in 1 .. cnt |-> slot[i - 1]]

LEMMA EntriesSeq ==
  ASSUME IInv
  PROVE  /\ Entries \in Seq(Buf)
         /\ Len(Entries) = cnt
         /\ cnt \in Nat
         /\ \A i \in 1 .. cnt : Entries[i] = slot[i - 1]
<1>1. cnt \in Nat /\ \A i \in 1 .. cnt : i - 1 \in 0 .. cnt - 1
  BY DEF IInv, TypeOK
<1>2. \A i \in 1 .. cnt : slot[i - 1] \in Buf
  BY <1>1 DEF IInv, TypeOK, Integrity
<1>3. Entries \in [1 .. cnt -> Buf]
  BY <1>2 DEF Entries
<1> QED
  BY <1>1, <1>3 DEF Entries

LEMMA PutPushes == ASSUME IInv, IInv', Put PROVE Stack!Push
<1>1. Len(Entries) < MaxQueue /\ cnt' = cnt + 1 /\ hand'["tx"] = hand["tx"]
  BY EntriesSeq DEF IInv, TypeOK, Put, Blocked
<1>2. hand["rx"] \in Buf
  BY DEF IInv, TypeOK, Hands, Put
<1>3. Entries' = Append(Entries, hand["rx"])
  <2>1. \A i \in 1 .. cnt + 1 : Entries'[i] = IF i = cnt + 1 THEN hand["rx"] ELSE Entries[i]
    <3> TAKE i \in 1 .. cnt + 1
    <3>1. Entries'[i] = slot'[i - 1]
      BY <1>1, EntriesSeq DEF Entries
    <3>2. i - 1 \in Slot /\ (i - 1 = cnt <=> i = cnt + 1)
      BY <1>1, EntriesSeq DEF IInv, TypeOK
    <3>3. slot'[i - 1] = IF i = cnt + 1 THEN hand["rx"] ELSE slot[i - 1]
      BY <3>2 DEF Put, IInv, TypeOK
    <3> QED
      BY <3>1, <3>3, EntriesSeq
  <2>2. Entries' \in Seq(Buf) /\ Len(Entries') = cnt + 1
    <3>1. \A i \in 1 .. cnt : Entries[i] \in Buf
      BY EntriesSeq
    <3>2. \A i \in 1 .. cnt + 1 : Entries'[i] \in Buf
      BY <1>2, <2>1, <3>1, EntriesSeq
    <3>3. Entries' \in [1 .. cnt' -> Buf]
      BY <1>1, <3>2 DEF Entries
    <3> QED
      BY <1>1, <3>3, EntriesSeq
  <2>3. /\ Append(Entries, hand["rx"]) \in Seq(Buf)
        /\ Len(Append(Entries, hand["rx"])) = cnt + 1
        /\ \A i \in 1 .. cnt + 1 : Append(Entries, hand["rx"])[i]
                                    = IF i = cnt + 1 THEN hand["rx"] ELSE Entries[i]
    BY <1>2, EntriesSeq, AppendProperties
  <2>4. \A t \in Seq(Buf) : Len(t) = cnt + 1 /\ (\A i \in 1 .. cnt + 1 : Entries'[i] = t[i])
                             => Entries' = t
    BY <2>2, SeqEqual
  <2> HIDE DEF Entries
  <2> QED
    BY <2>1, <2>3, <2>4
<1> QED
  BY <1>1, <1>2, <1>3 DEF Stack!Push, Entries

LEMMA PopTakes == ASSUME IInv, IInv', Pop PROVE Stack!Take
<1>1. /\ 1 <= cnt
      /\ cnt' = cnt - 1 \/ (cnt' = 0 /\ cnt = MaxQueue)
  BY DEF IInv, TypeOK, Pop, Blocked, CountAfterPop
<1>2. hand["tx"] = NULL /\ hand'["tx"] = slot[cnt - 1]
  BY DEF IInv, TypeOK, Hands, Pop
<1>3. Entries[Len(Entries)] = slot[cnt - 1] /\ Entries # <<>>
  BY <1>1, EntriesSeq
<1>4. \A i \in 1 .. cnt' : Entries'[i] = Entries[i]
  <2> TAKE i \in 1 .. cnt'
  <2>1. i - 1 \in Slot /\ i - 1 # cnt /\ i \in 1 .. cnt
    BY <1>1 DEF IInv, TypeOK
  <2>2. Entries'[i] = slot'[i - 1]
    BY EntriesSeq DEF Entries
  <2> QED
    BY <2>1, <2>2, EntriesSeq DEF Pop
<1>5. Entries' \in Seq(Buf) /\ Len(Entries') = cnt'
  <2>1. cnt' \in Nat /\ \A i \in 1 .. cnt' : Entries[i] \in Buf
    BY <1>1, EntriesSeq
  <2>2. Entries' \in [1 .. cnt' -> Buf]
    BY <1>4, <2>1 DEF Entries
  <2> QED
    BY <2>1, <2>2
<1> HIDE DEF Entries
<1>6. CASE cnt' = cnt - 1
  <2>1. /\ SubSeq(Entries, 1, cnt - 1) \in Seq(Buf)
        /\ Len(SubSeq(Entries, 1, cnt - 1)) = cnt - 1
        /\ \A i \in 1 .. cnt - 1 : SubSeq(Entries, 1, cnt - 1)[i] = Entries[i]
    BY <1>1, EntriesSeq, SubSeqProperties
  <2>2. \A t \in Seq(Buf) : Len(t) = cnt' /\ (\A i \in 1 .. cnt' : Entries'[i] = t[i])
                             => Entries' = t
    BY <1>5, SeqEqual
  <2>3. Entries' = SubSeq(Entries, 1, Len(Entries) - 1)
    BY <1>4, <1>6, <2>1, <2>2, EntriesSeq
  <2> QED
    BY <1>2, <1>3, <2>3 DEF Stack!Take, Entries
<1>7. CASE cnt' = 0 /\ cnt = MaxQueue
  <2>1. Entries' = <<>> /\ Len(Entries) = MaxQueue
    BY <1>5, <1>7, EmptySeq, EntriesSeq
  <2> QED
    BY <1>2, <1>3, <2>1 DEF Stack!Take, Entries
<1> QED
  BY <1>1, <1>6, <1>7

(* Every other step leaves the stack and tx's hand alone, or frees what tx *)
(* holds.                                                                  *)
LEMMA OtherSteps ==
  ASSUME IInv, [Next]_vars, ~Put, ~Pop
  PROVE  Stack!LetGo \/ UNCHANGED Stack!svars
<1>1. CASE Skip \/ SendDone
  <2>1. hand["tx"] # NULL /\ hand'["tx"] = NULL /\ UNCHANGED <<slot, cnt>>
    BY <1>1 DEF IInv, TypeOK, Integrity, Skip, SendDone, Free
  <2> QED
    BY <2>1 DEF Stack!LetGo
<1>2. CASE Recv
  BY <1>2 DEF IInv, TypeOK, Recv, Stack!svars
<1>3. ASSUME NEW t \in Thread, Runs(t) \/ SpuriousWakeup(t)
      PROVE  UNCHANGED <<slot, cnt, hand>>
  BY <1>3 DEF Runs, Lock, Wait, CancelBlocked, CancelWait, EndHoldingMutex, SpuriousWakeup
<1>4. CASE RecvNoMemory \/ RecvEnds \/ SendFails \/ PressEnter
  BY <1>4 DEF RecvNoMemory, RecvEnds, SendFails, PressEnter, Stack!svars
<1>5. CASE MainRuns \/ Dispatch \/ Ended \/ UNCHANGED vars
  BY <1>5 DEF MainRuns, JoinRx, JoinTx, Dispatch, Ended, vars, Stack!svars
<1> QED
  BY <1>1, <1>2, <1>3, <1>4, <1>5 DEF Next, RxRuns, TxRuns, Outside, Stack!svars

(* The monitor, the array and the two hands implement the atomic stack of  *)
(* BoundedStack (fwd.c:146-157, 180-188).                                  *)
THEOREM Refinement == Spec => ImplementsStack
<1>1. Init => Stack!Init
  BY DEF Init, Stack!Init
<1>2. IInv /\ IInv' /\ [Next]_vars => [Stack!Next]_(Stack!svars)
  BY PutPushes, PopTakes, OtherSteps DEF Stack!Next
<1> QED
  BY <1>1, <1>2, Invariant, PTL DEF Spec, ImplementsStack, Stack!Spec

(* A pointer that leaves the queue is in tx's hand, unless the queue was   *)
(* full (fwd.c:185-186).                                                   *)
THEOREM LossNeedsFullQueue == Spec => LossOnlyWhenFull
<1>1. IInv /\ [Next]_vars => [Kept]_vars
  <2> SUFFICES ASSUME IInv, [Next]_vars PROVE Kept
    OBVIOUS
  <2> USE DEF Kept
  <2>1. CASE Put
    <3>1. \A i \in 0 .. cnt - 1 : slot'[i] = slot[i] /\ i \in 0 .. cnt' - 1
      BY <2>1 DEF IInv, TypeOK, Put
    <3> QED
      BY <3>1 DEF Queued
  <2>2. CASE Pop
    <3> SUFFICES ASSUME NEW i \in 0 .. cnt - 1, cnt # MaxQueue, i # cnt - 1
                 PROVE  slot[i] \in Queued'
      BY ZenonT(60), <2>2 DEF Queued, Pop, IInv, TypeOK
    <3>1. cnt' = cnt - 1
      BY <2>2 DEF Pop, CountAfterPop
    <3>2. i \in Slot /\ i # cnt /\ i \in 0 .. cnt' - 1
      BY <3>1 DEF IInv, TypeOK
    <3>3. slot'[i] = slot[i]
      BY <2>2, <3>2 DEF Pop
    <3> QED
      BY <3>2, <3>3 DEF Queued
  <2>3. CASE ~Put /\ ~Pop
    <3>1. UNCHANGED <<slot, cnt>>
      BY <2>3 DEF Next, RxRuns, TxRuns, MainRuns, Outside, Runs, Lock, Wait, CancelBlocked,
         CancelWait, EndHoldingMutex, SpuriousWakeup, Recv, RecvNoMemory, RecvEnds, Skip,
         SendDone, SendFails, PressEnter, JoinRx, JoinTx, Dispatch, Ended, vars
    <3> QED
      BY <3>1 DEF Queued
  <2> QED
    BY <2>1, <2>2, <2>3
<1> QED
  BY <1>1, Invariant, PTL DEF Spec, LossOnlyWhenFull

=============================================================================
