-------------------------- MODULE UnixSocketProofs --------------------------
(***************************************************************************)
(* Who has the name of dst's socket and what a reader that lost it still   *)
(* gets, for any number of readers and any size of the queue and of the    *)
(* sockets.                                                                *)
(***************************************************************************)
EXTENDS UnixSocket, SequenceTheorems, TLAPS

\* Only a socket that is there has the name or makes dst wait.
Present == \A r \in Reader : /\ name = r => life[r] = "bound"
                             /\ blocked = r => life[r] = "bound"
                             /\ life[r] # "bound" => late[r] = 0

(* A reader that got a packet after it had lost the name got the one dst   *)
(* was waiting with; dst does not come back to it.                         *)
CutOff == \A r \in Reader : /\ late[r] <= 1
                            /\ late[r] # 0 => name # r /\ blocked # r

IInv == TypeOK /\ Present /\ CutOff

USE SocketAssumption DEF Kind

LEMMA InitInv == Init => IInv
BY DEF Init, Queue!Init, IInv, TypeOK, Present, CutOff

(* The queue's moves keep it a queue of at most MaxQueue messages. *)
LEMMA QueueStep ==
  ASSUME TypeOK, Queue!Push \/ Queue!Take \/ Queue!LetGo
  PROVE  /\ stack' \in Seq(Kind) /\ Len(stack') <= MaxQueue
         /\ held' \in Kind \cup {NoOne}
<1> USE DEF TypeOK
<1>1. CASE Queue!Push
  BY <1>1, AppendProperties DEF Queue!Push
<1>2. CASE Queue!Take
  <2>1. stack # <<>> /\ held' = stack[Len(stack)] /\ Len(stack) \in 1 .. Len(stack)
    BY <1>2, EmptySeq DEF Queue!Take
  <2>2. stack[Len(stack)] \in Kind
    BY <2>1, ElementOfSeq
  <2>3. /\ SubSeq(stack, 1, Len(stack) - 1) \in Seq(Kind)
        /\ Len(SubSeq(stack, 1, Len(stack) - 1)) <= MaxQueue
    <3> DEFINE n == Len(stack) - 1
    <3>1. n \in Nat /\ n <= MaxQueue
      BY <2>1, LenProperties
    <3>2. \A i \in 1 .. n : stack[i] \in Kind
      BY <3>1, ElementOfSeq, LenProperties
    <3> HIDE DEF n
    <3>3. SubSeq(stack, 1, n) \in Seq(Kind) /\ Len(SubSeq(stack, 1, n)) = n
      BY <3>1, <3>2, SubSeqProperties
    <3> QED
      BY <3>1, <3>3 DEF n
  <2>4. <<>> \in Seq(Kind) /\ Len(<<>>) = 0
    BY EmptySeq
  <2> QED
    <3>1. stack' \in {<<>>, SubSeq(stack, 1, Len(stack) - 1)} /\ held' \in Kind
      BY <1>2, <2>1, <2>2 DEF Queue!Take
    <3>2. CASE stack' = <<>>
      BY <2>4, <3>1, <3>2
    <3>3. CASE stack' = SubSeq(stack, 1, Len(stack) - 1)
      BY <2>3, <3>1, <3>3
    <3> QED
      BY <3>1, <3>2, <3>3
<1>3. CASE Queue!LetGo
  BY <1>3 DEF Queue!LetGo
<1> QED
  BY <1>1, <1>2, <1>3

LEMMA TypeStep == TypeOK /\ [Next]_vars => TypeOK'
<1> SUFFICES ASSUME TypeOK, [Next]_vars PROVE TypeOK'
  OBVIOUS
<1>1. CASE DstReceives \/ DstPops \/ Return \/ SendNowhere
  BY <1>1, QueueStep DEF DstReceives, DstPops, Return, SendNowhere, readerVars, TypeOK
<1>2. CASE DstRestarts
  BY <1>2, EmptySeq DEF DstRestarts, readerVars, TypeOK
<1>3. ASSUME NEW r \in Reader, SendTo(r) \/ SendGoesOn(r) PROVE TypeOK'
  <2>1. Arrives(r) /\ blocked' \in {blocked, NoOne}
    BY <1>3 DEF SendTo, SendGoesOn
  <2>2. Queue!LetGo /\ UNCHANGED <<readerVars, name>>
    BY <2>1 DEF Arrives
  <2>3. box' \in [Reader -> 0 .. MaxBacklog] /\ late' \in [Reader -> Nat]
    BY <2>1 DEF Arrives, Room, TypeOK
  <2> QED
    BY <2>1, <2>2, <2>3, QueueStep DEF readerVars, TypeOK
<1>4. ASSUME NEW r \in Reader, SendBlocks(r) PROVE TypeOK'
  BY <1>4 DEF SendBlocks, readerVars, TypeOK
<1>5. ASSUME NEW r \in Reader, Start(r) \/ Bind(r) \/ StartFails(r) PROVE TypeOK'
  BY <1>5 DEF Start, Bind, StartFails, dstVars, TypeOK
<1>7. ASSUME NEW r \in Reader, Take(r) PROVE TypeOK'
  BY <1>7 DEF Take, dstVars, readerVars, TypeOK
<1>8. ASSUME NEW r \in Reader, ReadingEnds(r) PROVE TypeOK'
  BY <1>8 DEF ReadingEnds, dstVars, TypeOK
<1>9. ASSUME NEW r \in Reader, End(r) PROVE TypeOK'
  <2>1. name' \in Reader \cup {NoFile, Stale} /\ blocked' \in Reader \cup {NoOne}
    BY <1>9 DEF End, NameAfterEnd, TypeOK
  <2> QED
    BY <1>9, <2>1 DEF End, TypeOK
<1>6. CASE UNCHANGED vars
  BY <1>6 DEF vars, dstVars, readerVars, TypeOK
<1> QED
  BY <1>1, <1>2, <1>3, <1>4, <1>5, <1>6, <1>7, <1>8, <1>9 DEF Next, Sends

LEMMA InvStep == IInv /\ [Next]_vars => IInv'
<1> SUFFICES ASSUME IInv, [Next]_vars PROVE Present' /\ CutOff'
  BY TypeStep DEF IInv
<1> USE DEF IInv, TypeOK, Present, CutOff
<1>1. CASE DstReceives \/ DstPops \/ Return \/ SendNowhere \/ DstRestarts
  BY <1>1 DEF DstReceives, DstPops, Return, SendNowhere, DstRestarts, readerVars
<1>2. ASSUME NEW r \in Reader, SendTo(r) PROVE Present' /\ CutOff'
  <2>1. UNCHANGED <<life, name, blocked, late>>
    BY <1>2 DEF SendTo, Arrives, readerVars
  <2> QED
    BY <2>1
<1>3. ASSUME NEW r \in Reader, SendGoesOn(r) PROVE Present' /\ CutOff'
  <2>1. /\ UNCHANGED <<life, name>> /\ blocked = r /\ blocked' = NoOne
        /\ late' = [late EXCEPT ![r] = IF name = r THEN @ ELSE @ + 1]
    BY <1>3 DEF SendGoesOn, Arrives, readerVars
  <2>2. late[r] = 0 /\ life[r] = "bound"
    BY <2>1
  <2> QED
    BY <2>1, <2>2
<1>4. ASSUME NEW r \in Reader, SendBlocks(r) PROVE Present' /\ CutOff'
  BY <1>4 DEF SendBlocks, Sending, readerVars
<1>5. ASSUME NEW r \in Reader, Start(r) \/ Bind(r) \/ StartFails(r) PROVE Present' /\ CutOff'
  BY <1>5 DEF Start, Bind, StartFails, dstVars
<1>6. ASSUME NEW r \in Reader, Take(r) \/ ReadingEnds(r) PROVE Present' /\ CutOff'
  BY <1>6 DEF Take, ReadingEnds, dstVars, readerVars
<1>7. ASSUME NEW r \in Reader, End(r) PROVE Present' /\ CutOff'
  BY <1>7 DEF End, NameAfterEnd
<1>8. CASE UNCHANGED vars
  BY <1>8 DEF vars, dstVars, readerVars
<1> QED
  BY <1>1, <1>2, <1>3, <1>4, <1>5, <1>6, <1>7, <1>8 DEF Next, Sends

LEMMA Invariant == Spec => []IInv
BY InitInv, InvStep, PTL DEF Spec

-----------------------------------------------------------------------------
(* A reader cut off from the name gets at most one more packet, with       *)
(* however many readers and whatever backlog (main.c:368, 451; dst.c:296). *)
THEOREM AtMostOneLate == Spec => []OneLate
<1>1. IInv => OneLate
  BY DEF IInv, CutOff, OneLate
<1> QED
  BY <1>1, Invariant, PTL

(* Only another reader's start takes the name from one that is up          *)
(* (main.c:368-376, 451-472).                                              *)
THEOREM NameKept == Spec => LostToAStart
<1> DEFINE Kept == \A r \in Reader :
                      (name = r /\ name' # r /\ life'[r] = "bound") =>
                         \E s \in Reader \ {r} : life[s] = "off" /\ life'[s] = "starting"
<1>1. IInv /\ [Next]_vars => [Kept]_vars
  <2> SUFFICES ASSUME IInv, Next, NEW r \in Reader, name = r, name' # r, life'[r] = "bound"
               PROVE  \E s \in Reader \ {r} : life[s] = "off" /\ life'[s] = "starting"
    OBVIOUS
  <2>1. life[r] = "bound" /\ name # NoFile
    BY DEF IInv, Present
  <2>2. CASE DstReceives \/ DstPops \/ Sends \/ DstRestarts
    BY <2>2 DEF DstReceives, DstPops, Sends, Return, SendNowhere, SendTo, SendBlocks,
                SendGoesOn, Arrives, DstRestarts
  <2>3. ASSUME NEW s \in Reader, Start(s)
        PROVE  s # r /\ life[s] = "off" /\ life'[s] = "starting"
    BY <2>1, <2>3 DEF Start, IInv, TypeOK
  <2>4. ASSUME NEW s \in Reader, Bind(s) \/ StartFails(s) \/ Take(s) \/ ReadingEnds(s) PROVE FALSE
    BY <2>1, <2>4 DEF Bind, StartFails, Take, ReadingEnds
  <2>5. ASSUME NEW s \in Reader, End(s) PROVE FALSE
    BY <2>5 DEF End, NameAfterEnd, IInv, TypeOK
  <2> QED
    BY <2>2, <2>3, <2>4, <2>5 DEF Next
<1> QED
  BY <1>1, Invariant, PTL DEF Spec, LostToAStart
=============================================================================
