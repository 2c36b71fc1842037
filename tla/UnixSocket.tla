----------------------------- MODULE UnixSocket -----------------------------
(***************************************************************************)
(* dst's sending thread and the programs at the other end of its UNIX      *)
(* datagram socket.  osc and dmp are started and stopped by hand, in any   *)
(* order and several at a time; each removes the socket's name and binds   *)
(* it anew (main.c:368-376, 451-458), none removes it when it ends.  dst   *)
(* looks the name up for each packet (dst.c:296), and while the socket it  *)
(* finds is full, sendto blocks, with every other message behind it.       *)
(*                                                                         *)
(* dst's queue is the abstract one, which module WorkQueue implements.     *)
(*                                                                         *)
(* The kernel's part, as Linux does it: a full socket makes the sender     *)
(* wait for that socket, whatever becomes of its name; if the socket is    *)
(* closed meanwhile, the name is looked up again.                          *)
(***************************************************************************)
EXTENDS Naturals, Sequences

CONSTANTS Reader,      \* instances of osc and dmp
          NoFile,      \* there is no file of the socket's name
          Stale,       \* there is one, and its socket has been closed
          NoOne,       \* no reader, and no message
          MaxQueue,    \* MAX_QUEUE of dst.c
          MaxBacklog   \* datagrams the kernel keeps for a socket

ASSUME SocketAssumption == /\ MaxQueue \in Nat \ {0}
                           /\ MaxBacklog \in Nat \ {0}
                           /\ {NoFile, Stale, NoOne} \cap Reader = {}
                           /\ NoFile # Stale
                           /\ NoOne \notin {"relay", "pkt"}

VARIABLES stack,   \* dst's queue
          held,    \* the message its tx thread works on
          blocked, \* the reader whose full socket sendto waits for
          name,    \* where the name leads
          life,    \* of each reader: off, starting (name removed) or bound
          reading, \* its receiving thread is still there
          box,     \* datagrams waiting in its socket
          late     \* those of them, and of the ones it took, that came after
                   \* it had lost the name

dstVars    == <<stack, held, blocked>>
readerVars == <<life, reading>>
vars == <<dstVars, readerVars, name, box, late>>

Kind == {"relay", "pkt"}

Queue == INSTANCE BoundedStack WITH Limit <- MaxQueue, Elem <- Kind, Nothing <- NoOne

TypeOK == /\ stack \in Seq(Kind) /\ Len(stack) <= MaxQueue
          /\ held \in Kind \cup {NoOne}
          /\ blocked \in Reader \cup {NoOne}
          /\ name \in Reader \cup {NoFile, Stale}
          /\ life \in [Reader -> {"off", "starting", "bound"}]
          /\ reading \in [Reader -> BOOLEAN]
          /\ box \in [Reader -> 0 .. MaxBacklog]
          /\ late \in [Reader -> Nat]

Init == /\ Queue!Init
        /\ blocked = NoOne
        /\ name = NoFile
        /\ life = [r \in Reader |-> "off"]
        /\ reading = [r \in Reader |-> FALSE]
        /\ box = [r \in Reader |-> 0]
        /\ late = [r \in Reader |-> 0]

-----------------------------------------------------------------------------
(* dst. *)

DstReceives == Queue!Push /\ UNCHANGED <<blocked, readerVars, name, box, late>>

DstPops == Queue!Take /\ UNCHANGED <<blocked, readerVars, name, box, late>>

\* A request goes back over UDP, which does not wait.
Return == /\ held = "relay"
          /\ Queue!LetGo
          /\ UNCHANGED <<blocked, readerVars, name, box, late>>

Sending == held = "pkt" /\ blocked = NoOne

\* Faulty variant: any error leads to another try, not EINTR alone.
SendNowhere_Retry == Sending /\ name \in {NoFile, Stale} /\ UNCHANGED vars

\* No file of that name, or no socket behind it: the packet is given up.
SendNowhere == /\ Sending
               /\ name \in {NoFile, Stale}
               /\ Queue!LetGo
               /\ UNCHANGED <<blocked, readerVars, name, box, late>>

Room(r) == box[r] < MaxBacklog

\* The packet arrives at r's socket.
Arrives(r) == /\ Room(r)
              /\ box' = [box EXCEPT ![r] = @ + 1]
              /\ late' = [late EXCEPT ![r] = IF name = r THEN @ ELSE @ + 1]
              /\ Queue!LetGo
              /\ UNCHANGED <<readerVars, name>>

SendTo(r) == Sending /\ name = r /\ Arrives(r) /\ UNCHANGED blocked

SendBlocks(r) == /\ Sending
                 /\ name = r
                 /\ ~Room(r)
                 /\ blocked' = r
                 /\ UNCHANGED <<stack, held, readerVars, name, box, late>>

\* Faulty variant: the socket stays connected to r, as main.c:151 once did it.
SendGoesOn_Connected(r) == /\ blocked = r
                           /\ held = "pkt"
                           /\ Arrives(r)
                           /\ UNCHANGED blocked

\* r has made room.
SendGoesOn(r) == /\ blocked = r
                 /\ Arrives(r)
                 /\ blocked' = NoOne

\* dst is stopped and started again; its port and its own socket's name admit
\* only one instance at a time.
DstRestarts == /\ stack' = <<>>
               /\ held' = NoOne
               /\ blocked' = NoOne
               /\ UNCHANGED <<readerVars, name, box, late>>

-----------------------------------------------------------------------------
(* osc and dmp. *)

\* The name is removed, whoever has it.
Start(r) == /\ life[r] = "off"
            /\ life' = [life EXCEPT ![r] = "starting"]
            /\ name' = NoFile
            /\ UNCHANGED <<dstVars, reading, box, late>>

Bind(r) == /\ life[r] = "starting"
           /\ name = NoFile
           /\ name' = r
           /\ life' = [life EXCEPT ![r] = "bound"]
           /\ reading' = [reading EXCEPT ![r] = TRUE]
           /\ UNCHANGED <<dstVars, box, late>>

\* No socket, another one has bound the name in between, or it is killed.
StartFails(r) == /\ life[r] = "starting"
                 /\ life' = [life EXCEPT ![r] = "off"]
                 /\ UNCHANGED <<dstVars, reading, name, box, late>>

Take(r) == /\ reading[r]
           /\ box[r] > 0
           /\ box' = [box EXCEPT ![r] = @ - 1]
           /\ UNCHANGED <<dstVars, readerVars, name, late>>

\* The receiving thread returns, or waits for a queue nobody empties.
ReadingEnds(r) == /\ reading[r]
                  /\ reading' = [reading EXCEPT ![r] = FALSE]
                  /\ UNCHANGED <<dstVars, life, name, box, late>>

\* Faulty variant: the name is removed at the end as well.
NameAfterEnd_Removed(r) == NoFile

\* The socket is closed and the name stays.
NameAfterEnd(r) == IF name = r THEN Stale ELSE name

\* A sender waiting for the socket is woken and looks the name up again.
End(r) == /\ life[r] = "bound"
          /\ life' = [life EXCEPT ![r] = "off"]
          /\ reading' = [reading EXCEPT ![r] = FALSE]
          /\ name' = NameAfterEnd(r)
          /\ box' = [box EXCEPT ![r] = 0]
          /\ late' = [late EXCEPT ![r] = 0]
          /\ blocked' = IF blocked = r THEN NoOne ELSE blocked
          /\ UNCHANGED <<stack, held>>

-----------------------------------------------------------------------------
Sends == \/ Return
         \/ SendNowhere
         \/ \E r \in Reader : SendTo(r) \/ SendBlocks(r) \/ SendGoesOn(r)

Next == \/ DstReceives \/ DstPops \/ Sends \/ DstRestarts
        \/ \E r \in Reader : \/ Start(r) \/ Bind(r) \/ StartFails(r)
                             \/ Take(r) \/ ReadingEnds(r) \/ End(r)

Spec == Init /\ [][Next]_vars

(* dst's sending thread keeps being scheduled, and a reader takes what is  *)
(* in its socket for as long as its receiving thread is there.             *)
Fairness == WF_vars(Sends) /\ \A r \in Reader : WF_vars(Take(r))

FairSpec == Spec /\ Fairness

-----------------------------------------------------------------------------
(* A reader that has lost the name to one started later gets at most one   *)
(* more packet, the one dst was already waiting with; its end of the       *)
(* socket does not show that it has been cut off (main.c:368, 451;         *)
(* dst.c:296).                                                             *)
OneLate == \A r \in Reader : late[r] <= 1

(* A reader that is up keeps the name until another one is started: no     *)
(* end and no failed start of another takes it away, in whatever order     *)
(* they are started and stopped (main.c:368-376, 451-472).                 *)
LostToAStart == [][\A r \in Reader :
                      (name = r /\ name' # r /\ life'[r] = "bound") =>
                         \E s \in Reader \ {r} : life[s] = "off" /\ life'[s] = "starting"]_vars

(* dst gets rid of each packet, so that requests behind it are returned:   *)
(* it waits for a reader only while that one has a full socket and has     *)
(* stopped reading it, and even that does not outlast the reader           *)
(* (dst.c:292-305).                                                        *)
PacketsLeave == (held = "pkt") ~>
                   (held # "pkt" \/ (blocked # NoOne /\ ~reading[blocked]))
=============================================================================
