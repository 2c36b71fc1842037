---------------------------- MODULE BoundedStack ----------------------------
(***************************************************************************)
(* What the message queue between the two threads of a sernet process      *)
(* really promises.  The C type is called a queue, but it hands out the    *)
(* newest entry first, and taking the newest entry of a full queue may     *)
(* discard all the others.                                                 *)
(*                                                                         *)
(* Module WorkQueue is shown to implement this specification.              *)
(***************************************************************************)
EXTENDS Naturals, Sequences

CONSTANTS Limit,   \* the capacity
          Elem,    \* what can be stored
          Nothing  \* the consumer holds no element: not an Elem

VARIABLES stack,   \* the stored elements, oldest first
          held     \* the element the consumer has taken and not yet let go

svars == <<stack, held>>

Init == stack = <<>> /\ held = Nothing

\* The producer stores an element on top, if there is room.
Push == /\ Len(stack) < Limit
        /\ \E e \in Elem : stack' = Append(stack, e)
        /\ UNCHANGED held

\* The consumer takes the newest element and nothing below it moves; from a
\* full stack, all the others may vanish.
Take == /\ stack # <<>>
        /\ held = Nothing
        /\ held' = stack[Len(stack)]
        /\ \/ stack' = SubSeq(stack, 1, Len(stack) - 1)
           \/ Len(stack) = Limit /\ stack' = <<>>

\* The consumer is done with its element.
LetGo == /\ held # Nothing
         /\ held' = Nothing
         /\ UNCHANGED stack

Next == Push \/ Take \/ LetGo

Spec == Init /\ [][Next]_svars
=============================================================================
