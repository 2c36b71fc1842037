---------------------------- MODULE ReturnChannel ----------------------------
(***************************************************************************)
(* All that a source sees of the radios, fwd, dst and the network: of each *)
(* request at most one reply for each radio comes back, late, in any order *)
(* or never.  It is what makes the two numbers src prints comparable.      *)
(*                                                                         *)
(* Module Relay is shown to implement this specification.                  *)
(***************************************************************************)
EXTENDS Naturals, FiniteSets

CONSTANTS Source,  \* those who send requests
          Fwd      \* the ways by which replies come

VARIABLES sent,  \* requests of each source
          got,   \* replies it has counted
          due    \* replies that may still come

cvars == <<sent, got, due>>

Init == /\ sent = [s \in Source |-> 0]
        /\ got = [s \in Source |-> 0]
        /\ due = {}

\* The replies to a request that the radios R have heard.
Replies(s, n, R) == {[from |-> s, n |-> n, by |-> f] : f \in R}

Send(s) == /\ sent' = [sent EXCEPT ![s] = @ + 1]
           /\ \E R \in SUBSET Fwd : due' = due \cup Replies(s, sent[s] + 1, R)
           /\ UNCHANGED got

Receive(r) == /\ due' = due \ {r}
              /\ got' = [got EXCEPT ![r.from] = @ + 1]
              /\ UNCHANGED sent

Lose(r) == due' = due \ {r} /\ UNCHANGED <<sent, got>>

Next == \/ \E s \in Source : Send(s)
        \/ \E r \in due : Receive(r) \/ Lose(r)

Spec == Init /\ [][Next]_cvars

-----------------------------------------------------------------------------
DueTo(s) == {r \in due : r.from = s}

(* What a source has counted and may still count is at most one for each   *)
(* request and radio.                                                      *)
Bounded == \A s \in Source :
              got[s] + Cardinality(DueTo(s)) <= Cardinality(Fwd) * sent[s]
=============================================================================
