---------------------------- MODULE RequestWindow ----------------------------
(***************************************************************************)
(* What a pair of message queues promises to the code above them: requests *)
(* are sent one after the other, at most Window of them are unsettled at   *)
(* any time, the other peer decides each of them once, and its decision,   *)
(* not that on another request, is what the sender learns.                 *)
(***************************************************************************)
EXTENDS Integers, FiniteSets

CONSTANTS
  Window,     \* the largest number of unsettled requests
  Limit,      \* the number of requests of a behaviour
  Decisions,  \* what a request may be answered
  Undecided   \* not an answer

VARIABLES
  sent,       \* the number of requests sent
  decided,    \* the answer the other peer gave to each
  learnt      \* the answer the sender knows of

vars == <<sent, decided, learnt>>

Numbers   == 1 .. Limit
Unsettled == {r \in 1 .. sent : learnt[r] = Undecided}

Init ==
  /\ sent = 0
  /\ decided = [r \in Numbers |-> Undecided]
  /\ learnt = [r \in Numbers |-> Undecided]

Send ==
  /\ sent < Limit
  /\ Cardinality(Unsettled) < Window
  /\ sent' = sent + 1
  /\ UNCHANGED <<decided, learnt>>

Decide(r) ==
  /\ r <= sent
  /\ decided[r] = Undecided
  /\ \E d \in Decisions : decided' = [decided EXCEPT ![r] = d]
  /\ UNCHANGED <<sent, learnt>>

Learn(r) ==
  /\ decided[r] # Undecided
  /\ learnt[r] = Undecided
  /\ learnt' = [learnt EXCEPT ![r] = decided[r]]
  /\ UNCHANGED <<sent, decided>>

Next == Send \/ \E r \in Numbers : Decide(r) \/ Learn(r)

Fairness == \A r \in Numbers : WF_vars(Decide(r)) /\ WF_vars(Learn(r))

Spec == Init /\ [][Next]_vars /\ Fairness
=============================================================================
