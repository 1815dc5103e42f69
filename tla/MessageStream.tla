---------------------------- MODULE MessageStream ----------------------------
(***************************************************************************)
(* What a connection promises of the messages of one peer to the other: a  *)
(* poll hands over some of them, in the order they were sent, from the     *)
(* first that is not done with; when it throws, those it handed over, or   *)
(* some of them, are handed over again by the next.  In the end every      *)
(* message is handed over, but those that wait for the next read, behind   *)
(* the version message or behind one whose handler threw.                  *)
(***************************************************************************)
EXTENDS Naturals, Sequences

CONSTANTS Messages, MaxSent

VARIABLES
  sent,   \* the messages, in order
  done,   \* how many the receiver is done with
  reached, \* how many it was handed at least once
  batch,  \* what the last poll handed over
  held    \* whole messages wait, and nothing was read since

vars == <<sent, done, reached, batch, held>>

Init == sent = <<>> /\ done = 0 /\ reached = 0 /\ batch = <<>> /\ held \in BOOLEAN

SendMessage ==
  /\ Len(sent) < MaxSent
  /\ \E message \in Messages : sent' = Append(sent, message)
  /\ UNCHANGED <<done, reached, batch, held>>

Poll ==
  /\ \E n \in 0 .. Len(sent) - done :
       /\ batch' = SubSeq(sent, done + 1, done + n)
       /\ \/ done' = done + n /\ held' = FALSE
          \/ UNCHANGED done /\ held' \in BOOLEAN   \* it threw
       /\ reached' = IF done + n > reached THEN done + n ELSE reached
  /\ UNCHANGED sent

Hold == held' \in BOOLEAN /\ batch' = <<>> /\ UNCHANGED <<sent, done, reached>>

Next == SendMessage \/ Poll \/ Hold

AllReached == \A n \in 1 .. MaxSent : Len(sent) >= n ~> (reached >= n \/ held)

Spec == Init /\ [][Next]_vars /\ AllReached
=============================================================================
