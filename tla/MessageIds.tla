----------------------------- MODULE MessageIds -----------------------------
(***************************************************************************)
(* The ids, the statuses and the slot count of FileShare::MessageQueue,    *)
(* without the queue's state: modules MessageQueue and PeerSession share   *)
(* them.                                                                   *)
(*                                                                         *)
(* Ids are bytes that wrap, and so is the counter of send slots.  The      *)
(* width of both is MaxId + 1 values: MAX_ID is 0xFF in the code and any   *)
(* positive number here.                                                   *)
(***************************************************************************)
EXTENDS Integers, FiniteSets

CONSTANTS
  MaxId,      \* MAX_ID, the largest message id
  Final,      \* the status codes that end a request
  Requests    \* what a request may be, a payload the queue never looks into

ASSUME MaxIdAssumption == MaxId \in Nat \ {0}

ASSUME RequestsAssumption == Requests # {}

Pending == "APPROVAL_PENDING"
None    == "NO_STATUS"          \* a std::optional status without a value
Absent  == "ABSENT"             \* the map holds no message under this id

ASSUME FinalAssumption ==
  /\ Final # {}
  /\ {Pending, None, Absent} \cap Final = {}

Ids        == 0 .. MaxId
Statuses   == Final \cup {Pending}
Unanswered == {None, Pending}

\* Mutated Succ: the id does not wrap.
SuccUnwrapped(id) == id + 1

Succ(id) == IF id = MaxId THEN 0 ELSE id + 1

\* An id the map does not hold.
NoMessage == [req |-> CHOOSE r \in Requests : TRUE, status |-> Absent]
Message(r) == [req |-> r, status |-> None]
Messages == [req : Requests, status : Statuses \cup {None, Absent}]

\* The ids whose request still waits for a final status.
Open(msgs) == {id \in Ids : msgs[id].status \in Unanswered}

\* How many steps the search of send_request takes from id a to id b.
Distance(a, b) == IF b >= a THEN b - a ELSE b + (MaxId + 1) - a

\* Mutated Finds: a request that awaits approval counts as an old one.
FindsAwaiting(msgs, from, id) ==
  /\ msgs[id].status # None
  /\ \A other \in Ids : Distance(from, other) < Distance(from, id) => msgs[other].status = None

\* The search of send_request, going up from the counter and wrapping, ends at
\* an id that is absent or has a final status; it passes over open ids only.
Finds(msgs, from, id) ==
  /\ id \notin Open(msgs)
  /\ \A other \in Ids : Distance(from, other) < Distance(from, id) => other \in Open(msgs)

\* Mutated SlotsAfterReply: any final status is counted.
SlotsAfterAnyReply(n, old, new) == IF new # Pending THEN Succ(n) ELSE n

\* Mutated SlotsAfterReply: the first reply is counted, an APPROVAL_PENDING too.
SlotsAfterFirstReply(n, old, new) == IF old = None THEN Succ(n) ELSE n

\* Mutated SlotsAfterReply: the final status after an APPROVAL_PENDING is not counted.
SlotsAfterOnlyReply(n, old, new) == IF old = None /\ new # Pending THEN Succ(n) ELSE n

\* The slot counter, a byte, after a reply: it counts the end of an open
\* request.
SlotsAfterReply(n, old, new) ==
  IF old \in Unanswered /\ new # Pending THEN Succ(n) ELSE n
=============================================================================
