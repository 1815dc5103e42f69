---------------------------- MODULE MessageQueue ----------------------------
(***************************************************************************)
(* The sending half of FileShare::MessageQueue: the requests a peer has    *)
(* sent, one per message id, with the status of each, and the count of     *)
(* the requests it may still send.  The receiving half shares no state     *)
(* with it; module MessageExchange models it.                              *)
(***************************************************************************)
EXTENDS MessageIds

VARIABLES
  nextId,     \* m_message_id
  slots,      \* m_available_send_slots
  outgoing,   \* m_outgoing_requests: id -> message
  hung,       \* send_request is looking for an id and will never find one
  reopened    \* history: an APPROVAL_PENDING came for a request that was settled

vars == <<nextId, slots, outgoing, hung, reopened>>

-----------------------------------------------------------------------------

Init ==
  /\ nextId = 0
  /\ slots = MaxId
  /\ outgoing = [id \in Ids |-> NoMessage]
  /\ hung = FALSE
  /\ reopened = FALSE

\* send_request; it throws, and changes nothing, when no slot is left.
SendRequest(id, r) ==
  /\ ~hung
  /\ slots > 0
  /\ Finds(outgoing, nextId, id)
  /\ outgoing' = [outgoing EXCEPT ![id] = Message(r)]
  /\ nextId' = Succ(id)
  /\ slots' = slots - 1
  /\ UNCHANGED <<hung, reopened>>

\* send_request when every id waits for its answer: the slot is taken and the
\* loop over the ids never ends.
SendRequestHangs ==
  /\ ~hung
  /\ slots > 0
  /\ Open(outgoing) = Ids
  /\ slots' = slots - 1
  /\ hung' = TRUE
  /\ UNCHANGED <<nextId, outgoing, reopened>>

\* receive_reply for an id the map holds (the caller checks that it does).  A
\* peer that answers a request once, or once after an APPROVAL_PENDING, reopens
\* none; the replies of a batch that is handled again may.
ReceiveReply(id, status) ==
  /\ ~hung
  /\ outgoing[id].status # Absent
  /\ slots' = SlotsAfterReply(slots, outgoing[id].status, status)
  /\ outgoing' = [outgoing EXCEPT ![id].status = status]
  /\ reopened' = (reopened \/ (status = Pending /\ outgoing[id].status \in Final))
  /\ UNCHANGED <<nextId, hung>>

Next ==
  \/ \E id \in Ids, r \in Requests : SendRequest(id, r)
  \/ SendRequestHangs
  \/ \E id \in Ids, status \in Statuses : ReceiveReply(id, status)

Spec == Init /\ [][Next]_vars

-----------------------------------------------------------------------------

\* Every variable has its type; the counters stay in a byte.
TypeOK ==
  /\ nextId \in Ids
  /\ slots \in Ids
  /\ outgoing \in [Ids -> Messages]
  /\ hung \in BOOLEAN /\ reopened \in BOOLEAN

\* As long as no reply reopens a request, m_available_send_slots is exactly MAX_ID
\* less the requests that wait for their final status: a reply is counted once,
\* however often it comes, and no slot is lost (MessageQueue.cpp:70-76).
SlotAccounting == ~reopened => slots + Cardinality(Open(outgoing)) = MaxId

\* As long as no reply reopens a request, the loop of send_request that looks for
\* an id (MessageQueue.cpp:23-38) ends: there is one id more than there are slots.
SearchEnds == hung => reopened

\* A request leaves the map of outgoing requests only after its final status:
\* no step puts another one under the id of a request that still waits
\* (MessageQueue.cpp:26-32).
OpenKeptStep ==
  \A id \in Open(outgoing) :
    \/ outgoing'[id].req = outgoing[id].req /\ outgoing'[id].status # None
    \/ outgoing'[id] = outgoing[id]
OpenKept == [][OpenKeptStep]_vars
=============================================================================
