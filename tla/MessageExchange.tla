--------------------------- MODULE MessageExchange ---------------------------
(***************************************************************************)
(* The requests of one peer, from its MessageQueue to the MessageQueue of  *)
(* the other peer and back: the requester's half is module MessageQueue,   *)
(* the responder's is the map of incoming requests and the requests it     *)
(* holds for manual approval.  The channels are the two directions of a    *)
(* TCP connection.  The exchange in the other direction is the same with   *)
(* the roles swapped and shares no state with this one.                    *)
(*                                                                         *)
(* A request is known by the number of requests sent before it, so that a  *)
(* request and a later one under the same message id can be told apart.    *)
(***************************************************************************)
EXTENDS MessageQueue, SequencesExt

CONSTANT Limit      \* the number of requests of a behaviour

ASSUME LimitAssumption == Limit \in Nat \ {0} /\ Requests = 1 .. Limit

VARIABLES
  incoming,   \* the responder's m_incomming_requests
  approvals,  \* requests waiting for the application: m_request_buffer, then
              \* the events the server made of them
  requests,   \* requests on the wire
  replies,    \* RESPONSE messages on the wire
  sent,       \* the number of requests sent
  decided,    \* history: the final answer the responder gave to each request
  learnt      \* history: the final answer the requester recorded for each

queue    == <<nextId, slots, outgoing, hung, reopened>>
history  == <<decided, learnt>>
exchange == <<queue, incoming, approvals, requests, replies, sent, history>>

ExchangeInit ==
  /\ Init
  /\ incoming = [id \in Ids |-> NoMessage]
  /\ approvals = {}
  /\ requests = <<>>
  /\ replies = <<>>
  /\ sent = 0
  /\ decided = [r \in Requests |-> None]
  /\ learnt = [r \in Requests |-> None]

\* Peer::send_request: the request is queued under an id and written.
IssueRequest ==
  /\ sent < Limit
  /\ sent' = sent + 1
  /\ \E id \in Ids :
       /\ SendRequest(id, sent')
       /\ requests' = Append(requests, [id |-> id, req |-> sent'])
  /\ UNCHANGED <<incoming, approvals, replies, history>>

\* MessageQueue::receive_request, which replaces whatever had the id, then
\* send_reply: the status is recorded and written.
Reply(id, r, status) ==
  /\ incoming' = [incoming EXCEPT ![id] = [req |-> r, status |-> status]]
  /\ replies' = Append(replies, [id |-> id, status |-> status, for |-> incoming'[id].req])

\* authorize_request settles the request at once.
AnswerRequest(status) ==
  /\ requests # <<>>
  /\ LET m == Head(requests)
     IN  /\ Reply(m.id, m.req, status)
         /\ decided' = [decided EXCEPT ![m.req] = status]
  /\ requests' = Tail(requests)
  /\ UNCHANGED <<queue, approvals, sent, learnt>>

\* authorize_request leaves the request to the application.
HoldRequest ==
  /\ requests # <<>>
  /\ LET m == Head(requests)
     IN  /\ Reply(m.id, m.req, Pending)
         /\ approvals' = approvals \cup {m}
  /\ requests' = Tail(requests)
  /\ UNCHANGED <<queue, sent, history>>

\* Mutated Approve: the decision is recorded and not written.
ApproveUnsent(m, status) ==
  /\ m \in approvals
  /\ incoming' = [incoming EXCEPT ![m.id].status = status]
  /\ approvals' = approvals \ {m}
  /\ decided' = [decided EXCEPT ![m.req] = status]
  /\ UNCHANGED <<queue, requests, replies, sent, learnt>>

\* respond_to_request for a request the application was asked about.  The
\* application answers each once, in any order.
Approve(m, status) ==
  /\ m \in approvals
  /\ Reply(m.id, m.req, status)
  /\ approvals' = approvals \ {m}
  /\ decided' = [decided EXCEPT ![m.req] = status]
  /\ UNCHANGED <<queue, requests, sent, learnt>>

\* authorize_request on a RESPONSE whose id the requester knows.
HandleReply ==
  /\ replies # <<>>
  /\ LET m == Head(replies)
     IN  /\ ReceiveReply(m.id, m.status)
         /\ learnt' = IF m.status = Pending THEN learnt
                      ELSE [learnt EXCEPT ![outgoing[m.id].req] = m.status]
  /\ replies' = Tail(replies)
  /\ UNCHANGED <<incoming, approvals, requests, sent, decided>>

Respond == HoldRequest \/ \E status \in Final : AnswerRequest(status)

ApproveRequest(r) == \E m \in approvals, status \in Final : m.req = r /\ Approve(m, status)

ExchangeNext ==
  \/ IssueRequest
  \/ Respond
  \/ \E r \in Requests : ApproveRequest(r)
  \/ HandleReply

\* Both peers keep polling their socket, and the application answers in the
\* end every request it is asked about.
ExchangeFairness ==
  /\ WF_exchange(Respond)
  /\ WF_exchange(HandleReply)
  /\ \A r \in Requests : WF_exchange(ApproveRequest(r))

ExchangeSpec == ExchangeInit /\ [][ExchangeNext]_exchange /\ ExchangeFairness

-----------------------------------------------------------------------------

Held == [id : Ids, req : Requests]

\* Every variable has its type.
ExchangeTypeOK ==
  /\ TypeOK
  /\ incoming \in [Ids -> Messages]
  /\ approvals \subseteq Held
  /\ requests \in Seq(Held)
  /\ replies \in Seq([id : Ids, status : Statuses, for : Requests])
  /\ sent \in 0 .. Limit
  /\ decided \in [Requests -> Final \cup {None}]
  /\ learnt \in [Requests -> Final \cup {None}]

\* A RESPONSE names its request by an id that is used over and over: while it
\* is on the wire, the requester's entry under the id is still the request
\* it answers, and still waits (Peer_private.cpp:48-56, MessageQueue.cpp:56-77).
ReplyMeetsItsRequest ==
  \A m \in Range(replies) :
    /\ outgoing[m.id].req = m.for
    /\ outgoing[m.id].status \in Unanswered

\* No request takes the place of one that waits for manual approval, so that
\* the reply the application gives later is recorded for that request
\* (MessageQueue.cpp:47-48, Peer_private.cpp:124-125).
HeldRequestKept ==
  \A m \in approvals : incoming[m.id] = [req |-> m.req, status |-> Pending]

Promise == INSTANCE RequestWindow WITH
  Window <- MaxId, Decisions <- Final, Undecided <- None

\* The two queues and the wire implement the request window: at most MAX_ID requests
\* are unsettled, each is decided once, and the requester learns that decision, of
\* every request it sent (MessageQueue.cpp:17-78, Peer_private.cpp:276-285).
KeepsPromise == Promise!Spec
=============================================================================
