------------------------ MODULE MessageExchangeProofs ------------------------
(***************************************************************************)
(* Theorems about MessageQueue, then about the exchange of two of them.    *)
(* Of the queue: slots and requests add up, for every MAX_ID, every set of *)
(* final status codes and every payload.  Of the exchange: requests,       *)
(* replies and approvals never miss each other, for every MAX_ID and every *)
(* number of requests, and the pair takes only steps RequestWindow allows. *)
(*                                                                         *)
(* Of the exchange, all follows from where an id may be: an open id is in  *)
(* one place, on the wire as a request, held for approval, or on the wire  *)
(* as a reply, except that the APPROVAL_PENDING of a held request is under *)
(* way too, and an id that is not open is nowhere.                         *)
(***************************************************************************)
EXTENDS MessageExchange, FiniteSetTheorems, SequenceTheorems, TLAPS

USE MaxIdAssumption, FinalAssumption, RequestsAssumption
DEF MaxIdAssumption, FinalAssumption, RequestsAssumption

\* The successor of a byte is a byte.
LEMMA SuccType == \A id \in Ids : Succ(id) \in Ids
BY DEF Ids, Succ

\* A message under no id and a message just sent are messages.
LEMMA MessageType ==
  /\ NoMessage \in Messages
  /\ \A r \in Requests : Message(r) \in Messages
BY DEF NoMessage, Message, Messages, Statuses

\* There is one id more than there are slots, and the open ids are finitely many.
LEMMA IdsFinite ==
  /\ IsFiniteSet(Ids)
  /\ Cardinality(Ids) = MaxId + 1
  /\ \A msgs : IsFiniteSet(Open(msgs)) /\ Cardinality(Open(msgs)) \in Nat
<1>1. IsFiniteSet(Ids) /\ Cardinality(Ids) = MaxId + 1
  BY FS_Interval DEF Ids
<1>2. \A msgs : Open(msgs) \in SUBSET Ids
  BY DEF Open
<1>3. QED
  BY <1>1, <1>2, FS_Subset, FS_CardinalityType

\* The first state has its types.
LEMMA InitTypeOK == Init => TypeOK
<1> SUFFICES ASSUME Init PROVE TypeOK
  OBVIOUS
<1>1. nextId \in Ids /\ slots \in Ids
  BY DEF Init, Ids
<1>2. outgoing \in [Ids -> Messages]
  BY MessageType DEF Init
<1>3. hung \in BOOLEAN /\ reopened \in BOOLEAN
  BY DEF Init
<1>4. QED
  BY <1>1, <1>2, <1>3 DEF TypeOK

\* Every step keeps the types.
LEMMA TypeStep == TypeOK /\ [Next]_vars => TypeOK'
<1> SUFFICES ASSUME TypeOK, [Next]_vars PROVE TypeOK'
  OBVIOUS
<1> USE DEF TypeOK
<1>1. ASSUME NEW id \in Ids, NEW r \in Requests, SendRequest(id, r) PROVE TypeOK'
  <2>1. slots' \in Ids
    BY <1>1 DEF SendRequest, Ids
  <2>2. nextId' \in Ids /\ outgoing' \in [Ids -> Messages]
    BY <1>1, SuccType, MessageType DEF SendRequest
  <2>3. QED
    BY <1>1, <2>1, <2>2 DEF SendRequest
<1>2. CASE SendRequestHangs
  BY <1>2 DEF SendRequestHangs, Ids
<1>3. ASSUME NEW id \in Ids, NEW status \in Statuses, ReceiveReply(id, status)
      PROVE  TypeOK'
  <2>1. slots' \in Ids
    BY <1>3, SuccType DEF ReceiveReply, SlotsAfterReply
  <2>2. outgoing' \in [Ids -> Messages]
    <3>1. [outgoing[id] EXCEPT !.status = status] \in Messages
      BY DEF Messages
    <3>2. QED
      BY <1>3, <3>1 DEF ReceiveReply
  <2>3. QED
    BY <1>3, <2>1, <2>2 DEF ReceiveReply
<1>4. CASE UNCHANGED vars
  BY <1>4 DEF vars
<1>5. QED
  BY <1>1, <1>2, <1>3, <1>4 DEF Next

\* Type correctness, whatever the order of the replies (MessageQueue.hpp:47-50):
\* both counters stay in a byte and every message is under a valid id.
THEOREM TypeCorrect == Spec => []TypeOK
BY InitTypeOK, TypeStep, PTL DEF Spec

-----------------------------------------------------------------------------

\* A send opens an id that was not open.
LEMMA OpenAfterSend ==
  ASSUME TypeOK, NEW id \in Ids, NEW r \in Requests, SendRequest(id, r)
  PROVE  id \notin Open(outgoing) /\ Open(outgoing') = Open(outgoing) \cup {id}
BY DEF TypeOK, SendRequest, Finds, Open, Message, Unanswered

\* A final status takes the id out, an APPROVAL_PENDING puts it in.
LEMMA OpenAfterReply ==
  ASSUME TypeOK, NEW id \in Ids, NEW status \in Statuses, ReceiveReply(id, status)
  PROVE  Open(outgoing') = IF status = Pending THEN Open(outgoing) \cup {id}
                                               ELSE Open(outgoing) \ {id}
<1>1. \A other \in Ids : outgoing'[other].status =
        IF other = id THEN status ELSE outgoing[other].status
  BY DEF TypeOK, ReceiveReply, Messages
<1>2. status \in Unanswered <=> status = Pending
  BY DEF Statuses, Unanswered, Pending, None
<1>3. QED
  BY <1>1, <1>2 DEF Open

\* The invariant that carries the account: until a request is reopened, no search
\* is stuck, and the slots and the open ids add up to MAX_ID.
Account ==
  /\ TypeOK
  /\ ~reopened => ~hung /\ slots + Cardinality(Open(outgoing)) = MaxId

\* The account is right when nothing was sent.
LEMMA AccountInit == Init => Account
<1> SUFFICES ASSUME Init PROVE Account
  OBVIOUS
<1>1. Open(outgoing) = {}
  BY DEF Init, Open, NoMessage, Unanswered, Absent, Pending, None
<1>2. Cardinality(Open(outgoing)) = 0
  BY <1>1, FS_EmptySet
<1>3. TypeOK
  BY InitTypeOK
<1>4. QED
  BY <1>2, <1>3 DEF Init, Account

\* Every step keeps the account.
LEMMA AccountStep == Account /\ [Next]_vars => Account'
<1> SUFFICES ASSUME Account, [Next]_vars, ~reopened'
             PROVE  ~hung' /\ slots' + Cardinality(Open(outgoing')) = MaxId
  BY TypeStep DEF Account
<1>1. ~reopened
  BY DEF Next, SendRequest, SendRequestHangs, ReceiveReply, vars
<1>2. TypeOK /\ ~hung /\ slots + Cardinality(Open(outgoing)) = MaxId
  BY <1>1 DEF Account
<1>3. ASSUME NEW id \in Ids, NEW r \in Requests, SendRequest(id, r)
      PROVE  ~hung' /\ slots' + Cardinality(Open(outgoing')) = MaxId
  <2>1. Cardinality(Open(outgoing')) = Cardinality(Open(outgoing)) + 1
    BY <1>2, <1>3, OpenAfterSend, IdsFinite, FS_AddElement
  <2>2. slots' = slots - 1 /\ ~hung'
    BY <1>2, <1>3 DEF SendRequest
  <2>3. QED
    BY <1>2, <2>1, <2>2, IdsFinite DEF TypeOK, Ids
<1>4. ~SendRequestHangs
  \* Every id would be open, one more than the slots ever were.
  BY <1>2, IdsFinite DEF SendRequestHangs, TypeOK, Ids
<1>5. ASSUME NEW id \in Ids, NEW status \in Statuses, ReceiveReply(id, status)
      PROVE  ~hung' /\ slots' + Cardinality(Open(outgoing')) = MaxId
  <2>1. ~hung'
    BY <1>2, <1>5 DEF ReceiveReply
  <2>2. CASE status = Pending
    \* The id was open and stays so.
    <3>1. id \in Open(outgoing)
      BY <1>2, <1>5, <2>2 DEF ReceiveReply, TypeOK, Messages, Statuses, Open, Unanswered
    <3>2. Open(outgoing') = Open(outgoing)
      BY <1>2, <1>5, <2>2, <3>1, OpenAfterReply
    <3>3. slots' = slots
      BY <1>5, <2>2 DEF ReceiveReply, SlotsAfterReply
    <3>4. QED
      BY <1>2, <2>1, <3>2, <3>3
  <2>3. CASE status # Pending /\ id \in Open(outgoing)
    \* An open request ends: one open id less, one slot more, no wrap.
    <3>1. Cardinality(Open(outgoing')) = Cardinality(Open(outgoing)) - 1
      BY <1>2, <1>5, <2>3, OpenAfterReply, IdsFinite, FS_RemoveElement
    <3>2. Cardinality(Open(outgoing)) >= 1
      BY <2>3, IdsFinite, FS_EmptySet
    <3>3. slots' = slots + 1
      <4>1. slots' = Succ(slots)
        BY <1>5, <2>3 DEF ReceiveReply, SlotsAfterReply, Open
      <4>2. slots # MaxId
        BY <1>2, <3>2, IdsFinite DEF TypeOK, Ids
      <4>3. QED
        BY <4>1, <4>2 DEF Succ
    <3>4. QED
      BY <1>2, <2>1, <3>1, <3>3, IdsFinite DEF TypeOK, Ids
  <2>4. CASE status # Pending /\ id \notin Open(outgoing)
    \* A settled request gets another final status: not counted again.
    <3>1. Open(outgoing') = Open(outgoing)
      BY <1>2, <1>5, <2>4, OpenAfterReply
    <3>2. slots' = slots
      BY <1>5, <2>4 DEF ReceiveReply, SlotsAfterReply, Open
    <3>3. QED
      BY <1>2, <2>1, <3>1, <3>2
  <2>5. QED
    BY <2>2, <2>3, <2>4
<1>6. QED
  BY <1>2, <1>3, <1>4, <1>5 DEF Next, vars

\* Until a reply reopens a request, every slot is accounted for: the counter is
\* MAX_ID less the number of requests that wait (MessageQueue.cpp:17-21, 56-77).
THEOREM SlotsAccounted == Spec => []SlotAccounting
<1>1. Account => SlotAccounting
  BY DEF Account, SlotAccounting
<1>2. QED
  BY <1>1, AccountInit, AccountStep, PTL DEF Spec

\* And until then the loop of send_request finds an id (MessageQueue.cpp:23-38).
THEOREM SearchAlwaysEnds == Spec => []SearchEnds
<1>1. Account => SearchEnds
  BY DEF Account, SearchEnds
<1>2. QED
  BY <1>1, AccountInit, AccountStep, PTL DEF Spec

\* A request that waits is never replaced, in whatever order the replies come
\* (MessageQueue.cpp:26-32).
THEOREM OpenAlwaysKept == Spec => OpenKept
<1>1. TypeOK /\ [Next]_vars => [OpenKeptStep]_vars
  <2> SUFFICES ASSUME TypeOK, [Next]_vars, NEW open \in Open(outgoing)
               PROVE  \/ /\ outgoing'[open].req = outgoing[open].req
                         /\ outgoing'[open].status # None
                      \/ outgoing'[open] = outgoing[open]
    BY DEF OpenKeptStep
  <2>1. open \in Ids
    BY DEF Open
  <2>2. ASSUME NEW id \in Ids, NEW r \in Requests, SendRequest(id, r)
        PROVE  outgoing'[open] = outgoing[open]
    BY <2>1, <2>2 DEF SendRequest, Finds, TypeOK
  <2>3. ASSUME NEW id \in Ids, NEW status \in Statuses, ReceiveReply(id, status)
        PROVE  \/ /\ outgoing'[open].req = outgoing[open].req
                  /\ outgoing'[open].status # None
               \/ outgoing'[open] = outgoing[open]
    <3>1. status # None
      BY DEF Statuses, None, Pending
    <3>2. QED
      BY <2>1, <2>3, <3>1 DEF ReceiveReply, TypeOK, Messages
  <2>4. QED
    BY <2>2, <2>3 DEF Next, SendRequestHangs, vars
<1>2. QED
  BY <1>1, TypeCorrect, PTL DEF Spec, OpenKept
-----------------------------------------------------------------------------
\* The exchange of two queues.

USE LimitAssumption DEF LimitAssumption

Answer == [id : Ids, status : Statuses, for : Requests]

\* An id waits, for the answer to request r.
WaitsFor(msgs, id, r) == id \in Open(msgs) /\ msgs[id].req = r

\* An id that a request on the wire has is nowhere else.
OnTheWire ==
  \A i \in 1 .. Len(requests) :
    /\ WaitsFor(outgoing, requests[i].id, requests[i].req) /\ decided[requests[i].req] = None
    /\ \A j \in 1 .. Len(requests) : requests[j].id = requests[i].id => j = i
    /\ \A m \in approvals : m.id # requests[i].id
    /\ \A k \in 1 .. Len(replies) : replies[k].id # requests[i].id

\* The responder's entry of a held request is that request, undecided.
HeldAsSent ==
  \A m \in approvals :
    /\ WaitsFor(outgoing, m.id, m.req) /\ decided[m.req] = None
    /\ incoming[m.id] = [req |-> m.req, status |-> Pending]

\* A reply is for the request that waits under its id; what comes after it under
\* that id is the decision that follows an APPROVAL_PENDING.
OnTheWayBack ==
  \A k \in 1 .. Len(replies) :
    /\ WaitsFor(outgoing, replies[k].id, replies[k].for)
    /\ replies[k].status # Pending =>
         /\ decided[replies[k].for] = replies[k].status
         /\ \A m \in approvals : m.id # replies[k].id
    /\ \A n \in 1 .. Len(replies) :
         n > k /\ replies[n].id = replies[k].id =>
           replies[k].status = Pending /\ replies[n].status # Pending

\* The open ids stand for the requests sent and not settled, each for its own.
OnePerRequest ==
  /\ \A id \in Open(outgoing) : outgoing[id].req \in 1 .. sent /\ learnt[outgoing[id].req] = None
  /\ \A id, other \in Open(outgoing) : outgoing[id].req = outgoing[other].req => id = other
  /\ \A r \in 1 .. sent : learnt[r] = None => \E id \in Open(outgoing) : outgoing[id].req = r
  /\ \A r \in Requests : r > sent => decided[r] = None /\ learnt[r] = None

\* The inductive invariant.
Whereabouts ==
  /\ ExchangeTypeOK /\ Account /\ ~reopened
  /\ OnTheWire /\ HeldAsSent /\ OnTheWayBack /\ OnePerRequest

-----------------------------------------------------------------------------

\* The steps of the exchange are steps of the queue.
LEMMA QueueStep == ExchangeTypeOK /\ [ExchangeNext]_exchange => [Next]_vars
<1> SUFFICES ASSUME ExchangeTypeOK, [ExchangeNext]_exchange PROVE [Next]_vars
  OBVIOUS
<1>1. CASE IssueRequest
  <2>1. sent' \in Requests
    BY <1>1 DEF IssueRequest, ExchangeTypeOK
  <2>2. QED
    BY <1>1, <2>1 DEF IssueRequest, Next
<1>2. CASE Respond
  BY <1>2 DEF Respond, HoldRequest, AnswerRequest, queue, vars
<1>3. ASSUME NEW r \in Requests, ApproveRequest(r) PROVE [Next]_vars
  BY <1>3 DEF ApproveRequest, Approve, queue, vars
<1>4. CASE HandleReply
  <2>1. Head(replies) \in Answer
    BY <1>4, HeadTailProperties DEF HandleReply, ExchangeTypeOK, Answer
  <2>2. QED
    BY <1>4, <2>1 DEF HandleReply, Next, Answer
<1>5. CASE UNCHANGED exchange
  BY <1>5 DEF exchange, queue, vars
<1>6. QED
  BY <1>1, <1>2, <1>3, <1>4, <1>5 DEF ExchangeNext

\* The first state has its types.
LEMMA ExchangeInitTypeOK == ExchangeInit => ExchangeTypeOK
<1> SUFFICES ASSUME ExchangeInit PROVE ExchangeTypeOK
  OBVIOUS
<1>1. TypeOK
  BY InitTypeOK DEF ExchangeInit
<1>2. incoming \in [Ids -> Messages]
  BY MessageType DEF ExchangeInit
<1>3. requests \in Seq(Held) /\ replies \in Seq(Answer)
  BY EmptySeq DEF ExchangeInit
<1>4. QED
  BY <1>1, <1>2, <1>3 DEF ExchangeInit, ExchangeTypeOK, Answer

\* What Reply does to the types.
LEMMA ReplyType ==
  ASSUME ExchangeTypeOK, NEW id \in Ids, NEW r \in Requests, NEW status \in Statuses,
         Reply(id, r, status)
  PROVE  /\ incoming' \in [Ids -> Messages]
         /\ incoming'[id] = [req |-> r, status |-> status]
         /\ replies' \in Seq(Answer)
         /\ replies' = Append(replies, [id |-> id, status |-> status, for |-> r])
<1>1. [req |-> r, status |-> status] \in Messages
  BY DEF Messages
<1>2. incoming' \in [Ids -> Messages] /\ incoming'[id] = [req |-> r, status |-> status]
  BY <1>1 DEF Reply, ExchangeTypeOK
<1>3. incoming'[id].req = r
  BY <1>2
<1>4. replies' = Append(replies, [id |-> id, status |-> status, for |-> r])
  BY <1>3 DEF Reply
<1>5. [id |-> id, status |-> status, for |-> r] \in Answer
  BY DEF Answer
<1>6. replies' \in Seq(Answer)
  BY <1>4, <1>5, AppendProperties DEF ExchangeTypeOK, Answer
<1>7. QED
  BY <1>2, <1>4, <1>6

\* What Reply does to the wire.
LEMMA ReplyAppended ==
  ASSUME ExchangeTypeOK, NEW id \in Ids, NEW r \in Requests, NEW status \in Statuses,
         Reply(id, r, status)
  PROVE  /\ Len(replies) \in Nat /\ Len(replies') = Len(replies) + 1
         /\ \A k \in 1 .. Len(replies) : replies'[k] = replies[k] /\ replies[k] \in Answer
         /\ replies'[Len(replies) + 1] = [id |-> id, status |-> status, for |-> r]
         /\ \A k \in 1 .. Len(replies') :
              \/ replies'[k].id = id
              \/ k \in 1 .. Len(replies) /\ replies'[k] = replies[k]
<1>1. [id |-> id, status |-> status, for |-> r] \in Answer
  BY DEF Answer
<1>2. replies' = Append(replies, [id |-> id, status |-> status, for |-> r])
  BY ReplyType
<1>3. replies \in Seq(Answer)
  BY DEF ExchangeTypeOK, Answer
<1>4. /\ Len(replies) \in Nat /\ Len(replies') = Len(replies) + 1
      /\ \A k \in 1 .. Len(replies) : replies'[k] = replies[k] /\ replies[k] \in Answer
      /\ replies'[Len(replies) + 1] = [id |-> id, status |-> status, for |-> r]
  BY <1>1, <1>2, <1>3, AppendProperties, LenProperties, ElementOfSeq
<1>5. \A k \in 1 .. Len(replies') : k = Len(replies) + 1 \/ k \in 1 .. Len(replies)
  BY <1>4
<1>6. QED
  BY <1>4, <1>5

\* Every step keeps the types.
LEMMA ExchangeTypeStep == ExchangeTypeOK /\ [ExchangeNext]_exchange => ExchangeTypeOK'
<1> SUFFICES ASSUME ExchangeTypeOK, [ExchangeNext]_exchange PROVE ExchangeTypeOK'
  OBVIOUS
<1>1. TypeOK'
  BY QueueStep, TypeStep DEF ExchangeTypeOK
<1> USE DEF ExchangeTypeOK
<1>2. CASE IssueRequest
  <2>1. PICK id \in Ids : requests' = Append(requests, [id |-> id, req |-> sent'])
    BY <1>2 DEF IssueRequest
  <2>2. sent' \in 0 .. Limit /\ [id |-> id, req |-> sent'] \in Held
    BY <1>2 DEF IssueRequest, Held
  <2>3. requests' \in Seq(Held)
    BY <2>1, <2>2, AppendProperties
  <2>4. QED
    BY <1>1, <1>2, <2>2, <2>3 DEF IssueRequest, history
<1>3. ASSUME requests # <<>>
      PROVE  Head(requests) \in Held /\ Tail(requests) \in Seq(Held)
  BY <1>3, HeadTailProperties
<1>4. ASSUME NEW status \in Final, AnswerRequest(status) PROVE ExchangeTypeOK'
  BY <1>1, <1>3, <1>4, ReplyType DEF AnswerRequest, Held, Statuses, Answer, queue
<1>5. CASE HoldRequest
  BY <1>1, <1>3, <1>5, ReplyType DEF HoldRequest, Held, Statuses, Answer, queue, history
<1>6. ASSUME NEW r \in Requests, ApproveRequest(r) PROVE ExchangeTypeOK'
  <2>1. PICK m \in approvals, status \in Final : Approve(m, status)
    BY <1>6 DEF ApproveRequest
  <2>2. m.id \in Ids /\ m.req \in Requests /\ status \in Statuses /\ Reply(m.id, m.req, status)
    BY <2>1 DEF Approve, Held, Statuses
  <2>3. incoming' \in [Ids -> Messages] /\ replies' \in Seq(Answer)
    BY <2>2, ReplyType
  <2>4. QED
    BY <1>1, <2>1, <2>2, <2>3 DEF Approve, Answer, queue
<1>7. CASE HandleReply
  <2>1. Head(replies) \in Answer /\ Tail(replies) \in Seq(Answer)
    BY <1>7, HeadTailProperties DEF HandleReply, Answer
  <2>2. outgoing[Head(replies).id].req \in Requests
    BY <2>1 DEF TypeOK, Messages, Answer
  <2>3. learnt' \in [Requests -> Final \cup {None}]
    BY <1>7, <2>1, <2>2 DEF HandleReply, Answer, Statuses
  <2>4. QED
    BY <1>1, <1>7, <2>1, <2>3 DEF HandleReply, Answer
<1>8. CASE UNCHANGED exchange
  BY <1>1, <1>8 DEF exchange, history
<1>9. QED
  BY <1>2, <1>4, <1>5, <1>6, <1>7, <1>8 DEF ExchangeNext, Respond

\* Type correctness of the exchange.
THEOREM ExchangeTypeCorrect == ExchangeSpec => []ExchangeTypeOK
BY ExchangeInitTypeOK, ExchangeTypeStep, PTL DEF ExchangeSpec

-----------------------------------------------------------------------------

\* Nothing is anywhere at first.
LEMMA WhereaboutsInit == ExchangeInit => Whereabouts
<1> SUFFICES ASSUME ExchangeInit PROVE Whereabouts
  OBVIOUS
<1>1. ExchangeTypeOK /\ Account /\ ~reopened
  BY ExchangeInitTypeOK, AccountInit DEF ExchangeInit, Init
<1>2. Open(outgoing) = {}
  BY DEF ExchangeInit, Init, Open, NoMessage, Unanswered, Absent, Pending, None
<1>3. Len(requests) = 0 /\ Len(replies) = 0
  BY EmptySeq DEF ExchangeInit
<1>4. OnTheWire /\ HeldAsSent /\ OnTheWayBack
  BY <1>3 DEF ExchangeInit, OnTheWire, HeldAsSent, OnTheWayBack
<1>5. OnePerRequest
  BY <1>2 DEF ExchangeInit, OnePerRequest
<1>6. QED
  BY <1>1, <1>4, <1>5 DEF Whereabouts

\* A new request goes to an id that is nowhere.
LEMMA WhereaboutsIssue ==
  ASSUME Whereabouts, IssueRequest
  PROVE  OnTheWire' /\ HeldAsSent' /\ OnTheWayBack' /\ OnePerRequest'
<1> DEFINE r == sent + 1
<1>1. PICK new \in Ids : /\ SendRequest(new, r)
                         /\ requests' = Append(requests, [id |-> new, req |-> r])
  BY DEF IssueRequest
<1>2. /\ r \in Requests /\ sent \in Nat /\ sent' = r
      /\ requests \in Seq(Held) /\ TypeOK /\ decided \in [Requests -> Final \cup {None}]
      /\ UNCHANGED <<incoming, approvals, replies, decided, learnt>>
  BY DEF IssueRequest, Whereabouts, ExchangeTypeOK, history
<1>3. new \notin Open(outgoing) /\ Open(outgoing') = Open(outgoing) \cup {new}
  BY <1>1, <1>2, OpenAfterSend
<1>4. \A id \in Open(outgoing) : outgoing'[id] = outgoing[id]
  BY <1>1, <1>2, <1>3 DEF SendRequest, TypeOK
<1>5. outgoing'[new].req = r
  BY <1>1, <1>2 DEF SendRequest, TypeOK, Message
<1>6. \A id, q : WaitsFor(outgoing, id, q) => WaitsFor(outgoing', id, q) /\ id # new
  BY <1>3, <1>4 DEF WaitsFor
<1>7. WaitsFor(outgoing', new, r)
  BY <1>3, <1>5 DEF WaitsFor
<1>8. /\ Len(requests) \in Nat /\ Len(requests') = Len(requests) + 1
      /\ \A i \in 1 .. Len(requests) : requests'[i] = requests[i]
      /\ requests'[Len(requests) + 1] = [id |-> new, req |-> r]
  <2>1. [id |-> new, req |-> r] \in Held
    BY <1>2 DEF Held
  <2>2. QED
    BY <1>1, <1>2, <2>1, AppendProperties, LenProperties
<1>9. decided[r] = None /\ decided'[r] = None
  BY <1>2 DEF Whereabouts, OnePerRequest
<1>10. OnTheWire'
  <2> SUFFICES ASSUME NEW i \in 1 .. Len(requests')
      PROVE  /\ WaitsFor(outgoing', requests'[i].id, requests'[i].req)
             /\ decided'[requests'[i].req] = None
             /\ \A j \in 1 .. Len(requests') : requests'[j].id = requests'[i].id => j = i
             /\ \A m \in approvals' : m.id # requests'[i].id
             /\ \A k \in 1 .. Len(replies') : replies'[k].id # requests'[i].id
    BY DEF OnTheWire
  <2>1. \A j \in 1 .. Len(requests) : requests[j].id # new
    BY <1>6 DEF Whereabouts, OnTheWire
  <2>2. CASE i = Len(requests) + 1
    <3>1. requests'[i].id = new /\ requests'[i].req = r
      BY <1>8, <2>2
    <3>2. \A j \in 1 .. Len(requests') : requests'[j].id = new => j = i
      BY <1>8, <2>1, <2>2
    <3>3. \A m \in approvals' : m.id # new
      BY <1>2, <1>6 DEF Whereabouts, HeldAsSent
    <3>4. \A k \in 1 .. Len(replies') : replies'[k].id # new
      BY <1>2, <1>6 DEF Whereabouts, OnTheWayBack
    <3>5. QED
      BY <1>7, <1>9, <3>1, <3>2, <3>3, <3>4
  <2>3. CASE i \in 1 .. Len(requests)
    <3>1. requests'[i] = requests[i]
      BY <1>8, <2>3
    <3>2. /\ WaitsFor(outgoing, requests[i].id, requests[i].req)
          /\ decided[requests[i].req] = None
          /\ \A j \in 1 .. Len(requests) : requests[j].id = requests[i].id => j = i
          /\ \A m \in approvals : m.id # requests[i].id
          /\ \A k \in 1 .. Len(replies) : replies[k].id # requests[i].id
      BY <2>3 DEF Whereabouts, OnTheWire
    <3>3. \A j \in 1 .. Len(requests') : requests'[j].id = requests[i].id => j = i
      BY <1>6, <1>8, <3>2
    <3>4. QED
      BY <1>2, <1>6, <3>1, <3>2, <3>3
  <2>4. QED
    BY <1>8, <2>2, <2>3
<1>11. HeldAsSent'
  BY <1>2, <1>6 DEF Whereabouts, HeldAsSent
<1>12. OnTheWayBack'
  BY <1>2, <1>6 DEF Whereabouts, OnTheWayBack
<1>13. OnePerRequest'
  <2>1. \A id \in Open(outgoing') :
           outgoing'[id].req \in 1 .. sent' /\ learnt'[outgoing'[id].req] = None
    <3>1. learnt[r] = None
      BY <1>2 DEF Whereabouts, OnePerRequest
    <3>2. QED
      BY <1>2, <1>3, <1>4, <1>5, <3>1 DEF Whereabouts, OnePerRequest
  <2>2. \A id, other \in Open(outgoing') :
           outgoing'[id].req = outgoing'[other].req => id = other
    BY <1>2, <1>3, <1>4, <1>5 DEF Whereabouts, OnePerRequest
  <2>3. \A q \in 1 .. sent' : learnt'[q] = None => \E id \in Open(outgoing') : outgoing'[id].req = q
    BY <1>2, <1>3, <1>4, <1>5 DEF Whereabouts, OnePerRequest
  <2>4. \A q \in Requests : q > sent' => decided'[q] = None /\ learnt'[q] = None
    BY <1>2 DEF Whereabouts, OnePerRequest
  <2>5. QED
    BY <2>1, <2>2, <2>3, <2>4 DEF OnePerRequest
<1>14. QED
  BY <1>10, <1>11, <1>12, <1>13

\* The request that is read next, and those behind it.
LEMMA FirstRequest ==
  ASSUME Whereabouts, requests # <<>>, requests' = Tail(requests)
  PROVE  LET m == Head(requests)
         IN  /\ m \in Held /\ WaitsFor(outgoing, m.id, m.req) /\ decided[m.req] = None
             /\ \A held \in approvals : held.id # m.id
             /\ \A k \in 1 .. Len(replies) : replies[k].id # m.id
             /\ Len(requests') \in Nat
             /\ \A i \in 1 .. Len(requests') :
                  /\ i + 1 \in 1 .. Len(requests)
                  /\ requests'[i] = requests[i + 1] /\ requests'[i].id # m.id
<1>1. requests \in Seq(Held)
  BY DEF Whereabouts, ExchangeTypeOK
<1>2. /\ Len(requests) \in Nat \ {0} /\ Head(requests) = requests[1] /\ requests[1] \in Held
      /\ Len(requests') = Len(requests) - 1
      /\ \A i \in 1 .. Len(requests') : requests'[i] = requests[i + 1]
  BY <1>1, HeadTailProperties, LenProperties, EmptySeq
<1>3. 1 \in 1 .. Len(requests)
  BY <1>2
<1>4. \A i \in 1 .. Len(requests') : i + 1 \in 1 .. Len(requests) /\ i + 1 # 1
  BY <1>2
<1>5. QED
  BY <1>2, <1>3, <1>4 DEF Whereabouts, OnTheWire

\* What it leaves on the wire is undisturbed when it alone is dealt with.
LEMMA RestOnTheWire ==
  ASSUME Whereabouts, requests # <<>>, requests' = Tail(requests), outgoing' = outgoing,
         \A r \in Requests : r # Head(requests).req => decided'[r] = decided[r],
         \A held \in approvals' : held \in approvals \/ held = Head(requests),
         \A k \in 1 .. Len(replies') : \/ replies'[k].id = Head(requests).id
                                       \/ k \in 1 .. Len(replies) /\ replies'[k] = replies[k]
  PROVE  OnTheWire'
<1> SUFFICES ASSUME NEW i \in 1 .. Len(requests')
    PROVE  /\ WaitsFor(outgoing', requests'[i].id, requests'[i].req)
           /\ decided'[requests'[i].req] = None
           /\ \A j \in 1 .. Len(requests') : requests'[j].id = requests'[i].id => j = i
           /\ \A held \in approvals' : held.id # requests'[i].id
           /\ \A k \in 1 .. Len(replies') : replies'[k].id # requests'[i].id
  BY DEF OnTheWire
<1> DEFINE m == Head(requests)
           n == requests[i + 1]
<1>1. /\ i + 1 \in 1 .. Len(requests) /\ requests'[i] = n /\ n.id # m.id
      /\ WaitsFor(outgoing, m.id, m.req)
      /\ \A j \in 1 .. Len(requests') : j + 1 \in 1 .. Len(requests) /\ requests'[j] = requests[j + 1]
  BY FirstRequest
<1>2. /\ WaitsFor(outgoing, n.id, n.req) /\ decided[n.req] = None
      /\ \A j \in 1 .. Len(requests) : requests[j].id = n.id => j = i + 1
      /\ \A held \in approvals : held.id # n.id
      /\ \A k \in 1 .. Len(replies) : replies[k].id # n.id
  BY <1>1 DEF Whereabouts, OnTheWire
<1>3. n.req # m.req /\ n.req \in Requests
  <2>1. n.req # m.req
    BY <1>1, <1>2 DEF Whereabouts, OnePerRequest, WaitsFor
  <2>2. requests \in Seq(Held)
    BY DEF Whereabouts, ExchangeTypeOK
  <2>3. n \in Held
    BY <1>1, <2>2, ElementOfSeq
  <2>4. QED
    BY <2>1, <2>3 DEF Held
<1>4. WaitsFor(outgoing', n.id, n.req) /\ decided'[n.req] = None
  BY <1>2, <1>3
<1>5. \A j \in 1 .. Len(requests') : requests'[j].id = n.id => j = i
  <2> SUFFICES ASSUME NEW j \in 1 .. Len(requests'), requests'[j].id = n.id PROVE j = i
    OBVIOUS
  <2>1. j + 1 = i + 1
    BY <1>1, <1>2
  <2>2. QED
    BY <2>1
<1>6. QED
  BY <1>1, <1>2, <1>4, <1>5

\* A reply to a request that waits, undecided, keeps the rest in its place.
LEMMA WhereaboutsReply ==
  ASSUME Whereabouts, NEW id \in Ids, NEW r \in Requests, NEW status \in Statuses,
         Reply(id, r, status), WaitsFor(outgoing, id, r), decided[r] = None,
         UNCHANGED <<outgoing, sent, learnt>>,
         decided' = IF status = Pending THEN decided ELSE [decided EXCEPT ![r] = status],
         \A k \in 1 .. Len(replies) :
           replies[k].id = id => replies[k].status = Pending /\ status # Pending,
         \A m \in approvals' : \/ m \in approvals /\ m.id # id
                               \/ status = Pending /\ m = [id |-> id, req |-> r]
  PROVE  HeldAsSent' /\ OnTheWayBack' /\ OnePerRequest'
<1>1. /\ decided \in [Requests -> Final \cup {None}] /\ replies \in Seq(Answer) /\ sent \in Nat
      /\ incoming \in [Ids -> Messages] /\ approvals \subseteq Held
  BY DEF Whereabouts, ExchangeTypeOK, Answer
<1>2. \A q \in Requests : q # r => decided'[q] = decided[q]
  BY <1>1
<1>3. /\ status = Pending => decided'[r] = None
      /\ status # Pending => decided'[r] = status
  BY <1>1
<1>4. \A other, q : WaitsFor(outgoing, other, q) /\ other # id => q # r
  BY DEF Whereabouts, OnePerRequest, WaitsFor
<1>5. /\ Len(replies) \in Nat /\ Len(replies') = Len(replies) + 1
      /\ \A k \in 1 .. Len(replies) : replies'[k] = replies[k] /\ replies[k] \in Answer
      /\ replies'[Len(replies) + 1] = [id |-> id, status |-> status, for |-> r]
  BY ReplyAppended DEF Whereabouts
<1>6. HeldAsSent'
  <2> SUFFICES ASSUME NEW m \in approvals'
      PROVE  /\ WaitsFor(outgoing', m.id, m.req) /\ decided'[m.req] = None
             /\ incoming'[m.id] = [req |-> m.req, status |-> Pending]
    BY DEF HeldAsSent
  <2>1. CASE m \in approvals /\ m.id # id
    <3>1. /\ WaitsFor(outgoing, m.id, m.req) /\ decided[m.req] = None
          /\ incoming[m.id] = [req |-> m.req, status |-> Pending]
          /\ m.id \in Ids /\ m.req \in Requests
      BY <1>1, <2>1 DEF Whereabouts, HeldAsSent, Held
    <3>2. incoming'[m.id] = incoming[m.id]
      BY <1>1, <2>1, <3>1 DEF Reply
    <3>3. QED
      BY <1>2, <1>4, <2>1, <3>1, <3>2
  <2>2. CASE status = Pending /\ m = [id |-> id, req |-> r]
    <3>1. m.id = id /\ m.req = r /\ decided'[r] = None
      BY <1>3, <2>2
    <3>2. WaitsFor(outgoing', id, r)
      OBVIOUS
    <3>3. incoming'[id] = [req |-> r, status |-> Pending]
      <4>1. ExchangeTypeOK
        BY DEF Whereabouts
      <4>2. incoming'[id] = [req |-> r, status |-> status]
        BY ONLY <4>1, Reply(id, r, status), r \in Requests, id \in Ids, status \in Statuses, ReplyType
      <4>3. QED
        BY <2>2, <4>2
    <3>4. QED
      BY <3>1, <3>2, <3>3
  <2>3. QED
    BY <2>1, <2>2
<1>7. OnTheWayBack'
  <2> SUFFICES ASSUME NEW k \in 1 .. Len(replies')
      PROVE  /\ WaitsFor(outgoing', replies'[k].id, replies'[k].for)
             /\ replies'[k].status # Pending =>
                  /\ decided'[replies'[k].for] = replies'[k].status
                  /\ \A m \in approvals' : m.id # replies'[k].id
             /\ \A n \in 1 .. Len(replies') :
                  n > k /\ replies'[n].id = replies'[k].id =>
                    replies'[k].status = Pending /\ replies'[n].status # Pending
    BY DEF OnTheWayBack
  <2>1. CASE k = Len(replies) + 1
    <3>1. /\ replies'[k].id = id /\ replies'[k].for = r /\ replies'[k].status = status
      BY <1>5, <2>1
    <3>2. \A n \in 1 .. Len(replies') : ~(n > k)
      BY <1>5, <2>1
    <3>3. QED
      BY <1>3, <3>1, <3>2
  <2>2. CASE k \in 1 .. Len(replies)
    <3>1. /\ replies'[k] = replies[k] /\ replies[k].for \in Requests
      BY <1>5, <2>2 DEF Answer
    <3>2. /\ WaitsFor(outgoing, replies[k].id, replies[k].for)
          /\ replies[k].status # Pending =>
               /\ decided[replies[k].for] = replies[k].status
               /\ \A m \in approvals : m.id # replies[k].id
          /\ \A n \in 1 .. Len(replies) :
               n > k /\ replies[n].id = replies[k].id =>
                 replies[k].status = Pending /\ replies[n].status # Pending
      BY <2>2 DEF Whereabouts, OnTheWayBack
    <3>3. ASSUME replies[k].status # Pending
          PROVE  /\ decided'[replies[k].for] = replies[k].status
                 /\ \A m \in approvals' : m.id # replies[k].id
      <4>1. replies[k].id # id
        BY <2>2, <3>3
      <4>2. QED
        BY <1>2, <1>4, <3>1, <3>2, <3>3, <4>1
    <3>4. ASSUME NEW n \in 1 .. Len(replies'), n > k, replies'[n].id = replies[k].id
          PROVE  replies[k].status = Pending /\ replies'[n].status # Pending
      <4>1. CASE n = Len(replies) + 1
        BY <1>5, <2>2, <3>4, <4>1
      <4>2. CASE n \in 1 .. Len(replies)
        BY <1>5, <3>2, <3>4, <4>2
      <4>3. QED
        BY <1>5, <4>1, <4>2
    <3>5. QED
      BY <3>1, <3>2, <3>3, <3>4
  <2>3. QED
    BY <1>5, <2>1, <2>2
<1>8. OnePerRequest'
  <2>1. r <= sent
    BY DEF Whereabouts, OnePerRequest, WaitsFor
  <2>2. \A q \in Requests : q > sent => decided'[q] = None /\ learnt[q] = None
    BY <1>1, <1>2, <2>1 DEF Whereabouts, OnePerRequest
  <2>3. QED
    BY <2>2 DEF Whereabouts, OnePerRequest
<1>9. QED
  BY <1>6, <1>7, <1>8

\* A request is decided as it is read.
LEMMA WhereaboutsAnswer ==
  ASSUME Whereabouts, NEW status \in Final, AnswerRequest(status)
  PROVE  OnTheWire' /\ HeldAsSent' /\ OnTheWayBack' /\ OnePerRequest'
<1> DEFINE m == Head(requests)
<1>1. /\ requests # <<>> /\ requests' = Tail(requests) /\ Reply(m.id, m.req, status)
      /\ decided' = [decided EXCEPT ![m.req] = status]
      /\ UNCHANGED <<outgoing, approvals, sent, learnt>>
  BY DEF AnswerRequest, queue
<1>2. /\ m.id \in Ids /\ m.req \in Requests
      /\ WaitsFor(outgoing, m.id, m.req) /\ decided[m.req] = None
      /\ \A held \in approvals : held.id # m.id
      /\ \A k \in 1 .. Len(replies) : replies[k].id # m.id
  BY <1>1, FirstRequest DEF Held
<1>3. status \in Statuses /\ status # Pending
  BY DEF Statuses
<1>4. HeldAsSent' /\ OnTheWayBack' /\ OnePerRequest'
  BY <1>1, <1>2, <1>3, WhereaboutsReply
<1>5. \A k \in 1 .. Len(replies') : \/ replies'[k].id = m.id
                                    \/ k \in 1 .. Len(replies) /\ replies'[k] = replies[k]
  BY <1>1, <1>2, <1>3, ReplyAppended DEF Whereabouts
<1>6. \A r \in Requests : r # m.req => decided'[r] = decided[r]
  BY <1>1 DEF Whereabouts, ExchangeTypeOK
<1>7. OnTheWire'
  BY <1>1, <1>5, <1>6, RestOnTheWire
<1>8. QED
  BY <1>4, <1>7

\* A request goes from the wire to the approvals, and its APPROVAL_PENDING back.
LEMMA WhereaboutsHold ==
  ASSUME Whereabouts, HoldRequest
  PROVE  OnTheWire' /\ HeldAsSent' /\ OnTheWayBack' /\ OnePerRequest'
<1> DEFINE m == Head(requests)
<1>1. /\ requests # <<>> /\ requests' = Tail(requests) /\ Reply(m.id, m.req, Pending)
      /\ approvals' = approvals \cup {m}
      /\ UNCHANGED <<outgoing, decided, sent, learnt>>
  BY DEF HoldRequest, queue, history
<1>2. /\ m \in Held /\ m.id \in Ids /\ m.req \in Requests
      /\ WaitsFor(outgoing, m.id, m.req) /\ decided[m.req] = None
      /\ \A held \in approvals : held.id # m.id
      /\ \A k \in 1 .. Len(replies) : replies[k].id # m.id
  BY <1>1, FirstRequest DEF Held
<1>3. Pending \in Statuses /\ m = [id |-> m.id, req |-> m.req]
  BY <1>2 DEF Statuses, Held
<1>4. \A held \in approvals' : \/ held \in approvals /\ held.id # m.id
                               \/ Pending = Pending /\ held = [id |-> m.id, req |-> m.req]
  BY <1>1, <1>2, <1>3
<1>5. HeldAsSent' /\ OnTheWayBack' /\ OnePerRequest'
  BY <1>1, <1>2, <1>3, <1>4, WhereaboutsReply
<1>6. \A k \in 1 .. Len(replies') : \/ replies'[k].id = m.id
                                    \/ k \in 1 .. Len(replies) /\ replies'[k] = replies[k]
  BY <1>1, <1>2, <1>3, ReplyAppended DEF Whereabouts
<1>7. OnTheWire'
  BY <1>1, <1>6, RestOnTheWire
<1>8. QED
  BY <1>5, <1>7

\* A held request is decided: it leaves the approvals.
LEMMA WhereaboutsApprove ==
  ASSUME Whereabouts, NEW m \in approvals, NEW status \in Final, Approve(m, status)
  PROVE  OnTheWire' /\ HeldAsSent' /\ OnTheWayBack' /\ OnePerRequest'
<1>1. /\ Reply(m.id, m.req, status) /\ approvals' = approvals \ {m}
      /\ decided' = [decided EXCEPT ![m.req] = status]
      /\ UNCHANGED <<outgoing, requests, sent, learnt>>
  BY DEF Approve, queue
<1>2. /\ m \in Held /\ m.id \in Ids /\ m.req \in Requests
      /\ WaitsFor(outgoing, m.id, m.req) /\ decided[m.req] = None
  BY DEF Whereabouts, ExchangeTypeOK, HeldAsSent, Held
<1>3. status \in Statuses /\ status # Pending
  BY DEF Statuses
<1>4. ASSUME NEW held \in approvals' PROVE held \in approvals /\ held.id # m.id
  <2>1. held \in approvals /\ held # m /\ held \in Held
    BY <1>1 DEF Whereabouts, ExchangeTypeOK
  <2>2. held.id = m.id => held.req = m.req
    BY <1>2, <2>1 DEF Whereabouts, HeldAsSent, WaitsFor
  <2>3. QED
    BY <1>2, <2>1, <2>2 DEF Held
<1>5. \A k \in 1 .. Len(replies) :
        replies[k].id = m.id => replies[k].status = Pending /\ status # Pending
  BY <1>3 DEF Whereabouts, OnTheWayBack
<1>6. HeldAsSent' /\ OnTheWayBack' /\ OnePerRequest'
  <2>1. decided' = IF status = Pending THEN decided ELSE [decided EXCEPT ![m.req] = status]
    BY <1>1, <1>3
  <2>2. \A held \in approvals' : \/ held \in approvals /\ held.id # m.id
                                 \/ status = Pending /\ held = [id |-> m.id, req |-> m.req]
    BY <1>4
  <2>3. /\ m.id \in Ids /\ m.req \in Requests /\ status \in Statuses
        /\ Reply(m.id, m.req, status) /\ WaitsFor(outgoing, m.id, m.req) /\ decided[m.req] = None
        /\ UNCHANGED <<outgoing, sent, learnt>>
    BY <1>1, <1>2, <1>3
  <2> HIDE DEF Whereabouts
  <2>4. QED
    BY ONLY Whereabouts, <1>5, <2>1, <2>2, <2>3, WhereaboutsReply
<1>7. \A k \in 1 .. Len(replies') : \/ replies'[k].id = m.id
                                    \/ k \in 1 .. Len(replies) /\ replies'[k] = replies[k]
  BY <1>1, <1>2, <1>3, ReplyAppended DEF Whereabouts
<1>8. ASSUME NEW i \in 1 .. Len(requests)
      PROVE  /\ requests[i].id # m.id /\ requests[i].req # m.req
             /\ decided'[requests[i].req] = decided[requests[i].req]
  <2>1. requests[i].id # m.id /\ WaitsFor(outgoing, requests[i].id, requests[i].req)
    BY DEF Whereabouts, OnTheWire
  <2>2. requests[i].req # m.req
    BY <1>2, <2>1 DEF Whereabouts, OnePerRequest, WaitsFor
  <2>3. QED
    BY <1>1, <2>1, <2>2 DEF Whereabouts, ExchangeTypeOK
<1>9. OnTheWire'
  BY <1>1, <1>4, <1>7, <1>8 DEF Whereabouts, OnTheWire
<1>10. QED
  BY <1>6, <1>9

\* A reply reaches the request that waits under its id.
LEMMA FirstReply ==
  ASSUME Whereabouts, HandleReply
  PROVE  LET m == Head(replies)
         IN  /\ m \in Answer /\ WaitsFor(outgoing, m.id, m.for)
             /\ m.status # Pending => decided[m.for] = m.status
             /\ m.status # Pending => \A held \in approvals : held.id # m.id
             /\ replies' \in Seq(Answer)
             /\ \A k \in 1 .. Len(replies') :
                  /\ k + 1 \in 1 .. Len(replies) /\ replies'[k] = replies[k + 1]
                  /\ m.status # Pending => replies'[k].id # m.id
<1>1. replies \in Seq(Answer) /\ replies # <<>> /\ replies' = Tail(replies)
  BY DEF Whereabouts, ExchangeTypeOK, Answer, HandleReply
<1>2. /\ Len(replies) \in Nat \ {0} /\ Head(replies) = replies[1] /\ Head(replies) \in Answer
      /\ replies' \in Seq(Answer) /\ Len(replies') = Len(replies) - 1
      /\ \A k \in 1 .. Len(replies') : replies'[k] = replies[k + 1]
  BY <1>1, HeadTailProperties, LenProperties, EmptySeq
<1>3. 1 \in 1 .. Len(replies)
  BY <1>2
<1>4. \A k \in 1 .. Len(replies') : k + 1 \in 1 .. Len(replies) /\ k + 1 > 1
  BY <1>2
<1>5. QED
  BY <1>2, <1>3, <1>4 DEF Whereabouts, OnTheWayBack

\* After a reply its request still waits, or it is gone and nothing else is
\* under its id.
LEMMA WhereaboutsHandle ==
  ASSUME Whereabouts, HandleReply
  PROVE  ~reopened' /\ OnTheWire' /\ HeldAsSent' /\ OnTheWayBack' /\ OnePerRequest'
<1> DEFINE m == Head(replies)
<1>1. /\ ReceiveReply(m.id, m.status) /\ replies' = Tail(replies)
      /\ learnt' = IF m.status = Pending THEN learnt
                   ELSE [learnt EXCEPT ![outgoing[m.id].req] = m.status]
      /\ UNCHANGED <<incoming, approvals, requests, sent, decided>>
  BY DEF HandleReply
<1>2. /\ m.id \in Ids /\ m.status \in Statuses /\ m.for \in Requests
      /\ WaitsFor(outgoing, m.id, m.for)
      /\ m.status # Pending => \A held \in approvals : held.id # m.id
      /\ \A k \in 1 .. Len(replies') :
           /\ k + 1 \in 1 .. Len(replies) /\ replies'[k] = replies[k + 1]
           /\ m.status # Pending => replies'[k].id # m.id
  BY FirstReply DEF Answer
<1>3. TypeOK /\ learnt \in [Requests -> Final \cup {None}] /\ replies' \in Seq(Answer)
  BY FirstReply DEF Whereabouts, ExchangeTypeOK
<1>4. Open(outgoing') = IF m.status = Pending THEN Open(outgoing) ELSE Open(outgoing) \ {m.id}
  <2>1. Open(outgoing') = IF m.status = Pending THEN Open(outgoing) \cup {m.id}
                                                ELSE Open(outgoing) \ {m.id}
    BY <1>1, <1>2, <1>3, OpenAfterReply
  <2>2. m.id \in Open(outgoing)
    BY <1>2 DEF WaitsFor
  <2>3. QED
    BY <2>1, <2>2
<1>5. \A id \in Ids : outgoing'[id].req = outgoing[id].req
  BY <1>1, <1>2, <1>3 DEF ReceiveReply, TypeOK, Messages
<1>6. \A id, r : WaitsFor(outgoing, id, r) /\ (m.status # Pending => id # m.id)
                   => WaitsFor(outgoing', id, r)
  BY <1>4, <1>5 DEF WaitsFor, Open
<1>7. ~reopened'
  BY <1>1, <1>2 DEF Whereabouts, WaitsFor, Open, Unanswered, ReceiveReply
<1>8. OnTheWire'
  <2>1. m = replies[1] /\ 1 \in 1 .. Len(replies) /\ Len(replies') \in Nat
    <3>1. replies \in Seq(Answer) /\ replies # <<>>
      BY DEF Whereabouts, ExchangeTypeOK, Answer, HandleReply
    <3>2. QED
      BY <1>3, <3>1, EmptySeq, LenProperties
  <2>2. \A i \in 1 .. Len(requests) : requests[i].id # m.id
    BY <2>1 DEF Whereabouts, OnTheWire
  <2>3. \A k \in 1 .. Len(replies'), i \in 1 .. Len(requests) : replies'[k].id # requests[i].id
    <3>1. \A k \in 1 .. Len(replies), i \in 1 .. Len(requests) : replies[k].id # requests[i].id
      BY DEF Whereabouts, OnTheWire
    <3>2. QED
      BY ONLY <1>2, <3>1
  <2>4. QED
    BY <1>1, <1>6, <2>2, <2>3 DEF Whereabouts, OnTheWire
<1>9. HeldAsSent'
  BY <1>1, <1>2, <1>6 DEF Whereabouts, HeldAsSent
<1>10. OnTheWayBack'
  <2> SUFFICES ASSUME NEW k \in 1 .. Len(replies')
      PROVE  /\ WaitsFor(outgoing', replies'[k].id, replies'[k].for)
             /\ replies'[k].status # Pending =>
                  /\ decided'[replies'[k].for] = replies'[k].status
                  /\ \A held \in approvals' : held.id # replies'[k].id
             /\ \A n \in 1 .. Len(replies') :
                  n > k /\ replies'[n].id = replies'[k].id =>
                    replies'[k].status = Pending /\ replies'[n].status # Pending
    BY DEF OnTheWayBack
  <2> DEFINE b == replies[k + 1]
  <2>1. k + 1 \in 1 .. Len(replies) /\ replies'[k] = b /\ (m.status # Pending => b.id # m.id)
    BY <1>2
  <2>2. /\ WaitsFor(outgoing, b.id, b.for)
        /\ b.status # Pending =>
             decided[b.for] = b.status /\ \A held \in approvals : held.id # b.id
        /\ \A n \in 1 .. Len(replies) :
             n > k + 1 /\ replies[n].id = b.id => b.status = Pending /\ replies[n].status # Pending
    BY <2>1 DEF Whereabouts, OnTheWayBack
  <2>3. \A n \in 1 .. Len(replies') : n > k => n + 1 > k + 1
    OBVIOUS
  <2>4. \A n \in 1 .. Len(replies') :
          n > k /\ replies'[n].id = b.id => b.status = Pending /\ replies'[n].status # Pending
    BY <1>2, <2>2, <2>3
  <2>5. QED
    BY <1>1, <1>6, <2>1, <2>2, <2>4
<1>11. OnePerRequest'
  <2>1. CASE m.status = Pending
    <3>1. Open(outgoing') = Open(outgoing) /\ learnt' = learnt
      BY <1>1, <1>4, <2>1
    <3>2. QED
      BY <1>1, <1>5, <3>1 DEF Whereabouts, OnePerRequest, Open
  <2>2. CASE m.status # Pending
    <3>1. /\ Open(outgoing') = Open(outgoing) \ {m.id}
          /\ outgoing[m.id].req = m.for /\ m.id \in Open(outgoing)
          /\ learnt' = [learnt EXCEPT ![m.for] = m.status]
      BY <1>1, <1>2, <1>4, <2>2 DEF WaitsFor
    <3>2. m.for \in 1 .. sent /\ m.status # None
      BY <1>2, <3>1 DEF Whereabouts, OnePerRequest, Statuses, Pending, None
    <3>3. \A r \in Requests : learnt'[r] = IF r = m.for THEN m.status ELSE learnt[r]
      BY <1>3, <3>1
    <3>4. \A id \in Open(outgoing') : /\ id \in Open(outgoing) /\ outgoing'[id].req = outgoing[id].req
                                      /\ outgoing[id].req # m.for
      BY <1>5, <3>1 DEF Whereabouts, OnePerRequest, Open
    <3>5. sent \in Nat /\ sent <= Limit
      BY DEF Whereabouts, ExchangeTypeOK
    <3>6. \A id \in Open(outgoing') :
            outgoing'[id].req \in 1 .. sent /\ learnt'[outgoing'[id].req] = None
      BY <3>3, <3>4, <3>5 DEF Whereabouts, OnePerRequest
    <3>7. \A r \in 1 .. sent : learnt'[r] = None => \E id \in Open(outgoing') : outgoing'[id].req = r
      <4> SUFFICES ASSUME NEW r \in 1 .. sent, learnt'[r] = None
                   PROVE  \E id \in Open(outgoing') : outgoing'[id].req = r
        OBVIOUS
      <4>1. r # m.for /\ learnt[r] = None
        BY <3>2, <3>3, <3>5
      <4>2. PICK id \in Open(outgoing) : outgoing[id].req = r
        BY <4>1 DEF Whereabouts, OnePerRequest
      <4>3. id \in Open(outgoing') /\ outgoing'[id].req = r
        BY <1>5, <3>1, <4>1, <4>2 DEF Open
      <4>4. QED
        BY <4>3
    <3>8. \A r \in Requests : r > sent => decided'[r] = None /\ learnt'[r] = None
      BY <1>1, <3>2, <3>3, <3>5 DEF Whereabouts, OnePerRequest
    <3>9. \A id, other \in Open(outgoing') :
            outgoing'[id].req = outgoing'[other].req => id = other
      BY <3>4 DEF Whereabouts, OnePerRequest
    <3>10. QED
      BY <1>1, <3>6, <3>7, <3>8, <3>9 DEF OnePerRequest
  <2>3. QED
    BY <2>1, <2>2
<1>12. QED
  BY <1>7, <1>8, <1>9, <1>10, <1>11

-----------------------------------------------------------------------------

\* Every step keeps the whereabouts.
LEMMA WhereaboutsStep == Whereabouts /\ [ExchangeNext]_exchange => Whereabouts'
<1> SUFFICES ASSUME Whereabouts, [ExchangeNext]_exchange PROVE Whereabouts'
  OBVIOUS
<1>1. ExchangeTypeOK' /\ Account'
  BY ExchangeTypeStep, QueueStep, AccountStep DEF Whereabouts
<1>2. CASE IssueRequest
  <2>1. reopened' = reopened
    BY <1>2 DEF IssueRequest, SendRequest
  <2>2. QED
    BY <1>1, <1>2, <2>1, WhereaboutsIssue DEF Whereabouts
<1>3. ASSUME NEW status \in Final, AnswerRequest(status) PROVE Whereabouts'
  <2>1. reopened' = reopened
    BY <1>3 DEF AnswerRequest, queue
  <2>2. QED
    BY <1>1, <1>3, <2>1, WhereaboutsAnswer DEF Whereabouts
<1>4. CASE HoldRequest
  <2>1. reopened' = reopened
    BY <1>4 DEF HoldRequest, queue
  <2>2. QED
    BY <1>1, <1>4, <2>1, WhereaboutsHold DEF Whereabouts
<1>5. ASSUME NEW m \in approvals, NEW status \in Final, Approve(m, status) PROVE Whereabouts'
  <2>1. reopened' = reopened
    BY <1>5 DEF Approve, queue
  <2>2. QED
    BY <1>1, <1>5, <2>1, WhereaboutsApprove DEF Whereabouts
<1>6. CASE HandleReply
  BY <1>1, <1>6, WhereaboutsHandle DEF Whereabouts
<1>7. CASE UNCHANGED exchange
  BY <1>1, <1>7 DEF Whereabouts, OnTheWire, HeldAsSent, OnTheWayBack, OnePerRequest,
                    exchange, queue, history
<1>8. QED
  BY <1>2, <1>3, <1>4, <1>5, <1>6, <1>7 DEF ExchangeNext, Respond, ApproveRequest

\* The whereabouts hold at all times.
LEMMA WhereaboutsKnown == ExchangeSpec => []Whereabouts
BY WhereaboutsInit, WhereaboutsStep, PTL DEF ExchangeSpec

\* A reply is for the request its id stands for at the requester, however often the
\* ids have gone round (Peer_private.cpp:48-56, MessageQueue.cpp:56-77).
THEOREM RepliesMeetTheirRequests == ExchangeSpec => []ReplyMeetsItsRequest
<1>1. Whereabouts => ReplyMeetsItsRequest
  <2> SUFFICES ASSUME Whereabouts, NEW m \in Range(replies)
      PROVE  outgoing[m.id].req = m.for /\ outgoing[m.id].status \in Unanswered
    BY DEF ReplyMeetsItsRequest
  <2>1. replies \in Seq(Answer)
    BY DEF Whereabouts, ExchangeTypeOK, Answer
  <2>2. PICK k \in 1 .. Len(replies) : replies[k] = m
    BY <2>1, RangeEquality
  <2>3. QED
    BY <2>2 DEF Whereabouts, OnTheWayBack, WaitsFor, Open
<1>2. QED
  BY <1>1, WhereaboutsKnown, PTL

\* A request held for manual approval is not replaced by a later one
\* (MessageQueue.cpp:47-48, Peer_private.cpp:124-125).
THEOREM HeldRequestsKept == ExchangeSpec => []HeldRequestKept
<1>1. Whereabouts => HeldRequestKept
  BY DEF Whereabouts, HeldAsSent, HeldRequestKept
<1>2. QED
  BY <1>1, WhereaboutsKnown, PTL

-----------------------------------------------------------------------------

\* No more requests are unsettled than ids are open.
LEMMA WindowBound ==
  ASSUME Whereabouts
  PROVE  Cardinality(Promise!Unsettled) <= Cardinality(Open(outgoing))
<1> DEFINE U == Promise!Unsettled
           O == {id \in Open(outgoing) : outgoing[id].req \in U}
           f == [id \in O |-> outgoing[id].req]
<1>1. IsFiniteSet(Open(outgoing)) /\ O \subseteq Open(outgoing)
  BY IdsFinite
<1>2. IsFiniteSet(O) /\ Cardinality(O) <= Cardinality(Open(outgoing))
  BY <1>1, FS_Subset
<1>3. f \in Surjection(O, U)
  <2>1. f \in [O -> U]
    OBVIOUS
  <2>2. \A r \in U : \E id \in O : f[id] = r
    BY DEF Whereabouts, OnePerRequest, Promise!Unsettled
  <2>3. QED
    BY <2>1, <2>2 DEF Surjection
<1>4. Cardinality(U) <= Cardinality(O)
  BY <1>2, <1>3, FS_Surjection
<1>5. Cardinality(U) \in Nat /\ Cardinality(O) \in Nat /\ Cardinality(Open(outgoing)) \in Nat
  BY <1>1, <1>2, <1>3, FS_Surjection, FS_CardinalityType
<1>6. QED
  BY <1>2, <1>4, <1>5

\* The first state of the exchange is one of the window.
LEMMA PromiseInit == ExchangeInit => Promise!Init
BY DEF ExchangeInit, Promise!Init, Promise!Numbers

\* A step of the exchange sends, decides or learns, or changes nothing the window
\* shows.
LEMMA PromiseStep == Whereabouts /\ [ExchangeNext]_exchange => [Promise!Next]_(Promise!vars)
<1> SUFFICES ASSUME Whereabouts, [ExchangeNext]_exchange
             PROVE  Promise!Next \/ UNCHANGED <<sent, decided, learnt>>
  BY DEF Promise!vars
<1>1. /\ sent \in 0 .. Limit /\ slots \in Ids
      /\ decided \in [Requests -> Final \cup {None}] /\ learnt \in [Requests -> Final \cup {None}]
  BY DEF Whereabouts, ExchangeTypeOK, TypeOK
<1>2. CASE IssueRequest
  <2>1. sent < Limit /\ sent' = sent + 1 /\ UNCHANGED <<decided, learnt>> /\ slots > 0
    BY <1>2 DEF IssueRequest, SendRequest, history
  <2>2. Cardinality(Open(outgoing)) < MaxId
    BY <1>1, <2>1, IdsFinite, MaxIdAssumption DEF Whereabouts, Account, Ids, MaxIdAssumption
  <2>3. Cardinality(Promise!Unsettled) < MaxId
    <3>1. Promise!Unsettled \subseteq 1 .. sent /\ IsFiniteSet(1 .. sent)
      BY <1>1, FS_Interval DEF Promise!Unsettled
    <3>2. Cardinality(Promise!Unsettled) \in Nat
      BY <3>1, FS_Subset, FS_CardinalityType
    <3>3. QED
      BY <2>2, <3>2, WindowBound, IdsFinite, MaxIdAssumption DEF MaxIdAssumption
  <2>4. Promise!Send
    BY <2>1, <2>3 DEF Promise!Send, Promise!Cardinality, Cardinality
  <2>5. QED
    BY <2>4 DEF Promise!Next
<1>3. ASSUME NEW r \in Requests, NEW id, NEW status \in Final,
             WaitsFor(outgoing, id, r), decided[r] = None,
             decided' = [decided EXCEPT ![r] = status], UNCHANGED <<sent, learnt>>
      PROVE  Promise!Next
  <2>1. r <= sent
    BY <1>3 DEF Whereabouts, OnePerRequest, WaitsFor
  <2>2. Promise!Decide(r)
    BY <1>3, <2>1 DEF Promise!Decide
  <2>3. QED
    BY <1>3, <2>2 DEF Promise!Next, Promise!Numbers
<1>4. ASSUME NEW status \in Final, AnswerRequest(status) PROVE Promise!Next
  <2>1. requests # <<>> /\ requests' = Tail(requests)
    BY <1>4 DEF AnswerRequest
  <2>2. Head(requests) \in Held /\ WaitsFor(outgoing, Head(requests).id, Head(requests).req)
        /\ decided[Head(requests).req] = None
    BY <2>1, FirstRequest
  <2>3. QED
    BY <1>3, <1>4, <2>2 DEF AnswerRequest, Held
<1>5. CASE HoldRequest
  BY <1>5 DEF HoldRequest, history
<1>6. ASSUME NEW m \in approvals, NEW status \in Final, Approve(m, status) PROVE Promise!Next
  <2>1. m \in Held /\ WaitsFor(outgoing, m.id, m.req) /\ decided[m.req] = None
    BY DEF Whereabouts, ExchangeTypeOK, HeldAsSent
  <2>2. QED
    BY <1>3, <1>6, <2>1 DEF Approve, Held
<1>7. CASE HandleReply
  <2> DEFINE m == Head(replies)
  <2>1. /\ m \in Answer /\ WaitsFor(outgoing, m.id, m.for)
        /\ m.status # Pending => decided[m.for] = m.status
    BY <1>7, FirstReply
  <2>2. CASE m.status = Pending
    BY <1>7, <2>2 DEF HandleReply
  <2>3. CASE m.status # Pending
    <3>1. m.for \in Requests /\ decided[m.for] = m.status /\ m.status # None
      BY <2>1, <2>3 DEF Answer, Statuses, None, Pending
    <3>2. learnt[m.for] = None
      BY <2>1 DEF Whereabouts, OnePerRequest, WaitsFor
    <3>3. learnt' = [learnt EXCEPT ![m.for] = decided[m.for]] /\ UNCHANGED <<sent, decided>>
      BY <1>7, <2>1, <2>3, <3>1 DEF HandleReply, WaitsFor
    <3>4. Promise!Learn(m.for)
      BY <3>1, <3>2, <3>3 DEF Promise!Learn
    <3>5. QED
      BY <3>1, <3>4 DEF Promise!Next, Promise!Numbers
  <2>4. QED
    BY <2>2, <2>3
<1>8. CASE UNCHANGED exchange
  BY <1>8 DEF exchange, history
<1>9. QED
  BY <1>2, <1>4, <1>5, <1>6, <1>7, <1>8 DEF ExchangeNext, Respond, ApproveRequest

\* The exchange implements the safety part of the request window: it sends no more than
\* MAX_ID requests ahead of their answers, the other peer decides each once, and the
\* sender learns that decision and no other (MessageQueue.cpp:17-78).
THEOREM WindowKept == ExchangeSpec => Promise!Init /\ [][Promise!Next]_(Promise!vars)
BY PromiseInit, PromiseStep, WhereaboutsKnown, PTL DEF ExchangeSpec
=============================================================================
