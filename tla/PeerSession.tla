----------------------------- MODULE PeerSession -----------------------------
(***************************************************************************)
(* Two connected Peer objects: what each does with the messages of the     *)
(* other (authorize_request, respond_to_request, receive_reply), and the   *)
(* blocking calls send_file, receive_file and list_files the applications  *)
(* make on them.  A peer is one thread: a message is handled only while    *)
(* poll_requests runs, from a blocking call or from the server.            *)
(*                                                                         *)
(* The operators that take a peer P and return the peer after a call of    *)
(* the code compose as the calls do: P.written are the messages the call   *)
(* writes, P.thrown is the exception it ended with, which the callers pass    *)
(* on.                                                                     *)
(*                                                                         *)
(* A transfer is known by its file and the number of packets that are      *)
(* left of it; modules DownloadTransfer and FileTransfer have the rest.    *)
(***************************************************************************)
EXTENDS MessageIds, Sequences

CONSTANTS
  Peers,      \* the two peers
  Files,      \* virtual paths
  Visible,    \* the paths both peers have a file for and share
  Packets,    \* packets of every file, the last of which ends it
  Pages,      \* FILE_LIST packets of every listing, the last of which is empty
  Burst,      \* packets sent when a transfer is accepted, 5 in the code
  Scripts,    \* bound: the sets of calls one of which the applications make
  MaxBatch    \* bound: messages one read returns

NoRef == MaxId + 1

\* A request. ref is the request_id of a packet.  In SEND_FILE it is no part of
\* the message: it tells the RECEIVE_FILE this answers from one nobody asked for.
Req(code, file, ref, last) == [code |-> code, file |-> file, ref |-> ref, last |-> last]

RequestCodes == {"SEND_FILE", "RECEIVE_FILE", "LIST_FILES", "DATA_PACKET", "FILE_LIST"}

ASSUME SessionAssumption ==
  /\ \E p, q \in Peers : p # q /\ Peers = {p, q}
  /\ Visible \subseteq Files
  /\ Packets \in Nat \ {0} /\ Pages \in Nat \ {0} /\ Burst \in Nat \ {0} /\ MaxBatch \in Nat \ {0}
  /\ Requests = [code : RequestCodes, file : Files, ref : Ids \cup {NoRef}, last : BOOLEAN]
  /\ {"STATUS_OK", "UP_TO_DATE", "FILE_NOT_FOUND", "INVALID_REQUEST_ID", "FORBIDDEN"} \subseteq Final
  /\ \A c \in UNION Scripts : c \in [by : Peers, call : {"send_file", "receive_file", "list_files"},
                                      file : Files, nth : Nat]

VARIABLES
  peer,       \* the two Peer objects
  wire,       \* wire[p]: messages on their way to p
  batch,      \* m_buffer of p: messages read and not yet truncated
  done,       \* the message of the batch p handles; 0 when p does not poll
  call,       \* the blocking call p is in
  todo,       \* the calls still to be made
  events      \* history: the exceptions thrown, and the SEND_FILE requests
              \* accepted at once that answer no RECEIVE_FILE

vars == <<peer, wire, batch, done, call, todo, events>>

Other(p) == CHOOSE q \in Peers : q # p

\* A transfer in one of the four maps of a peer; it is finished when nothing is
\* left of it.
NoTransfer       == [live |-> FALSE, file |-> CHOOSE f \in Files : TRUE, left |-> 0, keep |-> FALSE]
Transfer(f, n)   == [NoTransfer EXCEPT !.live = TRUE, !.file = f, !.left = n]
\* emplace and try_emplace leave an entry that is there.
Emplaced(old, t) == IF old.live THEN old ELSE t

NewPeer == [
  next      |-> 0,                                  \* MessageQueue
  slots     |-> MaxId,
  hung      |-> FALSE,                              \* send_request looks for an id in vain
  out       |-> [id \in Ids |-> NoMessage],
  in        |-> [id \in Ids |-> NoMessage],
  uploads   |-> [id \in Ids |-> NoTransfer],        \* m_upload_transfers
  downloads |-> [id \in Ids |-> NoTransfer],        \* m_download_transfers
  lists     |-> [id \in Ids |-> NoTransfer],        \* m_list_files_transfers
  listings  |-> [id \in Ids |-> NoTransfer],        \* m_file_list_transfers
  asked     |-> {},                                 \* requests awaiting approval
  written   |-> <<>>,
  thrown    |-> "nothing"]

\* id is that of the request, key that of the download a receive_file waits for.
NoCall == [call |-> "none", phase |-> "none", file |-> NoTransfer.file, id |-> 0, key |-> 0]

Init ==
  /\ peer = [p \in Peers |-> NewPeer]
  /\ wire = [p \in Peers |-> <<>>]
  /\ batch = [p \in Peers |-> <<>>]
  /\ done = [p \in Peers |-> 0]
  /\ call = [p \in Peers |-> NoCall]
  /\ todo \in Scripts
  /\ events = {}

-----------------------------------------------------------------------------
\* Peer::send_request, send_reply, receive_reply

\* The id that is found, if there is one.
NewId(P) == CHOOSE id \in Ids : Open(P.out) # Ids => Finds(P.out, P.next, id)

\* Without a slot it throws; with one and no id it never returns.
SendRequest(P, r) ==
  CASE P.slots = 0 -> [P EXCEPT !.thrown = "no slot"]
    [] P.slots > 0 /\ Open(P.out) = Ids -> [P EXCEPT !.slots = @ - 1, !.hung = TRUE]
    [] OTHER ->
         [P EXCEPT !.slots = @ - 1, !.next = Succ(NewId(P)), !.out[NewId(P)] = Message(r),
                   !.written = Append(@, [type |-> "REQUEST", id |-> NewId(P), req |-> r])]

SendReply(P, id, status) ==
  [P EXCEPT !.in[id].status = status,
            !.written = Append(@, [type |-> "RESPONSE", id |-> id, status |-> status])]

\* MessageQueue::receive_reply
Settle(P, id, status) ==
  [P EXCEPT !.out[id].status = status, !.slots = SlotsAfterReply(@, P.out[id].status, status)]

\* get_next_packet of upload id, and DATA_PACKET with it.
SendPacket(P, id) ==
  SendRequest([P EXCEPT !.uploads[id].left = @ - 1],
              Req("DATA_PACKET", P.uploads[id].file, id, P.uploads[id].left = 1))

\* n packets of upload id, one after the other.
SendPackets(P, id, n) ==
  LET after[i \in 0 .. n] == IF i = 0 THEN P ELSE SendPacket(after[i - 1], id)
  IN  after[n]

SendPage(P, id) ==
  SendRequest([P EXCEPT !.lists[id].left = @ - 1],
              Req("FILE_LIST", P.lists[id].file, id, P.lists[id].left = 1))

Least(S) == CHOOSE n \in S : \A m \in S : n <= m

\* create_upload
CreateUpload(P, f, ref) ==
  LET Q == SendRequest(P, Req("SEND_FILE", f, ref, FALSE))
  IN  IF Q.thrown # "nothing" \/ Q.hung THEN Q
      ELSE [Q EXCEPT !.uploads[NewId(P)] = Emplaced(@, Transfer(f, Packets))]

\* Mutated Recorded: the status is that of the reply.
RecordedAsReplied(r, reply) == reply

\* The status receive_reply records: STATUS_OK for a RECEIVE_FILE is not the end
\* of it, the SEND_FILE is.
Recorded(r, reply) ==
  IF reply = "STATUS_OK" /\ r.code = "RECEIVE_FILE" THEN Pending ELSE reply

\* receive_reply
ReceiveReply(P, id, reply) ==
  LET r      == P.out[id].req
      status == Recorded(r, reply)
      Q      == Settle(P, id, status)
      up     == Q.uploads[r.ref]
      list   == Q.lists[r.ref]
  IN  CASE status # "STATUS_OK" -> Q
        [] status = "STATUS_OK" /\ r.code = "DATA_PACKET" ->
             IF ~up.live THEN Q
             ELSE IF up.left > 0 THEN SendPacket(Q, r.ref)
             ELSE [Q EXCEPT !.uploads[r.ref] = NoTransfer]
        [] status = "STATUS_OK" /\ r.code = "SEND_FILE" ->
             IF ~Q.uploads[id].live THEN [Q EXCEPT !.thrown = "no upload"]
             ELSE SendPackets(Q, id, Least({Burst, Q.uploads[id].left, Q.slots}))
        [] status = "STATUS_OK" /\ r.code = "LIST_FILES" ->
             [Q EXCEPT !.listings[id] = Emplaced(@, Transfer(r.file, 1))]
        [] status = "STATUS_OK" /\ r.code = "FILE_LIST" ->
             IF ~list.live THEN Q
             ELSE IF list.left > 0 THEN SendPage(Q, r.ref)
             ELSE [Q EXCEPT !.uploads[id] = NoTransfer]
        [] OTHER -> Q

-----------------------------------------------------------------------------
\* respond_to_request and authorize_request

\* Mutated Taken: no packet finishes the transfer.
TakenForever(t, r) == t

\* A transfer takes a packet; the packet marked last finishes it.
Taken(t, r) == IF r.last THEN [t EXCEPT !.left = 0] ELSE t

\* respond_to_request with STATUS_OK.  current says that create_download finds the
\* file up to date.  "no page" is a null pointer dereferenced: a listing that
\* has ended was still under the id of a new LIST_FILES.
Respond(P, id, r, current) ==
  LET Q    == [P EXCEPT !.in[id] = Message(r)]
      down == Taken(Q.downloads[r.ref], r)
  IN  CASE r.code = "DATA_PACKET" ->
             IF ~Q.downloads[r.ref].live THEN SendReply(Q, id, "INVALID_REQUEST_ID")
             ELSE SendReply([Q EXCEPT !.downloads[r.ref] =
                               IF down.left = 0 /\ ~down.keep THEN NoTransfer ELSE down],
                            id, "STATUS_OK")
        [] r.code = "SEND_FILE" ->
             IF current THEN SendReply(Q, id, "UP_TO_DATE")
             ELSE SendReply([Q EXCEPT !.downloads[id] = Emplaced(@, Transfer(r.file, 1))],
                            id, "STATUS_OK")
        [] r.code = "RECEIVE_FILE" ->
             IF r.file \notin Visible THEN SendReply(Q, id, "FILE_NOT_FOUND")
             ELSE CreateUpload(SendReply(Q, id, "STATUS_OK"), r.file, id)
        [] r.code = "LIST_FILES" ->
             LET L == SendReply([Q EXCEPT !.lists[id] = Emplaced(@, Transfer(r.file, Pages))],
                                id, "STATUS_OK")
             IN  IF L.lists[id].left = 0 THEN [L EXCEPT !.thrown = "no page"] ELSE SendPage(L, id)
        [] r.code = "FILE_LIST" ->
             IF ~Q.listings[r.ref].live THEN SendReply(Q, id, "INVALID_REQUEST_ID")
             ELSE SendReply([Q EXCEPT !.listings[r.ref] = Taken(@, r)], id, "STATUS_OK")

\* respond_to_request with another status.
Refuse(P, id, r, status) == SendReply([P EXCEPT !.in[id] = Message(r)], id, status)

\* Mutated Matches: no SEND_FILE is taken for an answer.
MatchesNone(P, r) == {}

\* Mutated Matches: the paths are not compared.
MatchesAnyPath(P, r) == {id \in Ids : /\ P.out[id].status # Absent
                                      /\ P.out[id].req.code = "RECEIVE_FILE"}

\* The RECEIVE_FILE requests a SEND_FILE is taken to answer: any that was sent for
\* the path, whatever its status.  The search takes the first one in the order
\* of the map, which nothing specifies.
Matches(P, r) == {id \in Ids : /\ P.out[id].status # Absent
                               /\ P.out[id].req.code = "RECEIVE_FILE"
                               /\ P.out[id].req.file = r.file}

\* A SEND_FILE is taken for the answer to one of the requests it matches.
Accepts(P, id, r) ==
  {Respond(Settle(P, match, "STATUS_OK"), id, r, current) :
     match \in Matches(P, r), current \in BOOLEAN}

\* The application is asked.
Asks(P, id, r) == [Refuse(P, id, r, Pending) EXCEPT !.asked = @ \cup {[id |-> id, req |-> r]}]

\* What authorize_request may make of a request.
Authorized(P, id, r) ==
  CASE r.code = "SEND_FILE" /\ Matches(P, r) # {} -> Accepts(P, id, r)
    [] r.code = "SEND_FILE" /\ Matches(P, r) = {} ->
         {Asks(P, id, r)}
    [] r.code = "LIST_FILES" /\ r.file \notin Visible ->
         {Refuse(P, id, r, "FILE_NOT_FOUND")}
    [] OTHER -> {Respond(P, id, r, FALSE)}

Handled(P, m) ==
  IF m.type = "REQUEST" THEN Authorized(P, m.id, m.req)
  ELSE IF P.out[m.id].status = Absent THEN {P}
  ELSE {ReceiveReply(P, m.id, m.status)}

-----------------------------------------------------------------------------
\* Polling

\* Q is peer p after a call: what it wrote is on the wire.
Becomes(p, Q) ==
  /\ peer' = [peer EXCEPT ![p] = [Q EXCEPT !.written = <<>>, !.thrown = "nothing"]]
  /\ wire' = [wire EXCEPT ![Other(p)] = @ \o Q.written]

\* The blocking call of p goes on without polling.
Ready(p) ==
  LET c == call[p]
      P == peer[p]
  IN  CASE c.phase = "none"    -> FALSE
        [] c.phase = "waiting" -> P.out[c.id].status \notin Unanswered
        [] c.phase = "pushing" -> P.uploads[c.id].left = 0 \/ P.slots > 0
        [] c.phase = "looping" -> (IF c.call = "receive_file" THEN P.downloads[c.key]
                                                              ELSE P.listings[c.id]).left = 0

\* poll_requests, once there is something to read; what an exception left in the
\* buffer comes first.
Poll(p) ==
  /\ ~peer[p].hung /\ done[p] = 0 /\ ~Ready(p)
  /\ \E n \in 1 .. MaxBatch :
       /\ n <= Len(wire[p])
       /\ batch' = [batch EXCEPT ![p] = @ \o SubSeq(wire[p], 1, n)]
       /\ wire' = [wire EXCEPT ![p] = SubSeq(@, n + 1, Len(@))]
  /\ done' = [done EXCEPT ![p] = 1]
  /\ UNCHANGED <<peer, call, todo, events>>

\* Whether Q, which p becomes, accepted at once a SEND_FILE nobody asked for.
Unasked(p, m, Q) ==
  /\ m.type = "REQUEST" /\ m.req.code = "SEND_FILE" /\ m.req.ref = NoRef
  /\ Q.in[m.id].status # Pending

\* authorize_request for the next message of the batch.  An exception goes through
\* to the application: the call is over, the batch is handled again.
Handle(p) ==
  /\ ~peer[p].hung /\ done[p] \in 1 .. Len(batch[p])
  /\ LET m == batch[p][done[p]]
     IN  \E Q \in Handled(peer[p], m) :
           /\ Becomes(p, Q)
           /\ done' = [done EXCEPT ![p] = IF Q.thrown = "nothing" THEN @ + 1 ELSE 0]
           /\ call' = IF Q.thrown = "nothing" THEN call ELSE [call EXCEPT ![p] = NoCall]
           /\ events' = events \cup ({Q.thrown} \ {"nothing"})
                               \cup (IF Unasked(p, m, Q) THEN {"accepted unasked"} ELSE {})
  /\ UNCHANGED <<batch, todo>>

PollEnds(p) ==
  /\ ~peer[p].hung /\ batch[p] # <<>> /\ done[p] = Len(batch[p]) + 1
  /\ batch' = [batch EXCEPT ![p] = <<>>]
  /\ done' = [done EXCEPT ![p] = 0]
  /\ UNCHANGED <<peer, wire, call, todo, events>>

-----------------------------------------------------------------------------
\* The calls of the applications

\* Up to the first poll of wait_for_status; a call that finds no slot throws and
\* leaves nothing behind.
Call(p, c) ==
  /\ c \in todo /\ c.by = p
  /\ ~peer[p].hung /\ call[p] = NoCall /\ done[p] = 0 /\ peer[p].slots > 0
  /\ LET P == peer[p]
     IN  /\ Becomes(p, CASE c.call = "send_file"    -> CreateUpload(P, c.file, NoRef)
                         [] c.call = "receive_file" -> SendRequest(P, Req("RECEIVE_FILE", c.file, NoRef, FALSE))
                         [] c.call = "list_files"   -> SendRequest(P, Req("LIST_FILES", c.file, NoRef, FALSE)))
         /\ call' = [call EXCEPT ![p] = [NoCall EXCEPT !.call = c.call, !.phase = "waiting",
                                                       !.file = c.file, !.id = NewId(P)]]
  /\ todo' = todo \ {c}
  /\ UNCHANGED <<batch, done, events>>

\* The call of p is over; error is the exception it ends with.
Return(p, Q, error) ==
  /\ Becomes(p, Q)
  /\ call' = [call EXCEPT ![p] = NoCall]
  /\ events' = events \cup ({error} \ {"nothing"})

\* The call of p goes on.
Continue(p, Q, c) ==
  /\ Becomes(p, Q)
  /\ call' = [call EXCEPT ![p] = c]
  /\ UNCHANGED events

Resumes(p, name, phase) ==
  /\ ~peer[p].hung /\ done[p] = 0 /\ call[p].call = name /\ call[p].phase = phase /\ Ready(p)
  /\ UNCHANGED <<batch, done, todo>>

\* send_file, after wait_for_status
SendFileAnswered(p) ==
  LET P == peer[p]
      c == call[p]
  IN  /\ Resumes(p, "send_file", "waiting")
      /\ IF P.out[c.id].status = "STATUS_OK"
         THEN Continue(p, P, [c EXCEPT !.phase = "pushing"])
         ELSE Return(p, [P EXCEPT !.uploads[c.id] = NoTransfer], "nothing")

\* The loop of send_file: a packet into a free slot, or return.
SendFileLoop(p) ==
  LET P == peer[p]
      c == call[p]
  IN  /\ Resumes(p, "send_file", "pushing")
      /\ IF P.uploads[c.id].left > 0 THEN Continue(p, SendPacket(P, c.id), c)
                                     ELSE Return(p, P, "nothing")

\* receive_file, after wait_for_status: it looks among the requests received for
\* the SEND_FILE, by its path, and takes the first in the order of the map.
ReceiveFileAnswered(p) ==
  LET P     == peer[p]
      c     == call[p]
      found == {id \in Ids : /\ P.in[id].status # Absent
                             /\ P.in[id].req.code = "SEND_FILE" /\ P.in[id].req.file = c.file}
  IN  /\ Resumes(p, "receive_file", "waiting")
      /\ \/ P.out[c.id].status # "STATUS_OK" /\ Return(p, P, "nothing")
         \/ P.out[c.id].status = "STATUS_OK" /\ found = {} /\ Return(p, P, "no download")
         \/ /\ P.out[c.id].status = "STATUS_OK"
            /\ \E id \in found :
                 \/ P.in[id].status = "UP_TO_DATE" /\ Return(p, P, "nothing")
                 \/ /\ P.in[id].status # "UP_TO_DATE" /\ ~P.downloads[id].live
                    /\ Return(p, P, "no download")
                 \/ /\ P.in[id].status # "UP_TO_DATE" /\ P.downloads[id].live
                    /\ Continue(p, [P EXCEPT !.downloads[id].keep = TRUE],
                                [c EXCEPT !.phase = "looping", !.key = id])

ReceiveFileLoop(p) ==
  /\ Resumes(p, "receive_file", "looping")
  /\ Return(p, [peer[p] EXCEPT !.downloads[call[p].key] = NoTransfer], "nothing")

\* list_files, after wait_for_status
ListFilesAnswered(p) ==
  LET P == peer[p]
      c == call[p]
  IN  /\ Resumes(p, "list_files", "waiting")
      /\ CASE P.out[c.id].status # "STATUS_OK" -> Return(p, P, "nothing")
           [] P.out[c.id].status = "STATUS_OK" /\ ~P.listings[c.id].live -> Return(p, P, "no listing")
           [] OTHER -> Continue(p, P, [c EXCEPT !.phase = "looping"])

ListFilesLoop(p) ==
  /\ Resumes(p, "list_files", "looping")
  /\ Return(p, [peer[p] EXCEPT !.listings[call[p].id] = NoTransfer], "nothing")

\* The application, between its calls, answers a request it was asked about.
Answer(p) ==
  /\ ~peer[p].hung /\ call[p] = NoCall /\ done[p] = 0
  /\ \E a \in peer[p].asked :
       LET P == [peer[p] EXCEPT !.asked = @ \ {a}]
       IN  \/ \E current \in BOOLEAN : Becomes(p, Respond(P, a.id, a.req, current))
           \/ Becomes(p, Refuse(P, a.id, a.req, "FORBIDDEN"))
  /\ UNCHANGED <<batch, done, call, todo, events>>

Resume(p) ==
  \/ SendFileAnswered(p) \/ SendFileLoop(p)
  \/ ReceiveFileAnswered(p) \/ ReceiveFileLoop(p)
  \/ ListFilesAnswered(p) \/ ListFilesLoop(p)

Work(p) == Poll(p) \/ Handle(p) \/ PollEnds(p) \/ Resume(p)

Next == \E p \in Peers : Work(p) \/ Answer(p) \/ \E c \in UNION Scripts : Call(p, c)

\* The steps of Next that move p on in its batch are those of Handle(p), and one
\* of them is enabled whenever Handle(p) is.
Moves(p) ==
  /\ ~peer[p].hung /\ done[p] \in 1 .. Len(batch[p])
  /\ \E n \in 0 .. Len(batch[p]) + 1 : n # done[p] /\ done' = [done EXCEPT ![p] = n]

\* Each application keeps polling, goes on with its calls and answers what it is
\* asked.
Fairness ==
  \A p \in Peers : /\ WF_vars(Poll(p) \/ PollEnds(p)) /\ WF_done(Moves(p))
                   /\ WF_vars(Resume(p)) /\ WF_vars(Answer(p))

Spec == Init /\ [][Next]_vars /\ Fairness
-----------------------------------------------------------------------------

Transfers == [Ids -> [live : BOOLEAN, file : Files, left : 0 .. Packets + Pages, keep : BOOLEAN]]
OnWire    == [type : {"REQUEST"}, id : Ids, req : Requests]
             \cup [type : {"RESPONSE"}, id : Ids, status : Statuses]

\* Every variable has its type; no call leaves messages unwritten.
SessionTypeOK ==
  /\ peer \in [Peers -> [next : Ids, slots : Ids, hung : BOOLEAN, out : [Ids -> Messages], in : [Ids -> Messages],
                         uploads : Transfers, downloads : Transfers, lists : Transfers,
                         listings : Transfers, asked : SUBSET [id : Ids, req : Requests],
                         written : {<<>>}, thrown : {"nothing"}]]
  /\ \A p \in Peers : wire[p] \in Seq(OnWire) /\ batch[p] \in Seq(OnWire)
  /\ \A p \in Peers : done[p] \in 0 .. Len(batch[p]) + 1
  /\ call \in [Peers -> [call : {"none", "send_file", "receive_file", "list_files"},
                         phase : {"none", "waiting", "pushing", "looping"},
                         file : Files, id : Ids, key : Ids]]
  /\ todo \subseteq UNION Scripts
  /\ events \subseteq {"no slot", "no upload", "no download", "no listing", "no page",
                        "accepted unasked"}

\* Nothing moves on its own: no message is under way and no call can go on.
Quiet == \A p \in Peers : wire[p] = <<>> /\ done[p] = 0 /\ ~Ready(p) /\ peer[p].asked = {}

\* The slots of each peer are MAX_ID less its unanswered requests, through the
\* APPROVAL_PENDING that receive_reply makes of the answer to a RECEIVE_FILE
\* (Peer_private.cpp:84, 131-136, MessageQueue.cpp:70-76).
SlotsAccounted ==
  \A p \in Peers : peer[p].slots + Cardinality(Open(peer[p].out)) = MaxId

\* No message makes its handler throw, and no call fails to find the transfer it
\* asked for (Peer.cpp:174, 199, Peer_private.cpp:37, 159).
NoException == events \subseteq {"accepted unasked"}

\* When nothing moves any more, no call still waits (Peer_private.cpp:276-285), no
\* download is unfinished and no RECEIVE_FILE is unsettled.
NobodyLeftWaiting ==
  Quiet => \A p \in Peers :
    /\ call[p] = NoCall
    /\ Open(peer[p].out) = {}
    /\ \A id \in Ids : ~peer[p].downloads[id].live

\* A SEND_FILE accepted in reply to a RECEIVE_FILE settles that request, and no
\* other in its place (Peer_private.cpp:82-86): it is settled, or gone and its id
\* in use again.
OwnRequestSettled ==
  \A p \in Peers, id \in Ids :
    LET m     == peer[p].in[id]
        asked == peer[p].out[m.req.ref]
    IN  m.req.code = "SEND_FILE" /\ m.req.ref # NoRef /\ m.status \in Final
          => \/ asked.status \in Final
             \/ asked.req.code # "RECEIVE_FILE" \/ asked.req.file # m.req.file

\* SEND_FILE is accepted without asking only in reply to a RECEIVE_FILE
\* (Peer_private.cpp:70, 82-86).
UnaskedOnlyInReply == "accepted unasked" \notin events

\* Every call returns.
CallsReturn == \A p \in Peers : (call[p] # NoCall) ~> (call[p] = NoCall)
=============================================================================
