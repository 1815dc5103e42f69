------------------------------ MODULE ByteStream ------------------------------
(***************************************************************************)
(* The bytes from one peer to the other and the polls that turn them into  *)
(* messages again (PeerBase::poll_requests): the version message first,    *)
(* which settles the protocol, then requests.  A read returns any part of  *)
(* what is under way; what does not make a whole message stays in the      *)
(* buffer.  When a message cannot be parsed or its handler throws, nothing *)
(* is taken out of the buffer.                                             *)
(***************************************************************************)
EXTENDS MessageFormat

CONSTANTS
  None,
  Messages,     \* the requests the peer may send
  Offers,       \* lists of versions a client may have
  MaxSent,      \* bound: requests sent
  MaxFailures   \* bound: handlers that throw

VARIABLES
  type,      \* m_type of the receiving PreAuthPeer: it reads a list or a choice of versions
  offered,   \* the versions the other peer put in its message
  agreed,    \* m_protocol
  sent, wire, buffer,
  done, reached, batch, held,   \* see MessageStream
  failures

vars == <<type, offered, agreed, sent, wire, buffer, done, reached, batch, held, failures>>

\* The other peer opens with its own list, or with its choice from ours.
Init ==
  /\ type \in {"SERVER", "CLIENT"} /\ agreed = None /\ sent = <<>> /\ buffer = <<>>
  /\ IF type = "SERVER"
     THEN offered \in Offers /\ wire = ClientVersionList(offered)
     ELSE \E list \in Offers : /\ list \cap Supported # {} /\ offered = {Max(list \cap Supported)}
                               /\ wire = ServerSelectedVersion(Max(list \cap Supported))
  /\ done = 0 /\ reached = 0 /\ batch = <<>> /\ held = FALSE /\ failures = 0

\* A client waits for the choice of the server, a server does not wait any more.
Send(message) ==
  /\ Len(sent) < MaxSent /\ (type = "SERVER" => agreed # None)
  /\ sent' = Append(sent, Sent(message)) /\ wire' = wire \o FormatRequest(message)
  /\ UNCHANGED <<type, offered, agreed, buffer, done, reached, batch, held, failures>>

ParseVersion(raw) ==
  IF type = "CLIENT" THEN ParseServerVersion(raw) ELSE ParseClientVersion(raw)

Drop(bytes, n) == SubSeq(bytes, n + 1, Len(bytes))

\* poll_requests before there is a protocol: the loop ends after the version
\* message, whatever follows it (m_first_extra_request).
Negotiate(read) ==
  /\ agreed = None
  /\ \E parsed \in {ParseVersion(read)} :
      /\ ~parsed.thrown
      /\ IF parsed.used = 0 \/ Known(parsed.value) = {}
         THEN UNCHANGED <<agreed, held>>
         ELSE agreed' = Selected(parsed.value) /\ held' = (Len(read) > parsed.used)
      /\ buffer' = Drop(read, parsed.used)
      /\ UNCHANGED <<done, reached, batch, failures>>

\* The loop of poll_requests: from a state of it to the next, until it stops.
Loop(view, requests, stopped) == [view |-> view, requests |-> requests, stopped |-> stopped]
GoOn(loop, parsed) ==
  CASE parsed.thrown -> [loop EXCEPT !.stopped = "thrown"]
    [] ~parsed.thrown /\ parsed.used = 0 -> [loop EXCEPT !.stopped = "break"]
    [] ~parsed.thrown /\ parsed.used # 0 ->
         Loop(Drop(loop.view, parsed.used), loop.requests \o SetToSeq(parsed.value), "")
Turn(loop, turn) == IF loop.stopped # "" THEN loop ELSE GoOn(loop, ParseRequest(loop.view))
Turns(view) == FoldLeft(Turn, Loop(view, <<>>, ""), [i \in 1 .. MaxSent + 1 |-> i])

\* poll_requests with a protocol; the handler of one request may throw, and those
\* after it wait for the next read.
Handle(read) ==
  /\ agreed # None /\ UNCHANGED agreed
  /\ \E loop \in {Turns(read)} :
      /\ \/ /\ batch' = loop.requests
            /\ IF loop.stopped = "thrown"
               THEN buffer' = read /\ UNCHANGED done
               ELSE buffer' = loop.view /\ done' = done + Len(loop.requests)
            /\ held' = FALSE /\ UNCHANGED failures
         \/ /\ failures < MaxFailures /\ failures' = failures + 1
            /\ \E n \in DOMAIN loop.requests :
                 batch' = SubSeq(loop.requests, 1, n) /\ held' = (n < Len(loop.requests))
            /\ buffer' = read /\ UNCHANGED done
      /\ reached' = Max({reached, done + Len(batch')})

Read(n) == n \in 1 .. Len(wire) /\ wire' = Drop(wire, n)

Poll(n) ==
  /\ Read(n)
  /\ LET read == buffer \o SubSeq(wire, 1, n) IN Negotiate(read) \/ Handle(read)
  /\ UNCHANGED <<type, offered, sent>>

Next ==
  \/ \E message \in Messages : Send(message)
  \/ \E n \in 1 .. Len(wire) : Poll(n)

\* A peer is polled as long as there is something to read, and only a poll reads.
Spec == Init /\ [][Next]_vars /\ WF_wire(\E n \in 1 .. Len(wire) : Read(n))

(***************************************************************************)
(* Properties.                                                             *)
(***************************************************************************)
Promise == INSTANCE MessageStream WITH Messages <- {Sent(message) : message \in Messages}

\* However the bytes are cut, each poll hands over the messages that were sent, as
\* they were sent, in order and without a gap, and in the end all of them.
KeepsStream == Promise!Spec

\* Both sides settle on one version: the greatest the two know, and the one the
\* server chose.
VersionAgreed ==
  agreed # None => /\ agreed \in offered \cap Supported
                   /\ \A v \in offered \cap Supported : v <= agreed
===============================================================================
