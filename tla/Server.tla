-------------------------------- MODULE Server --------------------------------
(***************************************************************************)
(* A Server: the poll loop over its descriptors, the three maps a          *)
(* connection goes through (handshake, pending authorization, peer), the   *)
(* queue of events, and the application that takes them, with              *)
(* process_events or with pull_event, and accepts peers at once or later.  *)
(*                                                                         *)
(* Messages are whole here: the first of a connection is its version       *)
(* message, known by the set of versions in it, the others are requests,   *)
(* known by their number.  Module ByteStream cuts them.                *)
(***************************************************************************)
EXTENDS Integers, FiniteSets, SequencesExt

CONSTANTS
  Conns,        \* connections the other devices open, or the application dials
  Dialled,      \* bound: those the application may dial
  Fds,          \* descriptors the system has for them
  Uuids,        \* names under which devices are known
  Keys,         \* public keys
  Devices,      \* what read_peer_certificate may find in a connection's certificate
  Supported,    \* protocol versions this program knows
  Lists,        \* the lists of versions that occur; of a dialled connection, the one selected
  Malformed,    \* a version message that cannot be parsed
  None,
  MaxRequests   \* bound: requests a connection sends

ASSUME ServerAssumption ==
  /\ IsFiniteSet(Conns) /\ Dialled \subseteq Conns /\ MaxRequests \in Nat
  /\ Fds \subseteq Nat /\ IsFiniteSet(Fds) /\ Cardinality(Fds) >= Cardinality(Conns)
  /\ Devices \in [Conns -> SUBSET [uuid : Uuids, key : Keys]] /\ None \notin Keys \cup Conns
  /\ Supported \subseteq Nat /\ Supported # {} /\ IsFiniteSet(Supported)
  /\ Lists \subseteq SUBSET Nat /\ Malformed \notin Lists /\ None \notin Supported

NoFd == -1      \* what get_fd may return for a socket that is closed

VARIABLES
  conn,         \* the sockets, with what is in flight, and their (PreAuth)Peer
  handshake, pending, peers,   \* m_handshake_peers, m_pending_authorization_peers, m_peers
  fds,          \* m_fds after the slot of the listening socket
  listening,    \* not disabled
  known,        \* m_known_peers
  events,       \* m_events
  doing,        \* what the library does: "idle", "poll", "process", "pull",
                \* "connect"; "undefined" when its behaviour is no longer defined
  at,           \* the poll loop: position in m_fds; process_events: in m_events
  left,         \* the poll loop: nb_ready
  caller,       \* the call the poll loop returns to
  held,         \* connections of the CONNECT events the application keeps
  trusted,      \* history: connections the application accepted or dialled
  handed,       \* history: the requests handed to the application
  refused,      \* history: the requests answered UNAUTHORIZED
  stale         \* history: a peer was accepted after its socket had closed

serverVars == <<handshake, pending, peers, fds, listening, known, events>>
loopVars == <<doing, at, left, caller>>
history == <<held, trusted, handed, refused, stale>>
vars == <<conn, serverVars, loopVars, history>>

Version(list) == [nr |-> 0, list |-> list]
Request(n) == [nr |-> n, list |-> {}]
Messages == {Version(l) : l \in Lists \cup {Malformed}} \cup {Request(n) : n \in 1 .. MaxRequests}

Stages == {"unused", "backlog", "dialling", "open", "closed", "leaked"}
Slots == Fds \cup {NoFd}

ServerTypeOK ==
  /\ \A c \in Conns :
       /\ conn[c].stage \in Stages /\ conn[c].device \in Devices[c] \cup {None}
       /\ conn[c].fd \in Slots /\ conn[c].sent \in 0 .. MaxRequests + 1
       /\ conn[c].gone \in BOOLEAN /\ conn[c].first \in BOOLEAN
       /\ conn[c].version \in Supported \cup {None}
       /\ conn[c].inbox \in Seq(Messages) /\ conn[c].buffer \in Seq(Messages)
       /\ conn[c].parsed \in Seq(Messages)
  /\ \A map \in {handshake, pending, peers} : map \in [Slots -> Conns \cup {None}]
  /\ fds \in Seq([fd : Fds, revents : {"none", "in", "invalid"}])
  /\ listening \in BOOLEAN /\ stale \in BOOLEAN
  /\ known \in [Uuids -> Keys \cup {None}]
  /\ events \in Seq([type : {"CONNECT"}, conn : Conns \cup {None}]
                    \cup [type : {"REQUEST"}, conn : Conns, nr : 1 .. MaxRequests])
  /\ doing \in {"idle", "poll", "process", "pull", "connect", "undefined"}
  /\ at \in Nat /\ left \in Nat /\ caller \in {"process", "pull"}
  /\ held \subseteq Conns /\ trusted \subseteq Conns
  /\ handed \in [Conns -> SUBSET (1 .. MaxRequests)]
  /\ refused \in [Conns -> SUBSET (1 .. MaxRequests)]

Unopened == [stage |-> "unused", device |-> None, fd |-> NoFd, sent |-> 0, gone |-> FALSE,
             inbox |-> <<>>, buffer |-> <<>>, parsed |-> <<>>, version |-> None, first |-> TRUE]

Init ==
  /\ conn = [c \in Conns |-> Unopened]
  /\ handshake = [f \in Slots |-> None] /\ pending = handshake /\ peers = handshake
  /\ fds = <<>> /\ listening = TRUE /\ events = <<>>
  /\ known = [u \in Uuids |-> None]
  /\ doing = "idle" /\ at = 0 /\ left = 0 /\ caller = "process"
  /\ held = {} /\ trusted = {} /\ stale = FALSE
  /\ handed = [c \in Conns |-> {}] /\ refused = handed

(***************************************************************************)
(* The other devices and the network.                                      *)
(***************************************************************************)
Arrive(c) ==
  /\ listening /\ conn[c].stage = "unused"
  /\ \E d \in Devices[c] :
       conn' = [conn EXCEPT ![c].stage = "backlog", ![c].device = d]
  /\ UNCHANGED <<serverVars, loopVars, history>>

Send(c) ==
  /\ conn[c].stage \in {"backlog", "dialling", "open"} /\ ~conn[c].gone
  /\ conn[c].sent <= MaxRequests
  /\ \E m \in Messages :
       /\ m.nr = conn[c].sent
       /\ conn' = [conn EXCEPT ![c].sent = @ + 1, ![c].inbox = Append(@, m)]
  /\ UNCHANGED <<serverVars, loopVars, history>>

Leave(c) ==
  /\ conn[c].stage \in {"backlog", "dialling", "open"} /\ ~conn[c].gone
  /\ conn' = [conn EXCEPT ![c].gone = TRUE]
  /\ UNCHANGED <<serverVars, loopVars, history>>

(***************************************************************************)
(* Sockets (CppSockets) and poll_requests.                                 *)
(***************************************************************************)
Holds(stage) == stage \in {"dialling", "open", "leaked"}
FreeFds == Fds \ {conn[c].fd : c \in {d \in Conns : Holds(conn[d].stage)}}
NewFd == CHOOSE f \in FreeFds : \A g \in FreeFds : f <= g

Alive(r) == r.stage \in {"open", "dialling"}
Closed(r) == [r EXCEPT !.stage = "closed"]

\* Of a socket that has closed only the certificate and the descriptor matter, and
\* the requests its peer has parsed (m_request_buffer).
Settled(r) == IF r.stage # "closed" THEN r
              ELSE [Unopened EXCEPT !.stage = "closed", !.device = r.device, !.fd = r.fd, !.parsed = r.parsed]

\* A read waits until there is something, or the end of the connection.
Readable(r) == r.inbox # <<>> \/ r.gone
Read(r) == IF r.inbox = <<>> THEN Closed(r)
           ELSE [r EXCEPT !.buffer = @ \o r.inbox, !.inbox = <<>>]

\* What poll_requests of a PreAuthPeer comes to: the connection after it, the
\* requests it answers UNAUTHORIZED, and how it ends.
Polled(r, nrs, end) == [conn |-> Settled(r), refused |-> nrs, end |-> end]

\* Mutated Negotiate: what follows the version message in the buffer is dropped.
NegotiateAndDrop(r) ==
  LET list == Head(r.buffer).list
      common == list \cap Supported
  IN  IF list = Malformed \/ common = {} THEN {Polled(Closed(r), {}, "return")}
      ELSE {Polled([r EXCEPT !.version = CHOOSE v \in common : \A w \in common : w <= v,
                             !.first = FALSE, !.buffer = <<>>], {}, "return")}

\* Mutated Negotiate: the loop goes on with what follows the version message.
NegotiateAndGoOn(r) ==
  LET list == Head(r.buffer).list
      common == list \cap Supported
  IN  IF list = Malformed \/ common = {} THEN {Polled(Closed(r), {}, "return")}
      ELSE {Polled([r EXCEPT !.version = CHOOSE v \in common : \A w \in common : w <= v,
                             !.first = FALSE, !.buffer = <<>>],
                   {m.nr : m \in ToSet(Tail(r.buffer))}, "return")}

\* A version message that cannot be parsed closes the socket, and the number of
\* bytes it used is returned uninitialised: 0 ends the loop, a number past the
\* buffer makes substr throw, another leads to an uninitialised request.  A list
\* with no version this program knows closes it too, and what follows in the
\* buffer is then taken for a version message.
Negotiate(r) ==
  LET list == Head(r.buffer).list
      rest == Tail(r.buffer)
      good == list # Malformed /\ list \cap Supported # {}
      bad  == list = Malformed \/ (~good /\ rest # <<>>)
  IN  IF bad THEN {Polled(Closed(r), {}, end) : end \in {"return", "throw", "undefined"}}
      ELSE IF ~good THEN {Polled(Closed(r), {}, "return")}
      ELSE LET max == CHOOSE v \in list \cap Supported : \A w \in list \cap Supported : w <= v
           IN  {Polled([r EXCEPT !.version = max, !.first = FALSE, !.buffer = rest], {}, "return")}

PreAuthPoll(r0) ==
  LET r == Read(r0)
  IN  IF ~Alive(r0) THEN {Polled(r0, {}, "return")}
      ELSE IF r.buffer = <<>> THEN {Polled(r, {}, "return")}
      ELSE IF r.version = None THEN Negotiate(r)
      ELSE IF r.first THEN {Polled([r EXCEPT !.first = FALSE], {}, "return")}
      ELSE {Polled([r EXCEPT !.buffer = <<>>], {m.nr : m \in ToSet(r.buffer)}, "return")}

(***************************************************************************)
(* The poll loop.                                                          *)
(***************************************************************************)
Entry(f) == [fd |-> f, revents |-> "none"]

\* revents has a meaning during the loop only.
Unmarked(entries) == [i \in DOMAIN entries |-> Entry(entries[i].fd)]

\* Mutated DeleteMove: the last entry goes, whichever was to be removed.
DeleteLast(entries, i) == Front(entries)

\* delete_move: the last entry takes the place of the one removed.
DeleteMove(entries, i) ==
  IF i = Len(entries) THEN Front(entries) ELSE [Front(entries) EXCEPT ![i] = Last(entries)]

\* The loop goes on with the next ready entry from i on, or returns to its caller.
Advance(entries, i, n) ==
  LET ahead == {j \in i .. Len(entries) : entries[j].revents = "in"}
  IN  /\ IF n = 0 \/ ahead = {}
         THEN doing' = caller /\ at' = 1 /\ left' = 0 /\ fds' = Unmarked(entries)
         ELSE /\ doing' = "poll" /\ left' = n /\ at' = CHOOSE j \in ahead : \A k \in ahead : j <= k
              /\ fds' = entries
      /\ UNCHANGED caller

\* An exception goes through the loop and its caller to the application.
Idle == doing' = "idle" /\ at' = 0 /\ left' = 0 /\ caller' = "process"
Throw == Idle
ThrowInLoop == Idle /\ fds' = Unmarked(fds)

\* A socket nothing refers to any more is closed with its object.
Referred(c) ==
  \/ \E f \in Slots : c \in {handshake'[f], pending'[f], peers'[f]}
  \/ \E i \in DOMAIN events' : events'[i].conn = c
  \/ c \in held'
Release(after) ==
  conn' = [c \in Conns |-> IF after[c].stage = "open" /\ ~Referred(c)
                           THEN Settled(Closed(after[c])) ELSE after[c]]

\* pull_event polls when it has no event, process_events always.  The descriptor
\* of a closed socket is reported as invalid, which counts as ready.
StartPoll(call) ==
  LET owner(f) == {c \in Conns : Alive(conn[c]) /\ conn[c].fd = f}
      revents(f) == IF owner(f) = {} THEN "invalid"
                    ELSE IF \E c \in owner(f) : Readable(conn[c]) THEN "in" ELSE "none"
      entries == [i \in DOMAIN fds |-> [fds[i] EXCEPT !.revents = revents(fds[i].fd)]]
      ready == Cardinality({i \in DOMAIN fds : entries[i].revents # "none"})
      knocks == {c \in Conns : conn[c].stage = "backlog"}
  IN  /\ doing = "idle" /\ (call = "pull" => events = <<>>)
      /\ caller' = call
      /\ IF listening /\ knocks # {}
         THEN doing' = "poll" /\ at' = 0 /\ left' = ready + 1 /\ fds' = entries
         ELSE LET ahead == {i \in DOMAIN fds : entries[i].revents = "in"}
              IN  IF ahead = {} THEN doing' = call /\ at' = 1 /\ left' = 0 /\ fds' = fds
                  ELSE doing' = "poll" /\ left' = ready /\ fds' = entries
                       /\ at' = CHOOSE i \in ahead : \A j \in ahead : i <= j
      /\ UNCHANGED <<conn, handshake, pending, peers, listening, known, events, history>>

\* The listening socket.  The constructor of PreAuthPeer throws when the other
\* side has gone or has no certificate, and the socket, released from its owner,
\* is never closed.  When m_fds has to grow the iterator of the loop is left in
\* the old storage, which matters if the loop has more to do.
AcceptSocket ==
  /\ doing = "poll" /\ at = 0 /\ FreeFds # {}
  /\ \E c \in {d \in Conns : conn[d].stage = "backlog"}, grown, throws \in BOOLEAN :
       LET f == NewFd
           here == [conn EXCEPT ![c].stage = "open", ![c].fd = f]
       IN  IF throws
           THEN /\ conn[c].gone
                /\ conn' = [here EXCEPT ![c].stage = "leaked"]
                /\ ThrowInLoop /\ UNCHANGED <<handshake, pending, peers, listening, known, events, history>>
           ELSE /\ handshake' = IF handshake[f] = None THEN [handshake EXCEPT ![f] = c] ELSE handshake
                /\ UNCHANGED <<pending, peers, listening, known, events, history>>
                /\ Release(here)
                /\ IF grown /\ left > 1
                   THEN /\ doing' = "undefined" /\ fds' = Append(fds, Entry(f))
                        /\ UNCHANGED <<at, left, caller>>
                   ELSE Advance(Append(fds, Entry(f)), 1, left - 1)

Polling(map, c) ==
  /\ doing = "poll" /\ at > 0
  /\ c = map[fds[at].fd] /\ c # None
  /\ Alive(conn[c]) => Readable(conn[c])

\* What poll_requests of a Peer finds: the socket after the read, and the messages
\* in its buffer; nothing of a socket that is closed already.
Found(c) == IF Alive(conn[c]) THEN Read(conn[c]) ELSE [conn[c] EXCEPT !.buffer = <<>>]

\* pull_requests: what was parsed, now and before, becomes events.
PullRequests(c) ==
  LET f == fds[at].fd
      r == Settled([Found(c) EXCEPT !.buffer = <<>>, !.parsed = <<>>])
      requests == conn[c].parsed \o Found(c).buffer
  IN  /\ events' = events \o [i \in DOMAIN requests |->
                               [type |-> "REQUEST", conn |-> c, nr |-> requests[i].nr]]
      /\ IF Alive(r)
         THEN Advance(fds, at + 1, left - 1) /\ UNCHANGED peers
         ELSE Advance(DeleteMove(fds, at), at, left - 1) /\ peers' = [peers EXCEPT ![f] = None]
      /\ UNCHANGED <<handshake, pending, listening, known, history>>
      /\ Release([conn EXCEPT ![c] = r])

\* Bytes that cannot be parsed, or a handler that throws, after some of the messages:
\* those stay in m_request_buffer, and the buffer is kept whole, to be parsed again
\* with the bytes of the next read.
PullFails(c) ==
  /\ Found(c).buffer # <<>>
  /\ \E n \in 0 .. Len(Found(c).buffer) :
       conn' = [conn EXCEPT ![c] = Settled([Found(c) EXCEPT !.parsed = @ \o SubSeq(Found(c).buffer, 1, n)])]
  /\ ThrowInLoop
  /\ UNCHANGED <<handshake, pending, peers, listening, known, events, history>>

\* A connected peer.
PollPeer == \E c \in Conns : Polling(peers, c) /\ (PullRequests(c) \/ PullFails(c))

\* A peer that waits for authorization: its requests are answered UNAUTHORIZED.
PollPending ==
  \E c \in Conns :
    /\ Polling(pending, c) /\ peers[fds[at].fd] = None
    /\ \E p \in PreAuthPoll(conn[c]) :
         LET f == fds[at].fd
         IN  /\ p.end = "return"
             /\ refused' = [refused EXCEPT ![c] = @ \cup p.refused]
             /\ IF Alive(p.conn)
                THEN Advance(fds, at + 1, left - 1) /\ UNCHANGED pending
                ELSE Advance(DeleteMove(fds, at), at, left - 1) /\ pending' = [pending EXCEPT ![f] = None]
             /\ UNCHANGED <<handshake, peers, listening, known, events, held, trusted, handed, stale>>
             /\ Release([conn EXCEPT ![c] = p.conn])

\* KnownPeerStore::contains throws when the key is not the one under the uuid.
KeyOf(c) == known[conn[c].device.uuid]
\* Mutated Mismatch: the uuid alone is compared.
MismatchNever(c) == FALSE

Mismatch(c) == KeyOf(c) \notin {None, conn[c].device.key}

\* A peer in the handshake: once it has a version it is a peer, when it is known,
\* or it waits for authorization and the application is asked.
PollHandshake ==
  \E c \in Conns :
    /\ Polling(handshake, c) /\ peers[fds[at].fd] = None /\ pending[fds[at].fd] = None
    /\ \E p \in PreAuthPoll(conn[c]) :
         LET f == fds[at].fd
             after == [conn EXCEPT ![c] = p.conn]
             moved == [handshake EXCEPT ![f] = None]
         IN  /\ refused' = [refused EXCEPT ![c] = @ \cup p.refused]
             /\ UNCHANGED <<listening, known, held, trusted, handed, stale>>
             /\ CASE p.end = "undefined" ->
                       /\ doing' = "undefined" /\ conn' = after
                       /\ UNCHANGED <<handshake, pending, peers, fds, events, at, left, caller>>
                  [] p.end = "throw" ->
                       /\ ThrowInLoop /\ conn' = after
                       /\ UNCHANGED <<handshake, pending, peers, events>>
                  [] p.end = "return" /\ ~Alive(p.conn) ->
                       /\ Advance(DeleteMove(fds, at), at, left - 1) /\ handshake' = moved
                       /\ UNCHANGED <<pending, peers, events>> /\ Release(after)
                  [] p.end = "return" /\ Alive(p.conn) /\ p.conn.version = None ->
                       /\ Advance(fds, at + 1, left - 1) /\ conn' = after
                       /\ UNCHANGED <<handshake, pending, peers, events>>
                  [] p.end = "return" /\ Alive(p.conn) /\ p.conn.version # None ->
                       IF Mismatch(c)
                       THEN ThrowInLoop /\ conn' = after /\ UNCHANGED <<handshake, pending, peers, events>>
                       ELSE /\ handshake' = moved /\ Advance(fds, at + 1, left - 1) /\ conn' = after
                            /\ IF KeyOf(c) # None
                               THEN peers' = [peers EXCEPT ![f] = c] /\ UNCHANGED <<pending, events>>
                               ELSE /\ pending' = [pending EXCEPT ![f] = c]
                                    /\ events' = Append(events, [type |-> "CONNECT", conn |-> c])
                                    /\ UNCHANGED peers

\* A descriptor in none of the maps.
PollUnknown ==
  /\ doing = "poll" /\ at > 0
  /\ \A map \in {peers, pending, handshake} : map[fds[at].fd] = None
  /\ Advance(DeleteMove(fds, at), at, left - 1)
  /\ UNCHANGED <<conn, handshake, pending, peers, listening, known, events, history>>

(***************************************************************************)
(* The application: it takes events and answers CONNECT, at once or later. *)
(***************************************************************************)
\* What accept_peer comes to.  get_fd of a closed socket gives its old descriptor
\* or none.  KnownPeerStore::insert and insert_peer may throw.
Outcome(k, pend, conns, thrown) == [known |-> k, pending |-> pend, peers |-> conns, thrown |-> thrown]
Accepted(c, temporary) ==
  IF ~temporary /\ Mismatch(c) THEN {Outcome(known, pending, peers, TRUE)}
  ELSE LET r == conn[c]
           trust == IF temporary THEN known ELSE [known EXCEPT ![r.device.uuid] = r.device.key]
       IN  {Outcome(trust, [pending EXCEPT ![f] = None],
                    IF peers[f] = None THEN [peers EXCEPT ![f] = c] ELSE peers, peers[f] # None)
            : f \in IF Alive(r) THEN {r.fd} ELSE {r.fd, NoFd}}

Take(c, outcome) ==
  /\ known' = outcome.known /\ pending' = outcome.pending /\ peers' = outcome.peers
  /\ trusted' = trusted \cup {c} /\ stale' = (stale \/ ~Alive(conn[c]))

HandRequest(e) ==
  /\ e.type = "REQUEST"
  /\ handed' = [handed EXCEPT ![e.conn] = @ \cup {e.nr}]
  /\ UNCHANGED <<handshake, pending, peers, fds, listening, known, held, trusted, refused, stale>>

\* process_events goes through the events in order.  A REQUEST is kept until all
\* are through; the peer of a CONNECT is moved out of the event, so that one that
\* is handed over again, after an exception, comes without its peer.
Processing == doing = "process" /\ at <= Len(events)
Through == doing' = "process" /\ at' = at + 1 /\ UNCHANGED <<left, caller>>

ProcessRequest ==
  /\ Processing /\ HandRequest(events[at]) /\ Through
  /\ UNCHANGED <<conn, events>>

ProcessConnect(answer) ==
  /\ Processing /\ events[at].type = "CONNECT"
  /\ events' = [events EXCEPT ![at].conn = None]
  /\ UNCHANGED <<handshake, fds, listening, handed, refused>>
  /\ LET c == events[at].conn
     IN  CASE answer = "later" ->
                /\ held' = held \cup ({c} \ {None}) /\ Through
                /\ UNCHANGED <<pending, peers, known, trusted, stale>> /\ Release(conn)
           [] answer = "accept" /\ c = None ->
                /\ doing' = "undefined" /\ UNCHANGED <<at, left, caller>>
                /\ UNCHANGED <<pending, peers, known, held, trusted, stale, conn>>
           [] answer = "accept" /\ c # None ->
                \E outcome \in Accepted(c, FALSE) :
                  /\ Take(c, outcome) /\ held' = held
                  /\ IF outcome.thrown THEN Throw ELSE Through
                  /\ Release(conn)

ProcessEnd ==
  /\ doing = "process" /\ at > Len(events)
  /\ events' = <<>> /\ Idle
  /\ UNCHANGED <<handshake, pending, peers, fds, listening, known, history>>
  /\ Release(conn)

\* pull_event hands over the last event; the peer of a CONNECT is kept by the
\* application.
Pulling == doing = "pull" \/ doing = "idle"
Pull ==
  /\ Pulling /\ events # <<>>
  /\ events' = Front(events) /\ Idle
  /\ LET e == Last(events)
     IN  \/ HandRequest(e) /\ Release(conn)
         \/ /\ e.type = "CONNECT"
            /\ held' = held \cup ({e.conn} \ {None})
            /\ UNCHANGED <<handshake, pending, peers, fds, listening, known, trusted, handed, refused, stale>>
            /\ Release(conn)

PullNothing ==
  /\ doing = "pull" /\ events = <<>> /\ Idle
  /\ UNCHANGED <<conn, serverVars, history>>

AcceptHeld(c, temporary) ==
  /\ doing = "idle" /\ c \in held /\ held' = held \ {c}
  /\ \E outcome \in Accepted(c, temporary) : Take(c, outcome)
  /\ UNCHANGED <<handshake, fds, listening, events, loopVars, handed, refused>>
  /\ Release(conn)

\* PeerBase::disconnect on a peer the application has, or finds with get_peers and
\* get_pending_peers.
HangUp(c) ==
  /\ doing = "idle" /\ Alive(conn[c])
  /\ c \in held \/ \E f \in Slots : c \in {pending[f], peers[f]}
  /\ conn' = [conn EXCEPT ![c] = Settled(Closed(@))]
  /\ UNCHANGED <<serverVars, loopVars, history>>

(***************************************************************************)
(* Calls of the application.                                               *)
(***************************************************************************)
\* connect waits for the version the other side selects.
Connect(c) ==
  /\ doing = "idle" /\ conn[c].stage = "unused" /\ FreeFds # {}
  /\ \E d \in Devices[c] :
       conn' = [conn EXCEPT ![c].stage = "dialling", ![c].device = d, ![c].fd = NewFd]
  /\ doing' = "connect" /\ UNCHANGED <<serverVars, at, left, caller, history>>

Connecting ==
  \E c \in Conns :
    /\ doing = "connect" /\ conn[c].stage = "dialling" /\ Readable(conn[c])
    /\ \E p \in PreAuthPoll(conn[c]) :
         LET f == conn[c].fd
             after(stage) == [conn EXCEPT ![c] = Settled([p.conn EXCEPT !.stage = stage])]
         IN  /\ UNCHANGED <<handshake, pending, listening, known, events, held, handed, refused, stale>>
             /\ CASE p.end = "undefined" ->
                       /\ doing' = "undefined" /\ conn' = after("closed")
                       /\ UNCHANGED <<peers, fds, at, left, caller, trusted>>
                  [] p.end # "undefined" /\ ~Alive(p.conn) ->
                       Idle /\ conn' = after("closed") /\ UNCHANGED <<peers, fds, trusted>>
                  [] p.end # "undefined" /\ Alive(p.conn) ->
                       /\ Idle /\ fds' = Append(fds, Entry(f))
                       /\ IF peers[f] = None
                          THEN /\ peers' = [peers EXCEPT ![f] = c] /\ trusted' = trusted \cup {c}
                               /\ conn' = after("open")
                          ELSE conn' = after("closed") /\ UNCHANGED <<peers, trusted>>

\* restart, also from set_disabled: a new listening socket or none.  The
\* connections nobody accepted go with the old one.
Restart(disabled) ==
  /\ doing = "idle" /\ listening' = ~disabled
  /\ conn' = [c \in Conns |-> IF conn[c].stage = "backlog" THEN Settled(Closed(conn[c])) ELSE conn[c]]
  /\ UNCHANGED <<handshake, pending, peers, fds, known, events, loopVars, history>>

Step == \/ AcceptSocket \/ PollPeer \/ PollPending \/ PollHandshake \/ PollUnknown
        \/ ProcessRequest \/ ProcessEnd \/ Pull \/ PullNothing \/ Connecting
        \/ \E answer \in {"accept", "later"} : ProcessConnect(answer)

Application ==
  \/ \E call \in {"process", "pull"} : StartPoll(call)
  \/ \E c \in Dialled : Connect(c)
  \/ \E c \in Conns : HangUp(c) \/ \E temporary \in BOOLEAN : AcceptHeld(c, temporary)
  \/ \E disabled \in BOOLEAN : Restart(disabled)

Network == \E c \in Conns : Arrive(c) \/ Send(c) \/ Leave(c)

Next == Step \/ Application \/ Network

\* The application calls process_events or pull_event again and again, as
\* Server.hpp asks of it; a call that has started goes on.  connect waits without
\* a timeout: that the device dialled answers or leaves has to be assumed.
Answer == \E c \in Conns : conn[c].stage = "dialling" /\ (Send(c) \/ Leave(c))
Fairness == /\ WF_vars(Step) /\ WF_vars(\E call \in {"process", "pull"} : StartPoll(call))
            /\ WF_vars(Answer)

Spec == Init /\ [][Next]_vars /\ Fairness

(***************************************************************************)
(* Properties.                                                             *)
(***************************************************************************)
\* Requests are taken, and handed to the application, only from a device it
\* accepted or dialled, or one whose key is the one it accepted under that name:
\* whatever descriptors are used again and whenever peers are accepted.
OnlyTrusted ==
  LET good(c) == c \in trusted \/ known[conn[c].device.uuid] = conn[c].device.key
  IN  /\ \A f \in Slots : peers[f] # None => good(peers[f])
      /\ \A i \in DOMAIN events : events[i].type = "REQUEST" => good(events[i].conn)
      /\ \A c \in Conns : handed[c] # {} => good(c)

\* No request of an open connection disappears: it is on its way, in a buffer, in
\* an event, or it has been handed over or refused.
NothingLost ==
  \A c \in Conns : conn[c].stage \in {"open", "dialling"} =>
    \A n \in 1 .. conn[c].sent - 1 :
      \/ \E m \in ToSet(conn[c].inbox \o conn[c].buffer) : m.nr = n
      \/ \E i \in DOMAIN events : /\ events[i].type = "REQUEST"
                                  /\ events[i].conn = c /\ events[i].nr = n
      \/ n \in handed[c] \cup refused[c]

\* A connection in one of the maps is polled, and it is in one map only, unless
\* the application accepted a peer that had left.
NobodyForgotten ==
  stale \/ \A c \in Conns : conn[c].stage = "open" =>
             \/ /\ \E i \in DOMAIN fds : fds[i].fd = conn[c].fd
                /\ Cardinality({map \in {"handshake", "pending", "peers"} :
                     CASE map = "handshake" -> handshake[conn[c].fd] = c
                       [] map = "pending" -> pending[conn[c].fd] = c
                       [] map = "peers" -> peers[conn[c].fd] = c}) = 1

\* A peer that is one because its key is known, and that the application was never
\* asked about, has had no request refused: the break after the version message lets
\* it be promoted before its first request is looked at (PreAuthPeer.cpp:47-50).  One
\* that waited to be accepted may have.
KnownNeverRefused ==
  \A f \in Slots : peers[f] # None => peers[f] \in held \cup trusted \/ refused[peers[f]] = {}

\* A socket that has closed is left in a map when its last messages make the poll
\* throw, when the application disconnects a peer, and when it accepts one that has
\* left.  Its descriptor stays in m_fds, is used again, and the peer that has it then
\* is polled twice: the second read waits.
Leftover ==
  \E f \in Slots, map \in {handshake, pending, peers} :
    map[f] # None /\ conn[map[f]].stage = "closed"

\* What arrives for a peer reaches the application, unless the connection closes or
\* the loop waits for a leftover; or an exception leaves it in the buffer, where it
\* waits for more bytes.
RequestsReachApplication ==
  \A c \in Conns, n \in 1 .. MaxRequests :
    (/\ conn[c].stage = "open" /\ peers[conn[c].fd] = c
     /\ \E m \in ToSet(conn[c].inbox) : m.nr = n)
      ~> (\/ n \in handed[c] \/ \E m \in ToSet(conn[c].buffer) : m.nr = n
          \/ conn[c].stage = "closed" \/ doing = "undefined" \/ stale \/ Leftover)
=============================================================================
