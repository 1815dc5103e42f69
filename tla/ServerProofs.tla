------------------------------ MODULE ServerProofs ------------------------------
(***************************************************************************)
(* The server, for any number of connections, devices, names and requests: *)
(* the requests the application gets come from devices it trusts, whatever *)
(* descriptors are used again and whenever peers are accepted (Inv); the   *)
(* devices it knows are not refused (MapInv); no request is lost between   *)
(* the socket and the application (LossInv); and no connection is left     *)
(* open in no map, or in a map without a descriptor to poll (PlaceInv).    *)
(***************************************************************************)
EXTENDS Server, SequenceTheorems, FiniteSetTheorems, WellFoundedInduction, TLAPS

USE ServerAssumption DEF ServerAssumption

Certificates == [uuid : Uuids, key : Keys]

\* What may be selected of the lists that occur.
Selected == {CHOOSE v \in l : \A w \in l : w <= v : l \in SUBSET Supported}

Socket ==
  [stage : Stages, device : Certificates \cup {None}, fd : Slots, sent : Nat, gone : BOOLEAN,
   inbox : Seq(Messages), buffer : Seq(Messages), parsed : Seq(Messages), version : Selected \cup {None}, first : BOOLEAN]

Entries == [fd : Slots, revents : {"none", "in", "invalid"}]

\* Where the loops are.
Position ==
  /\ at \in Nat /\ caller \in {"process", "pull"}
  /\ doing = "poll" => at \in 0 .. Len(fds)
  /\ doing = "process" => at >= 1

TypeInv ==
  /\ conn \in [Conns -> Socket] /\ fds \in Seq(Entries)
  /\ known \in [Uuids -> Keys \cup {None}] /\ handed \in [Conns -> SUBSET Nat]
  /\ Position

Used(r) == r.stage # "unused"
Opened == {c \in Conns : Used(conn[c])}
Identified == \A c \in Opened : conn[c].device \in Certificates

\* The connections the application has a reason to trust.
Trustees == {c \in Opened : c \in trusted \/ KeyOf(c) = conn[c].device.key}

EventsOf(S, G) == [type : {"CONNECT"}, conn : S \cup {None}] \cup [type : {"REQUEST"}, conn : G, nr : Nat]

\* Everything the server refers to is in S, all that the application is to hear of in G.
Refers(S, G) ==
  /\ handshake \in [Slots -> S \cup {None}] /\ pending \in [Slots -> S \cup {None}]
  /\ peers \in [Slots -> G \cup {None}]
  /\ events \in Seq(EventsOf(S, G))
  /\ held \subseteq S
  /\ \A c \in Conns : handed[c] # {} => c \in G

Inv == TypeInv /\ Identified /\ Refers(Opened, Trustees)

\* A connection keeps its device.
Successor(after) ==
  /\ after \in [Conns -> Socket]
  /\ \A c \in Opened : Used(after[c]) /\ after[c].device = conn[c].device
  /\ \A c \in Conns : Used(after[c]) => after[c].device \in Certificates

\* A name keeps its key.
KeysKept(store) ==
  /\ store \in [Uuids -> Keys \cup {None}]
  /\ \A u \in Uuids : known[u] # None => store[u] = known[u]

\* A step from S and G: what it refers to it knew before, or trusts now.
Reach(S, G) ==
  /\ S = Opened /\ G \subseteq S /\ Trustees \subseteq G /\ trusted' \cap S \subseteq G
  /\ TypeInv /\ Identified /\ Refers(S, G)

Lands(S, G) ==
  /\ Successor(conn') /\ KeysKept(known') /\ trusted \subseteq trusted'
  /\ fds' \in Seq(Entries) /\ handed' \in [Conns -> SUBSET Nat] /\ Position'
  /\ Refers(S, G)'

-----------------------------------------------------------------------------
\* A nonempty set of numbers has a least one.
LEMMA Least ==
  ASSUME NEW T, T \subseteq Nat, T # {}
  PROVE  \E x \in T : \A y \in T : x <= y
<1>1. PICK x \in T : \A y \in T : <<y, x>> \notin OpToRel(<, Nat)
  BY WFMin, NatLessThanWellFounded, Zenon
<1>2. \A y \in T : ~(y < x)
  BY <1>1 DEF OpToRel
<1> QED BY <1>2

LEMMA NewFdType ==
  ASSUME TypeInv, FreeFds # {}
  PROVE  NewFd \in Fds
<1>1. FreeFds \subseteq Fds BY DEF FreeFds
<1>2. \E f \in FreeFds : \A g \in FreeFds : f <= g BY <1>1, Least
<1> QED BY <1>1, <1>2 DEF NewFd

LEMMA SettledType ==
  ASSUME NEW r \in Socket
  PROVE  /\ Settled(r) \in Socket /\ Settled(r).device = r.device /\ Settled(r).stage = r.stage
         /\ Settled(Closed(r)) \in Socket /\ Settled(Closed(r)).device = r.device
         /\ Settled(Closed(r)).stage = "closed"
<1>1. Closed(r) \in Socket /\ Closed(r).device = r.device /\ Closed(r).stage = "closed"
  BY DEF Closed, Socket, Stages
<1>2. <<>> \in Seq(Messages) OBVIOUS
<1>3. ASSUME NEW s \in Socket
      PROVE  Settled(s) \in Socket /\ Settled(s).device = s.device /\ Settled(s).stage = s.stage
  <2> DEFINE e == [stage |-> "closed", device |-> s.device, fd |-> s.fd, sent |-> 0, gone |-> FALSE,
                   inbox |-> <<>>, buffer |-> <<>>, parsed |-> s.parsed, version |-> None, first |-> TRUE]
  <2>1. e \in Socket /\ e.device = s.device /\ e.stage = "closed" BY <1>2 DEF Socket, Stages
  <2>2. s.stage = "closed" => Settled(s) = e BY DEF Settled, Unopened
  <2>3. s.stage # "closed" => Settled(s) = s BY DEF Settled
  <2> HIDE DEF e
  <2> QED BY <2>1, <2>2, <2>3
<1> QED BY <1>1, <1>3

\* A socket after a step: the same device, and not a fresh one.
Follows(s, r) == s \in Socket /\ s.device = r.device /\ Used(s)

LEMMA ReadType ==
  ASSUME NEW r \in Socket, Used(r)
  PROVE  Follows(Read(r), r)
<1>1. r.buffer \o r.inbox \in Seq(Messages) BY DEF Socket
<1>2. <<>> \in Seq(Messages) OBVIOUS
<1> QED BY <1>1, <1>2 DEF Follows, Read, Closed, Socket, Used, Stages

\* How a poll of a peer in the handshake can end, and what it leaves.
LEMMA PollType ==
  ASSUME NEW r0 \in Socket, Used(r0), NEW p \in PreAuthPoll(r0)
  PROVE  Follows(p.conn, r0) /\ p.end \in {"return", "throw", "undefined"}
<1> DEFINE r == Read(r0)
<1>1. Follows(r, r0) BY ReadType
<1> HIDE DEF r
<1>2. ASSUME NEW s, Follows(s, r0)
      PROVE  Follows(Settled(s), r0) /\ Follows(Settled(Closed(s)), r0)
  BY <1>2, SettledType DEF Follows, Used
<1>3. ASSUME NEW s, Follows(s, r0), NEW nrs, NEW end \in {"return", "throw", "undefined"},
             p = Polled(s, nrs, end) \/ p = Polled(Closed(s), nrs, end)
      PROVE  Follows(p.conn, r0) /\ p.end \in {"return", "throw", "undefined"}
  BY <1>2, <1>3 DEF Polled
<1>4. CASE ~Alive(r0)
  BY <1>3, <1>4 DEF PreAuthPoll, Follows
<1>5. CASE Alive(r0) /\ r.buffer = <<>>
  BY <1>1, <1>3, <1>5 DEF PreAuthPoll, r
<1>6. CASE Alive(r0) /\ r.buffer # <<>> /\ r.version = None
  <2>1. p \in Negotiate(r) BY <1>6 DEF PreAuthPoll, r
  <2> DEFINE list == Head(r.buffer).list
             common == list \cap Supported
             max == CHOOSE v \in common : \A w \in common : w <= v
             s == [r EXCEPT !.version = max, !.first = FALSE, !.buffer = Tail(r.buffer)]
  <2>2. \/ \E end \in {"return", "throw", "undefined"} : p = Polled(Closed(r), {}, end)
        \/ p = Polled(s, {}, "return")
    BY <2>1 DEF Negotiate
  <2>3. max \in Selected
    <3> DEFINE pick(l) == CHOOSE v \in l : \A w \in l : w <= v
    <3>1. common \in SUBSET Supported OBVIOUS
    <3> HIDE DEF common
    <3> QED BY <3>1 DEF Selected
  <2>4. Tail(r.buffer) \in Seq(Messages) BY <1>1, <1>6 DEF Follows, Socket
  <2> HIDE DEF max
  <2>5. Follows(s, r0) BY <1>1, <2>3, <2>4 DEF Follows, Socket, Used
  <2> QED BY <1>1, <1>3, <2>2, <2>5
<1>7. CASE Alive(r0) /\ r.buffer # <<>> /\ r.version # None /\ r.first
  <2>1. Follows([r EXCEPT !.first = FALSE], r0) BY <1>1 DEF Follows, Socket, Used
  <2> QED BY <1>3, <1>7, <2>1 DEF PreAuthPoll, r
<1>8. CASE Alive(r0) /\ r.buffer # <<>> /\ r.version # None /\ ~r.first
  <2>1. <<>> \in Seq(Messages) OBVIOUS
  <2>2. Follows([r EXCEPT !.buffer = <<>>], r0) BY <1>1, <2>1 DEF Follows, Socket, Used
  <2> QED BY <1>3, <1>8, <2>2 DEF PreAuthPoll, r
<1> QED BY <1>4, <1>5, <1>6, <1>7, <1>8

-----------------------------------------------------------------------------
\* What the loop does to its descriptors.
LEMMA DeleteMoveType ==
  ASSUME NEW entries \in Seq(Entries), NEW i \in DOMAIN entries
  PROVE  DeleteMove(entries, i) \in Seq(Entries)
<1>1. Len(entries) \in Nat /\ Len(entries) >= 1 /\ DOMAIN entries = 1 .. Len(entries)
  OBVIOUS
<1>2. Front(entries) \in Seq(Entries) /\ Len(Front(entries)) = Len(entries) - 1
  BY <1>1, SubSeqProperties DEF Front
<1>3. Last(entries) \in Entries BY <1>1 DEF Last
<1>4. i # Len(entries) => [Front(entries) EXCEPT ![i] = Last(entries)] \in Seq(Entries)
  BY <1>1, <1>2, <1>3, ExceptSeq
<1> QED BY <1>2, <1>4 DEF DeleteMove

LEMMA UnmarkedType ==
  ASSUME NEW entries \in Seq(Entries)
  PROVE  Unmarked(entries) \in Seq(Entries)
<1>1. DOMAIN entries = 1 .. Len(entries) /\ Len(entries) \in Nat
  OBVIOUS
<1>2. \A e \in Entries : Entry(e.fd) \in Entries
  BY DEF Entry, Entries
<1>3. \A i \in 1 .. Len(entries) : entries[i] \in Entries
  BY <1>1
<1> QED BY <1>1, <1>2, <1>3, IsASeq DEF Unmarked

\* The loop stays within its descriptors, or returns.
LEMMA AdvanceType ==
  ASSUME TypeInv, NEW entries \in Seq(Entries), NEW i \in Nat \ {0}, NEW n, Advance(entries, i, n)
  PROVE  fds' \in Seq(Entries) /\ Position'
<1> DEFINE ahead == {j \in i .. Len(entries) : entries[j].revents = "in"}
<1>1. CASE n = 0 \/ ahead = {}
  BY <1>1, UnmarkedType DEF Advance, TypeInv, Position
<1>2. CASE ~(n = 0 \/ ahead = {})
  <2>1. Len(entries) \in Nat OBVIOUS
  <2>2. ahead \subseteq Nat /\ ahead \subseteq 1 .. Len(entries) BY <2>1
  <2>3. \E j \in ahead : \A k \in ahead : j <= k BY <1>2, <2>2, Least
  <2>4. at' \in ahead /\ doing' = "poll" /\ fds' = entries /\ caller' = caller
    BY <1>2, <2>3 DEF Advance
  <2> QED BY <2>1, <2>2, <2>4 DEF TypeInv, Position
<1> QED BY <1>1, <1>2

LEMMA IdlePosition == Idle => Position'
BY DEF Idle, Position

-----------------------------------------------------------------------------
\* What the steps do to the connections.
LEMMA SameSockets ==
  ASSUME TypeInv, Identified
  PROVE  Successor(conn) /\ KeysKept(known)
BY DEF TypeInv, Identified, Successor, Opened, KeysKept

LEMMA SocketStep ==
  ASSUME TypeInv, Identified, NEW c \in Opened, NEW s, Follows(s, conn[c])
  PROVE  Successor([conn EXCEPT ![c] = s])
BY DEF TypeInv, Identified, Successor, Opened, Follows

LEMMA FreshSocket ==
  ASSUME TypeInv, Identified, NEW c \in Conns, ~Used(conn[c]),
         NEW s \in Socket, s.device \in Certificates
  PROVE  Successor([conn EXCEPT ![c] = s])
BY DEF TypeInv, Identified, Successor, Opened

LEMMA ReleaseType ==
  ASSUME NEW after, Successor(after), Release(after)
  PROVE  Successor(conn')
<1>1. \A c \in Conns : conn'[c] = after[c] \/ conn'[c] = Settled(Closed(after[c]))
  BY DEF Release
<1>2. conn' = [c \in Conns |-> conn'[c]] BY DEF Release
<1>3. ASSUME NEW c \in Conns
      PROVE  /\ conn'[c] \in Socket /\ conn'[c].device = after[c].device
             /\ Used(after[c]) => Used(conn'[c])
             /\ Used(conn'[c]) => Used(after[c]) \/ conn'[c].stage = "closed"
  BY <1>1, SettledType DEF Successor, Used
<1>4. ASSUME NEW c \in Conns, Used(conn'[c])
      PROVE  Used(after[c])
  BY <1>3, <1>4 DEF Release, Used
<1> HIDE DEF Release
<1> QED BY <1>2, <1>3, <1>4 DEF Successor, Opened

LEMMA SeqWider ==
  ASSUME NEW A, NEW B, A \subseteq B, NEW s \in Seq(A)
  PROVE  s \in Seq(B)
<1>1. Len(s) \in Nat /\ s = [i \in 1 .. Len(s) |-> s[i]] /\ \A i \in 1 .. Len(s) : s[i] \in B
  OBVIOUS
<1> QED BY <1>1, IsASeq

LEMMA Wider ==
  ASSUME NEW S, NEW G, NEW T, NEW H, S \subseteq T, G \subseteq H, Refers(S, G)
  PROVE  Refers(T, H)
<1>1. EventsOf(S, G) \subseteq EventsOf(T, H) BY DEF EventsOf
<1>2. events \in Seq(EventsOf(T, H)) BY <1>1, SeqWider DEF Refers
<1> QED BY <1>2 DEF Refers

\* A socket in one of the maps, at the descriptor the loop is at.
LEMMA AtSocket ==
  ASSUME NEW S, NEW G, Reach(S, G), doing = "poll", at > 0
  PROVE  /\ at \in DOMAIN fds /\ fds[at].fd \in Slots /\ at \in Nat \ {0} /\ at + 1 \in Nat \ {0}
         /\ DeleteMove(fds, at) \in Seq(Entries)
<1>1. at \in 1 .. Len(fds) /\ fds \in Seq(Entries) BY DEF Reach, TypeInv, Position
<1>2. at \in DOMAIN fds /\ fds[at] \in Entries BY <1>1
<1>3. DeleteMove(fds, at) \in Seq(Entries) BY <1>1, <1>2, DeleteMoveType
<1>4. fds[at].fd \in Slots BY <1>2 DEF Entries
<1> QED BY <1>1, <1>2, <1>3, <1>4

-----------------------------------------------------------------------------
\* One lemma per action.
LEMMA NetworkStep ==
  ASSUME NEW S, NEW G, Reach(S, G), Network
  PROVE  Lands(S, G)
<1>1. PICK c \in Conns : Arrive(c) \/ Send(c) \/ Leave(c) BY DEF Network
<1>2. UNCHANGED <<serverVars, loopVars, history>> BY <1>1 DEF Arrive, Send, Leave
<1>3. conn[c] \in Socket BY DEF Reach, TypeInv
<1>4. Arrive(c) => Successor(conn')
  <2> SUFFICES ASSUME Arrive(c) PROVE Successor(conn') OBVIOUS
  <2>1. PICK d \in Devices[c] : conn' = [conn EXCEPT ![c].stage = "backlog", ![c].device = d]
    BY DEF Arrive
  <2>2. d \in Certificates BY DEF Certificates
  <2> DEFINE s == [conn[c] EXCEPT !.stage = "backlog", !.device = d]
  <2>3. s \in Socket /\ s.device = d BY <1>3, <2>2 DEF Socket, Stages
  <2>4. conn' = [conn EXCEPT ![c] = s] BY <2>1, <1>3 DEF Reach, TypeInv, Socket
  <2>5. ~Used(conn[c]) BY DEF Arrive, Used
  <2> HIDE DEF s
  <2> QED BY <2>2, <2>3, <2>4, <2>5, FreshSocket DEF Reach
<1>5. Send(c) => Successor(conn')
  <2> SUFFICES ASSUME Send(c) PROVE Successor(conn') OBVIOUS
  <2>1. PICK m \in Messages : conn' = [conn EXCEPT ![c].sent = @ + 1, ![c].inbox = Append(@, m)]
    BY DEF Send
  <2> DEFINE s == [conn[c] EXCEPT !.sent = @ + 1, !.inbox = Append(@, m)]
  <2>2. Append(conn[c].inbox, m) \in Seq(Messages) BY <1>3 DEF Socket
  <2>3. c \in Opened BY DEF Send, Opened, Used
  <2>4. Follows(s, conn[c])
    <3>1. conn[c].sent + 1 \in Nat BY <1>3 DEF Socket
    <3>2. s \in Socket BY <1>3, <2>2, <3>1 DEF Socket
    <3>3. s.device = conn[c].device /\ s.stage = conn[c].stage BY <1>3 DEF Socket
    <3> QED BY <2>3, <3>2, <3>3 DEF Follows, Opened, Used
  <2>5. conn' = [conn EXCEPT ![c] = s] BY <2>1, <1>3 DEF Reach, TypeInv, Socket
  <2> HIDE DEF s
  <2> QED BY <2>3, <2>4, <2>5, SocketStep DEF Reach
<1>6. Leave(c) => Successor(conn')
  <2> SUFFICES ASSUME Leave(c) PROVE Successor(conn') OBVIOUS
  <2> DEFINE s == [conn[c] EXCEPT !.gone = TRUE]
  <2>1. c \in Opened BY DEF Leave, Opened, Used
  <2>2. Follows(s, conn[c]) BY <1>3, <2>1 DEF Socket, Opened, Used, Follows
  <2>3. conn' = [conn EXCEPT ![c] = s] BY <1>3 DEF Leave, Reach, TypeInv, Socket
  <2> HIDE DEF s
  <2> QED BY <2>1, <2>2, <2>3, SocketStep DEF Reach
<1>7. Successor(conn') BY <1>1, <1>4, <1>5, <1>6
<1>8. KeysKept(known') BY <1>2, SameSockets DEF Reach, serverVars, KeysKept
<1> QED BY <1>2, <1>7, <1>8 DEF Lands, Reach, TypeInv, Position, Refers, serverVars, loopVars, history

LEMMA AcceptSocketStep ==
  ASSUME NEW S, NEW G, Reach(S, G), AcceptSocket
  PROVE  Lands(S, G)
<1>1. FreeFds # {} /\ doing = "poll" BY DEF AcceptSocket
<1>2. NewFd \in Fds BY <1>1, NewFdType DEF Reach
<1> DEFINE f == NewFd
           here(c) == [conn EXCEPT ![c].stage = "open", ![c].fd = f]
           leaked(c) == [here(c) EXCEPT ![c].stage = "leaked"]
           grows == Append(fds, Entry(f))
<1>3. PICK c \in Conns :
        /\ conn[c].stage = "backlog"
        /\ \/ conn' = leaked(c) /\ ThrowInLoop /\ UNCHANGED handshake
           \/ /\ handshake' = IF handshake[f] = None THEN [handshake EXCEPT ![f] = c] ELSE handshake
              /\ Release(here(c))
              /\ \/ doing' = "undefined" /\ fds' = grows /\ UNCHANGED <<at, left, caller>>
                 \/ Advance(grows, 1, left - 1)
        /\ UNCHANGED <<pending, peers, listening, known, events, history>>
  BY DEF AcceptSocket
<1>4. c \in Opened /\ conn[c] \in Socket BY <1>3 DEF Reach, TypeInv, Opened, Used
<1>5. grows \in Seq(Entries)
  <2>1. Entry(f) \in Entries BY <1>2 DEF Entry, Entries, Slots
  <2>2. fds \in Seq(Entries) BY DEF Reach, TypeInv
  <2> QED BY <2>1, <2>2, AppendProperties
<1>6. Successor(here(c)) /\ Successor(leaked(c))
  <2> DEFINE s == [conn[c] EXCEPT !.stage = "open", !.fd = f]
             t == [s EXCEPT !.stage = "leaked"]
  <2>1. Follows(s, conn[c]) /\ Follows(t, conn[c])
    BY <1>2, <1>4 DEF Follows, Socket, Stages, Used, Slots
  <2>2. here(c) = [conn EXCEPT ![c] = s]
    BY <1>4 DEF Reach, TypeInv, Socket
  <2>3. leaked(c) = [conn EXCEPT ![c] = t]
    <3> HIDE DEF s, here
    <3> SUFFICES [[conn EXCEPT ![c] = s] EXCEPT ![c].stage = "leaked"] = [conn EXCEPT ![c] = t]
      BY <2>2
    <3> QED BY DEF Reach, TypeInv
  <2> HIDE DEF s, t
  <2>4. Successor([conn EXCEPT ![c] = s]) /\ Successor([conn EXCEPT ![c] = t])
    BY <1>4, <2>1, SocketStep DEF Reach
  <2> HIDE DEF here, leaked
  <2> QED BY <2>2, <2>3, <2>4
<1> HIDE DEF here, leaked, grows
<1>7. Successor(conn') BY <1>3, <1>6, ReleaseType
<1>8. fds' \in Seq(Entries) /\ Position'
  <2>1. CASE ThrowInLoop
    BY <2>1, UnmarkedType, IdlePosition DEF ThrowInLoop, Reach, TypeInv
  <2>2. CASE doing' = "undefined" /\ fds' = grows /\ UNCHANGED <<at, left, caller>>
    BY <1>5, <2>2 DEF Reach, TypeInv, Position
  <2>3. CASE Advance(grows, 1, left - 1)
    BY <1>5, <2>3, AdvanceType DEF Reach
  <2> QED BY <1>3, <2>1, <2>2, <2>3
<1>9. handshake' \in [Slots -> S \cup {None}]
  BY <1>3, <1>4 DEF Reach, Refers
<1>10. KeysKept(known') BY <1>3, SameSockets DEF Reach, KeysKept
<1> QED BY <1>3, <1>7, <1>8, <1>9, <1>10 DEF Lands, Reach, TypeInv, Refers, history

\* The loop goes on, with the descriptor or without it.
LEMMA LoopGoesOn ==
  ASSUME NEW S, NEW G, Reach(S, G), doing = "poll", at > 0,
         Advance(fds, at + 1, left - 1) \/ Advance(DeleteMove(fds, at), at, left - 1)
  PROVE  fds' \in Seq(Entries) /\ Position'
<1>1. fds \in Seq(Entries) BY DEF Reach, TypeInv
<1>2. at + 1 \in Nat \ {0} /\ at \in Nat \ {0} /\ DeleteMove(fds, at) \in Seq(Entries) BY AtSocket
<1>3. TypeInv BY DEF Reach
<1>4. CASE Advance(fds, at + 1, left - 1) BY <1>1, <1>2, <1>3, <1>4, AdvanceType
<1>5. CASE Advance(DeleteMove(fds, at), at, left - 1) BY <1>2, <1>3, <1>5, AdvanceType
<1> QED BY <1>4, <1>5

LEMMA FoundType ==
  ASSUME NEW c \in Conns, conn[c] \in Socket, Used(conn[c])
  PROVE  Follows(Found(c), conn[c])
<1>1. CASE Alive(conn[c]) BY <1>1, ReadType DEF Found
<1>2. CASE ~Alive(conn[c])
  <2>1. <<>> \in Seq(Messages) OBVIOUS
  <2> QED BY <1>2, <2>1 DEF Found, Follows, Socket, Used
<1> QED BY <1>1, <1>2

\* What pull_requests leaves of a connection that has its device.
LEMMA PulledType ==
  ASSUME NEW r \in Socket, NEW s, Follows(s, r), NEW parsed \in Seq(Messages)
  PROVE  /\ Follows(Settled([s EXCEPT !.buffer = <<>>, !.parsed = parsed]), r)
         /\ Follows(Settled([s EXCEPT !.parsed = parsed]), r)
<1>1. <<>> \in Seq(Messages) OBVIOUS
<1>2. /\ Follows([s EXCEPT !.buffer = <<>>, !.parsed = parsed], r)
      /\ Follows([s EXCEPT !.parsed = parsed], r)
  BY <1>1 DEF Follows, Socket, Used
<1> QED BY <1>2, SettledType DEF Follows, Used

LEMMA PullRequestsStep ==
  ASSUME NEW S, NEW G, Reach(S, G), NEW c \in Conns, Polling(peers, c), PullRequests(c)
  PROVE  Lands(S, G)
<1> DEFINE r == Settled([Found(c) EXCEPT !.buffer = <<>>, !.parsed = <<>>])
           got == conn[c].parsed \o Found(c).buffer
           requests == [i \in DOMAIN got |-> [type |-> "REQUEST", conn |-> c, nr |-> got[i].nr]]
<1>1. /\ events' = events \o requests
      /\ \/ Advance(fds, at + 1, left - 1) /\ peers' = peers
         \/ Advance(DeleteMove(fds, at), at, left - 1) /\ peers' = [peers EXCEPT ![fds[at].fd] = None]
      /\ UNCHANGED <<handshake, pending, listening, known, history>>
      /\ Release([conn EXCEPT ![c] = r])
  BY DEF PullRequests
<1>2. doing = "poll" /\ at > 0 BY DEF Polling
<1>3. c \in G
  <2>1. fds[at].fd \in Slots BY <1>2, AtSocket
  <2> QED BY <2>1 DEF Polling, Reach, Refers
<1>4. c \in Opened /\ conn[c] \in Socket /\ Used(conn[c]) BY <1>3 DEF Reach, TypeInv, Opened
<1>5. Follows(Found(c), conn[c]) BY <1>4, FoundType
<1>6. Follows(r, conn[c])
  <2>1. <<>> \in Seq(Messages) OBVIOUS
  <2> QED BY <1>4, <1>5, <2>1, PulledType
<1>7. got \in Seq(Messages) BY <1>4, <1>5, ConcatProperties DEF Follows, Socket
<1> HIDE DEF r, got
<1>8. requests \in Seq(EventsOf(S, G))
  <2>1. \A m \in Messages : m.nr \in Nat BY DEF Messages, Version, Request
  <2>2. DOMAIN got = 1 .. Len(got) /\ Len(got) \in Nat BY <1>7
  <2>3. \A i \in 1 .. Len(got) : got[i] \in Messages BY <1>7, <2>2
  <2>4. \A i \in 1 .. Len(got) : [type |-> "REQUEST", conn |-> c, nr |-> got[i].nr] \in EventsOf(S, G)
    BY <1>3, <2>1, <2>3 DEF EventsOf
  <2> QED BY <2>2, <2>4, IsASeq
<1> HIDE DEF requests
<1>9. events' \in Seq(EventsOf(S, G)) BY <1>1, <1>8, ConcatProperties DEF Reach, Refers
<1>10. Successor(conn') BY <1>1, <1>4, <1>6, SocketStep, ReleaseType DEF Reach
<1>11. fds' \in Seq(Entries) /\ Position' BY <1>1, <1>2, LoopGoesOn
<1>12. peers' \in [Slots -> G \cup {None}] BY <1>1 DEF Reach, Refers
<1>13. KeysKept(known') BY <1>1, SameSockets DEF Reach, KeysKept
<1> QED BY <1>1, <1>9, <1>10, <1>11, <1>12, <1>13 DEF Lands, Reach, TypeInv, Refers, history

LEMMA PullFailsStep ==
  ASSUME NEW S, NEW G, Reach(S, G), NEW c \in Conns, Polling(peers, c), PullFails(c)
  PROVE  Lands(S, G)
<1>1. doing = "poll" /\ at > 0 BY DEF Polling
<1>2. c \in G
  <2>1. fds[at].fd \in Slots BY <1>1, AtSocket
  <2> QED BY <2>1 DEF Polling, Reach, Refers
<1>3. c \in Opened /\ conn[c] \in Socket /\ Used(conn[c]) BY <1>2 DEF Reach, TypeInv, Opened
<1>4. Follows(Found(c), conn[c]) BY <1>3, FoundType
<1>5. PICK n \in 0 .. Len(Found(c).buffer) :
        conn' = [conn EXCEPT ![c] = Settled([Found(c) EXCEPT !.parsed = @ \o SubSeq(Found(c).buffer, 1, n)])]
  BY DEF PullFails
<1>6. PICK parsed : parsed = Found(c).parsed \o SubSeq(Found(c).buffer, 1, n) OBVIOUS
<1>7. parsed \in Seq(Messages)
  <2>1. Found(c).parsed \in Seq(Messages) /\ Found(c).buffer \in Seq(Messages) BY <1>4 DEF Follows, Socket
  <2>2. SubSeq(Found(c).buffer, 1, n) \in Seq(Messages)
    <3>1. \A i \in 1 .. n : Found(c).buffer[i] \in Messages BY <2>1
    <3> QED BY <2>1, <3>1, SubSeqProperties
  <2> QED BY <1>6, <2>1, <2>2, ConcatProperties
<1>8. Follows(Settled([Found(c) EXCEPT !.parsed = parsed]), conn[c]) BY <1>3, <1>4, <1>7, PulledType
<1>9. conn' = [conn EXCEPT ![c] = Settled([Found(c) EXCEPT !.parsed = parsed])] BY <1>5, <1>6
<1>10. Successor(conn') BY <1>3, <1>8, <1>9, SocketStep DEF Reach
<1>11. ThrowInLoop /\ UNCHANGED <<handshake, pending, peers, listening, known, events, history>> BY DEF PullFails
<1>12. fds' \in Seq(Entries) BY <1>11, UnmarkedType DEF ThrowInLoop, Reach, TypeInv
<1>13. Position' BY <1>11, IdlePosition DEF ThrowInLoop
<1>14. KeysKept(known') BY <1>11, SameSockets DEF Reach, KeysKept
<1> QED BY <1>10, <1>11, <1>12, <1>13, <1>14 DEF Lands, Reach, TypeInv, Refers, history

LEMMA PollPeerStep ==
  ASSUME NEW S, NEW G, Reach(S, G), PollPeer
  PROVE  Lands(S, G)
BY PullRequestsStep, PullFailsStep DEF PollPeer

LEMMA PollPendingStep ==
  ASSUME NEW S, NEW G, Reach(S, G), PollPending
  PROVE  Lands(S, G)
<1> DEFINE f == fds[at].fd
           Goes(c, p) ==
             /\ \/ Advance(fds, at + 1, left - 1) /\ pending' = pending
                \/ Advance(DeleteMove(fds, at), at, left - 1) /\ pending' = [pending EXCEPT ![f] = None]
             /\ UNCHANGED <<handshake, peers, listening, known, events, held, trusted, handed, stale>>
             /\ Release([conn EXCEPT ![c] = p.conn])
<1>1. PICK c \in Conns : Polling(pending, c) /\ \E p \in PreAuthPoll(conn[c]) : Goes(c, p)
  BY DEF PollPending
<1>2. PICK p \in PreAuthPoll(conn[c]) : Goes(c, p) BY <1>1
<1>3. doing = "poll" /\ at > 0 BY <1>1 DEF Polling
<1>4. c \in Opened /\ conn[c] \in Socket /\ Used(conn[c])
  <2>1. f \in Slots BY <1>3, AtSocket
  <2> QED BY <1>1, <2>1 DEF Polling, Reach, Refers, TypeInv, Opened
<1>5. Follows(p.conn, conn[c]) BY <1>4, PollType
<1>6. Successor(conn') BY <1>2, <1>4, <1>5, SocketStep, ReleaseType DEF Reach
<1>7. fds' \in Seq(Entries) /\ Position' BY <1>2, <1>3, LoopGoesOn
<1>8. pending' \in [Slots -> S \cup {None}] BY <1>2 DEF Reach, Refers
<1>9. KeysKept(known') BY <1>2, SameSockets DEF Reach, KeysKept
<1> QED BY <1>2, <1>6, <1>7, <1>8, <1>9 DEF Lands, Reach, TypeInv, Refers

LEMMA PollUnknownStep ==
  ASSUME NEW S, NEW G, Reach(S, G), PollUnknown
  PROVE  Lands(S, G)
<1>1. fds' \in Seq(Entries) /\ Position' BY LoopGoesOn DEF PollUnknown
<1>2. Successor(conn') /\ KeysKept(known')
  BY SameSockets DEF PollUnknown, Reach, Successor, KeysKept
<1> QED BY <1>1, <1>2 DEF PollUnknown, Lands, Reach, TypeInv, Refers, history

\* The only way to the peers without being asked for: the key known under the name.
LEMMA PollHandshakeStep ==
  ASSUME NEW S, NEW G, Reach(S, G), PollHandshake
  PROVE  Lands(S, G)
<1> DEFINE f == fds[at].fd
           after(c, p) == [conn EXCEPT ![c] = p.conn]
           moved == [handshake EXCEPT ![f] = None]
           Broken(c, p) ==
             /\ conn' = after(c, p) /\ UNCHANGED <<handshake, pending, peers, events>>
             /\ \/ doing' = "undefined" /\ UNCHANGED <<fds, at, left, caller>>
                \/ ThrowInLoop
           Waits(c, p) ==
             /\ Advance(fds, at + 1, left - 1) /\ conn' = after(c, p)
             /\ UNCHANGED <<handshake, pending, peers, events>>
           Closes(c, p) ==
             /\ Advance(DeleteMove(fds, at), at, left - 1) /\ handshake' = moved
             /\ UNCHANGED <<pending, peers, events>> /\ Release(after(c, p))
           Promoted(c, p) ==
             /\ handshake' = moved /\ Advance(fds, at + 1, left - 1) /\ conn' = after(c, p)
             /\ ~Mismatch(c) /\ KeyOf(c) # None
             /\ peers' = [peers EXCEPT ![f] = c] /\ UNCHANGED <<pending, events>>
           Asks(c, p) ==
             /\ handshake' = moved /\ Advance(fds, at + 1, left - 1) /\ conn' = after(c, p)
             /\ pending' = [pending EXCEPT ![f] = c]
             /\ events' = Append(events, [type |-> "CONNECT", conn |-> c]) /\ UNCHANGED peers
           Goes(c, p) ==
             /\ UNCHANGED <<listening, known, held, trusted, handed, stale>>
             /\ p.end \in {"return", "throw", "undefined"}
                  => Broken(c, p) \/ Waits(c, p) \/ Closes(c, p) \/ Promoted(c, p) \/ Asks(c, p)
<1>0. PICK c \in Conns : Polling(handshake, c) /\ \E p \in PreAuthPoll(conn[c]) : Goes(c, p)
  BY ZenonT(120) DEF PollHandshake
<1>1. PICK p \in PreAuthPoll(conn[c]) : Polling(handshake, c) /\ Goes(c, p) BY <1>0
<1>2. doing = "poll" /\ at > 0 BY <1>1 DEF Polling
<1>3. f \in Slots BY <1>2, AtSocket
<1>4. c \in Opened /\ conn[c] \in Socket /\ Used(conn[c])
  BY <1>1, <1>3 DEF Polling, Reach, Refers, TypeInv, Opened
<1>5. Follows(p.conn, conn[c]) /\ p.end \in {"return", "throw", "undefined"} BY <1>4, PollType
<1>6. Successor(after(c, p)) BY <1>4, <1>5, SocketStep DEF Reach
<1>7. moved \in [Slots -> S \cup {None}] BY DEF Reach, Refers
<1>8. KeysKept(known') BY <1>1, SameSockets DEF Reach, KeysKept
<1> HIDE DEF after, moved
<1>9. CASE Broken(c, p)
  <2>1. fds' \in Seq(Entries) /\ Position'
    BY <1>9, UnmarkedType, IdlePosition DEF ThrowInLoop, Reach, TypeInv, Position
  <2> QED BY <1>1, <1>6, <1>8, <1>9, <2>1 DEF Lands, Reach, TypeInv, Refers
<1>10. CASE Waits(c, p)
  <2>1. fds' \in Seq(Entries) /\ Position' BY <1>2, <1>10, LoopGoesOn
  <2> QED BY <1>1, <1>6, <1>8, <1>10, <2>1 DEF Lands, Reach, TypeInv, Refers
<1>11. CASE Closes(c, p)
  <2>1. fds' \in Seq(Entries) /\ Position' BY <1>2, <1>11, LoopGoesOn
  <2>2. Successor(conn') BY <1>6, <1>11, ReleaseType
  <2> QED BY <1>1, <1>7, <1>8, <1>11, <2>1, <2>2 DEF Lands, Reach, TypeInv, Refers
<1>12. CASE Promoted(c, p)
  <2>1. fds' \in Seq(Entries) /\ Position' BY <1>2, <1>12, LoopGoesOn
  <2>2. KeyOf(c) = conn[c].device.key BY <1>12 DEF Mismatch
  <2>3. c \in G BY <1>4, <2>2 DEF Reach, Trustees
  <2>4. peers' \in [Slots -> G \cup {None}] BY <1>12, <2>3 DEF Reach, Refers
  <2> QED BY <1>1, <1>6, <1>7, <1>8, <1>12, <2>1, <2>4 DEF Lands, Reach, TypeInv, Refers
<1>13. CASE Asks(c, p)
  <2>1. fds' \in Seq(Entries) /\ Position' BY <1>2, <1>13, LoopGoesOn
  <2>2. pending' \in [Slots -> S \cup {None}] BY <1>4, <1>13 DEF Reach, Refers
  <2>3. [type |-> "CONNECT", conn |-> c] \in EventsOf(S, G) BY <1>4 DEF EventsOf, Reach
  <2>4. events' \in Seq(EventsOf(S, G)) BY <1>13, <2>3, AppendProperties DEF Reach, Refers
  <2> QED BY <1>1, <1>6, <1>7, <1>8, <1>13, <2>1, <2>2, <2>4 DEF Lands, Reach, TypeInv, Refers
<1> QED BY <1>1, <1>5, <1>9, <1>10, <1>11, <1>12, <1>13

LEMMA StartPollStep ==
  ASSUME NEW S, NEW G, Reach(S, G), NEW call \in {"process", "pull"}, StartPoll(call)
  PROVE  Lands(S, G)
<1> DEFINE owner(g) == {c \in Conns : Alive(conn[c]) /\ conn[c].fd = g}
           revents(g) == IF owner(g) = {} THEN "invalid"
                         ELSE IF \E c \in owner(g) : Readable(conn[c]) THEN "in" ELSE "none"
           entries == [i \in DOMAIN fds |-> [fds[i] EXCEPT !.revents = revents(fds[i].fd)]]
           ahead == {i \in DOMAIN fds : entries[i].revents = "in"}
<1>1. /\ caller' = call /\ UNCHANGED <<conn, handshake, pending, peers, listening, known, events, history>>
      /\ \/ at' = 0 /\ doing' = "poll" /\ fds' = entries
         \/ at' = 1 /\ doing' = call /\ fds' = fds
         \/ /\ ahead # {} /\ doing' = "poll" /\ fds' = entries
            /\ at' = CHOOSE i \in ahead : \A j \in ahead : i <= j
  BY DEF StartPoll
<1>2. fds \in Seq(Entries) /\ Len(fds) \in Nat /\ DOMAIN fds = 1 .. Len(fds) BY DEF Reach, TypeInv
<1>3. entries \in Seq(Entries) /\ Len(entries) = Len(fds)
  <2>1. \A g : revents(g) \in {"none", "in", "invalid"} OBVIOUS
  <2> HIDE DEF revents
  <2>2. \A e \in Entries : [e EXCEPT !.revents = revents(e.fd)] \in Entries BY <2>1 DEF Entries
  <2>3. \A i \in 1 .. Len(fds) : fds[i] \in Entries BY <1>2
  <2>4. entries \in Seq(Entries) BY <1>2, <2>2, <2>3, IsASeq
  <2>5. DOMAIN entries = 1 .. Len(fds) BY <1>2
  <2> HIDE DEF entries
  <2> QED BY <1>2, <2>4, <2>5
<1>4. ahead \subseteq Nat /\ ahead \subseteq 1 .. Len(fds) BY <1>2
<1> HIDE DEF entries, ahead
<1>5. CASE at' = 0 /\ doing' = "poll" /\ fds' = entries
  <2>1. fds' \in Seq(Entries) /\ Position' BY <1>1, <1>2, <1>3, <1>5 DEF Position
  <2> QED BY <1>1, <2>1, SameSockets DEF Lands, Reach, TypeInv, Refers, history, Successor, KeysKept
<1>6. CASE at' = 1 /\ doing' = call /\ fds' = fds
  <2>1. Position' BY <1>1, <1>6 DEF Position
  <2>2. fds' \in Seq(Entries) BY <1>2, <1>6
  <2> QED BY <1>1, <2>1, <2>2, SameSockets DEF Lands, Reach, TypeInv, Refers, history, Successor, KeysKept
<1>7. CASE /\ ahead # {} /\ doing' = "poll" /\ fds' = entries
           /\ at' = CHOOSE i \in ahead : \A j \in ahead : i <= j
  <2>1. at' \in ahead BY <1>4, <1>7, Least
  <2>2. doing' = "poll" /\ fds' = entries BY <1>7
  <2>3. at' \in 1 .. Len(fds') /\ fds' \in Seq(Entries) BY <1>3, <1>4, <2>1, <2>2
  <2>4. Position' BY <1>1, <1>2, <2>2, <2>3 DEF Position
  <2> QED BY <1>1, <2>3, <2>4, SameSockets DEF Lands, Reach, TypeInv, Refers, history, Successor, KeysKept
<1> QED BY <1>1, <1>5, <1>6, <1>7

\* A request that is handed over comes from a trusted connection.
LEMMA HandRequestType ==
  ASSUME NEW S, NEW G, Reach(S, G), NEW e \in EventsOf(S, G), HandRequest(e)
  PROVE  handed' \in [Conns -> SUBSET Nat] /\ \A c \in Conns : handed'[c] # {} => c \in G
<1>1. e.conn \in G /\ e.nr \in Nat BY DEF HandRequest, EventsOf
<1>2. handed' = [handed EXCEPT ![e.conn] = @ \cup {e.nr}] BY DEF HandRequest
<1> QED BY <1>1, <1>2 DEF Reach, TypeInv, Refers, Opened

LEMMA ProcessRequestStep ==
  ASSUME NEW S, NEW G, Reach(S, G), ProcessRequest
  PROVE  Lands(S, G)
<1>1. events[at] \in EventsOf(S, G)
  <2>1. at \in 1 .. Len(events) BY DEF ProcessRequest, Processing, Reach, TypeInv, Position, Refers
  <2> QED BY <2>1 DEF Reach, Refers
<1>2. HandRequest(events[at]) /\ Through /\ UNCHANGED <<conn, events>> BY DEF ProcessRequest
<1>3. Position' BY <1>2 DEF Through, Reach, TypeInv, Position
<1>4. UNCHANGED <<handshake, pending, peers, fds, listening, known, held, trusted, refused, stale>>
  BY <1>2 DEF HandRequest
<1> QED BY <1>1, <1>2, <1>3, <1>4, HandRequestType, SameSockets
        DEF Lands, Reach, TypeInv, Refers, Successor, KeysKept

LEMMA PullStep ==
  ASSUME NEW S, NEW G, Reach(S, G), Pull
  PROVE  Lands(S, G)
<1>1. events \in Seq(EventsOf(S, G)) /\ events # <<>> BY DEF Pull, Reach, Refers
<1>2. Len(events) \in Nat /\ Len(events) >= 1 /\ DOMAIN events = 1 .. Len(events) BY <1>1
<1>3. Last(events) \in EventsOf(S, G) BY <1>1, <1>2 DEF Last
<1>4. events' \in Seq(EventsOf(S, G)) BY <1>1, <1>2, SubSeqProperties DEF Pull, Front
<1>5. Position' BY IdlePosition DEF Pull
<1>6. Successor(conn') BY SameSockets, ReleaseType DEF Pull, Reach
<1>7. CASE HandRequest(Last(events))
  <2>1. UNCHANGED <<handshake, pending, peers, fds, listening, known, held, trusted, refused, stale>>
    BY <1>7 DEF HandRequest
  <2> QED BY <1>3, <1>4, <1>5, <1>6, <1>7, <2>1, HandRequestType, SameSockets
          DEF Lands, Reach, TypeInv, Refers, KeysKept
<1>8. CASE /\ Last(events).type = "CONNECT" /\ held' = held \cup ({Last(events).conn} \ {None})
           /\ UNCHANGED <<handshake, pending, peers, fds, listening, known, trusted, handed, refused, stale>>
  <2>1. held' \subseteq S BY <1>3, <1>8 DEF Reach, Refers, EventsOf
  <2> QED BY <1>4, <1>5, <1>6, <1>8, <2>1, SameSockets DEF Lands, Reach, TypeInv, Refers, KeysKept
<1> QED BY <1>7, <1>8 DEF Pull

LEMMA ReturnStep ==
  ASSUME NEW S, NEW G, Reach(S, G), ProcessEnd \/ PullNothing
  PROVE  Lands(S, G)
<1>1. UNCHANGED <<handshake, pending, peers, fds, listening, known, history>>
  BY DEF ProcessEnd, PullNothing, serverVars
<1>2. Position' BY IdlePosition DEF ProcessEnd, PullNothing
<1>3. Successor(conn')
  BY SameSockets, ReleaseType DEF ProcessEnd, PullNothing, Reach, Successor
<1>4. events' \in Seq(EventsOf(S, G))
  <2>1. events' = <<>> \/ events' = events BY DEF ProcessEnd, PullNothing, serverVars
  <2>2. <<>> \in Seq(EventsOf(S, G)) OBVIOUS
  <2> QED BY <2>1, <2>2 DEF Reach, Refers
<1> QED BY <1>1, <1>2, <1>3, <1>4, SameSockets DEF Lands, Reach, TypeInv, Refers, KeysKept, history

\* Accepting a peer puts its key under a name that has none, or has that key.
LEMMA AcceptedType ==
  ASSUME NEW S, NEW G, Reach(S, G), NEW c \in G, NEW temporary \in BOOLEAN,
         NEW outcome \in Accepted(c, temporary)
  PROVE  /\ KeysKept(outcome.known)
         /\ outcome.pending \in [Slots -> S \cup {None}] /\ outcome.peers \in [Slots -> G \cup {None}]
<1>1. KeysKept(known) /\ pending \in [Slots -> S \cup {None}] /\ peers \in [Slots -> G \cup {None}]
  BY SameSockets DEF Reach, Refers
<1>2. CASE ~temporary /\ Mismatch(c)
  BY <1>1, <1>2 DEF Accepted, Outcome
<1>3. CASE ~(~temporary /\ Mismatch(c))
  <2> DEFINE r == conn[c]
             trust == IF temporary THEN known ELSE [known EXCEPT ![r.device.uuid] = r.device.key]
  <2>1. PICK f : outcome = Outcome(trust, [pending EXCEPT ![f] = None],
                             IF peers[f] = None THEN [peers EXCEPT ![f] = c] ELSE peers, peers[f] # None)
    BY <1>3 DEF Accepted
  <2>2. r.device \in Certificates BY DEF Reach, Identified
  <2>3. KeysKept(trust)
    <3>1. CASE temporary BY <1>1, <3>1
    <3>2. CASE ~temporary
      <4>1. KeyOf(c) \in {None, r.device.key} BY <1>3, <3>2 DEF Mismatch
      <4> QED BY <1>1, <2>2, <3>2, <4>1 DEF KeysKept, KeyOf, Certificates
    <3> QED BY <3>1, <3>2
  <2> HIDE DEF trust
  <2> QED BY <1>1, <2>1, <2>3 DEF Outcome
<1> QED BY <1>2, <1>3

LEMMA AcceptHeldStep ==
  ASSUME NEW S, NEW G, Reach(S, G), NEW c \in Conns, NEW temporary \in BOOLEAN, AcceptHeld(c, temporary)
  PROVE  Lands(S, G)
<1>1. PICK outcome \in Accepted(c, temporary) : Take(c, outcome) BY DEF AcceptHeld
<1>2. c \in S BY DEF AcceptHeld, Reach, Refers
<1>3. c \in G BY <1>1, <1>2 DEF Take, Reach
<1>4. /\ KeysKept(known') /\ pending' \in [Slots -> S \cup {None}] /\ peers' \in [Slots -> G \cup {None}]
      /\ trusted \subseteq trusted'
  BY <1>1, <1>3, AcceptedType DEF Take
<1>5. Successor(conn') BY SameSockets, ReleaseType DEF AcceptHeld, Reach
<1> QED BY <1>4, <1>5 DEF AcceptHeld, Lands, Reach, TypeInv, Refers, Position, loopVars

LEMMA ProcessConnectStep ==
  ASSUME NEW S, NEW G, Reach(S, G), NEW answer \in {"accept", "later"}, ProcessConnect(answer)
  PROVE  Lands(S, G)
<1> DEFINE e == events[at]
           c == e.conn
<1>1. /\ Processing /\ e.type = "CONNECT" /\ events' = [events EXCEPT ![at].conn = None]
      /\ UNCHANGED <<handshake, fds, listening, handed, refused>>
  BY DEF ProcessConnect
<1>2. at \in 1 .. Len(events) /\ events \in Seq(EventsOf(S, G))
  BY <1>1 DEF Processing, Reach, TypeInv, Position, Refers
<1>3. e \in [type : {"CONNECT"}, conn : S \cup {None}] BY <1>1, <1>2 DEF EventsOf
<1>4. events' \in Seq(EventsOf(S, G))
  <2>1. [e EXCEPT !.conn = None] \in EventsOf(S, G) BY <1>3 DEF EventsOf
  <2>2. events' = [events EXCEPT ![at] = [e EXCEPT !.conn = None]] BY <1>1, <1>2
  <2> HIDE DEF e
  <2> QED BY <1>2, <2>1, <2>2, ExceptSeq
<1>5. c \in S \cup {None} BY <1>3
<1> HIDE DEF e, c
<1>6. Successor(conn) BY SameSockets DEF Reach
<1>7. CASE answer = "later"
  <2>1. /\ held' = held \cup ({c} \ {None}) /\ Through
        /\ UNCHANGED <<pending, peers, known, trusted, stale>> /\ Release(conn)
    BY <1>7 DEF ProcessConnect, c, e
  <2>2. Successor(conn') BY <1>6, <2>1, ReleaseType
  <2>3. Position' BY <2>1 DEF Through, Reach, TypeInv, Position
  <2>4. held' \subseteq S BY <1>5, <2>1 DEF Reach, Refers
  <2> QED BY <1>1, <1>4, <2>1, <2>2, <2>3, <2>4, SameSockets DEF Lands, Reach, TypeInv, Refers, KeysKept
<1>8. CASE answer = "accept" /\ c = None
  <2>1. /\ doing' = "undefined" /\ UNCHANGED <<at, left, caller>>
        /\ UNCHANGED <<pending, peers, known, held, trusted, stale, conn>>
    BY <1>8 DEF ProcessConnect, c, e
  <2>2. Position' BY <2>1 DEF Reach, TypeInv, Position
  <2> QED BY <1>1, <1>4, <1>6, <2>1, <2>2, SameSockets
          DEF Lands, Reach, TypeInv, Refers, KeysKept, Successor
<1>9. CASE answer = "accept" /\ c # None
  <2>1. PICK outcome \in Accepted(c, FALSE) :
          Take(c, outcome) /\ held' = held /\ (Throw \/ Through) /\ Release(conn)
    BY <1>9 DEF ProcessConnect, c, e
  <2>2. c \in G BY <1>5, <1>9, <2>1 DEF Take, Reach
  <2>3. /\ KeysKept(known') /\ pending' \in [Slots -> S \cup {None}] /\ peers' \in [Slots -> G \cup {None}]
        /\ trusted \subseteq trusted'
    BY <2>1, <2>2, AcceptedType DEF Take
  <2>4. Successor(conn') BY <1>6, <2>1, ReleaseType
  <2>5. Position' BY <2>1, IdlePosition DEF Throw, Through, Reach, TypeInv, Position
  <2> QED BY <1>1, <1>4, <2>1, <2>3, <2>4, <2>5 DEF Lands, Reach, TypeInv, Refers
<1> QED BY <1>7, <1>8, <1>9

LEMMA ConnectStep ==
  ASSUME NEW S, NEW G, Reach(S, G), NEW c \in Conns, Connect(c)
  PROVE  Lands(S, G)
<1>1. PICK d \in Devices[c] :
        conn' = [conn EXCEPT ![c].stage = "dialling", ![c].device = d, ![c].fd = NewFd]
  BY DEF Connect
<1>2. d \in Certificates BY DEF Certificates
<1>3. NewFd \in Slots BY NewFdType DEF Connect, Reach, Slots
<1>4. conn[c] \in Socket BY DEF Reach, TypeInv
<1> DEFINE s == [conn[c] EXCEPT !.stage = "dialling", !.device = d, !.fd = NewFd]
<1>5. s \in Socket /\ s.device = d BY <1>2, <1>3, <1>4 DEF Socket, Stages
<1>6. conn' = [conn EXCEPT ![c] = s] BY <1>1, <1>4 DEF Reach, TypeInv, Socket
<1> HIDE DEF s
<1>7. Successor(conn') BY <1>2, <1>5, <1>6, FreshSocket DEF Connect, Used, Reach
<1>8. doing' = "connect" /\ UNCHANGED <<serverVars, at, left, caller, history>> BY DEF Connect
<1>9. Position' BY <1>8 DEF Reach, TypeInv, Position
<1> QED BY <1>7, <1>8, <1>9, SameSockets
        DEF Lands, Reach, TypeInv, Refers, KeysKept, serverVars, history

\* A dialled device becomes a peer: the application trusts it.
LEMMA ConnectingStep ==
  ASSUME NEW S, NEW G, Reach(S, G), Connecting
  PROVE  Lands(S, G)
<1> DEFINE after(c, p, stage) == [conn EXCEPT ![c] = Settled([p.conn EXCEPT !.stage = stage])]
           Lost(c, p) ==
             /\ conn' = after(c, p, "closed") /\ UNCHANGED <<peers, fds, trusted>>
             /\ \/ doing' = "undefined" /\ UNCHANGED <<at, left, caller>>
                \/ Idle
           Made(c, p) ==
             /\ Idle /\ fds' = Append(fds, Entry(conn[c].fd)) /\ Holds(conn[c].stage)
             /\ \/ /\ peers' = [peers EXCEPT ![conn[c].fd] = c] /\ trusted' = trusted \cup {c}
                   /\ conn' = after(c, p, "open")
                \/ conn' = after(c, p, "closed") /\ UNCHANGED <<peers, trusted>>
           Goes(c, p) ==
             /\ UNCHANGED <<handshake, pending, listening, known, events, held, handed, refused, stale>>
             /\ Lost(c, p) \/ Made(c, p)
<1>1. PICK c \in Conns : conn[c].stage = "dialling" /\ \E p \in PreAuthPoll(conn[c]) : Goes(c, p)
  BY ZenonT(60) DEF Connecting, Holds
<1>2. PICK p \in PreAuthPoll(conn[c]) : Goes(c, p) BY <1>1
<1>3. c \in Opened /\ conn[c] \in Socket /\ Used(conn[c]) BY <1>1 DEF Reach, TypeInv, Opened, Used
<1>4. Follows(p.conn, conn[c]) BY <1>3, PollType
<1>5. ASSUME NEW stage \in {"open", "closed"}
      PROVE  Successor(after(c, p, stage))
  <2> DEFINE s == [p.conn EXCEPT !.stage = stage]
  <2>1. Follows(s, conn[c]) BY <1>4 DEF Follows, Socket, Stages, Used
  <2> HIDE DEF s
  <2>2. Follows(Settled(s), conn[c]) BY <2>1, SettledType DEF Follows, Used
  <2>3. Successor([conn EXCEPT ![c] = Settled(s)]) BY <1>3, <2>2, SocketStep DEF Reach
  <2> QED BY <2>3 DEF s
<1> HIDE DEF after
<1>6. KeysKept(known') BY <1>2, SameSockets DEF Reach, KeysKept
<1>7. CASE Lost(c, p)
  <2>1. Successor(conn') BY <1>5, <1>7
  <2>2. Position' BY <1>7, IdlePosition DEF Reach, TypeInv, Position
  <2> QED BY <1>2, <1>6, <1>7, <2>1, <2>2 DEF Lands, Reach, TypeInv, Refers
<1>8. CASE Made(c, p)
  <2>1. Successor(conn') BY <1>5, <1>8
  <2>2. Position' BY <1>8, IdlePosition
  <2>3. Entry(conn[c].fd) \in Entries BY <1>3 DEF Socket, Entry, Entries
  <2>4. fds' \in Seq(Entries) BY <1>8, <2>3, AppendProperties DEF Reach, TypeInv
  <2>5. peers' \in [Slots -> G \cup {None}] /\ trusted \subseteq trusted'
    BY <1>3, <1>8 DEF Reach, Refers
  <2> QED BY <1>2, <1>6, <2>1, <2>2, <2>4, <2>5 DEF Lands, Reach, TypeInv, Refers
<1> QED BY <1>2, <1>7, <1>8

LEMMA HangUpStep ==
  ASSUME NEW S, NEW G, Reach(S, G), NEW c \in Conns, HangUp(c)
  PROVE  Lands(S, G)
<1>1. c \in S /\ c \in Opened /\ conn[c] \in Socket /\ Used(conn[c])
  <2>1. c # None OBVIOUS
  <2>2. c \in S
    <3>1. CASE c \in held BY <3>1 DEF Reach, Refers
    <3>2. CASE \E f \in Slots : c \in {pending[f], peers[f]} BY <2>1, <3>2 DEF Reach, Refers
    <3> QED BY <3>1, <3>2 DEF HangUp
  <2> QED BY <2>2 DEF Reach, TypeInv, Opened
<1>2. Follows(Settled(Closed(conn[c])), conn[c]) BY <1>1, SettledType DEF Follows, Used
<1>3. conn' = [conn EXCEPT ![c] = Settled(Closed(conn[c]))] BY <1>1 DEF HangUp, Reach, TypeInv
<1>4. Successor(conn') BY <1>1, <1>2, <1>3, SocketStep DEF Reach
<1>5. UNCHANGED <<serverVars, loopVars, history>> BY DEF HangUp
<1> QED BY <1>4, <1>5, SameSockets
        DEF Lands, Reach, TypeInv, Refers, KeysKept, Position, serverVars, loopVars, history

LEMMA RestartStep ==
  ASSUME NEW S, NEW G, Reach(S, G), NEW disabled \in BOOLEAN, Restart(disabled)
  PROVE  Lands(S, G)
<1>1. conn' = [c \in Conns |-> IF conn[c].stage = "backlog" THEN Settled(Closed(conn[c])) ELSE conn[c]]
  BY DEF Restart
<1>2. ASSUME NEW c \in Conns
      PROVE  conn'[c] \in Socket /\ conn'[c].device = conn[c].device /\ (Used(conn'[c]) <=> Used(conn[c]))
  <2>1. conn[c] \in Socket BY DEF Reach, TypeInv
  <2>2. conn'[c] = IF conn[c].stage = "backlog" THEN Settled(Closed(conn[c])) ELSE conn[c] BY <1>1
  <2> QED BY <2>1, <2>2, SettledType DEF Used
<1>3. conn' = [c \in Conns |-> conn'[c]] BY <1>1
<1>4. Successor(conn') BY <1>2, <1>3 DEF Successor, Reach, Identified, Opened
<1>5. UNCHANGED <<handshake, pending, peers, fds, known, events, loopVars, history>> BY DEF Restart
<1> QED BY <1>4, <1>5, SameSockets
        DEF Lands, Reach, TypeInv, Refers, KeysKept, Position, loopVars, history

-----------------------------------------------------------------------------
LEMMA StartsWell == Init => Inv
<1> SUFFICES ASSUME Init PROVE Inv OBVIOUS
<1>1. <<>> \in Seq(Messages) /\ <<>> \in Seq(Entries) /\ <<>> \in Seq(EventsOf(Opened, Trustees))
  OBVIOUS
<1>2. Unopened \in Socket BY <1>1 DEF Unopened, Socket, Stages, Slots
<1>3. TypeInv BY <1>1, <1>2 DEF Init, TypeInv, Position
<1>4. Opened = {} BY DEF Init, Opened, Used, Unopened
<1>5. Refers(Opened, Trustees) BY <1>1 DEF Init, Refers
<1> QED BY <1>3, <1>4, <1>5 DEF Inv, Identified

\* What trusts a connection in a step still does after it.
LEMMA StepsWell == Inv /\ [Next]_vars => Inv'
<1> SUFFICES ASSUME Inv, [Next]_vars PROVE Inv' OBVIOUS
<1>1. CASE UNCHANGED vars
  BY <1>1 DEF Inv, TypeInv, Position, Identified, Opened, Trustees, Refers, KeyOf,
              vars, serverVars, loopVars, history
<1>2. CASE Next
  <2>1. PICK S : S = Opened OBVIOUS
  <2>2. PICK G : G = Trustees \cup (trusted' \cap S) OBVIOUS
  <2>3. Reach(S, G)
    <3>1. G \subseteq S BY <2>1, <2>2 DEF Trustees
    <3>2. Refers(S, G) BY <2>1, <2>2, Wider DEF Inv
    <3> QED BY <2>1, <2>2, <3>1, <3>2 DEF Reach, Inv
  <2>4. Lands(S, G)
    <3>1. ASSUME Step PROVE Lands(S, G)
      BY <2>3, <3>1, AcceptSocketStep, PollPeerStep, PollPendingStep, PollHandshakeStep, PollUnknownStep,
         ProcessRequestStep, PullStep, ReturnStep, ConnectingStep, ProcessConnectStep DEF Step
    <3>2. ASSUME Application PROVE Lands(S, G)
      BY <2>3, <3>2, StartPollStep, ConnectStep, HangUpStep, AcceptHeldStep, RestartStep DEF Application
    <3> QED BY <1>2, <2>3, <3>1, <3>2, NetworkStep DEF Next
  <2>5. TypeInv' /\ Identified' BY <2>4 DEF Lands, TypeInv, Successor, KeysKept, Identified, Opened
  <2>6. S \subseteq Opened' BY <2>1, <2>4 DEF Lands, Successor, Opened
  <2>7. G \subseteq Trustees'
    <3> SUFFICES ASSUME NEW c \in G PROVE c \in Trustees' OBVIOUS
    <3>1. c \in S /\ c \in Opened' /\ conn'[c].device = conn[c].device
      BY <2>1, <2>3, <2>4, <2>6 DEF Reach, Lands, Successor
    <3>2. CASE c \in trusted' BY <3>1, <3>2 DEF Trustees
    <3>3. CASE c \notin trusted'
      <4>1. c \notin trusted BY <2>4, <3>3 DEF Lands
      <4>2. KeyOf(c) = conn[c].device.key BY <2>2, <3>3, <4>1 DEF Trustees
      <4>3. conn[c].device \in Certificates BY <2>1, <3>1 DEF Inv, Identified
      <4>4. known'[conn[c].device.uuid] = known[conn[c].device.uuid]
        BY <2>4, <4>2, <4>3 DEF Lands, KeysKept, KeyOf, Certificates
      <4> QED BY <3>1, <4>2, <4>4 DEF Trustees, KeyOf
    <3> QED BY <3>2, <3>3
  <2>8. Refers(S, G)' BY <2>4 DEF Lands
  <2>9. PICK T, H : T = Opened' /\ H = Trustees' OBVIOUS
  <2>10. Refers(T, H)'
    <3>1. S \subseteq T /\ G \subseteq H BY <2>6, <2>7, <2>9
    <3>2. EventsOf(S, G) \subseteq EventsOf(T, H) BY <3>1 DEF EventsOf
    <3>3. events' \in Seq(EventsOf(T, H)) BY <2>8, <3>2, SeqWider DEF Refers
    <3> QED BY <2>8, <3>1, <3>3 DEF Refers
  <2> QED BY <2>5, <2>9, <2>10 DEF Inv
<1> QED BY <1>1, <1>2 DEF Next

LEMMA InvMeansTrusted == Inv => OnlyTrusted
<1> SUFFICES ASSUME Inv PROVE OnlyTrusted OBVIOUS
<1> DEFINE good(c) == c \in trusted \/ known[conn[c].device.uuid] = conn[c].device.key
<1>1. \A c \in Trustees : good(c) BY DEF Trustees, KeyOf
<1>2. \A f \in Slots : peers[f] # None => peers[f] \in Trustees BY DEF Inv, Refers
<1>3. \A i \in DOMAIN events : events[i].type = "REQUEST" => events[i].conn \in Trustees
  <2>1. \A i \in DOMAIN events : events[i] \in EventsOf(Opened, Trustees) BY DEF Inv, Refers
  <2> QED BY <2>1 DEF EventsOf
<1>4. \A c \in Conns : handed[c] # {} => c \in Trustees BY DEF Inv, Refers
<1> QED BY <1>1, <1>2, <1>3, <1>4 DEF OnlyTrusted

\* The application gets requests only from devices it accepted or dialled, or whose
\* key is the one it accepted under their name: process_events and pull_event hand
\* over what poll_peers, poll_handshake and accept_peer let through (Server.cpp).
THEOREM OnlyTrustedAlways == Spec => []OnlyTrusted
<1>1. Init => Inv BY StartsWell
<1>2. Inv /\ [Next]_vars => Inv' BY StepsWell
<1>3. Inv => OnlyTrusted BY InvMeansTrusted
<1> QED BY <1>1, <1>2, <1>3, PTL DEF Spec
-----------------------------------------------------------------------------
(***************************************************************************)
(* What becomes of a socket in a step, in more detail.                     *)
(***************************************************************************)
\* A nonempty finite set of numbers has a greatest one.
LEMMA Greatest ==
  ASSUME NEW T, T \subseteq Nat, IsFiniteSet(T), T # {}
  PROVE  \E x \in T : \A y \in T : y <= x
<1> DEFINE above(x) == {y \in T : x < y}
           sets == {above(x) : x \in T}
<1>1. sets \subseteq FiniteSubsetsOf(T) /\ sets # {}
  <2>1. \A x \in T : above(x) \in SUBSET T OBVIOUS
  <2>2. FiniteSubsetsOf(T) = SUBSET T BY FS_FiniteSubsetsOfFinite
  <2> HIDE DEF above
  <2>3. sets \subseteq SUBSET T BY <2>1
  <2>4. PICK t \in T : TRUE OBVIOUS
  <2>5. above(t) \in sets OBVIOUS
  <2> QED BY <2>2, <2>3, <2>5, Zenon
<1>2. IsWellFoundedOn(StrictSubsetOrdering(T), FiniteSubsetsOf(T))
  BY FS_StrictSubsetOrderingWellFounded
<1> HIDE DEF sets
<1>3. PICK low \in sets : \A other \in sets : <<other, low>> \notin StrictSubsetOrdering(T)
  BY <1>1, <1>2, WFMin, Zenon
<1>4. PICK x \in T : low = above(x) BY <1>3 DEF sets
<1>5. above(x) = {}
  <2> SUFFICES ASSUME NEW z \in above(x) PROVE FALSE OBVIOUS
  <2>1. z \in T /\ x < z /\ x \in Nat /\ z \in Nat OBVIOUS
  <2>2. above(z) \subseteq above(x) /\ z \notin above(z) /\ z \in above(x)
    <3>1. \A y \in Nat : z < y => x < y BY <2>1
    <3>2. ~(z < z) BY <2>1
    <3> QED BY <3>1, <3>2
  <2>3. above(z) \in sets BY <2>1 DEF sets
  <2>4. <<above(z), above(x)>> \in StrictSubsetOrdering(T)
    <3>1. above(z) \in SUBSET T /\ above(x) \in SUBSET T /\ above(z) # above(x) BY <2>2
    <3> HIDE DEF above
    <3> QED BY <2>2, <3>1 DEF StrictSubsetOrdering
  <2> QED BY <1>3, <1>4, <2>3, <2>4
<1>6. \A y \in T : y <= x BY <1>5
<1> QED BY <1>6

\* The version that is selected is one that both sides have.
LEMMA SelectedVersion ==
  ASSUME NEW list, list \cap Supported # {}
  PROVE  (CHOOSE v \in list \cap Supported : \A w \in list \cap Supported : w <= v) \in Supported
<1> DEFINE common == list \cap Supported
<1>1. common \subseteq Nat /\ IsFiniteSet(common) /\ common # {} BY FS_Subset
<1> HIDE DEF common
<1>2. \E v \in common : \A w \in common : w <= v BY <1>1, Greatest
<1> QED BY <1>2 DEF common

\* What a connection still has to say, in the order it was said.
Unread(r) == r.buffer \o r.inbox

LEMMA UnreadType ==
  ASSUME NEW r \in Socket
  PROVE  Unread(r) \in Seq(Messages)
BY ConcatProperties DEF Unread, Socket

\* A read that does not find the end of the connection takes all there is.
LEMMA ReadAll ==
  ASSUME NEW r \in Socket, Alive(Read(r))
  PROVE  /\ Read(r) = [r EXCEPT !.buffer = Unread(r), !.inbox = <<>>]
         /\ Unread(Read(r)) = Unread(r) /\ r.inbox # <<>>
<1>1. Read(r) = [r EXCEPT !.buffer = r.buffer \o r.inbox, !.inbox = <<>>] /\ r.inbox # <<>>
  BY DEF Read, Alive, Closed, Socket
<1>2. Read(r).buffer = Unread(r) /\ Read(r).inbox = <<>> BY <1>1 DEF Unread, Socket
<1>3. Unread(r) \o <<>> = Unread(r) BY UnreadType, ConcatEmptySeq
<1> QED BY <1>1, <1>2, <1>3 DEF Unread

\* How a poll_requests of a PreAuthPeer ends: the socket is closed; or nothing but its
\* buffer changes; or the version message is taken; or what there is is refused.
Ends(p, r) ==
  /\ ~Alive(p.conn) /\ p.conn.stage \in {r.stage, "closed"} /\ p.conn.version \in {r.version, None}
  /\ (p.refused # {} => r.version # None /\ p.end = "return")
Stays(p, r) ==
  /\ Alive(p.conn) /\ p.end = "return" /\ p.conn.stage = r.stage /\ p.conn.sent = r.sent
Reads(p, r) ==
  Stays(p, r) /\ p.conn.version = r.version /\ Unread(p.conn) = Unread(r) /\ p.refused = {}
Chooses(p, r) ==
  /\ Stays(p, r) /\ r.version = None /\ p.conn.version \in Supported
  /\ Unread(r) # <<>> /\ Unread(p.conn) = Tail(Unread(r)) /\ p.refused = {}
Refuses(p, r) ==
  /\ Stays(p, r) /\ r.version # None /\ p.conn.version = r.version
  /\ p.refused = {m.nr : m \in ToSet(Unread(r))}

LEMMA PollFate ==
  ASSUME NEW r0 \in Socket, NEW p \in PreAuthPoll(r0)
  PROVE  /\ p.conn.fd = r0.fd
         /\ Ends(p, r0) \/ Reads(p, r0) \/ Chooses(p, r0) \/ Refuses(p, r0)
<1> DEFINE r == Read(r0)
<1>1. /\ r.fd = r0.fd /\ r.stage \in {r0.stage, "closed"} /\ r.version = r0.version
      /\ r.sent = r0.sent /\ r.first = r0.first
  BY DEF Read, Closed, Socket
<1>2. Alive(r) => r.stage = r0.stage /\ Unread(r) = Unread(r0) /\ r.inbox = <<>>
                  /\ r.buffer = Unread(r0) /\ r.buffer # <<>>
  <2> SUFFICES ASSUME Alive(r) PROVE r.stage = r0.stage /\ Unread(r) = Unread(r0) /\ r.inbox = <<>>
                  /\ r.buffer = Unread(r0) /\ r.buffer # <<>>
    OBVIOUS
  <2>1. r = [r0 EXCEPT !.buffer = Unread(r0), !.inbox = <<>>] /\ Unread(r) = Unread(r0) /\ r0.inbox # <<>>
    BY ReadAll
  <2>2. Unread(r0) # <<>>
    <3>1. r0.inbox \in Seq(Messages) /\ r0.buffer \in Seq(Messages) BY DEF Socket
    <3> QED BY <2>1, <3>1, ConcatProperties, EmptySeq, LenProperties DEF Unread
  <2> HIDE DEF r
  <2> QED BY <2>1, <2>2 DEF Socket
<1>3. ASSUME NEW s, NEW nrs, NEW end, p = Polled(s, nrs, end)
      PROVE  /\ p.end = end /\ p.refused = nrs /\ p.conn.fd = s.fd /\ p.conn.stage = s.stage
             /\ s.stage # "closed" => p.conn = s
             /\ p.conn.version \in {s.version, None}
  BY <1>3 DEF Polled, Settled, Unopened
<1>4. \A s : Closed(s) = [s EXCEPT !.stage = "closed"] BY DEF Closed
<1>5. r \in Socket
  <2>1. r0.buffer \o r0.inbox \in Seq(Messages) /\ <<>> \in Seq(Messages) BY UnreadType DEF Unread
  <2> QED BY <2>1 DEF Read, Closed, Socket, Stages
<1> HIDE DEF r
<1>6. CASE ~Alive(r0)
  <2>1. p = Polled(r0, {}, "return") BY <1>6 DEF PreAuthPoll
  <2> QED BY <1>3, <1>6, <2>1 DEF Ends, Alive
<1>7. CASE Alive(r0) /\ r.buffer = <<>>
  <2>1. p = Polled(r, {}, "return") BY <1>7 DEF PreAuthPoll, r
  <2> QED BY <1>1, <1>2, <1>3, <1>7, <2>1 DEF Ends, Alive
<1>8. ASSUME NEW s, NEW nrs, p = Polled(s, nrs, "return"), ~Alive(r), s.stage = r.stage, s.fd = r.fd,
             r0.version # None, s.version = r.version
      PROVE  p.conn.fd = r0.fd /\ Ends(p, r0)
  <2>1. p.end = "return" /\ p.conn.fd = r0.fd /\ p.conn.stage = r.stage /\ p.conn.version \in {r0.version, None}
    BY <1>1, <1>3, <1>8
  <2>2. ~Alive(p.conn) /\ p.conn.stage \in {r0.stage, "closed"} BY <1>1, <1>8, <2>1 DEF Alive
  <2> QED BY <1>8, <2>1, <2>2 DEF Ends
<1>9. CASE Alive(r0) /\ r.buffer # <<>> /\ r.version # None /\ r.first
  <2> DEFINE s == [r EXCEPT !.first = FALSE]
  <2>1. p = Polled(s, {}, "return") BY <1>9 DEF PreAuthPoll, r
  <2>2. /\ s.stage = r.stage /\ s.fd = r.fd /\ s.version = r.version /\ s.sent = r.sent
        /\ s.buffer = r.buffer /\ s.inbox = r.inbox
    BY <1>5 DEF Socket
  <2> HIDE DEF s
  <2>3. CASE Alive(r)
    <3>1. s.stage # "closed" BY <2>2, <2>3 DEF Alive
    <3>2. p.conn = s /\ p.end = "return" /\ p.refused = {} BY <1>3, <2>1, <3>1
    <3>3. Alive(s) BY <2>2, <2>3 DEF Alive
    <3> QED BY <1>1, <1>2, <2>2, <2>3, <3>2, <3>3 DEF Reads, Stays, Unread
  <2>4. CASE ~Alive(r) BY <1>1, <1>8, <1>9, <2>1, <2>2, <2>4
  <2> QED BY <2>3, <2>4
<1>10. CASE Alive(r0) /\ r.buffer # <<>> /\ r.version # None /\ ~r.first
  <2> DEFINE s == [r EXCEPT !.buffer = <<>>]
             nrs == {m.nr : m \in ToSet(r.buffer)}
  <2>1. p = Polled(s, nrs, "return") BY <1>10 DEF PreAuthPoll, r
  <2>2. /\ s.stage = r.stage /\ s.fd = r.fd /\ s.version = r.version /\ s.sent = r.sent
    BY <1>5 DEF Socket
  <2> HIDE DEF s, nrs
  <2>3. CASE Alive(r)
    <3>1. s.stage # "closed" BY <2>2, <2>3 DEF Alive
    <3>2. p.conn = s /\ p.end = "return" /\ p.refused = nrs BY <1>3, <2>1, <3>1
    <3>3. Alive(s) BY <2>2, <2>3 DEF Alive
    <3>4. nrs = {m.nr : m \in ToSet(Unread(r0))} BY <1>2, <2>3 DEF nrs
    <3> QED BY <1>1, <1>2, <1>10, <2>2, <2>3, <3>2, <3>3, <3>4 DEF Refuses, Stays
  <2>4. CASE ~Alive(r) BY <1>1, <1>8, <1>10, <2>1, <2>2, <2>4
  <2> QED BY <2>3, <2>4
<1>11. CASE Alive(r0) /\ r.buffer # <<>> /\ r.version = None
  <2>1. p \in Negotiate(r) BY <1>11 DEF PreAuthPoll, r
  <2> DEFINE list == Head(r.buffer).list
             max == CHOOSE v \in list \cap Supported : \A w \in list \cap Supported : w <= v
             s == [r EXCEPT !.version = max, !.first = FALSE, !.buffer = Tail(r.buffer)]
  <2>2. \/ \E end \in {"return", "throw", "undefined"} : p = Polled(Closed(r), {}, end)
        \/ list \cap Supported # {} /\ p = Polled(s, {}, "return")
    BY <2>1 DEF Negotiate
  <2>3. ASSUME NEW end, p = Polled(Closed(r), {}, end)
        PROVE  p.conn.fd = r0.fd /\ Ends(p, r0)
    <3>1. Closed(r).stage = "closed" /\ Closed(r).fd = r.fd /\ Closed(r).version = r.version
      BY <1>4, <1>5 DEF Socket
    <3>2. p.conn.stage = "closed" /\ p.conn.fd = r0.fd /\ p.refused = {} /\ p.conn.version \in {r0.version, None}
      BY <1>1, <1>3, <2>3, <3>1
    <3> QED BY <3>2 DEF Ends, Alive
  <2>4. ASSUME list \cap Supported # {}, p = Polled(s, {}, "return")
        PROVE  p.conn.fd = r0.fd /\ (Ends(p, r0) \/ Chooses(p, r0))
    <3>1. max \in Supported BY <2>4, SelectedVersion
    <3> HIDE DEF max
    <3>2. /\ s.stage = r.stage /\ s.fd = r.fd /\ s.version = max /\ s.sent = r.sent
          /\ s.buffer = Tail(r.buffer) /\ s.inbox = r.inbox
      BY <1>5 DEF Socket
    <3> HIDE DEF s
    <3>3. CASE Alive(r)
      <4>1. p.conn = s /\ p.end = "return" /\ p.refused = {} BY <1>3, <2>4, <3>2, <3>3 DEF Alive
      <4>2. Unread(s) = Tail(Unread(r0))
        <5>1. Tail(r.buffer) \in Seq(Messages) BY <1>5, <1>11, HeadTailProperties DEF Socket
        <5>2. Tail(r.buffer) \o <<>> = Tail(r.buffer) BY <5>1, ConcatEmptySeq
        <5> QED BY <1>2, <3>2, <3>3, <5>2 DEF Unread
      <4> QED BY <1>1, <1>2, <1>11, <3>1, <3>2, <3>3, <4>1, <4>2 DEF Chooses, Stays, Alive
    <3>4. CASE ~Alive(r)
      <4>1. r.stage = "closed" BY <1>1, <1>11, <3>4 DEF Alive
      <4>2. p.conn = [Unopened EXCEPT !.stage = "closed", !.device = s.device, !.fd = s.fd, !.parsed = s.parsed] /\ p.refused = {}
        BY <2>4, <3>2, <4>1 DEF Polled, Settled
      <4> QED BY <1>1, <3>2, <4>2 DEF Ends, Alive, Unopened
    <3> QED BY <3>3, <3>4
  <2> QED BY <2>2, <2>3, <2>4
<1> QED BY <1>6, <1>7, <1>9, <1>10, <1>11

\* A socket that nothing refers to is closed, the others are as they were left.
LEMMA Released ==
  ASSUME NEW after \in [Conns -> Socket], Release(after), NEW c \in Conns
  PROVE  \/ conn'[c] = after[c]
         \/ /\ after[c].stage = "open" /\ ~Referred(c) /\ conn'[c].stage = "closed"
            /\ conn'[c].version = None /\ conn'[c].fd = after[c].fd
<1>1. conn'[c] = IF after[c].stage = "open" /\ ~Referred(c) THEN Settled(Closed(after[c])) ELSE after[c]
  BY DEF Release
<1>2. Closed(after[c]).stage = "closed" /\ Closed(after[c]).fd = after[c].fd
  <2>1. after[c] \in Socket OBVIOUS
  <2> QED BY <2>1 DEF Closed, Socket
<1>3. Settled(Closed(after[c])) = [Unopened EXCEPT !.stage = "closed", !.device = Closed(after[c]).device,
                                                   !.fd = Closed(after[c]).fd, !.parsed = Closed(after[c]).parsed]
  BY <1>2 DEF Settled
<1>4. LET s == Settled(Closed(after[c])) IN s.stage = "closed" /\ s.version = None /\ s.fd = after[c].fd
  BY <1>2, <1>3 DEF Unopened
<1> HIDE DEF Release, Referred
<1> QED BY <1>1, <1>4

-----------------------------------------------------------------------------
(***************************************************************************)
(* Who is in which map.                                                    *)
(***************************************************************************)
Early == {c \in Conns : conn[c].stage \in {"unused", "backlog", "dialling"}}
Shaking == {c \in Conns : \E f \in Slots : handshake[f] = c}
Waiting == {c \in Conns : \E f \in Slots : pending[f] = c}
Joined == {c \in Conns : \E f \in Slots : peers[f] = c}
\* Those the application has, or is to hear of.
Named == held \cup {c \in Conns : \E i \in DOMAIN events : events[i].conn = c}

\* A connection goes through the maps in one direction, and as long as it is in the
\* handshake nobody else has it.  One that stays there with a version has a key other
\* than the one known under its name.
MapInv ==
  /\ Early \cap (Shaking \cup Waiting \cup Joined \cup Named) = {}
  /\ \A c \in Early : conn[c].version = None /\ refused[c] = {}
  /\ Shaking \cap (Waiting \cup Joined \cup Named) = {}
  /\ \A f, g \in Slots : handshake[f] = handshake[g] /\ handshake[f] # None => f = g
  /\ \A c \in Shaking : (conn[c].version = None /\ refused[c] = {}) \/ Mismatch(c)
  /\ Waiting \cap Joined \subseteq trusted
  /\ \A c \in Joined : c \in trusted \/ refused[c] = {}
  /\ refused = [c \in Conns |-> refused[c]]

\* Every step lands somewhere.
LEMMA NextLands ==
  ASSUME Inv, Next
  PROVE  Successor(conn') /\ KeysKept(known') /\ trusted \subseteq trusted'
<1>1. PICK S : S = Opened OBVIOUS
<1>2. PICK G : G = Trustees \cup (trusted' \cap S) OBVIOUS
<1>3. Reach(S, G)
  <2>1. G \subseteq S BY <1>1, <1>2 DEF Trustees
  <2>2. Refers(S, G) BY <1>1, <1>2, Wider DEF Inv
  <2> QED BY <1>1, <1>2, <2>1, <2>2 DEF Reach, Inv
<1>4. ASSUME Step PROVE Lands(S, G)
  BY <1>3, <1>4, AcceptSocketStep, PollPeerStep, PollPendingStep, PollHandshakeStep, PollUnknownStep,
     ProcessRequestStep, PullStep, ReturnStep, ConnectingStep, ProcessConnectStep DEF Step
<1>5. ASSUME Application PROVE Lands(S, G)
  BY <1>3, <1>5, StartPollStep, ConnectStep, HangUpStep, AcceptHeldStep, RestartStep DEF Application
<1>6. Lands(S, G) BY <1>3, <1>4, <1>5, NetworkStep DEF Next
<1> QED BY <1>6 DEF Lands

\* A key that is not the one known stays so.
LEMMA MismatchStays ==
  ASSUME Inv, Next, NEW c \in Opened, Mismatch(c)
  PROVE  Mismatch(c)'
<1>1. Successor(conn') /\ KeysKept(known') BY NextLands
<1>2. conn[c].device \in Certificates /\ conn'[c].device = conn[c].device
  BY <1>1 DEF Inv, Identified, Successor
<1>3. known[conn[c].device.uuid] \notin {None, conn[c].device.key} BY DEF Mismatch, KeyOf
<1>4. known'[conn[c].device.uuid] = known[conn[c].device.uuid]
  BY <1>1, <1>2, <1>3 DEF KeysKept, Certificates
<1> QED BY <1>2, <1>3, <1>4 DEF Mismatch, KeyOf

LEMMA MappedOpened ==
  ASSUME Inv
  PROVE  /\ Shaking \cup Waiting \cup Joined \cup Named \subseteq Opened
         /\ handshake \in [Slots -> Opened \cup {None}] /\ pending \in [Slots -> Opened \cup {None}]
         /\ peers \in [Slots -> Opened \cup {None}]
<1>1. Refers(Opened, Trustees) /\ Trustees \subseteq Opened BY DEF Inv, Trustees
<1>2. \A i \in DOMAIN events : events[i] \in EventsOf(Opened, Trustees) BY <1>1 DEF Refers
<1>3. \A i \in DOMAIN events : events[i].conn \in Opened \cup {None} BY <1>1, <1>2 DEF EventsOf
<1> QED BY <1>1, <1>3 DEF Refers, Shaking, Waiting, Joined, Named, Opened

\* A step takes connections out of the maps, or puts there one that leaves the handshake
\* or a trusted one that was not in it.
LEMMA MapsKept ==
  ASSUME Inv, Next, MapInv,
         \A f \in Slots : handshake'[f] \in {handshake[f], None}, Early' \subseteq Early,
         Waiting' \subseteq Waiting \cup (Shaking \ Shaking'),
         Named' \subseteq Named \cup Joined \cup (Shaking \ Shaking'),
         Joined' \subseteq Joined \cup (trusted' \ (Shaking \cup Early'))
                           \cup {c \in Shaking \ Shaking' : ~Mismatch(c)},
         Waiting' \cap Joined' \cap Shaking = {},
         \A c \in Conns : \/ refused'[c] = refused[c] \/ c \in Waiting
                          \/ c \notin Shaking' \cup Joined' \cup Early'
                          \/ c \in Shaking' /\ Mismatch(c),
         refused' = [c \in Conns |-> refused'[c]],
         \A c \in Early' : conn'[c].version \in {conn[c].version, None},
         \A c \in Shaking' : conn'[c].version \in {conn[c].version, None} \/ Mismatch(c)
  PROVE  MapInv'
<1>1. Shaking' \subseteq Shaking
  <2> SUFFICES ASSUME NEW c \in Conns, NEW f \in Slots, handshake'[f] = c PROVE c \in Shaking
    BY DEF Shaking
  <2>1. c # None OBVIOUS
  <2> QED BY <2>1 DEF Shaking
<1>2. trusted \subseteq trusted' BY NextLands
<1>3. (Early \cap (Shaking \cup Waiting \cup Joined \cup Named) = {})'
  BY <1>1 DEF MapInv
<1>4. (Shaking \cap (Waiting \cup Joined \cup Named) = {})' BY <1>1 DEF MapInv
<1>5. Waiting' \cap Joined' \subseteq trusted' BY <1>2 DEF MapInv
<1>6. ASSUME NEW c \in Conns, c \in Joined' PROVE c \in trusted' \/ refused'[c] = {}
  <2>1. CASE c \in Shaking
    <3>1. c \notin Joined /\ c \notin Waiting BY <2>1 DEF MapInv
    <3>2. c \notin Shaking' /\ ~Mismatch(c) BY <1>6, <2>1, <3>1
    <3>3. refused[c] = {} BY <2>1, <3>2 DEF MapInv
    <3> QED BY <1>6, <3>1, <3>2, <3>3
  <2>2. CASE c \notin Shaking BY <1>1, <1>2, <1>6, <2>2 DEF MapInv
  <2> QED BY <2>1, <2>2
<1>7. ASSUME NEW c \in Conns, c \in Early' PROVE conn'[c].version = None /\ refused'[c] = {}
  <2>1. c \in Early /\ c \notin Shaking /\ c \notin Waiting BY <1>7 DEF MapInv
  <2>2. refused'[c] = refused[c] BY <1>1, <1>7, <2>1
  <2> QED BY <1>7, <2>1, <2>2 DEF MapInv
<1>8. ASSUME NEW c \in Conns, c \in Shaking'
      PROVE  (conn'[c].version = None /\ refused'[c] = {}) \/ Mismatch(c)'
  <2>1. c \in Shaking /\ c \notin Waiting /\ c \in Opened BY <1>1, <1>8, MappedOpened DEF MapInv
  <2>2. CASE Mismatch(c) BY <2>1, <2>2, MismatchStays
  <2>3. CASE ~Mismatch(c)
    <3>1. refused'[c] = refused[c] /\ conn'[c].version \in {conn[c].version, None} BY <1>8, <2>1, <2>3
    <3> QED BY <2>1, <2>3, <3>1 DEF MapInv
  <2> QED BY <2>2, <2>3
<1>9. \A f, g \in Slots : handshake'[f] = handshake'[g] /\ handshake'[f] # None => f = g
  BY DEF MapInv
<1>10. Early' \subseteq Conns /\ Shaking' \subseteq Conns /\ Joined' \subseteq Conns
  BY DEF Early, Shaking, Joined
<1> HIDE DEF Early, Shaking, Joined
<1> QED BY <1>3, <1>4, <1>5, <1>6, <1>7, <1>8, <1>9, <1>10 DEF MapInv

\* What a step leaves of a connection: closed, or what it was.
Fades(s, r) == s.stage \in {r.stage, "closed"} /\ s.version \in {r.version, None} /\ s.fd = r.fd

LEMMA FadesEarly ==
  ASSUME \A c \in Conns : Fades(conn'[c], conn[c])
  PROVE  /\ Early' \subseteq Early
         /\ \A c \in Early' \cup Shaking' : conn'[c].version \in {conn[c].version, None}
BY DEF Fades, Early, Shaking

LEMMA FadesWhenReleased ==
  ASSUME TypeInv, Release(conn)
  PROVE  \A c \in Conns : Fades(conn'[c], conn[c])
<1> SUFFICES ASSUME NEW c \in Conns PROVE Fades(conn'[c], conn[c]) OBVIOUS
<1>1. conn \in [Conns -> Socket] BY DEF TypeInv
<1> QED BY <1>1, Released DEF Fades

\* Nobody new is heard of when an event is taken.
LEMMA NamedKept ==
  ASSUME Inv,
         \A c \in held' : c \in held \/ (c # None /\ \E k \in DOMAIN events : c = events[k].conn),
         \A j \in DOMAIN events' : events'[j].conn = None \/ \E k \in DOMAIN events : events'[j].conn = events[k].conn
  PROVE  Named' \subseteq Named
<1>1. \A k \in DOMAIN events : events[k].conn \in Conns \cup {None}
  <2>1. \A k \in DOMAIN events : events[k] \in EventsOf(Opened, Trustees) BY DEF Inv, Refers
  <2> QED BY <2>1 DEF EventsOf, Trustees, Opened
<1>2. \A c \in held' : c \in Named BY <1>1 DEF Named
<1>3. ASSUME NEW c \in Conns, NEW j \in DOMAIN events', events'[j].conn = c PROVE c \in Named
  <2>1. c # None OBVIOUS
  <2> QED BY <1>3, <2>1 DEF Named
<1>4. Named' = held' \cup {c \in Conns : \E j \in DOMAIN events' : events'[j].conn = c} BY DEF Named
<1> QED BY <1>2, <1>3, <1>4

\* A step that leaves the maps and says nothing of anybody new.
LEMMA QuietMaps ==
  ASSUME Inv, Next, MapInv, UNCHANGED <<handshake, pending, peers, refused>>, Named' \subseteq Named,
         Early' \subseteq Early, \A c \in Early' \cup Shaking' : conn'[c].version \in {conn[c].version, None}
  PROVE  MapInv'
<1>1. Shaking' = Shaking /\ Waiting' = Waiting /\ Joined' = Joined BY DEF Shaking, Waiting, Joined
<1>2. Waiting \cap Joined \cap Shaking = {} /\ refused' = [c \in Conns |-> refused'[c]] BY DEF MapInv
<1> HIDE DEF Shaking, Waiting, Joined, Early, Named
<1> QED BY <1>1, <1>2, MapsKept

\* What the network does to a connection: it begins, a message comes, or it ends.
LEMMA NetworkEffect ==
  ASSUME TypeInv, Network
  PROVE  \E c \in Conns :
           /\ \A d \in Conns \ {c} : conn'[d] = conn[d]
           /\ \E r \in {conn'[c]} :
                /\ r.version = conn[c].version /\ r.fd = conn[c].fd /\ r.buffer = conn[c].buffer
                /\ \/ conn[c].stage = "unused" /\ r.stage = "backlog" /\ r.sent = conn[c].sent /\ r.inbox = conn[c].inbox
                   \/ /\ r.stage = conn[c].stage /\ r.stage \in {"backlog", "dialling", "open"}
                      /\ r.sent = conn[c].sent + 1
                      /\ \E m \in Messages : m.nr = conn[c].sent /\ r.inbox = Append(conn[c].inbox, m)
                   \/ r.stage = conn[c].stage /\ r.sent = conn[c].sent /\ r.inbox = conn[c].inbox
<1>1. PICK c \in Conns : Arrive(c) \/ Send(c) \/ Leave(c) BY DEF Network
<1>2. conn \in [Conns -> Socket] /\ conn[c] \in Socket BY DEF TypeInv
<1>3. CASE Arrive(c)
  <2>1. PICK d \in Devices[c] : conn' = [conn EXCEPT ![c].stage = "backlog", ![c].device = d]
    BY <1>3 DEF Arrive
  <2> DEFINE r == [conn[c] EXCEPT !.stage = "backlog", !.device = d]
  <2>2. conn' = [conn EXCEPT ![c] = r] BY <1>2, <2>1 DEF Socket
  <2>3. /\ r.version = conn[c].version /\ r.fd = conn[c].fd /\ r.buffer = conn[c].buffer
        /\ conn[c].stage = "unused" /\ r.stage = "backlog" /\ r.sent = conn[c].sent /\ r.inbox = conn[c].inbox
    BY <1>2, <1>3 DEF Socket, Arrive
  <2> HIDE DEF r
  <2>4. conn'[c] = r /\ \A e \in Conns \ {c} : conn'[e] = conn[e] BY <1>2, <2>2
  <2> QED BY <2>3, <2>4
<1>4. CASE Send(c)
  <2>1. PICK m \in Messages : m.nr = conn[c].sent
           /\ conn' = [conn EXCEPT ![c].sent = @ + 1, ![c].inbox = Append(@, m)]
    BY <1>4 DEF Send
  <2> DEFINE r == [conn[c] EXCEPT !.sent = @ + 1, !.inbox = Append(@, m)]
  <2>2. conn' = [conn EXCEPT ![c] = r] BY <1>2, <2>1 DEF Socket
  <2>3. /\ r.version = conn[c].version /\ r.fd = conn[c].fd /\ r.buffer = conn[c].buffer
        /\ r.stage = conn[c].stage /\ r.stage \in {"backlog", "dialling", "open"}
        /\ r.sent = conn[c].sent + 1 /\ r.inbox = Append(conn[c].inbox, m)
    BY <1>2, <1>4 DEF Socket, Send
  <2> HIDE DEF r
  <2>4. conn'[c] = r /\ \A e \in Conns \ {c} : conn'[e] = conn[e] BY <1>2, <2>2
  <2> QED BY <2>1, <2>3, <2>4
<1>5. CASE Leave(c)
  <2> DEFINE r == [conn[c] EXCEPT !.gone = TRUE]
  <2>1. conn' = [conn EXCEPT ![c] = r] BY <1>2, <1>5 DEF Leave, Socket
  <2>2. /\ r.version = conn[c].version /\ r.fd = conn[c].fd /\ r.buffer = conn[c].buffer
        /\ r.stage = conn[c].stage /\ r.sent = conn[c].sent /\ r.inbox = conn[c].inbox
    BY <1>2 DEF Socket
  <2> HIDE DEF r
  <2>3. conn'[c] = r /\ \A e \in Conns \ {c} : conn'[e] = conn[e] BY <1>2, <2>1
  <2> QED BY <2>2, <2>3
<1> QED BY <1>1, <1>3, <1>4, <1>5

LEMMA NetworkMaps == ASSUME Inv, Next, MapInv, Network PROVE MapInv'
<1>1. UNCHANGED <<handshake, pending, peers, refused, held, events>>
  BY DEF Network, Arrive, Send, Leave, serverVars, history
<1>2. ASSUME NEW d \in Conns
      PROVE  conn'[d].version = conn[d].version /\ (d \in Early' => d \in Early)
  <2>1. TypeInv BY DEF Inv
  <2>2. conn'[d].version = conn[d].version /\ (conn'[d].stage = conn[d].stage \/ conn[d].stage = "unused")
    BY <2>1, NetworkEffect
  <2> QED BY <2>2 DEF Early
<1>3. Named' = Named BY <1>1 DEF Named
<1>4. Early' \subseteq Early /\ Shaking' \subseteq Conns BY <1>2 DEF Early, Shaking
<1> QED BY <1>1, <1>2, <1>3, <1>4, QuietMaps DEF Early

LEMMA IdleMaps ==
  ASSUME Inv, Next, MapInv,
         \/ \E call \in {"process", "pull"} : StartPoll(call)
         \/ PollUnknown \/ ProcessRequest \/ PullNothing
         \/ \E c \in Conns : HangUp(c)
         \/ \E disabled \in BOOLEAN : Restart(disabled)
  PROVE  MapInv'
<1>1. UNCHANGED <<handshake, pending, peers, refused, held, events>>
  BY DEF StartPoll, PollUnknown, ProcessRequest, HandRequest, PullNothing, HangUp, Restart, serverVars, history
<1>2. \A r \in Socket : Fades(r, r) /\ Fades(Settled(Closed(r)), r)
  <2> SUFFICES ASSUME NEW r \in Socket PROVE Fades(Settled(Closed(r)), r)
    BY DEF Fades
  <2>1. Closed(r).stage = "closed" /\ Closed(r).fd = r.fd BY DEF Closed, Socket
  <2>2. Settled(Closed(r)) = [Unopened EXCEPT !.stage = "closed", !.device = Closed(r).device, !.fd = Closed(r).fd,
                                            !.parsed = Closed(r).parsed]
    BY <2>1 DEF Settled
  <2> QED BY <2>1, <2>2 DEF Fades, Unopened
<1>3. ASSUME NEW d \in Conns PROVE Fades(conn'[d], conn[d])
  <2>1. conn \in [Conns -> Socket] BY DEF Inv, TypeInv
  <2>2. conn'[d] \in {conn[d], Settled(Closed(conn[d]))}
    BY <2>1 DEF StartPoll, PollUnknown, ProcessRequest, PullNothing, HangUp, Restart
  <2> QED BY <1>2, <2>1, <2>2
<1>4. Named' = Named BY <1>1 DEF Named
<1> QED BY <1>1, <1>3, <1>4, FadesEarly, QuietMaps

LEMMA TakenMaps == ASSUME Inv, Next, MapInv, Pull \/ ProcessEnd PROVE MapInv'
<1>1. UNCHANGED <<handshake, pending, peers, refused>> /\ Release(conn)
  BY DEF Pull, ProcessEnd, HandRequest, history
<1>2. events \in Seq(EventsOf(Opened, Trustees)) BY DEF Inv, Refers
<1>3. Named' \subseteq Named
  <2>1. CASE ProcessEnd
    <3>1. events' = <<>> /\ held' = held BY <2>1 DEF ProcessEnd, history
    <3> QED BY <3>1, NamedKept
  <2>2. CASE Pull
    <3>1. Len(events) \in Nat /\ Len(events) \in DOMAIN events /\ DOMAIN events = 1 .. Len(events)
      BY <1>2, <2>2, LenProperties, EmptySeq DEF Pull
    <3>2. events' = SubSeq(events, 1, Len(events) - 1) BY <2>2 DEF Pull, Front
    <3>3. \A i \in 1 .. Len(events) - 1 : events'[i] = events[i] /\ i \in DOMAIN events
      BY <1>2, <3>1, <3>2, SubSeqProperties
    <3>4. DOMAIN events' = 1 .. Len(events) - 1
      <4>1. \A i \in 1 .. Len(events) - 1 : events[i] \in EventsOf(Opened, Trustees) BY <1>2, <3>1
      <4>2. events' \in Seq(EventsOf(Opened, Trustees)) /\ Len(events') = Len(events) - 1
        BY <3>1, <3>2, <4>1, SubSeqProperties
      <4> QED BY <4>2, LenProperties
    <3>5. held' = held \/ held' = held \cup ({events[Len(events)].conn} \ {None})
      BY <2>2 DEF Pull, HandRequest, Last
    <3> QED BY <3>1, <3>3, <3>4, <3>5, NamedKept
  <2> QED BY <2>1, <2>2
<1>4. \A c \in Conns : Fades(conn'[c], conn[c]) BY <1>1, FadesWhenReleased DEF Inv
<1> QED BY <1>1, <1>3, <1>4, FadesEarly, QuietMaps
-----------------------------------------------------------------------------
(***************************************************************************)
(* The steps that move a connection, each in a form that the invariants    *)
(* below can use.                                                          *)
(***************************************************************************)
Placed(c, stage) == [conn EXCEPT ![c] = [conn[c] EXCEPT !.stage = stage, !.fd = NewFd]]

LEMMA PlacedType ==
  ASSUME TypeInv, FreeFds # {}, NEW c \in Conns, NEW stage \in Stages
  PROVE  /\ Placed(c, stage) \in [Conns -> Socket] /\ NewFd \in Fds
         /\ \A d \in Conns \ {c} : Placed(c, stage)[d] = conn[d]
         /\ \E r \in {Placed(c, stage)[c]} :
              /\ r.stage = stage /\ r.fd = NewFd /\ r.version = conn[c].version /\ r.sent = conn[c].sent
              /\ r.inbox = conn[c].inbox /\ r.buffer = conn[c].buffer
<1> DEFINE r == [conn[c] EXCEPT !.stage = stage, !.fd = NewFd]
<1>1. conn \in [Conns -> Socket] /\ conn[c] \in Socket /\ NewFd \in Fds BY NewFdType DEF TypeInv
<1>2. r \in Socket BY <1>1 DEF Socket, Slots
<1>3. /\ r.stage = stage /\ r.fd = NewFd /\ r.version = conn[c].version /\ r.sent = conn[c].sent
      /\ r.inbox = conn[c].inbox /\ r.buffer = conn[c].buffer
  BY <1>1 DEF Socket
<1>4. Placed(c, stage) = [conn EXCEPT ![c] = r] BY DEF Placed
<1> HIDE DEF r
<1> QED BY <1>1, <1>2, <1>3, <1>4

LEMMA AcceptSocketShape ==
  ASSUME TypeInv, AcceptSocket
  PROVE  \E c \in Conns :
           /\ conn[c].stage = "backlog" /\ FreeFds # {}
           /\ UNCHANGED <<pending, peers, listening, known, events, history>>
           /\ \/ conn' = Placed(c, "leaked") /\ ThrowInLoop /\ UNCHANGED handshake
              \/ /\ handshake' = IF handshake[NewFd] = None THEN [handshake EXCEPT ![NewFd] = c] ELSE handshake
                 /\ Release(Placed(c, "open"))
                 /\ \/ doing' = "undefined" /\ fds' = Append(fds, Entry(NewFd)) /\ UNCHANGED <<at, left, caller>>
                    \/ Advance(Append(fds, Entry(NewFd)), 1, left - 1)
<1> DEFINE here(c) == [conn EXCEPT ![c].stage = "open", ![c].fd = NewFd]
           leaked(c) == [here(c) EXCEPT ![c].stage = "leaked"]
<1>1. PICK c \in Conns :
        /\ conn[c].stage = "backlog" /\ FreeFds # {}
        /\ \/ conn' = leaked(c) /\ ThrowInLoop /\ UNCHANGED handshake
           \/ /\ handshake' = IF handshake[NewFd] = None THEN [handshake EXCEPT ![NewFd] = c] ELSE handshake
              /\ Release(here(c))
              /\ \/ doing' = "undefined" /\ fds' = Append(fds, Entry(NewFd)) /\ UNCHANGED <<at, left, caller>>
                 \/ Advance(Append(fds, Entry(NewFd)), 1, left - 1)
        /\ UNCHANGED <<pending, peers, listening, known, events, history>>
  BY ZenonT(60) DEF AcceptSocket
<1>2. conn \in [Conns -> Socket] /\ conn[c] \in Socket BY DEF TypeInv
<1> DEFINE s == [conn[c] EXCEPT !.stage = "open", !.fd = NewFd]
           t == [conn[c] EXCEPT !.stage = "leaked", !.fd = NewFd]
<1>3. here(c) = [conn EXCEPT ![c] = s] BY <1>2 DEF Socket
<1>4. t = [s EXCEPT !.stage = "leaked"] BY <1>2 DEF Socket
<1>5. leaked(c) = [conn EXCEPT ![c] = t]
  <2> HIDE DEF s, t, here
  <2> SUFFICES [[conn EXCEPT ![c] = s] EXCEPT ![c].stage = "leaked"] = [conn EXCEPT ![c] = t]
    BY <1>3
  <2> QED BY <1>2, <1>4
<1>6. here(c) = Placed(c, "open") /\ leaked(c) = Placed(c, "leaked") BY <1>3, <1>5 DEF Placed
<1> HIDE DEF here, leaked
<1> QED BY <1>1, <1>6

\* The loop is at a connection in one of the maps.
LEMMA PolledOpened ==
  ASSUME Inv, NEW map \in {handshake, pending, peers}, NEW c \in Conns, Polling(map, c)
  PROVE  /\ c \in Opened /\ fds[at].fd \in Slots /\ map[fds[at].fd] = c /\ at \in DOMAIN fds
         /\ fds \in Seq(Entries) /\ at \in Nat \ {0}
<1>1. at \in 1 .. Len(fds) /\ fds \in Seq(Entries) BY DEF Polling, Inv, TypeInv, Position
<1>2. at \in DOMAIN fds /\ fds[at] \in Entries /\ at \in Nat \ {0} BY <1>1
<1>3. fds[at].fd \in Slots BY <1>2 DEF Entries
<1> QED BY <1>1, <1>2, <1>3, MappedOpened DEF Polling

\* pull_requests takes all there is; or it finds the end of the connection.
Takes(got, messages) == \A i \in 1 .. Len(messages) : \E j \in 1 .. Len(got) : got[j].nr = messages[i].nr
PeerPolled(c, r, got) ==
  /\ Polling(peers, c) /\ r.fd = conn[c].fd /\ Release([conn EXCEPT ![c] = r])
  /\ events' = events \o [i \in DOMAIN got |-> [type |-> "REQUEST", conn |-> c, nr |-> got[i].nr]]
  /\ UNCHANGED <<handshake, pending, listening, known, history>>
  /\ \/ /\ Alive(r) /\ r.stage = conn[c].stage /\ r.version = conn[c].version /\ r.sent = conn[c].sent
        /\ Takes(got, Unread(conn[c])) /\ Advance(fds, at + 1, left - 1) /\ UNCHANGED peers
     \/ /\ ~Alive(r) /\ r.stage \in {conn[c].stage, "closed"} /\ r.version \in {conn[c].version, None}
        /\ Advance(DeleteMove(fds, at), at, left - 1) /\ peers' = [peers EXCEPT ![fds[at].fd] = None]

\* It fails: the buffer is kept, or the end of the connection was found.
Kept(r, s) == s.stage = r.stage /\ s.version = r.version /\ s.sent = r.sent /\ Unread(s) = Unread(r)
PeerFails(c, r) ==
  /\ Polling(peers, c) /\ r.fd = conn[c].fd /\ conn' = [conn EXCEPT ![c] = r]
  /\ r.stage \in {conn[c].stage, "closed"} /\ r.version \in {conn[c].version, None}
  /\ Alive(r) => Kept(conn[c], r)
  /\ ThrowInLoop /\ UNCHANGED <<handshake, pending, peers, listening, known, events, history>>

\* The socket after the read.
LEMMA FoundShape ==
  ASSUME NEW c \in Conns, conn[c] \in Socket
  PROVE  /\ Found(c) \in Socket /\ Found(c).fd = conn[c].fd /\ Found(c).stage \in {conn[c].stage, "closed"}
         /\ Found(c).version = conn[c].version /\ Found(c).sent = conn[c].sent
         /\ Found(c).parsed = conn[c].parsed
         /\ Alive(Found(c)) => /\ Found(c).stage = conn[c].stage /\ Found(c).buffer = Unread(conn[c])
                               /\ Unread(Found(c)) = Unread(conn[c])
<1>1. CASE ~Alive(conn[c])
  <2>1. <<>> \in Seq(Messages) OBVIOUS
  <2>2. Found(c) = [conn[c] EXCEPT !.buffer = <<>>] BY <1>1 DEF Found
  <2> QED BY <1>1, <2>1, <2>2 DEF Socket, Alive
<1>2. CASE Alive(conn[c])
  <2> DEFINE read == Read(conn[c])
  <2>1. Found(c) = read BY <1>2 DEF Found
  <2>2. read \in Socket /\ read.fd = conn[c].fd /\ read.stage \in {conn[c].stage, "closed"}
        /\ read.version = conn[c].version /\ read.sent = conn[c].sent /\ read.parsed = conn[c].parsed
    <3>1. conn[c].buffer \o conn[c].inbox \in Seq(Messages) /\ <<>> \in Seq(Messages)
      BY UnreadType DEF Unread
    <3> QED BY <3>1 DEF Read, Closed, Socket, Stages
  <2>3. ASSUME Alive(read)
        PROVE  read.buffer = Unread(conn[c]) /\ read.stage = conn[c].stage /\ Unread(read) = Unread(conn[c])
    <3>1. read = [conn[c] EXCEPT !.buffer = Unread(conn[c]), !.inbox = <<>>] /\ Unread(read) = Unread(conn[c])
      BY <2>3, ReadAll, Zenon
    <3> HIDE DEF read
    <3> QED BY <3>1 DEF Socket
  <2> HIDE DEF read
  <2> QED BY <2>1, <2>2, <2>3
<1> QED BY <1>1, <1>2

\* Only the device and the descriptor of a closed socket are looked at.
LEMMA SettledShape ==
  ASSUME NEW r \in Socket
  PROVE  /\ Settled(r) \in Socket /\ Settled(r).fd = r.fd /\ Settled(r).stage = r.stage
         /\ Settled(r).version \in {r.version, None}
         /\ r.stage # "closed" => Settled(r) = r
<1>1. Settled(r) \in Socket /\ Settled(r).stage = r.stage BY SettledType
<1>2. r.stage # "closed" => Settled(r) = r BY DEF Settled
<1>3. r.stage = "closed" => Settled(r).fd = r.fd /\ Settled(r).version = None BY DEF Settled, Unopened
<1> QED BY <1>1, <1>2, <1>3

LEMMA PullRequestsShape ==
  ASSUME Inv, NEW c \in Conns, Polling(peers, c), PullRequests(c)
  PROVE  \E r \in Socket : \E got \in Seq(Messages) : PeerPolled(c, r, got)
<1> DEFINE found == Found(c)
           empty == [found EXCEPT !.buffer = <<>>, !.parsed = <<>>]
           r == Settled(empty)
           got == conn[c].parsed \o found.buffer
<1>1. conn[c] \in Socket BY DEF Inv, TypeInv
<1>2. /\ found \in Socket /\ found.fd = conn[c].fd /\ found.stage \in {conn[c].stage, "closed"}
      /\ found.version = conn[c].version /\ found.sent = conn[c].sent
      /\ Alive(found) => found.stage = conn[c].stage /\ found.buffer = Unread(conn[c])
  BY <1>1, FoundShape
<1>3. /\ events' = events \o [i \in DOMAIN got |-> [type |-> "REQUEST", conn |-> c, nr |-> got[i].nr]]
      /\ \/ Alive(r) /\ Advance(fds, at + 1, left - 1) /\ UNCHANGED peers
         \/ ~Alive(r) /\ Advance(DeleteMove(fds, at), at, left - 1) /\ peers' = [peers EXCEPT ![fds[at].fd] = None]
      /\ UNCHANGED <<handshake, pending, listening, known, history>>
      /\ Release([conn EXCEPT ![c] = r])
  BY DEF PullRequests
<1> HIDE DEF found
<1>4. /\ empty \in Socket /\ empty.fd = conn[c].fd /\ empty.stage = found.stage
      /\ empty.version = conn[c].version /\ empty.sent = conn[c].sent
  <2>1. <<>> \in Seq(Messages) OBVIOUS
  <2> QED BY <1>2, <2>1 DEF Socket
<1> HIDE DEF empty
<1>5. r \in Socket /\ r.fd = conn[c].fd /\ r.stage = found.stage /\ r.version \in {conn[c].version, None}
      /\ (r.stage # "closed" => r = empty)
  BY <1>4, SettledShape
<1> HIDE DEF r
<1>6. conn[c].parsed \in Seq(Messages) /\ found.buffer \in Seq(Messages) BY <1>1, <1>2 DEF Socket
<1>7. got \in Seq(Messages) BY <1>6, ConcatProperties
<1>8. Takes(got, found.buffer)
  <2>4. PICK a, b : a = conn[c].parsed /\ b = found.buffer OBVIOUS
  <2>5. a \in Seq(Messages) /\ b \in Seq(Messages) BY <1>6, <2>4
  <2>1. /\ Len(a) \in Nat /\ Len(b) \in Nat /\ Len(a \o b) = Len(a) + Len(b)
        /\ \A j \in 1 .. Len(a) + Len(b) : (a \o b)[j] = IF j <= Len(a) THEN a[j] ELSE b[j - Len(a)]
    BY <2>5, ConcatProperties, LenProperties
  <2>2. ASSUME NEW i \in 1 .. Len(b)
        PROVE  Len(a) + i \in 1 .. Len(a \o b) /\ (a \o b)[Len(a) + i] = b[i]
    <3>1. Len(a) + i \in 1 .. Len(a) + Len(b) /\ ~(Len(a) + i <= Len(a)) /\ (Len(a) + i) - Len(a) = i
      BY <2>1
    <3> QED BY <2>1, <3>1
  <2>3. \A i \in 1 .. Len(b) : \E j \in 1 .. Len(a \o b) : (a \o b)[j].nr = b[i].nr BY <2>2
  <2> QED BY <2>3, <2>4 DEF Takes
<1> HIDE DEF got
<1>9. ASSUME Alive(r)
      PROVE  r.stage = conn[c].stage /\ r.version = conn[c].version /\ r.sent = conn[c].sent
             /\ Takes(got, Unread(conn[c]))
  <2>1. r = empty /\ Alive(found) BY <1>5, <1>9 DEF Alive
  <2> QED BY <1>2, <1>4, <1>8, <2>1
<1>10. r.stage \in {conn[c].stage, "closed"} BY <1>2, <1>5
<1>11. PeerPolled(c, r, got) BY <1>3, <1>5, <1>9, <1>10 DEF PeerPolled
<1> QED BY <1>5, <1>7, <1>11

LEMMA PullFailsShape ==
  ASSUME Inv, NEW c \in Conns, Polling(peers, c), PullFails(c)
  PROVE  \E r \in Socket : PeerFails(c, r)
<1>1. conn[c] \in Socket BY DEF Inv, TypeInv
<1>2. c \in Opened BY PolledOpened
<1>3. Used(conn[c]) BY <1>2 DEF Opened
<1>4. PICK found : found = Found(c) OBVIOUS
<1>5. /\ found \in Socket /\ found.fd = conn[c].fd /\ found.stage \in {conn[c].stage, "closed"}
      /\ found.version = conn[c].version /\ found.sent = conn[c].sent
      /\ Alive(found) => found.stage = conn[c].stage /\ Unread(found) = Unread(conn[c])
  BY <1>1, <1>4, FoundShape
<1>6. PICK n \in 0 .. Len(found.buffer) :
        conn' = [conn EXCEPT ![c] = Settled([found EXCEPT !.parsed = @ \o SubSeq(found.buffer, 1, n)])]
  BY <1>4 DEF PullFails
<1>7. PICK parsed : parsed = found.parsed \o SubSeq(found.buffer, 1, n) OBVIOUS
<1>8. parsed \in Seq(Messages)
  <2>1. found.parsed \in Seq(Messages) /\ found.buffer \in Seq(Messages) BY <1>5 DEF Socket
  <2>2. \A i \in 1 .. n : found.buffer[i] \in Messages BY <2>1
  <2>3. SubSeq(found.buffer, 1, n) \in Seq(Messages) BY <2>1, <2>2, SubSeqProperties
  <2> QED BY <1>7, <2>1, <2>3, ConcatProperties
<1> DEFINE s == [found EXCEPT !.parsed = parsed]
<1>9. /\ s \in Socket /\ s.fd = found.fd /\ s.stage = found.stage /\ s.version = found.version
      /\ s.sent = found.sent /\ s.buffer = found.buffer /\ s.inbox = found.inbox
  BY <1>5, <1>8 DEF Socket
<1>10. conn' = [conn EXCEPT ![c] = Settled(s)] BY <1>6, <1>7
<1> HIDE DEF s
<1>11. PICK r : r = Settled(s) OBVIOUS
<1>12. r \in Socket /\ r.fd = s.fd /\ r.stage = s.stage /\ r.version \in {s.version, None}
       /\ (r.stage # "closed" => r = s)
  BY <1>9, <1>11, SettledShape
<1>13. ASSUME Alive(r) PROVE Kept(conn[c], r)
  <2>1. r = s /\ Alive(found) BY <1>9, <1>12, <1>13 DEF Alive
  <2>2. Unread(s) = Unread(found) BY <1>9 DEF Unread
  <2> QED BY <1>5, <1>9, <2>1, <2>2 DEF Kept
<1>14. ThrowInLoop /\ UNCHANGED <<handshake, pending, peers, listening, known, events, history>> BY DEF PullFails
<1>15. PeerFails(c, r) BY <1>5, <1>9, <1>10, <1>11, <1>12, <1>13, <1>14 DEF PeerFails
<1> QED BY <1>12, <1>15

LEMMA PollPeerShape ==
  ASSUME Inv, PollPeer
  PROVE  \E c \in Conns : \E r \in Socket :
           PeerFails(c, r) \/ \E got \in Seq(Messages) : PeerPolled(c, r, got)
BY PullRequestsShape, PullFailsShape DEF PollPeer

\* What is left of the sockets when one of them was changed.
LEMMA ReleasedOne ==
  ASSUME TypeInv, NEW c \in Conns, NEW r \in Socket, Release([conn EXCEPT ![c] = r])
  PROVE  Fades(conn'[c], r) /\ \A d \in Conns \ {c} : Fades(conn'[d], conn[d])
<1> DEFINE after == [conn EXCEPT ![c] = r]
<1>1. /\ conn \in [Conns -> Socket] /\ after \in [Conns -> Socket]
      /\ after[c] = r /\ \A d \in Conns \ {c} : after[d] = conn[d]
  BY DEF TypeInv
<1>2. Release(after) OBVIOUS
<1> HIDE DEF after
<1>3. \A d \in Conns : Fades(conn'[d], after[d]) BY <1>1, <1>2, Released DEF Fades
<1> QED BY <1>1, <1>3

\* What a poll of a PreAuthPeer leaves.
LEMMA PollLeaves ==
  ASSUME Inv, NEW c \in Opened, NEW p \in PreAuthPoll(conn[c])
  PROVE  /\ p.conn \in Socket /\ p.conn.fd = conn[c].fd /\ p.end \in {"return", "throw", "undefined"}
         /\ Ends(p, conn[c]) \/ Reads(p, conn[c]) \/ Chooses(p, conn[c]) \/ Refuses(p, conn[c])
<1>1. conn[c] \in Socket /\ Used(conn[c]) BY DEF Inv, TypeInv, Opened
<1> QED BY <1>1, PollType, PollFate DEF Follows

\* A peer that waits for authorization stays, or is taken away with its descriptor.
WaitsOn(c, p) == Alive(p.conn) /\ Advance(fds, at + 1, left - 1) /\ UNCHANGED pending
Expires(c, p) ==
  ~Alive(p.conn) /\ Advance(DeleteMove(fds, at), at, left - 1) /\ pending' = [pending EXCEPT ![fds[at].fd] = None]

LEMMA PollPendingShape ==
  ASSUME Inv, PollPending
  PROVE  \E c \in Conns : \E p \in PreAuthPoll(conn[c]) :
           /\ Polling(pending, c) /\ p.end = "return"
           /\ refused' = [refused EXCEPT ![c] = @ \cup p.refused]
           /\ WaitsOn(c, p) \/ Expires(c, p)
           /\ UNCHANGED <<handshake, peers, listening, known, events, held, trusted, handed, stale>>
           /\ Release([conn EXCEPT ![c] = p.conn])
BY ZenonT(60) DEF PollPending, WaitsOn, Expires

\* How the loop leaves a peer in the handshake: the poll throws or worse; nothing has
\* come that matters; the connection is over; it is a peer; the application is asked.
Breaks(c, p) ==
  /\ conn' = [conn EXCEPT ![c] = p.conn] /\ UNCHANGED <<handshake, pending, peers, events>>
  /\ \/ doing' = "undefined" /\ UNCHANGED <<fds, at, left, caller>>
     \/ ThrowInLoop
  /\ p.end # "return" \/ (Alive(p.conn) /\ Mismatch(c))
ShakesOn(c, p) ==
  /\ Advance(fds, at + 1, left - 1) /\ conn' = [conn EXCEPT ![c] = p.conn]
  /\ UNCHANGED <<handshake, pending, peers, events>>
  /\ p.end = "return" /\ Alive(p.conn) /\ p.conn.version = None
Drops(c, p) ==
  /\ Advance(DeleteMove(fds, at), at, left - 1) /\ handshake' = [handshake EXCEPT ![fds[at].fd] = None]
  /\ UNCHANGED <<pending, peers, events>> /\ Release([conn EXCEPT ![c] = p.conn])
  /\ p.end = "return" /\ ~Alive(p.conn)
Promotes(c, p) ==
  /\ Advance(fds, at + 1, left - 1) /\ conn' = [conn EXCEPT ![c] = p.conn]
  /\ handshake' = [handshake EXCEPT ![fds[at].fd] = None]
  /\ peers' = [peers EXCEPT ![fds[at].fd] = c] /\ UNCHANGED <<pending, events>>
  /\ p.end = "return" /\ Alive(p.conn) /\ p.conn.version # None /\ ~Mismatch(c) /\ KeyOf(c) # None
Asks(c, p) ==
  /\ Advance(fds, at + 1, left - 1) /\ conn' = [conn EXCEPT ![c] = p.conn]
  /\ handshake' = [handshake EXCEPT ![fds[at].fd] = None]
  /\ pending' = [pending EXCEPT ![fds[at].fd] = c]
  /\ events' = Append(events, [type |-> "CONNECT", conn |-> c]) /\ UNCHANGED peers
  /\ p.end = "return" /\ Alive(p.conn) /\ p.conn.version # None /\ ~Mismatch(c)

LEMMA PollHandshakeShape ==
  ASSUME Inv, PollHandshake
  PROVE  \E c \in Conns : \E p \in PreAuthPoll(conn[c]) :
           /\ Polling(handshake, c) /\ peers[fds[at].fd] = None /\ pending[fds[at].fd] = None
           /\ refused' = [refused EXCEPT ![c] = @ \cup p.refused]
           /\ UNCHANGED <<listening, known, held, trusted, handed, stale>>
           /\ Breaks(c, p) \/ ShakesOn(c, p) \/ Drops(c, p) \/ Promotes(c, p) \/ Asks(c, p)
<1> DEFINE Goes(c, p) ==
             /\ refused' = [refused EXCEPT ![c] = @ \cup p.refused]
             /\ UNCHANGED <<listening, known, held, trusted, handed, stale>>
             /\ p.end \in {"return", "throw", "undefined"}
                  => Breaks(c, p) \/ ShakesOn(c, p) \/ Drops(c, p) \/ Promotes(c, p) \/ Asks(c, p)
<1>1. \E c \in Conns : /\ Polling(handshake, c) /\ peers[fds[at].fd] = None /\ pending[fds[at].fd] = None
                       /\ \E p \in PreAuthPoll(conn[c]) : Goes(c, p)
  BY ZenonT(120) DEF PollHandshake, Breaks, ShakesOn, Drops, Promotes, Asks
<1>2. PICK c \in Conns : /\ Polling(handshake, c) /\ peers[fds[at].fd] = None /\ pending[fds[at].fd] = None
                         /\ \E p \in PreAuthPoll(conn[c]) : Goes(c, p)
  BY <1>1
<1>3. PICK p \in PreAuthPoll(conn[c]) : Goes(c, p) BY <1>2
<1>4. c \in Opened BY <1>2, PolledOpened
<1>5. p.end \in {"return", "throw", "undefined"} BY <1>4, PollLeaves
<1> QED BY <1>2, <1>3, <1>5
-----------------------------------------------------------------------------
\* What pull_requests adds to the events.
LEMMA EventsGrow ==
  ASSUME NEW A, events \in Seq(A), NEW c \in Conns, NEW got \in Seq(Messages),
         events' = events \o [i \in DOMAIN got |-> [type |-> "REQUEST", conn |-> c, nr |-> got[i].nr]]
  PROVE  /\ Len(events) \in Nat /\ DOMAIN events = 1 .. Len(events) /\ Len(got) \in Nat
         /\ DOMAIN events' = 1 .. Len(events) + Len(got) /\ Len(events') = Len(events) + Len(got)
         /\ \A j \in DOMAIN events : j \in DOMAIN events' /\ events'[j] = events[j]
         /\ \A i \in 1 .. Len(got) :
              /\ Len(events) + i \in DOMAIN events'
              /\ events'[Len(events) + i] = [type |-> "REQUEST", conn |-> c, nr |-> got[i].nr]
         /\ \A j \in DOMAIN events' : \/ j \in DOMAIN events /\ events'[j] = events[j]
                                      \/ /\ events'[j].conn = c /\ events'[j].type = "REQUEST"
                                         /\ \E i \in 1 .. Len(got) : events'[j].nr = got[i].nr
<1> DEFINE request(i) == [type |-> "REQUEST", conn |-> c, nr |-> got[i].nr]
           requests == [i \in 1 .. Len(got) |-> request(i)]
<1>1. DOMAIN got = 1 .. Len(got) /\ Len(got) \in Nat
  BY LenProperties
<1>2. \A i \in 1 .. Len(got) : request(i).conn = c /\ request(i).type = "REQUEST" /\ request(i).nr = got[i].nr
  OBVIOUS
<1>3. PICK B : B = {request(i) : i \in 1 .. Len(got)} OBVIOUS
<1>4. events' = events \o requests BY <1>1
<1>5. requests \in Seq(B)
  <2>1. \A i \in 1 .. Len(got) : [type |-> "REQUEST", conn |-> c, nr |-> got[i].nr] \in B BY <1>3
  <2> QED BY <1>1, <2>1, IsASeq
<1>6. DOMAIN requests = 1 .. Len(got) /\ \A i \in 1 .. Len(got) : requests[i] = request(i) OBVIOUS
<1> HIDE DEF request, requests
<1>7. /\ Len(events) \in Nat /\ DOMAIN events = 1 .. Len(events)
      /\ DOMAIN events' = 1 .. Len(events) + Len(got) /\ Len(events') = Len(events) + Len(got)
      /\ \A j \in 1 .. Len(events) + Len(got) :
           events'[j] = IF j <= Len(events) THEN events[j] ELSE requests[j - Len(events)]
  <2>1. Len(requests) = Len(got) BY ONLY <1>1, <1>5, <1>6, LenProperties
  <2>2. PICK T : T = A \cup B OBVIOUS
  <2>3. events \in Seq(T) /\ requests \in Seq(T) BY <1>5, <2>2, SeqWider
  <2> DEFINE whole == events \o requests
  <2>4. /\ Len(events) \in Nat /\ DOMAIN events = 1 .. Len(events)
        /\ whole \in Seq(T) /\ Len(whole) = Len(events) + Len(requests)
        /\ \A j \in 1 .. Len(events) + Len(requests) :
             whole[j] = IF j <= Len(events) THEN events[j] ELSE requests[j - Len(events)]
    BY ONLY <2>3, ConcatProperties, LenProperties
  <2>5. events' = whole BY <1>4
  <2> HIDE DEF whole
  <2>6. DOMAIN whole = 1 .. Len(events) + Len(requests) BY ONLY <2>4, LenProperties
  <2> QED BY ONLY <2>1, <2>4, <2>5, <2>6
<1>8. \A j \in DOMAIN events : j \in DOMAIN events' /\ events'[j] = events[j] BY ONLY <1>1, <1>7
<1>9. \A i \in 1 .. Len(got) : Len(events) + i \in DOMAIN events' /\ events'[Len(events) + i] = request(i)
  <2> SUFFICES ASSUME NEW i \in 1 .. Len(got)
               PROVE  Len(events) + i \in DOMAIN events' /\ events'[Len(events) + i] = request(i)
    OBVIOUS
  <2>1. /\ Len(events) + i \in 1 .. Len(events) + Len(got) /\ ~(Len(events) + i <= Len(events))
        /\ (Len(events) + i) - Len(events) = i
    BY ONLY <1>1, <1>7, i \in 1 .. Len(got)
  <2> QED BY ONLY <1>6, <1>7, <2>1, i \in 1 .. Len(got)
<1>10. \A j \in DOMAIN events' : \/ j \in DOMAIN events /\ events'[j] = events[j]
                                 \/ \E i \in 1 .. Len(got) : events'[j] = request(i)
  <2> SUFFICES ASSUME NEW j \in 1 .. Len(events) + Len(got)
               PROVE  \/ j \in DOMAIN events /\ events'[j] = events[j]
                      \/ \E i \in 1 .. Len(got) : events'[j] = request(i)
    BY <1>7
  <2>1. j <= Len(events) => j \in 1 .. Len(events) BY ONLY <1>1, <1>7, j \in 1 .. Len(events) + Len(got)
  <2>2. ~(j <= Len(events)) => j - Len(events) \in 1 .. Len(got)
    BY ONLY <1>1, <1>7, j \in 1 .. Len(events) + Len(got)
  <2> QED BY ONLY <1>6, <1>7, <2>1, <2>2, j \in 1 .. Len(events) + Len(got)
<1> QED BY <1>1, <1>2, <1>7, <1>8, <1>9, <1>10 DEF request

\* The same steps, on the maps.
LEMMA FadesVia ==
  ASSUME NEW s, NEW t, NEW r, Fades(s, t), t.stage \in {r.stage, "closed"}, t.version \in {r.version, None},
         t.fd = r.fd
  PROVE  Fades(s, r)
BY DEF Fades

LEMMA PeerPolledMaps ==
  ASSUME Inv, Next, MapInv, NEW c \in Conns, NEW r \in Socket, NEW got \in Seq(Messages), PeerPolled(c, r, got)
  PROVE  MapInv'
<1>2. /\ Polling(peers, c) /\ r.fd = conn[c].fd /\ Release([conn EXCEPT ![c] = r])
      /\ events' = events \o [i \in DOMAIN got |-> [type |-> "REQUEST", conn |-> c, nr |-> got[i].nr]]
      /\ UNCHANGED <<handshake, pending, listening, known, history>>
      /\ r.stage \in {conn[c].stage, "closed"} /\ r.version \in {conn[c].version, None}
      /\ peers' = peers \/ peers' = [peers EXCEPT ![fds[at].fd] = None]
  BY DEF PeerPolled
<1>3. c \in Joined /\ c \in Opened BY <1>2, PolledOpened DEF Joined
<1>4. \A d \in Conns : Fades(conn'[d], conn[d])
  <2>1. TypeInv BY DEF Inv
  <2>2. Fades(conn'[c], r) /\ \A d \in Conns \ {c} : Fades(conn'[d], conn[d]) BY <1>2, <2>1, ReleasedOne
  <2> QED BY <1>2, <2>2, FadesVia
<1>5. Joined' \subseteq Joined
  <2>1. \A g \in Slots : peers'[g] \in {peers[g], None} BY <1>2, MappedOpened
  <2>2. \A d \in Conns : d # None OBVIOUS
  <2> QED BY <2>1, <2>2 DEF Joined
<1>6. Named' \subseteq Named \cup Joined
  <2>1. \A j \in DOMAIN events' : \/ j \in DOMAIN events /\ events'[j] = events[j]
                                  \/ events'[j].conn = c
    BY <1>2, <1>3, EventsGrow DEF Inv, Refers
  <2>2. held' = held BY <1>2 DEF history
  <2> QED BY <1>3, <2>1, <2>2 DEF Named
<1>7. UNCHANGED <<handshake, pending, refused>> BY <1>2 DEF history
<1>8. /\ Shaking' = Shaking /\ Waiting' = Waiting /\ Waiting \cap Joined \cap Shaking = {}
      /\ \A f \in Slots : handshake'[f] = handshake[f]
      /\ \A d \in Conns : refused'[d] = refused[d]
  BY <1>7 DEF Shaking, Waiting, MapInv
<1>9. Early' \subseteq Early /\ \A d \in Early' \cup Shaking' : conn'[d].version \in {conn[d].version, None}
  BY <1>4, FadesEarly
<1>10. Waiting' \cap Joined' \cap Shaking = {} /\ refused' = [d \in Conns |-> refused'[d]]
  BY <1>5, <1>7, <1>8 DEF MapInv
<1> HIDE DEF Shaking, Waiting, Joined, Early, Named
<1> QED BY <1>5, <1>6, <1>8, <1>9, <1>10, MapsKept

LEMMA FailsFades ==
  ASSUME TypeInv, NEW c \in Conns, NEW r \in Socket, PeerFails(c, r)
  PROVE  /\ \A d \in Conns : Fades(conn'[d], conn[d])
         /\ conn'[c] = r /\ \A d \in Conns \ {c} : conn'[d] = conn[d]
BY DEF PeerFails, Fades, TypeInv

LEMMA PeerFailsMaps ==
  ASSUME Inv, Next, MapInv, NEW c \in Conns, NEW r \in Socket, PeerFails(c, r)
  PROVE  MapInv'
<1>1. UNCHANGED <<handshake, pending, peers, refused, held, events>> BY DEF PeerFails, history
<1>2. \A d \in Conns : Fades(conn'[d], conn[d]) BY FailsFades DEF Inv
<1>3. Named' = Named BY <1>1 DEF Named
<1> QED BY <1>1, <1>2, <1>3, FadesEarly, QuietMaps

LEMMA PollPeerMaps == ASSUME Inv, Next, MapInv, PollPeer PROVE MapInv'
BY PollPeerShape, PeerPolledMaps, PeerFailsMaps

LEMMA PollPendingMaps == ASSUME Inv, Next, MapInv, PollPending PROVE MapInv'
<1>1. PICK c \in Conns : \E p \in PreAuthPoll(conn[c]) :
           /\ Polling(pending, c) /\ p.end = "return"
           /\ refused' = [refused EXCEPT ![c] = @ \cup p.refused]
           /\ WaitsOn(c, p) \/ Expires(c, p)
           /\ UNCHANGED <<handshake, peers, listening, known, events, held, trusted, handed, stale>>
           /\ Release([conn EXCEPT ![c] = p.conn])
  BY PollPendingShape
<1>2. PICK p \in PreAuthPoll(conn[c]) :
           /\ Polling(pending, c) /\ p.end = "return"
           /\ refused' = [refused EXCEPT ![c] = @ \cup p.refused]
           /\ WaitsOn(c, p) \/ Expires(c, p)
           /\ UNCHANGED <<handshake, peers, listening, known, events, held, trusted, handed, stale>>
           /\ Release([conn EXCEPT ![c] = p.conn])
  BY <1>1
<1>3. c \in Waiting /\ c \in Opened BY <1>2, PolledOpened DEF Waiting
<1>4. p.conn \in Socket /\ p.conn.stage \in {conn[c].stage, "closed"}
  BY <1>3, PollLeaves DEF Ends, Reads, Chooses, Refuses, Stays
<1>5. conn'[c].stage \in {conn[c].stage, "closed"} /\ \A d \in Conns \ {c} : Fades(conn'[d], conn[d])
  BY <1>2, <1>4, ReleasedOne DEF Inv, Fades
<1>6. c \notin Shaking /\ c \notin Early BY <1>3 DEF MapInv
<1>7. /\ Shaking' = Shaking /\ Joined' = Joined /\ Named' = Named
      /\ \A f \in Slots : handshake'[f] = handshake[f]
      /\ \A d \in Conns : refused'[d] = refused[d] \/ d \in Waiting
  BY <1>2, <1>3 DEF Shaking, Joined, Named
<1>8. Waiting' \subseteq Waiting
  <2>1. \A g \in Slots : pending'[g] \in {pending[g], None} BY <1>2, MappedOpened DEF WaitsOn, Expires
  <2>2. \A d \in Conns : d # None OBVIOUS
  <2> QED BY <2>1, <2>2 DEF Waiting
<1>9. Early' \subseteq Early BY <1>5 DEF Early, Fades
<1>10. \A d \in Early' \cup Shaking' : conn'[d].version \in {conn[d].version, None}
  BY <1>5, <1>6, <1>7, <1>9 DEF Fades, Early, Shaking
<1>11. Waiting \cap Joined \cap Shaking = {} /\ refused' = [d \in Conns |-> refused'[d]]
  BY <1>2 DEF MapInv
<1> HIDE DEF Shaking, Waiting, Joined, Early, Named
<1> QED BY <1>7, <1>8, <1>9, <1>10, <1>11, MapsKept
\* A connection that is accepted enters the handshake, and nobody else has it.
LEMMA AcceptSocketMaps == ASSUME Inv, Next, MapInv, AcceptSocket PROVE MapInv'
<1>1. TypeInv BY DEF Inv
<1>2. PICK c \in Conns :
        /\ conn[c].stage = "backlog" /\ FreeFds # {}
        /\ UNCHANGED <<pending, peers, listening, known, events, history>>
        /\ \/ conn' = Placed(c, "leaked") /\ UNCHANGED handshake
           \/ /\ handshake' = IF handshake[NewFd] = None THEN [handshake EXCEPT ![NewFd] = c] ELSE handshake
              /\ Release(Placed(c, "open"))
  BY <1>1, AcceptSocketShape
<1>3. UNCHANGED <<pending, peers, refused, held, events>> BY <1>2 DEF history
<1>4. /\ NewFd \in Slots /\ \A stage \in {"open", "leaked"} :
           /\ Placed(c, stage) \in [Conns -> Socket]
           /\ \A d \in Conns \ {c} : Placed(c, stage)[d] = conn[d]
           /\ Placed(c, stage)[c].stage = stage /\ Placed(c, stage)[c].version = conn[c].version
  BY <1>1, <1>2, PlacedType DEF Stages, Slots
<1>5. /\ conn'[c].stage \in {"open", "leaked", "closed"} /\ conn'[c].version \in {conn[c].version, None}
      /\ \A d \in Conns \ {c} : Fades(conn'[d], conn[d])
  <2>1. CASE conn' = Placed(c, "leaked") BY <1>4, <2>1 DEF Fades
  <2>2. CASE Release(Placed(c, "open"))
    <3>1. \A d \in Conns : Fades(conn'[d], Placed(c, "open")[d]) BY <1>4, <2>2, Released DEF Fades
    <3> QED BY <1>4, <3>1 DEF Fades
  <2> QED BY <1>2, <2>1, <2>2
<1>6. c \in Early /\ c \notin Shaking \cup Waiting \cup Joined \cup Named /\ conn[c].version = None /\ refused[c] = {}
  BY <1>2 DEF MapInv, Early
<1>7. Early' \subseteq Early \ {c} BY <1>5 DEF Early, Fades
<1>8. /\ Waiting' = Waiting /\ Joined' = Joined /\ Named' = Named /\ \A d \in Conns : refused'[d] = refused[d]
  BY <1>3 DEF Waiting, Joined, Named
<1>9. /\ Shaking' \subseteq Shaking \cup {c}
      /\ \A f, g \in Slots : handshake'[f] = handshake'[g] /\ handshake'[f] # None => f = g
  <2>1. handshake \in [Slots -> Opened \cup {None}] BY MappedOpened
  <2>2. \A f \in Slots : handshake[f] # c BY <1>6 DEF Shaking
  <2>3. \A f \in Slots : handshake'[f] = handshake[f] \/ (f = NewFd /\ handshake'[f] = c) BY <1>2, <1>4, <2>1
  <2>4. \A f, g \in Slots : handshake[f] = handshake[g] /\ handshake[f] # None => f = g BY DEF MapInv
  <2>5. \A f, g \in Slots : handshake'[f] = handshake'[g] /\ handshake'[f] # None => f = g
    BY <2>2, <2>3, <2>4
  <2> QED BY <2>3, <2>5 DEF Shaking
<1>10. ASSUME NEW d \in Conns, d \in Shaking'
       PROVE  (conn'[d].version = None /\ refused'[d] = {}) \/ Mismatch(d)'
  <2>1. CASE d = c BY <1>5, <1>6, <1>8, <2>1
  <2>2. CASE d # c
    <3>1. d \in Shaking /\ d \in Opened BY <1>9, <1>10, <2>2, MappedOpened
    <3>2. conn'[d].version \in {conn[d].version, None} /\ refused'[d] = refused[d] BY <1>5, <1>8, <2>2 DEF Fades
    <3>3. (conn[d].version = None /\ refused[d] = {}) \/ Mismatch(d) BY <3>1 DEF MapInv
    <3> QED BY <3>1, <3>2, <3>3, MismatchStays
  <2> QED BY <2>1, <2>2
<1>11. \A d \in Early' : conn'[d].version = None /\ refused'[d] = {}
  <2>1. \A d \in Early : d \in Conns /\ conn[d].version = None /\ refused[d] = {} BY DEF MapInv, Early
  <2> QED BY <1>5, <1>7, <1>8, <2>1 DEF Fades
<1>12. trusted' = trusted BY <1>2 DEF history
<1>13. Shaking' \subseteq Conns /\ refused' = [d \in Conns |-> refused'[d]] BY <1>3 DEF Shaking, MapInv
<1>14. /\ (Early \cap (Shaking \cup Waiting \cup Joined \cup Named) = {})'
       /\ (Shaking \cap (Waiting \cup Joined \cup Named) = {})'
  BY <1>6, <1>7, <1>8, <1>9 DEF MapInv
<1>15. (Waiting \cap Joined \subseteq trusted)' /\ (\A d \in Joined : d \in trusted \/ refused[d] = {})'
  <2>1. Joined \subseteq Conns BY DEF Joined
  <2> QED BY <1>8, <1>12, <2>1 DEF MapInv
<1> HIDE DEF Shaking, Waiting, Joined, Early, Named
<1> QED BY <1>9, <1>10, <1>11, <1>13, <1>14, <1>15 DEF MapInv

\* The connection the loop is at leaves the handshake.
LEMMA OutOfHandshake ==
  ASSUME Inv, MapInv, NEW c \in Conns, Polling(handshake, c),
         handshake' = [handshake EXCEPT ![fds[at].fd] = None]
  PROVE  /\ c \in Shaking \ Shaking' /\ Shaking' = Shaking \ {c}
         /\ \A f \in Slots : handshake'[f] \in {handshake[f], None}
<1>1. fds[at].fd \in Slots /\ handshake[fds[at].fd] = c /\ handshake \in [Slots -> Opened \cup {None}]
  BY PolledOpened, MappedOpened
<1>2. \A f \in Slots : handshake[f] = c => f = fds[at].fd BY <1>1 DEF MapInv
<1>3. \A d \in Conns : d # None OBVIOUS
<1>4. \A f \in Slots : handshake'[f] = IF f = fds[at].fd THEN None ELSE handshake[f] BY <1>1
<1>5. ASSUME NEW d \in Conns PROVE d \in Shaking' <=> d \in Shaking /\ d # c
  BY <1>1, <1>2, <1>3, <1>4 DEF Shaking
<1>6. c \in Shaking BY <1>1 DEF Shaking
<1>7. Shaking \subseteq Conns /\ Shaking' \subseteq Conns BY DEF Shaking
<1> HIDE DEF Shaking
<1> QED BY <1>4, <1>5, <1>6, <1>7

LEMMA PollHandshakeMaps == ASSUME Inv, Next, MapInv, PollHandshake PROVE MapInv'
<1>1. PICK c \in Conns : \E p \in PreAuthPoll(conn[c]) :
           /\ Polling(handshake, c) /\ peers[fds[at].fd] = None /\ pending[fds[at].fd] = None
           /\ refused' = [refused EXCEPT ![c] = @ \cup p.refused]
           /\ UNCHANGED <<listening, known, held, trusted, handed, stale>>
           /\ Breaks(c, p) \/ ShakesOn(c, p) \/ Drops(c, p) \/ Promotes(c, p) \/ Asks(c, p)
  BY PollHandshakeShape
<1>2. PICK p \in PreAuthPoll(conn[c]) :
           /\ Polling(handshake, c) /\ peers[fds[at].fd] = None /\ pending[fds[at].fd] = None
           /\ refused' = [refused EXCEPT ![c] = @ \cup p.refused]
           /\ UNCHANGED <<listening, known, held, trusted, handed, stale>>
           /\ Breaks(c, p) \/ ShakesOn(c, p) \/ Drops(c, p) \/ Promotes(c, p) \/ Asks(c, p)
  BY <1>1
<1>3. /\ c \in Shaking /\ c \in Opened /\ fds[at].fd \in Slots
      /\ c \notin Waiting \cup Joined \cup Named \cup Early
  BY <1>2, PolledOpened DEF Shaking, MapInv
<1>4. p.conn \in Socket /\ p.conn.fd = conn[c].fd /\ p.end \in {"return", "throw", "undefined"}
      /\ (Ends(p, conn[c]) \/ Reads(p, conn[c]) \/ Chooses(p, conn[c]) \/ Refuses(p, conn[c]))
  BY <1>3, PollLeaves
<1>6. p.conn.stage \in {conn[c].stage, "closed"} BY <1>4 DEF Ends, Reads, Chooses, Refuses, Stays
<1>7. conn'[c].stage \in {conn[c].stage, "closed"} /\ conn'[c].version \in {p.conn.version, None}
      /\ \A d \in Conns \ {c} : Fades(conn'[d], conn[d])
  <2>1. TypeInv BY DEF Inv
  <2>2. CASE conn' = [conn EXCEPT ![c] = p.conn] BY <1>6, <2>1, <2>2 DEF Fades, TypeInv
  <2>3. CASE Release([conn EXCEPT ![c] = p.conn]) BY <1>4, <1>6, <2>1, <2>3, ReleasedOne DEF Fades
  <2> QED BY <1>2, <2>2, <2>3 DEF Breaks, ShakesOn, Drops, Promotes, Asks
<1>8. Early' \subseteq Early /\ \A d \in Early' : conn'[d].version \in {conn[d].version, None}
  BY <1>3, <1>7 DEF Early, Fades
<1>9. /\ refused' = [d \in Conns |-> refused'[d]] /\ refused'[c] = refused[c] \cup p.refused
      /\ \A d \in Conns \ {c} : refused'[d] = refused[d]
  BY <1>2 DEF MapInv
<1>10. Waiting \cap Joined \cap Shaking = {} /\ \A d \in Shaking' : d = c \/ conn'[d].version \in {conn[d].version, None}
  BY <1>7 DEF MapInv, Fades, Shaking
<1>11. ASSUME Mismatch(c) \/ p.refused = {}
       PROVE  \A d \in Conns : refused'[d] = refused[d] \/ (d = c /\ Mismatch(c))
  BY <1>9, <1>11
<1>12. ASSUME UNCHANGED <<handshake, pending, peers, events>>,
              Mismatch(c) \/ (p.refused = {} /\ p.conn.version \in {conn[c].version, None})
       PROVE  MapInv'
  <2>1. /\ Shaking' = Shaking /\ Waiting' = Waiting /\ Joined' = Joined /\ Named' = Named
        /\ \A f \in Slots : handshake'[f] = handshake[f]
    BY <1>2, <1>12 DEF Shaking, Waiting, Joined, Named
  <2>2. \A d \in Conns : refused'[d] = refused[d] \/ (d \in Shaking' /\ Mismatch(d))
    BY <1>3, <1>11, <1>12, <2>1
  <2>3. \A d \in Shaking' : conn'[d].version \in {conn[d].version, None} \/ Mismatch(d)
    BY <1>7, <1>10, <1>12
  <2> HIDE DEF Shaking, Waiting, Joined, Early, Named
  <2> QED BY <1>8, <1>9, <1>10, <2>1, <2>2, <2>3, MapsKept
<1>13. CASE Breaks(c, p)
  <2>1. p.end # "return" => p.refused = {} /\ p.conn.version \in {conn[c].version, None}
    BY <1>4 DEF Ends, Reads, Chooses, Refuses, Stays
  <2> QED BY <1>12, <1>13, <2>1 DEF Breaks
<1>14. CASE ShakesOn(c, p)
  <2>1. Reads(p, conn[c]) BY <1>4, <1>14 DEF ShakesOn, Ends, Chooses, Refuses
  <2> QED BY <1>12, <1>14, <2>1 DEF ShakesOn, Reads
\* From here on the connection leaves the handshake.
<1>15. ASSUME handshake' = [handshake EXCEPT ![fds[at].fd] = None]
       PROVE  /\ c \in Shaking \ Shaking' /\ Shaking' = Shaking \ {c}
              /\ \A f \in Slots : handshake'[f] \in {handshake[f], None}
              /\ \A d \in Shaking' : conn'[d].version \in {conn[d].version, None} \/ Mismatch(d)
  BY <1>2, <1>10, <1>15, OutOfHandshake
<1>16. CASE Drops(c, p)
  <2>1. handshake' = [handshake EXCEPT ![fds[at].fd] = None] BY <1>16 DEF Drops
  <2>2. Waiting' = Waiting /\ Joined' = Joined /\ Named' = Named
    BY <1>2, <1>16 DEF Drops, Waiting, Joined, Named
  <2>3. \A d \in Conns : \/ refused'[d] = refused[d]
                         \/ d \notin Shaking' \cup Joined' \cup Early'
    BY <1>3, <1>8, <1>9, <1>15, <2>1, <2>2
  <2>4. Waiting' \cap Joined' \cap Shaking = {} BY <1>10, <2>2
  <2> HIDE DEF Shaking, Waiting, Joined, Early, Named
  <2> QED BY <1>8, <1>9, <1>15, <2>1, <2>2, <2>3, <2>4, MapsKept
<1>17. ASSUME Promotes(c, p) \/ Asks(c, p)
       PROVE  /\ handshake' = [handshake EXCEPT ![fds[at].fd] = None] /\ ~Mismatch(c)
              /\ \A d \in Conns : refused'[d] = refused[d]
  <2>1. handshake' = [handshake EXCEPT ![fds[at].fd] = None] /\ ~Mismatch(c)
        /\ Alive(p.conn) /\ p.conn.version # None
    BY <1>17 DEF Promotes, Asks
  <2>2. conn[c].version = None BY <1>3, <2>1 DEF MapInv
  <2>3. p.refused = {} BY <1>4, <2>1, <2>2 DEF Ends, Reads, Chooses, Refuses
  <2> QED BY <1>11, <2>1, <2>3
<1>18. CASE Promotes(c, p)
  <2>1. peers \in [Slots -> Opened \cup {None}] BY MappedOpened
  <2>2. Waiting' = Waiting /\ Named' = Named BY <1>2, <1>18 DEF Promotes, Waiting, Named
  <2>3. Joined' \subseteq Joined \cup {c} BY <1>3, <1>18, <2>1 DEF Promotes, Joined
  <2>4. Waiting' \cap Joined' \cap Shaking = {} BY <1>3, <1>10, <2>2, <2>3
  <2>5. Joined' \subseteq Joined \cup {d \in Shaking \ Shaking' : ~Mismatch(d)}
    BY <1>15, <1>17, <1>18, <2>3
  <2> HIDE DEF Shaking, Waiting, Joined, Early, Named
  <2> QED BY <1>8, <1>9, <1>15, <1>17, <1>18, <2>2, <2>4, <2>5, MapsKept
<1>19. CASE Asks(c, p)
  <2>1. pending \in [Slots -> Opened \cup {None}] BY MappedOpened
  <2>2. Joined' = Joined BY <1>19 DEF Asks, Joined
  <2>3. Waiting' \subseteq Waiting \cup {c} BY <1>3, <1>19, <2>1 DEF Asks, Waiting
  <2>4. Named' \subseteq Named \cup {c}
    <3>1. held' = held /\ events' = Append(events, [type |-> "CONNECT", conn |-> c]) BY <1>2, <1>19 DEF Asks
    <3>2. events \in Seq(EventsOf(Opened, Trustees)) /\ [type |-> "CONNECT", conn |-> c] \in EventsOf(Opened, Trustees)
      BY <1>3 DEF Inv, Refers, EventsOf
    <3>3. \A j \in DOMAIN events' : (j \in DOMAIN events /\ events'[j] = events[j]) \/ events'[j].conn = c
      BY <3>1, <3>2, AppendProperties, LenProperties
    <3> QED BY <3>1, <3>3 DEF Named
  <2>5. Waiting' \cap Joined' \cap Shaking = {} BY <1>3, <1>10, <2>2, <2>3
  <2>6. Waiting' \subseteq Waiting \cup (Shaking \ Shaking') /\ Named' \subseteq Named \cup (Shaking \ Shaking')
    BY <1>15, <1>17, <1>19, <2>3, <2>4
  <2> HIDE DEF Shaking, Waiting, Joined, Early, Named
  <2> QED BY <1>8, <1>9, <1>15, <1>17, <1>19, <2>2, <2>5, <2>6, MapsKept
<1> QED BY <1>2, <1>13, <1>14, <1>16, <1>18, <1>19
\* What accept_peer does to the maps.
LEMMA AcceptedShape ==
  ASSUME Inv, NEW c \in Opened, NEW temporary \in BOOLEAN, NEW outcome \in Accepted(c, temporary)
  PROVE  \/ outcome.thrown = TRUE /\ outcome.pending = pending /\ outcome.peers = peers
         \/ \E f \in {conn[c].fd, NoFd} :
              /\ f \in Slots /\ (Alive(conn[c]) => f = conn[c].fd)
              /\ outcome.thrown = (peers[f] # None) /\ outcome.pending = [pending EXCEPT ![f] = None]
              /\ outcome.peers = IF peers[f] = None THEN [peers EXCEPT ![f] = c] ELSE peers
<1>1. conn[c] \in Socket BY DEF Inv, TypeInv, Opened
<1>2. conn[c].fd \in Slots /\ NoFd \in Slots BY <1>1 DEF Socket, Slots
<1>3. CASE ~temporary /\ Mismatch(c)
  BY <1>3 DEF Accepted, Outcome
<1>4. CASE ~(~temporary /\ Mismatch(c))
  <2> DEFINE trust == IF temporary THEN known ELSE [known EXCEPT ![conn[c].device.uuid] = conn[c].device.key]
  <2>1. PICK f \in IF Alive(conn[c]) THEN {conn[c].fd} ELSE {conn[c].fd, NoFd} :
          outcome = Outcome(trust, [pending EXCEPT ![f] = None],
                            IF peers[f] = None THEN [peers EXCEPT ![f] = c] ELSE peers, peers[f] # None)
    BY <1>4 DEF Accepted
  <2> HIDE DEF trust
  <2>2. /\ outcome.thrown = (peers[f] # None) /\ outcome.pending = [pending EXCEPT ![f] = None]
        /\ outcome.peers = IF peers[f] = None THEN [peers EXCEPT ![f] = c] ELSE peers
    BY <2>1 DEF Outcome
  <2>3. f \in {conn[c].fd, NoFd} /\ (Alive(conn[c]) => f = conn[c].fd) BY <2>1
  <2> QED BY <1>2, <2>2, <2>3
<1> QED BY <1>3, <1>4

\* A step in which the application takes a peer, or hears of one.
LEMMA AcceptMaps ==
  ASSUME Inv, Next, MapInv, NEW c \in Named, NEW temporary \in BOOLEAN,
         NEW outcome \in Accepted(c, temporary), Take(c, outcome), Release(conn),
         UNCHANGED <<handshake, refused>>, Named' \subseteq Named
  PROVE  MapInv'
<1>1. c \in Opened /\ c \notin Shaking /\ c \notin Early BY MappedOpened DEF MapInv
<1>2. /\ pending' = pending \/ \E f \in Slots : pending' = [pending EXCEPT ![f] = None]
      /\ peers' = peers \/ \E f \in Slots : peers' = [peers EXCEPT ![f] = c]
      /\ c \in trusted'
  <2>1. pending' = outcome.pending /\ peers' = outcome.peers /\ c \in trusted' BY DEF Take
  <2>2. \/ outcome.pending = pending /\ outcome.peers = peers
        \/ \E f \in Slots : /\ outcome.pending = [pending EXCEPT ![f] = None]
                            /\ outcome.peers = IF peers[f] = None THEN [peers EXCEPT ![f] = c] ELSE peers
    <3> DEFINE Falls(f) ==
                 /\ f \in Slots /\ (Alive(conn[c]) => f = conn[c].fd)
                 /\ outcome.thrown = (peers[f] # None) /\ outcome.pending = [pending EXCEPT ![f] = None]
                 /\ outcome.peers = IF peers[f] = None THEN [peers EXCEPT ![f] = c] ELSE peers
    <3>1. \/ outcome.thrown = TRUE /\ outcome.pending = pending /\ outcome.peers = peers
          \/ \E f \in {conn[c].fd, NoFd} : Falls(f)
      BY <1>1, AcceptedShape, Zenon
    <3> QED BY <3>1, Zenon
  <2> QED BY <2>1, <2>2
<1>3. pending \in [Slots -> Opened \cup {None}] /\ peers \in [Slots -> Opened \cup {None}] BY MappedOpened
<1>4. Waiting' \subseteq Waiting
  <2>1. \A f \in Slots : pending'[f] \in {pending[f], None} BY <1>2, <1>3
  <2>2. \A d \in Conns : d # None OBVIOUS
  <2> QED BY <2>1, <2>2 DEF Waiting
<1>5. Joined' \subseteq Joined \cup {c}
  <2>1. \A f \in Slots : peers'[f] \in {peers[f], c} BY <1>2, <1>3
  <2> QED BY <2>1 DEF Joined
<1>6. \A d \in Conns : Fades(conn'[d], conn[d]) BY FadesWhenReleased DEF Inv
<1>7. Early' \subseteq Early /\ \A d \in Early' \cup Shaking' : conn'[d].version \in {conn[d].version, None}
  BY <1>6, FadesEarly
<1>8. /\ Shaking' = Shaking /\ \A f \in Slots : handshake'[f] = handshake[f]
      /\ \A d \in Conns : refused'[d] = refused[d]
      /\ refused' = [d \in Conns |-> refused'[d]]
  BY DEF Shaking, MapInv
<1>9. Waiting' \cap Joined' \cap Shaking = {} BY <1>1, <1>4, <1>5 DEF MapInv
<1>10. Joined' \subseteq Joined \cup (trusted' \ (Shaking \cup Early')) BY <1>1, <1>2, <1>5, <1>7
<1> HIDE DEF Shaking, Waiting, Joined, Early, Named
<1> QED BY <1>4, <1>7, <1>8, <1>9, <1>10, MapsKept

\* The events after one of them gave up its peer.
LEMMA EventEmptied ==
  ASSUME NEW S, NEW G, events \in Seq(EventsOf(S, G)), at \in Nat, at >= 1, Processing,
         events[at].type = "CONNECT", events' = [events EXCEPT ![at].conn = None]
  PROVE  /\ at \in DOMAIN events /\ DOMAIN events' = DOMAIN events /\ Len(events') = Len(events)
         /\ events[at].conn \in S \cup {None}
         /\ events'[at].conn = None /\ events'[at].type = "CONNECT"
         /\ \A i \in DOMAIN events : i # at => events'[i] = events[i]
<1>1. at \in 1 .. Len(events) /\ DOMAIN events = 1 .. Len(events) /\ Len(events) \in Nat
  BY LenProperties DEF Processing
<1>2. events[at] \in [type : {"CONNECT"}, conn : S \cup {None}] BY <1>1 DEF EventsOf
<1> DEFINE e == [events[at] EXCEPT !.conn = None]
<1>3. e \in EventsOf(S, G) /\ e.conn = None /\ e.type = "CONNECT" BY <1>2 DEF EventsOf
<1>4. events' = [events EXCEPT ![at] = e] BY <1>1
<1> HIDE DEF e
<1>5. events' \in Seq(EventsOf(S, G)) /\ Len(events') = Len(events) BY <1>1, <1>3, <1>4, ExceptSeq
<1>6. DOMAIN events' = DOMAIN events /\ events'[at] = e /\ \A i \in DOMAIN events : i # at => events'[i] = events[i]
  BY <1>1, <1>4
<1> QED BY <1>1, <1>2, <1>3, <1>5, <1>6

LEMMA ProcessConnectMaps ==
  ASSUME Inv, Next, MapInv, NEW answer \in {"accept", "later"}, ProcessConnect(answer)
  PROVE  MapInv'
<1> DEFINE c == events[at].conn
<1>1. /\ Processing /\ events[at].type = "CONNECT" /\ events' = [events EXCEPT ![at].conn = None]
      /\ UNCHANGED <<handshake, fds, listening, handed, refused>>
  BY DEF ProcessConnect
<1>2. /\ at \in DOMAIN events /\ DOMAIN events' = DOMAIN events
      /\ c \in Opened \cup {None} /\ events'[at].conn = None
      /\ \A i \in DOMAIN events : i # at => events'[i] = events[i]
  <2>1. events \in Seq(EventsOf(Opened, Trustees)) /\ at \in Nat /\ at >= 1
    BY <1>1 DEF Inv, Refers, TypeInv, Position, Processing
  <2> QED BY <1>1, <2>1, EventEmptied
<1>3. c # None => c \in Named BY <1>2 DEF Named, Opened
<1>4. held' \subseteq held \cup ({c} \ {None})
  BY DEF ProcessConnect
<1> HIDE DEF c
<1>5. Named' \subseteq Named
  <2>1. \A i \in DOMAIN events' : events'[i].conn = None \/ (i \in DOMAIN events /\ events'[i] = events[i])
    BY <1>2
  <2>2. \A d \in Conns : d # None OBVIOUS
  <2> QED BY <1>3, <1>4, <2>1, <2>2 DEF Named
<1>6. CASE answer = "later" \/ c = None
  <2>1. UNCHANGED <<pending, peers>> /\ (Release(conn) \/ conn' = conn)
    BY <1>6 DEF ProcessConnect, c
  <2>2. \A d \in Conns : Fades(conn'[d], conn[d])
    BY <2>1, FadesWhenReleased DEF Inv, Fades
  <2>3. UNCHANGED <<handshake, pending, peers, refused>> BY <1>1, <2>1
  <2> QED BY <1>5, <2>2, <2>3, FadesEarly, QuietMaps
<1>7. CASE answer = "accept" /\ c # None
  <2>1. PICK outcome \in Accepted(c, FALSE) : Take(c, outcome) /\ Release(conn)
    BY <1>7 DEF ProcessConnect, c
  <2>2. UNCHANGED <<handshake, refused>> BY <1>1
  <2> QED BY <1>3, <1>5, <1>7, <2>1, <2>2, AcceptMaps
<1> QED BY <1>6, <1>7

LEMMA AcceptHeldMaps ==
  ASSUME Inv, Next, MapInv, NEW c \in Conns, NEW temporary \in BOOLEAN, AcceptHeld(c, temporary)
  PROVE  MapInv'
<1>1. c \in Named /\ held' \subseteq held /\ UNCHANGED <<handshake, refused, events>> /\ Release(conn)
  BY DEF AcceptHeld, Named
<1>2. PICK outcome \in Accepted(c, temporary) : Take(c, outcome) BY DEF AcceptHeld
<1>3. Named' \subseteq Named BY <1>1 DEF Named
<1> QED BY <1>1, <1>2, <1>3, AcceptMaps

LEMMA ConnectShape ==
  ASSUME TypeInv, NEW c \in Conns, Connect(c)
  PROVE  /\ conn[c].stage = "unused" /\ FreeFds # {} /\ doing = "idle" /\ NewFd \in Fds
         /\ doing' = "connect" /\ UNCHANGED <<serverVars, at, left, caller, history>>
         /\ \A d \in Conns \ {c} : conn'[d] = conn[d]
         /\ \E r \in {conn'[c]} :
              /\ r.stage = "dialling" /\ r.fd = NewFd /\ r.version = conn[c].version /\ r.sent = conn[c].sent
              /\ r.inbox = conn[c].inbox /\ r.buffer = conn[c].buffer
<1>1. conn[c].stage = "unused" /\ FreeFds # {} /\ doing = "idle" /\ doing' = "connect"
      /\ UNCHANGED <<serverVars, at, left, caller, history>>
  BY DEF Connect
<1>2. PICK d \in Devices[c] :
        conn' = [conn EXCEPT ![c].stage = "dialling", ![c].device = d, ![c].fd = NewFd]
  BY Zenon DEF Connect
<1>3. conn \in [Conns -> Socket] /\ conn[c] \in Socket /\ NewFd \in Fds BY <1>1, NewFdType DEF TypeInv
<1> DEFINE r == [conn[c] EXCEPT !.stage = "dialling", !.device = d, !.fd = NewFd]
<1>4. conn' = [conn EXCEPT ![c] = r] BY <1>2, <1>3 DEF Socket
<1>5. /\ r.stage = "dialling" /\ r.fd = NewFd /\ r.version = conn[c].version /\ r.sent = conn[c].sent
      /\ r.inbox = conn[c].inbox /\ r.buffer = conn[c].buffer
  BY <1>3 DEF Socket
<1> HIDE DEF r
<1>6. conn'[c] = r /\ \A e \in Conns \ {c} : conn'[e] = conn[e] BY <1>3, <1>4
<1> QED BY <1>1, <1>3, <1>5, <1>6

LEMMA ConnectMaps ==
  ASSUME Inv, Next, MapInv, NEW c \in Conns, Connect(c)
  PROVE  MapInv'
<1>1. TypeInv BY DEF Inv
<1>2. UNCHANGED <<serverVars, history>> BY DEF Connect
<1>3. UNCHANGED <<handshake, pending, peers, refused>> /\ Named' = Named
  BY <1>2 DEF serverVars, history, Named
<1>4. \A d \in Conns : conn'[d].version = conn[d].version /\ (d \in Early' => d \in Early)
  BY <1>1, ConnectShape DEF Early
<1>5. Early' \subseteq Early /\ Shaking' \subseteq Conns BY <1>4 DEF Early, Shaking
<1> QED BY <1>3, <1>4, <1>5, QuietMaps DEF Early

\* How connect ends: without a peer, or with one.
Fails(c, r) ==
  /\ r.stage = "closed" /\ UNCHANGED <<peers, trusted>>
  /\ \/ UNCHANGED fds /\ (Idle \/ (doing' = "undefined" /\ UNCHANGED <<at, left, caller>>))
     \/ fds' = Append(fds, Entry(conn[c].fd)) /\ Idle /\ peers[conn[c].fd] # None
Meets(c, r) ==
  /\ r.stage = "open" /\ trusted' = trusted \cup {c}
  /\ peers[conn[c].fd] = None /\ peers' = [peers EXCEPT ![conn[c].fd] = c]
  /\ fds' = Append(fds, Entry(conn[c].fd)) /\ Idle

LEMMA ConnectingShape ==
  ASSUME Inv, Connecting
  PROVE  \E c \in Conns : \E r \in Socket :
           /\ doing = "connect" /\ conn[c].stage = "dialling" /\ r.fd = conn[c].fd
           /\ conn' = [conn EXCEPT ![c] = r]
           /\ UNCHANGED <<handshake, pending, listening, known, events, held, handed, refused, stale>>
           /\ Fails(c, r) \/ Meets(c, r)
           /\ r.stage = "open" => \E p \in PreAuthPoll(conn[c]) :
                /\ Alive(p.conn) /\ p.end # "undefined" /\ r.version = p.conn.version
                /\ r.sent = p.conn.sent /\ Unread(r) = Unread(p.conn)
<1> DEFINE after(c, p, stage) == Settled([p.conn EXCEPT !.stage = stage])
           Goes(c, p) ==
             /\ UNCHANGED <<handshake, pending, listening, known, events, held, handed, refused, stale>>
             /\ \/ /\ conn' = [conn EXCEPT ![c] = after(c, p, "closed")] /\ UNCHANGED <<peers, trusted>>
                   /\ \/ UNCHANGED fds /\ (Idle \/ (doing' = "undefined" /\ UNCHANGED <<at, left, caller>>))
                      \/ fds' = Append(fds, Entry(conn[c].fd)) /\ Idle /\ peers[conn[c].fd] # None
                \/ /\ conn' = [conn EXCEPT ![c] = after(c, p, "open")] /\ trusted' = trusted \cup {c}
                   /\ peers[conn[c].fd] = None /\ peers' = [peers EXCEPT ![conn[c].fd] = c]
                   /\ fds' = Append(fds, Entry(conn[c].fd)) /\ Idle
                   /\ Alive(p.conn) /\ p.end # "undefined"
<1>1. PICK c \in Conns : /\ doing = "connect" /\ conn[c].stage = "dialling"
                         /\ \E p \in PreAuthPoll(conn[c]) : Goes(c, p)
  BY ZenonT(120) DEF Connecting
<1>2. PICK p \in PreAuthPoll(conn[c]) : Goes(c, p) BY <1>1
<1>3. c \in Opened BY <1>1 DEF Opened, Used
<1>4. p.conn \in Socket /\ p.conn.fd = conn[c].fd BY <1>3, PollLeaves
<1>5. ASSUME NEW stage \in {"open", "closed"}
      PROVE  /\ after(c, p, stage) \in Socket /\ after(c, p, stage).fd = conn[c].fd
             /\ after(c, p, stage).stage = stage
             /\ stage = "open" => /\ after(c, p, stage).version = p.conn.version
                                  /\ after(c, p, stage).sent = p.conn.sent
                                  /\ Unread(after(c, p, stage)) = Unread(p.conn)
  <2> DEFINE s == [p.conn EXCEPT !.stage = stage]
  <2>1. /\ s \in Socket /\ s.stage = stage /\ s.fd = conn[c].fd /\ s.version = p.conn.version
        /\ s.sent = p.conn.sent /\ s.inbox = p.conn.inbox /\ s.buffer = p.conn.buffer
    BY <1>4 DEF Socket, Stages
  <2> HIDE DEF s
  <2>2. Settled(s) \in Socket /\ Settled(s).stage = stage BY <2>1, SettledType
  <2>3. Settled(s).fd = conn[c].fd /\ (stage = "open" => Settled(s) = s)
    BY <2>1 DEF Settled, Unopened
  <2> QED BY <2>1, <2>2, <2>3 DEF Unread, s
<1> HIDE DEF after
<1> QED BY <1>1, <1>2, <1>5 DEF Fails, Meets

LEMMA ConnectingMaps == ASSUME Inv, Next, MapInv, Connecting PROVE MapInv'
<1>1. PICK c \in Conns : \E r \in Socket :
           /\ conn[c].stage = "dialling" /\ conn' = [conn EXCEPT ![c] = r]
           /\ UNCHANGED <<handshake, pending, events, held, refused>>
           /\ Fails(c, r) \/ Meets(c, r)
  BY ConnectingShape
<1>2. PICK r \in Socket :
           /\ conn[c].stage = "dialling" /\ conn' = [conn EXCEPT ![c] = r]
           /\ UNCHANGED <<handshake, pending, events, held, refused>>
           /\ Fails(c, r) \/ Meets(c, r)
  BY <1>1
<1>3. c \in Early /\ c \notin Shaking \cup Waiting \cup Joined BY <1>2 DEF Early, MapInv
<1>4. conn'[c].stage \in {"open", "closed"} /\ \A d \in Conns \ {c} : conn'[d] = conn[d]
  BY <1>2 DEF Inv, TypeInv, Fails, Meets
<1>5. Early' \subseteq Early \ {c} /\ \A d \in Early' \cup Shaking' : conn'[d].version = conn[d].version
  <2>1. Shaking' = Shaking BY <1>2 DEF Shaking
  <2>2. Early' \subseteq Early \ {c} BY <1>4 DEF Early
  <2> QED BY <1>3, <1>4, <2>1, <2>2 DEF Early, Shaking
<1>6. /\ Shaking' = Shaking /\ Waiting' = Waiting /\ Named' = Named
      /\ \A f \in Slots : handshake'[f] = handshake[f]
      /\ \A d \in Conns : refused'[d] = refused[d]
      /\ refused' = [d \in Conns |-> refused'[d]]
  BY <1>2 DEF Shaking, Waiting, Named, MapInv
<1>7. Joined' \subseteq Joined \cup (trusted' \cap {c})
  <2>1. CASE Fails(c, r) BY <2>1 DEF Fails, Joined
  <2>2. CASE Meets(c, r)
    <3>1. \A f \in Slots : peers'[f] \in {peers[f], c} BY <2>2, MappedOpened DEF Meets
    <3>2. c \in trusted' BY <2>2 DEF Meets
    <3> QED BY <3>1, <3>2 DEF Joined
  <2> QED BY <1>2, <2>1, <2>2
<1>8. Joined' \subseteq Joined \cup (trusted' \ (Shaking \cup Early')) BY <1>3, <1>5, <1>7
<1>9. Waiting' \cap Joined' \cap Shaking = {} BY <1>3, <1>6, <1>7 DEF MapInv
<1> HIDE DEF Shaking, Waiting, Joined, Early, Named
<1> QED BY <1>5, <1>6, <1>8, <1>9, MapsKept

LEMMA MapsStart == Init => MapInv
<1> SUFFICES ASSUME Init PROVE MapInv OBVIOUS
<1>1. \A c \in Conns : conn[c].version = None BY DEF Init, Unopened
<1>2. \A c \in Conns : c # None OBVIOUS
<1>3. \A f \in Slots : handshake[f] = None /\ pending[f] = None /\ peers[f] = None BY DEF Init
<1>4. refused = [c \in Conns |-> {}] BY DEF Init
<1>5. Shaking = {} /\ Waiting = {} /\ Joined = {} /\ Named = {}
  BY <1>2, <1>3 DEF Init, Shaking, Waiting, Joined, Named
<1> QED BY <1>1, <1>3, <1>4, <1>5 DEF MapInv, Early

LEMMA MapsStep == Inv /\ MapInv /\ [Next]_vars => MapInv'
<1> SUFFICES ASSUME Inv, MapInv, [Next]_vars PROVE MapInv' OBVIOUS
<1>1. CASE UNCHANGED vars
  <2>1. UNCHANGED <<conn, handshake, pending, peers, known, events, held, trusted, refused>>
    BY <1>1 DEF vars, serverVars, history
  <2> QED BY <2>1 DEF MapInv, Early, Shaking, Waiting, Joined, Named, Mismatch, KeyOf
<1>2. CASE Next
  <2>1. ASSUME Step PROVE MapInv'
    BY <1>2, <2>1, AcceptSocketMaps, PollPeerMaps, PollPendingMaps, PollHandshakeMaps, IdleMaps, TakenMaps,
       ConnectingMaps, ProcessConnectMaps DEF Step
  <2>2. ASSUME Application PROVE MapInv'
    BY <1>2, <2>2, IdleMaps, ConnectMaps, AcceptHeldMaps DEF Application
  <2> QED BY <1>2, <2>1, <2>2, NetworkMaps DEF Next
<1> QED BY <1>1, <1>2

\* A peer promoted because its key is known, of which the application was never asked,
\* has had no request answered UNAUTHORIZED: poll_requests of a PreAuthPeer stops after
\* the version message, and poll_handshake makes it a peer before its first request is
\* looked at (PreAuthPeer.cpp:47-50, Server.cpp:331-354).  Nothing is said of the peers
\* the application accepts or dials: requests sent while one waits are refused.
THEOREM KnownNeverRefusedAlways == Spec => []KnownNeverRefused
<1>1. Init => Inv /\ MapInv BY StartsWell, MapsStart
<1>2. Inv /\ MapInv /\ [Next]_vars => (Inv /\ MapInv)' BY StepsWell, MapsStep
<1>3. Inv /\ MapInv => KnownNeverRefused
  <2> SUFFICES ASSUME Inv, MapInv, NEW f \in Slots, peers[f] # None
               PROVE  peers[f] \in held \cup trusted \/ refused[peers[f]] = {}
    BY DEF KnownNeverRefused
  <2>1. peers[f] \in Joined BY MappedOpened DEF Joined, Opened
  <2> QED BY <2>1 DEF MapInv
<1> QED BY <1>1, <1>2, <1>3, PTL DEF Spec
-----------------------------------------------------------------------------
(***************************************************************************)
(* Where a request is, from the moment it was sent.                        *)
(***************************************************************************)
Said(r, n) == \E i \in 1 .. Len(Unread(r)) : Unread(r)[i].nr = n
Hears(c, n) ==
  \/ \E i \in DOMAIN events : events[i].type = "REQUEST" /\ events[i].conn = c /\ events[i].nr = n
  \/ n \in handed[c] \cup refused[c]

\* Until the version is chosen nothing has been taken: what is unread is the version
\* message and every request after it.
InOrder(r) == r.sent = Len(Unread(r)) /\ \A i \in 1 .. Len(Unread(r)) : Unread(r)[i].nr = i - 1
Live(r) == r.stage \in {"unused", "backlog", "dialling", "open"}

LossOf(c) ==
  /\ Alive(conn[c]) => \A n \in 1 .. conn[c].sent - 1 : Said(conn[c], n) \/ Hears(c, n)
  /\ c \in Early \cup Shaking /\ Live(conn[c]) /\ conn[c].version = None => InOrder(conn[c])
  /\ c \in Waiting /\ Alive(conn[c]) => conn[c].version # None

\* process_events has handed over the requests it went past.
Passed == doing = "process" =>
  \A i \in DOMAIN events : i < at /\ events[i].type = "REQUEST" => events[i].nr \in handed[events[i].conn]

LossInv == Passed /\ \A c \in Conns : LossOf(c)

LEMMA InOrderSaid ==
  ASSUME NEW r \in Socket, InOrder(r), NEW n \in 1 .. r.sent - 1
  PROVE  Said(r, n)
<1>1. Len(Unread(r)) \in Nat BY UnreadType, LenProperties
<1>2. n + 1 \in 1 .. Len(Unread(r)) /\ (n + 1) - 1 = n BY <1>1 DEF InOrder
<1> QED BY <1>2 DEF InOrder, Said

\* The version message is taken, what came after it stays.
LEMMA ChosenSaid ==
  ASSUME NEW r \in Socket, NEW s \in Socket, InOrder(r), Unread(r) # <<>>, Unread(s) = Tail(Unread(r)),
         s.sent = r.sent, NEW n \in 1 .. s.sent - 1
  PROVE  Said(s, n)
<1>1. Unread(r) \in Seq(Messages) /\ Len(Unread(r)) \in Nat BY UnreadType, LenProperties
<1>2. Len(Unread(s)) = Len(Unread(r)) - 1 /\ \A i \in 1 .. Len(Unread(s)) : Unread(s)[i] = Unread(r)[i + 1]
  BY <1>1, HeadTailProperties
<1>3. n \in 1 .. Len(Unread(s)) /\ n + 1 \in 1 .. Len(Unread(r)) /\ (n + 1) - 1 = n
  BY <1>1, <1>2 DEF InOrder
<1> QED BY <1>2, <1>3 DEF InOrder, Said

\* A connection that the step leaves alone, or closes.
LEMMA LossRemains ==
  ASSUME NEW c \in Conns, LossOf(c), conn'[c] = conn[c] \/ conn'[c].stage = "closed",
         c \in Shaking' => c \in Early \cup Shaking, c \in Waiting' => c \in Waiting,
         \A n : Hears(c, n) => Hears(c, n)'
  PROVE  LossOf(c)'
<1>1. CASE conn'[c].stage = "closed"
  BY <1>1 DEF LossOf, Alive, Live
<1>2. CASE conn'[c] = conn[c]
  <2>1. c \in Early' <=> c \in Early BY <1>2 DEF Early
  <2>2. c \in Early' \cup Shaking' => c \in Early \cup Shaking BY <2>1
  <2> HIDE DEF Early, Shaking, Waiting
  <2> QED BY <1>2, <2>2 DEF LossOf
<1> QED BY <1>1, <1>2

\* A poll of a PreAuthPeer loses nothing.
LEMMA PollLoss ==
  ASSUME Inv, NEW c \in Opened, LossOf(c), NEW p \in PreAuthPoll(conn[c]), Alive(p.conn),
         conn[c].version = None => InOrder(conn[c])
  PROVE  /\ \A n \in 1 .. p.conn.sent - 1 : Said(p.conn, n) \/ n \in p.refused \/ Hears(c, n)
         /\ p.conn.version = None => InOrder(p.conn)
         /\ conn[c].version # None => p.conn.version # None
<1>1. conn[c] \in Socket /\ p.conn \in Socket BY PollLeaves DEF Inv, TypeInv, Opened
<1>2. Reads(p, conn[c]) \/ Chooses(p, conn[c]) \/ Refuses(p, conn[c]) BY PollLeaves DEF Ends
<1>3. Alive(conn[c]) /\ p.conn.sent = conn[c].sent BY <1>2 DEF Reads, Chooses, Refuses, Stays, Alive
<1>4. \A n \in 1 .. p.conn.sent - 1 : Said(conn[c], n) \/ Hears(c, n) BY <1>3 DEF LossOf
<1>5. CASE Reads(p, conn[c])
  BY <1>3, <1>4, <1>5 DEF Reads, Said, InOrder
<1>6. CASE Chooses(p, conn[c])
  <2>1. p.conn.version # None /\ conn[c].version = None BY <1>6 DEF Chooses
  <2>2. \A n \in 1 .. p.conn.sent - 1 : Said(p.conn, n)
    BY <1>1, <1>3, <1>6, <2>1, ChosenSaid DEF Chooses
  <2> QED BY <2>1, <2>2
<1>7. CASE Refuses(p, conn[c])
  <2>1. Unread(conn[c]) \in Seq(Messages) BY <1>1, UnreadType
  <2>2. \A i \in 1 .. Len(Unread(conn[c])) : Unread(conn[c])[i] \in ToSet(Unread(conn[c]))
    BY <2>1, LenProperties DEF ToSet
  <2>3. \A n : Said(conn[c], n) => n \in p.refused BY <1>7, <2>2 DEF Refuses, Said
  <2> QED BY <1>4, <1>7, <2>3 DEF Refuses
<1> QED BY <1>2, <1>5, <1>6, <1>7

\* The loop returns to its caller at the first event.
LEMMA PassedFromStart ==
  ASSUME doing' = "process" => at' = 1, DOMAIN events' \subseteq Nat \ {0}
  PROVE  Passed'
<1>1. ~\E i \in DOMAIN events' : i < 1 OBVIOUS
<1> QED BY <1>1 DEF Passed

LEMMA FromStart ==
  ASSUME Inv, doing = "poll"
  PROVE  /\ \A entries, i, n : Advance(entries, i, n) => (doing' = "process" => at' = 1)
         /\ ThrowInLoop => doing' # "process"
BY DEF Advance, ThrowInLoop, Idle

\* What is in an event stays known, as long as the events only grow.
LEMMA HearsMore ==
  ASSUME \A j \in DOMAIN events : j \in DOMAIN events' /\ events'[j] = events[j],
         NEW c, handed[c] \subseteq handed'[c], refused[c] \subseteq refused'[c]
  PROVE  \A n : Hears(c, n) => Hears(c, n)'
BY DEF Hears
LEMMA EventsDomain ==
  ASSUME Inv, Next
  PROVE  /\ Len(events) \in Nat /\ DOMAIN events = 1 .. Len(events) /\ DOMAIN events' \subseteq Nat \ {0}
         /\ \A i \in DOMAIN events : events[i].type = "REQUEST" => events[i].conn \in Conns /\ events[i].nr \in Nat
<1>1. Inv' BY StepsWell
<1>2. PICK S : S = EventsOf(Opened', Trustees') OBVIOUS
<1>3. events' \in Seq(S) BY <1>1, <1>2 DEF Inv, Refers, EventsOf
<1>4. DOMAIN events' = 1 .. Len(events') /\ Len(events') \in Nat BY <1>3, LenProperties
<1>5. DOMAIN events' \subseteq Nat \ {0} BY <1>4
<1>6. events \in Seq(EventsOf(Opened, Trustees)) BY DEF Inv, Refers
<1>7. Len(events) \in Nat /\ DOMAIN events = 1 .. Len(events) BY <1>6, LenProperties
<1>8. \A i \in DOMAIN events : events[i].type = "REQUEST" => events[i].conn \in Conns /\ events[i].nr \in Nat
  BY <1>6, <1>7 DEF EventsOf, Trustees, Opened
<1> QED BY <1>5, <1>7, <1>8

LEMMA AppendLater ==
  ASSUME NEW T, NEW a \in Seq(T), NEW b \in Seq(T), NEW m \in T
  PROVE  a \o Append(b, m) = Append(a \o b, m)
OBVIOUS

\* The steps that move nothing: what they change of the events and the sockets.
Idles ==
  \/ \E call \in {"process", "pull"} : StartPoll(call)
  \/ PollUnknown \/ PullNothing
  \/ \E c \in Conns : HangUp(c)
  \/ \E disabled \in BOOLEAN : Restart(disabled)

LEMMA IdlesEffect ==
  ASSUME Inv, Idles
  PROVE  /\ UNCHANGED <<handshake, pending, events, refused, handed>>
         /\ UNCHANGED <<doing, at>> \/ (doing' = "process" => at' = 1)
         /\ \A d \in Conns : conn'[d] \in {conn[d], Settled(Closed(conn[d]))}
<1>1. conn \in [Conns -> Socket] BY DEF Inv, TypeInv
<1>2. CASE \E call \in {"process", "pull"} : StartPoll(call)
  BY <1>1, <1>2 DEF StartPoll, history
<1>3. CASE PollUnknown
  BY <1>1, <1>3 DEF PollUnknown, Advance, history
<1>4. CASE PullNothing
  BY <1>1, <1>4 DEF PullNothing, Idle, serverVars, history
<1>5. CASE \E c \in Conns : HangUp(c)
  BY <1>1, <1>5 DEF HangUp, serverVars, loopVars, history
<1>6. CASE \E disabled \in BOOLEAN : Restart(disabled)
  BY <1>1, <1>6 DEF Restart, loopVars, history
<1> QED BY <1>2, <1>3, <1>4, <1>5, <1>6 DEF Idles

LEMMA NetworkLoss == ASSUME Inv, Next, LossInv, Network PROVE LossInv'
<1>1. TypeInv BY DEF Inv
<1>2. UNCHANGED <<serverVars, loopVars, history>> BY DEF Network, Arrive, Send, Leave
<1>3. UNCHANGED <<handshake, pending, events, doing, at, handed, refused>>
  BY <1>2 DEF serverVars, loopVars, history
<1>4. Passed' BY <1>3 DEF LossInv, Passed
<1>5. Shaking' = Shaking /\ Waiting' = Waiting /\ \A d \in Conns : \A n : Hears(d, n) => Hears(d, n)'
  BY <1>3 DEF Shaking, Waiting, Hears
<1>6. PICK c \in Conns :
        /\ \A d \in Conns \ {c} : conn'[d] = conn[d]
        /\ \E r \in {conn'[c]} :
             /\ r.version = conn[c].version /\ r.fd = conn[c].fd /\ r.buffer = conn[c].buffer
             /\ \/ conn[c].stage = "unused" /\ r.stage = "backlog" /\ r.sent = conn[c].sent /\ r.inbox = conn[c].inbox
                \/ /\ r.stage = conn[c].stage /\ r.stage \in {"backlog", "dialling", "open"}
                   /\ r.sent = conn[c].sent + 1
                   /\ \E m \in Messages : m.nr = conn[c].sent /\ r.inbox = Append(conn[c].inbox, m)
                \/ r.stage = conn[c].stage /\ r.sent = conn[c].sent /\ r.inbox = conn[c].inbox
  BY <1>1, NetworkEffect
<1>7. ASSUME NEW d \in Conns \ {c} PROVE LossOf(d)'
  <2>1. d \in Conns /\ LossOf(d) /\ conn'[d] = conn[d] BY <1>6, <1>7 DEF LossInv
  <2> QED BY <1>5, <2>1, LossRemains
<1>8. LossOf(c)'
  <2> DEFINE s == conn'[c]
             r == conn[c]
  <2>1. r \in Socket /\ LossOf(c) BY <1>1 DEF TypeInv, LossInv
  <2>2. s.version = r.version /\ s.buffer = r.buffer /\ (Alive(s) <=> Alive(r)) /\ (Live(s) <=> Live(r))
        /\ (c \in Early' <=> c \in Early)
    BY <1>6 DEF Alive, Live, Early
  <2>3. (Alive(r) => \A n \in 1 .. s.sent - 1 : Said(s, n) \/ Hears(c, n)) /\ (InOrder(r) => InOrder(s))
    <3>1. CASE s.sent = r.sent /\ s.inbox = r.inbox
      <4>1. Unread(s) = Unread(r) BY <2>2, <3>1 DEF Unread
      <4> QED BY <2>1, <3>1, <4>1 DEF LossOf, Said, InOrder
    <3>2. ASSUME NEW m \in Messages, s.sent = r.sent + 1, m.nr = r.sent, s.inbox = Append(r.inbox, m)
          PROVE  (Alive(r) => \A n \in 1 .. s.sent - 1 : Said(s, n) \/ Hears(c, n)) /\ (InOrder(r) => InOrder(s))
      <4>1. r.sent \in Nat /\ Unread(r) \in Seq(Messages) /\ Len(Unread(r)) \in Nat
        BY <2>1, UnreadType, LenProperties DEF Socket
      <4>2. Unread(s) = Append(Unread(r), m)
        <5>1. r.buffer \in Seq(Messages) /\ r.inbox \in Seq(Messages) BY <2>1 DEF Socket
        <5> HIDE DEF s, r
        <5>2. \A a, b \in Seq(Messages) : a \o Append(b, m) = Append(a \o b, m)
          BY AppendLater
        <5>3. r.buffer \o Append(r.inbox, m) = Append(r.buffer \o r.inbox, m) BY <5>1, <5>2, Zenon
        <5> QED BY <2>2, <3>2, <5>3 DEF Unread
      <4>3. /\ Len(Unread(s)) = Len(Unread(r)) + 1 /\ Unread(s)[Len(Unread(r)) + 1] = m
            /\ \A i \in 1 .. Len(Unread(r)) : Unread(s)[i] = Unread(r)[i]
        BY <4>1, <4>2, AppendProperties
      <4> HIDE DEF s, r
      <4>4. ASSUME Alive(r), NEW n \in 1 .. s.sent - 1
            PROVE  Said(s, n) \/ Hears(c, n)
        <5>1. n \in 1 .. r.sent - 1 \/ n = r.sent BY <3>2, <4>1, <4>4
        <5>2. Said(r, n) \/ Hears(c, n) \/ n = r.sent BY <2>1, <4>4, <5>1 DEF LossOf, r
        <5>3. \A i \in 1 .. Len(Unread(r)) : i \in 1 .. Len(Unread(s)) BY <4>1, <4>3
        <5>4. Len(Unread(r)) + 1 \in 1 .. Len(Unread(s)) BY <4>1, <4>3
        <5> QED BY <3>2, <4>3, <5>2, <5>3, <5>4 DEF Said
      <4>5. ASSUME InOrder(r) PROVE InOrder(s)
        <5>1. \A i \in 1 .. Len(Unread(s)) : i \in 1 .. Len(Unread(r)) \/ (i = Len(Unread(r)) + 1 /\ i - 1 = r.sent)
          BY <4>1, <4>3, <4>5 DEF InOrder
        <5> QED BY <3>2, <4>3, <4>5, <5>1 DEF InOrder
      <4> QED BY <4>4, <4>5
    <3> HIDE DEF s, r
    <3> QED BY <1>6, <3>1, <3>2 DEF s, r
  <2> HIDE DEF s, r
  <2>4. /\ Alive(s) => \A n \in 1 .. s.sent - 1 : Said(s, n) \/ Hears(c, n)'
        /\ c \in Early' \cup Shaking' /\ Live(s) /\ s.version = None => InOrder(s)
        /\ c \in Waiting' /\ Alive(s) => s.version # None
    BY <1>5, <2>1, <2>2, <2>3 DEF LossOf, r
  <2> QED BY <2>4 DEF LossOf, s
<1> QED BY <1>4, <1>7, <1>8 DEF LossInv

LEMMA IdleLoss == ASSUME Inv, Next, MapInv, LossInv, Idles PROVE LossInv'
<1>1. /\ UNCHANGED <<handshake, pending, events, refused, handed>>
      /\ UNCHANGED <<doing, at>> \/ (doing' = "process" => at' = 1)
      /\ \A d \in Conns : conn'[d] \in {conn[d], Settled(Closed(conn[d]))}
  BY IdlesEffect
<1>2. ASSUME NEW d \in Conns PROVE LossOf(d)'
  <2>1. \A n : Hears(d, n) => Hears(d, n)' BY <1>1 DEF Hears
  <2>2. conn'[d] = conn[d] \/ conn'[d].stage = "closed" BY <1>1, SettledType DEF Inv, TypeInv
  <2>3. Shaking' = Shaking /\ Waiting' = Waiting BY <1>1 DEF Shaking, Waiting
  <2> QED BY <2>1, <2>2, <2>3, LossRemains DEF LossInv
<1>3. Passed'
  <2>1. CASE UNCHANGED <<doing, at>> BY <1>1, <2>1 DEF LossInv, Passed
  <2>2. CASE doing' = "process" => at' = 1 BY <2>2, EventsDomain, PassedFromStart
  <2> QED BY <1>1, <2>1, <2>2
<1> QED BY <1>2, <1>3 DEF LossInv

LEMMA ProcessRequestLoss == ASSUME Inv, Next, MapInv, LossInv, ProcessRequest PROVE LossInv'
<1>1. /\ UNCHANGED <<conn, handshake, pending, events, refused>>
      /\ doing = "process" /\ at' = at + 1 /\ HandRequest(events[at]) /\ at <= Len(events)
  BY DEF ProcessRequest, Processing, HandRequest, Through
<1>2. at \in Nat /\ at >= 1 BY <1>1 DEF Inv, TypeInv, Position
<1>3. at \in DOMAIN events BY <1>1, <1>2, EventsDomain
<1>4. events[at].conn \in Conns /\ handed' = [handed EXCEPT ![events[at].conn] = @ \cup {events[at].nr}]
  BY <1>1, <1>3, EventsDomain DEF HandRequest
<1>5. handed \in [Conns -> SUBSET Nat] BY DEF Inv, TypeInv
<1>6. (\A c \in Conns : handed[c] \subseteq handed'[c]) /\ events[at].nr \in handed'[events[at].conn]
  BY <1>4, <1>5
<1>7. ASSUME NEW d \in Conns PROVE LossOf(d)'
  <2>1. \A n : Hears(d, n) => Hears(d, n)' BY <1>1, <1>6, HearsMore
  <2>2. Shaking' = Shaking /\ Waiting' = Waiting /\ conn'[d] = conn[d] BY <1>1 DEF Shaking, Waiting
  <2> QED BY <2>1, <2>2, LossRemains DEF LossInv
<1>8. Passed'
  <2>1. \A i \in DOMAIN events : i < at + 1 => i < at \/ i = at BY <1>2, EventsDomain
  <2>2. \A i \in DOMAIN events : i < at /\ events[i].type = "REQUEST" => events[i].nr \in handed[events[i].conn]
    BY <1>1 DEF LossInv, Passed
  <2>3. \A i \in DOMAIN events : events[i].type = "REQUEST" => events[i].conn \in Conns BY EventsDomain
  <2>4. events' = events /\ at' = at + 1 BY <1>1
  <2> QED BY <1>6, <2>1, <2>2, <2>3, <2>4 DEF Passed
<1> QED BY <1>7, <1>8 DEF LossInv
\* What follows for the others when a step moves one connection.
LEMMA OthersLoss ==
  ASSUME LossInv, NEW c \in Conns, Passed', LossOf(c)',
         \A d \in Conns \ {c} : conn'[d] = conn[d] \/ conn'[d].stage = "closed",
         \A d \in Conns \ {c} : d \in Shaking' => d \in Early \cup Shaking,
         \A d \in Conns \ {c} : d \in Waiting' => d \in Waiting,
         \A d \in Conns : \A n : Hears(d, n) => Hears(d, n)'
  PROVE  LossInv'
<1>1. ASSUME NEW d \in Conns \ {c} PROVE LossOf(d)'
  <2>1. d \in Conns /\ LossOf(d) BY DEF LossInv
  <2> HIDE DEF Early, Shaking, Waiting, Hears
  <2>2. /\ conn'[d] = conn[d] \/ conn'[d].stage = "closed"
        /\ d \in Shaking' => d \in Early \cup Shaking
        /\ d \in Waiting' => d \in Waiting
        /\ \A n : Hears(d, n) => Hears(d, n)'
    BY <2>1, <1>1
  <2> QED BY <2>1, <2>2, LossRemains
<1> QED BY <1>1 DEF LossInv

LEMMA ReleasedOthers ==
  ASSUME TypeInv, NEW c \in Conns, NEW r \in Socket, Release([conn EXCEPT ![c] = r])
  PROVE  /\ conn'[c] = r \/ conn'[c].stage = "closed"
         /\ \A d \in Conns \ {c} : conn'[d] = conn[d] \/ conn'[d].stage = "closed"
<1> DEFINE after == [conn EXCEPT ![c] = r]
<1>1. after \in [Conns -> Socket] /\ after[c] = r /\ \A d \in Conns \ {c} : after[d] = conn[d]
  BY DEF TypeInv
<1> HIDE DEF after
<1>2. \A d \in Conns : conn'[d] = after[d] \/ conn'[d].stage = "closed"
  BY <1>1, Released DEF after
<1> QED BY <1>1, <1>2

\* The steps of the poll loop that end it go to the first event.
LEMMA LoopPassed ==
  ASSUME Inv, Next, doing = "poll", NEW entries, NEW i, NEW n,
         Advance(entries, i, n) \/ ThrowInLoop \/ doing' = "undefined"
  PROVE  Passed'
<1>1. doing' = "process" => at' = 1 BY FromStart
<1> QED BY <1>1, EventsDomain, PassedFromStart

LEMMA AcceptSocketLoss == ASSUME Inv, Next, MapInv, LossInv, AcceptSocket PROVE LossInv'
<1>1. TypeInv /\ doing = "poll" BY DEF Inv, AcceptSocket
<1>2. PICK c \in Conns :
        /\ conn[c].stage = "backlog" /\ FreeFds # {}
        /\ UNCHANGED <<pending, peers, listening, known, events, history>>
        /\ \/ conn' = Placed(c, "leaked") /\ ThrowInLoop /\ UNCHANGED handshake
           \/ /\ handshake' = IF handshake[NewFd] = None THEN [handshake EXCEPT ![NewFd] = c] ELSE handshake
              /\ Release(Placed(c, "open"))
              /\ \/ doing' = "undefined"
                 \/ Advance(Append(fds, Entry(NewFd)), 1, left - 1)
  BY <1>1, AcceptSocketShape
<1>3. UNCHANGED <<pending, refused, handed, events>> BY <1>2 DEF history
<1>4. Passed' BY <1>1, <1>2, LoopPassed
<1>5. \A stage \in {"open", "leaked"} :
           /\ Placed(c, stage) \in [Conns -> Socket]
           /\ \A d \in Conns \ {c} : Placed(c, stage)[d] = conn[d]
           /\ Placed(c, stage)[c].stage = stage /\ Placed(c, stage)[c].version = conn[c].version
           /\ Placed(c, stage)[c].sent = conn[c].sent /\ Unread(Placed(c, stage)[c]) = Unread(conn[c])
  <2> SUFFICES ASSUME NEW stage \in {"open", "leaked"}
               PROVE  /\ Placed(c, stage) \in [Conns -> Socket]
                      /\ \A d \in Conns \ {c} : Placed(c, stage)[d] = conn[d]
                      /\ Placed(c, stage)[c].stage = stage /\ Placed(c, stage)[c].version = conn[c].version
                      /\ Placed(c, stage)[c].sent = conn[c].sent
                      /\ Unread(Placed(c, stage)[c]) = Unread(conn[c])
    OBVIOUS
  <2>1. stage \in Stages BY DEF Stages
  <2>2. /\ Placed(c, stage) \in [Conns -> Socket]
        /\ \A d \in Conns \ {c} : Placed(c, stage)[d] = conn[d]
        /\ \E r \in {Placed(c, stage)[c]} :
             /\ r.stage = stage /\ r.fd = NewFd /\ r.version = conn[c].version /\ r.sent = conn[c].sent
             /\ r.inbox = conn[c].inbox /\ r.buffer = conn[c].buffer
    BY <1>1, <1>2, <2>1, PlacedType
  <2> QED BY <2>2 DEF Unread
<1>6. /\ conn'[c] = Placed(c, "open")[c] \/ conn'[c].stage \in {"leaked", "closed"}
      /\ \A d \in Conns \ {c} : conn'[d] = conn[d] \/ conn'[d].stage = "closed"
  <2>1. CASE conn' = Placed(c, "leaked") BY <1>5, <2>1
  <2>2. CASE Release(Placed(c, "open"))
    <3>1. \A d \in Conns : conn'[d] = Placed(c, "open")[d] \/ conn'[d].stage = "closed"
      BY <1>5, <2>2, Released
    <3> QED BY <1>5, <3>1
  <2> QED BY <1>2, <2>1, <2>2
<1>7. c \in Early /\ c \notin Waiting /\ conn[c].version = None BY <1>2 DEF MapInv, Early
<1>8. /\ \A d \in Conns \ {c} : d \in Shaking' => d \in Early \cup Shaking
      /\ Waiting' = Waiting /\ \A d \in Conns : \A n : Hears(d, n) => Hears(d, n)'
  <2>1. \A f \in Slots : handshake'[f] \in {handshake[f], c} BY <1>2, MappedOpened
  <2> QED BY <1>3, <2>1 DEF Shaking, Waiting, Hears
<1>9. LossOf(c)'
  <2>1. CASE conn'[c] = Placed(c, "open")[c]
    <3>1. InOrder(conn[c]) BY <1>2, <1>7 DEF LossInv, LossOf, Live
    <3>2. conn'[c] \in Socket /\ InOrder(conn'[c]) BY <1>5, <2>1, <3>1 DEF InOrder
    <3>3. \A n \in 1 .. conn'[c].sent - 1 : Said(conn'[c], n) BY <3>2, InOrderSaid
    <3> HIDE DEF Early, Shaking, Waiting
    <3> QED BY <1>7, <1>8, <3>2, <3>3 DEF LossOf
  <2>2. CASE conn'[c].stage \in {"leaked", "closed"}
    <3> HIDE DEF Early, Shaking, Waiting
    <3> QED BY <2>2 DEF LossOf, Alive, Live
  <2> QED BY <1>6, <2>1, <2>2
<1> HIDE DEF Early, Shaking, Waiting, Hears
<1> QED BY <1>4, <1>6, <1>8, <1>9, OthersLoss

\* A peer's requests go to the events.
LEMMA PeerPolledLoss ==
  ASSUME Inv, Next, MapInv, LossInv, NEW c \in Conns, NEW r \in Socket, NEW got \in Seq(Messages),
         PeerPolled(c, r, got)
  PROVE  LossInv'
<1>2. /\ Polling(peers, c) /\ Release([conn EXCEPT ![c] = r])
      /\ events' = events \o [i \in DOMAIN got |-> [type |-> "REQUEST", conn |-> c, nr |-> got[i].nr]]
      /\ UNCHANGED <<handshake, pending, history>>
      /\ \/ /\ Alive(r) /\ r.stage = conn[c].stage /\ r.version = conn[c].version /\ r.sent = conn[c].sent
            /\ Takes(got, Unread(conn[c])) /\ Advance(fds, at + 1, left - 1)
         \/ /\ ~Alive(r) /\ r.stage \in {conn[c].stage, "closed"}
            /\ Advance(DeleteMove(fds, at), at, left - 1)
  BY DEF PeerPolled
<1>3. c \in Joined /\ c \in Opened BY <1>2, PolledOpened DEF Joined
<1>4. c \notin Shaking \cup Early /\ doing = "poll" BY <1>2, <1>3 DEF MapInv, Polling
<1>5. Passed' BY <1>2, <1>4, LoopPassed
<1>6. UNCHANGED <<handshake, pending, handed, refused>> BY <1>2 DEF history
<1>7. Shaking' = Shaking /\ Waiting' = Waiting BY <1>6 DEF Shaking, Waiting
<1>8. /\ conn'[c] = r \/ conn'[c].stage = "closed"
      /\ \A d \in Conns \ {c} : conn'[d] = conn[d] \/ conn'[d].stage = "closed"
  BY <1>2, ReleasedOthers DEF Inv
<1>9. /\ \A j \in DOMAIN events : j \in DOMAIN events' /\ events'[j] = events[j]
      /\ \A i \in 1 .. Len(got) :
           /\ Len(events) + i \in DOMAIN events'
           /\ events'[Len(events) + i] = [type |-> "REQUEST", conn |-> c, nr |-> got[i].nr]
  <2>1. PICK A : events \in Seq(A) BY DEF Inv, Refers
  <2>2. events' = events \o [i \in DOMAIN got |-> [type |-> "REQUEST", conn |-> c, nr |-> got[i].nr]]
    BY <1>2
  <2>3. c \in Conns /\ got \in Seq(Messages) OBVIOUS
  <2> QED BY <2>1, <2>2, <2>3, EventsGrow
<1>10. \A d \in Conns : \A n : Hears(d, n) => Hears(d, n)' BY <1>6, <1>9, HearsMore
<1>11. LossOf(c)'
  <2>1. c \notin Early' \cup Shaking'
    <3>1. conn'[c].stage \in {conn[c].stage, "closed"} BY <1>2, <1>8
    <3> QED BY <1>4, <1>7, <3>1 DEF Early
  <2>2. ASSUME conn'[c] = r, Alive(r)
        PROVE  /\ \A n \in 1 .. r.sent - 1 : Hears(c, n)'
               /\ c \in Waiting => r.version # None
    <3>1. Alive(conn[c]) /\ LossOf(c) BY <1>2, <2>2 DEF Alive, LossInv
    <3>2. \A n \in 1 .. r.sent - 1 : Said(conn[c], n) \/ Hears(c, n) BY <1>2, <2>2, <3>1 DEF LossOf
    <3>3. ASSUME NEW n, Said(conn[c], n) PROVE Hears(c, n)'
      <4>1. PICK k \in 1 .. Len(Unread(conn[c])) : Unread(conn[c])[k].nr = n BY <3>3 DEF Said
      <4>2. Takes(got, Unread(conn[c])) BY <1>2, <2>2
      <4>3. PICK i \in 1 .. Len(got) : got[i].nr = n BY <4>1, <4>2 DEF Takes
      <4>4. /\ Len(events) + i \in DOMAIN events'
            /\ events'[Len(events) + i] = [type |-> "REQUEST", conn |-> c, nr |-> n]
        BY <1>9, <4>3
      <4>5. \E j \in DOMAIN events' : events'[j].type = "REQUEST" /\ events'[j].conn = c /\ events'[j].nr = n
        BY <4>4
      <4> QED BY <4>5 DEF Hears
    <3>4. c \in Waiting => r.version # None BY <1>2, <2>2, <3>1 DEF LossOf
    <3> QED BY <1>10, <3>2, <3>3, <3>4
  <2> HIDE DEF Early, Shaking, Waiting, Hears
  <2>3. CASE conn'[c] = r /\ Alive(r) BY <1>7, <2>1, <2>2, <2>3 DEF LossOf
  <2>4. CASE ~Alive(conn'[c]) BY <2>1, <2>4 DEF LossOf
  <2> QED BY <1>8, <2>3, <2>4 DEF Alive
<1>12. \A d \in Conns \ {c} : (d \in Shaking' => d \in Early \cup Shaking) /\ (d \in Waiting' => d \in Waiting)
  BY <1>7
<1> HIDE DEF Early, Shaking, Waiting, Hears
<1> QED BY <1>5, <1>8, <1>10, <1>11, <1>12, OthersLoss

\* After an exception everything is still in the buffer.
LEMMA PeerFailsLoss ==
  ASSUME Inv, Next, MapInv, LossInv, NEW c \in Conns, NEW r \in Socket, PeerFails(c, r)
  PROVE  LossInv'
<1>1. Polling(peers, c) /\ ThrowInLoop /\ UNCHANGED <<handshake, pending, events, handed, refused>>
  BY DEF PeerFails, history
<1>2. c \in Joined /\ doing = "poll" BY <1>1, PolledOpened DEF Joined, Polling
<1>3. c \notin Shaking \cup Early BY <1>2 DEF MapInv
<1>4. Passed' BY <1>1, <1>2, LoopPassed
<1>5. Shaking' = Shaking /\ Waiting' = Waiting /\ \A d, n : Hears(d, n)' = Hears(d, n)
  BY <1>1 DEF Shaking, Waiting, Hears
<1>6. conn'[c] = r /\ \A d \in Conns \ {c} : conn'[d] = conn[d] BY FailsFades DEF Inv
<1>7. LossOf(c)'
  <2>1. c \notin Early' \cup Shaking' BY <1>3, <1>5, <1>6 DEF PeerFails, Early
  <2>2. ASSUME Alive(r)
        PROVE  /\ \A n \in 1 .. r.sent - 1 : Said(r, n) \/ Hears(c, n)
               /\ c \in Waiting => r.version # None
    <3>1. Kept(conn[c], r) BY <2>2 DEF PeerFails
    <3>2. Alive(conn[c]) /\ LossOf(c) BY <2>2, <3>1 DEF Alive, Kept, LossInv
    <3>3. \A n : Said(conn[c], n) => Said(r, n) BY <3>1 DEF Said, Kept
    <3> QED BY <3>1, <3>2, <3>3 DEF LossOf, Kept
  <2> HIDE DEF Early, Shaking, Waiting, Hears
  <2> QED BY <1>5, <1>6, <2>1, <2>2 DEF LossOf
<1> HIDE DEF Early, Shaking, Waiting, Hears
<1> QED BY <1>4, <1>5, <1>6, <1>7, OthersLoss

LEMMA PollPeerLoss == ASSUME Inv, Next, MapInv, LossInv, PollPeer PROVE LossInv'
BY PollPeerShape, PeerPolledLoss, PeerFailsLoss

\* What waits for authorization has its version; its requests are refused.
LEMMA PollPendingLoss == ASSUME Inv, Next, MapInv, LossInv, PollPending PROVE LossInv'
<1>1. PICK c \in Conns : \E p \in PreAuthPoll(conn[c]) :
           /\ Polling(pending, c)
           /\ refused' = [refused EXCEPT ![c] = @ \cup p.refused]
           /\ WaitsOn(c, p) \/ Expires(c, p)
           /\ UNCHANGED <<handshake, events, handed>>
           /\ Release([conn EXCEPT ![c] = p.conn])
  BY PollPendingShape
<1>2. PICK p \in PreAuthPoll(conn[c]) :
           /\ Polling(pending, c)
           /\ refused' = [refused EXCEPT ![c] = @ \cup p.refused]
           /\ WaitsOn(c, p) \/ Expires(c, p)
           /\ UNCHANGED <<handshake, events, handed>>
           /\ Release([conn EXCEPT ![c] = p.conn])
  BY <1>1
<1>3. c \in Waiting /\ c \in Opened /\ doing = "poll" BY <1>2, PolledOpened DEF Waiting, Polling
<1>4. c \notin Shaking \cup Early BY <1>3 DEF MapInv
<1>5. Passed' BY <1>2, <1>3, LoopPassed DEF WaitsOn, Expires
<1>6. /\ p.conn \in Socket /\ p.conn.stage \in {conn[c].stage, "closed"}
      /\ Alive(p.conn) => Alive(conn[c])
  BY <1>3, PollLeaves DEF Ends, Reads, Chooses, Refuses, Stays, Alive
<1>7. /\ conn'[c] = p.conn \/ conn'[c].stage = "closed"
      /\ \A d \in Conns \ {c} : conn'[d] = conn[d] \/ conn'[d].stage = "closed"
  BY <1>2, <1>6, ReleasedOthers DEF Inv
<1>8. Shaking' = Shaking /\ Waiting' \subseteq Waiting
  <2>1. \A g \in Slots : pending'[g] \in {pending[g], None} BY <1>2, MappedOpened DEF WaitsOn, Expires
  <2>2. \A d \in Conns : d # None OBVIOUS
  <2> QED BY <1>2, <2>1, <2>2 DEF Waiting, Shaking
<1>9. (\A d \in Conns : refused[d] \subseteq refused'[d]) /\ refused'[c] = refused[c] \cup p.refused
  BY <1>2 DEF MapInv
<1>10. \A d \in Conns : \A n : Hears(d, n) => Hears(d, n)' BY <1>2, <1>9, HearsMore
<1>11. LossOf(c)'
  <2>1. c \notin Early' \cup Shaking'
    <3>1. conn'[c].stage \in {conn[c].stage, "closed"} BY <1>6, <1>7
    <3> QED BY <1>4, <1>8, <3>1 DEF Early
  <2>2. ASSUME conn'[c] = p.conn, Alive(p.conn)
        PROVE  /\ \A n \in 1 .. p.conn.sent - 1 : Said(p.conn, n) \/ Hears(c, n)'
               /\ p.conn.version # None
    <3>1. conn[c].version # None /\ LossOf(c) BY <1>3, <1>6, <2>2 DEF LossOf, LossInv
    <3>2. /\ \A n \in 1 .. p.conn.sent - 1 : Said(p.conn, n) \/ n \in p.refused \/ Hears(c, n)
          /\ p.conn.version # None
      BY <1>3, <2>2, <3>1, PollLoss
    <3>3. \A n \in p.refused : Hears(c, n)' BY <1>9 DEF Hears
    <3> QED BY <1>10, <3>2, <3>3
  <2> HIDE DEF Early, Shaking, Waiting, Hears
  <2>3. CASE conn'[c] = p.conn /\ Alive(p.conn) BY <1>8, <2>1, <2>2, <2>3 DEF LossOf
  <2>4. CASE ~Alive(conn'[c]) BY <2>1, <2>4 DEF LossOf
  <2> QED BY <1>7, <2>3, <2>4 DEF Alive
<1>12. \A d \in Conns \ {c} : (d \in Shaking' => d \in Early \cup Shaking) /\ (d \in Waiting' => d \in Waiting)
  BY <1>8
<1> HIDE DEF Early, Shaking, Waiting, Hears
<1> QED BY <1>5, <1>7, <1>10, <1>11, <1>12, OthersLoss
\* The handshake: a poll that chooses the version leaves what follows it.
LEMMA PollHandshakeLoss == ASSUME Inv, Next, MapInv, LossInv, PollHandshake PROVE LossInv'
<1>1. PICK c \in Conns : \E p \in PreAuthPoll(conn[c]) :
           /\ Polling(handshake, c)
           /\ refused' = [refused EXCEPT ![c] = @ \cup p.refused]
           /\ UNCHANGED handed
           /\ Breaks(c, p) \/ ShakesOn(c, p) \/ Drops(c, p) \/ Promotes(c, p) \/ Asks(c, p)
  BY PollHandshakeShape
<1>2. PICK p \in PreAuthPoll(conn[c]) :
           /\ Polling(handshake, c)
           /\ refused' = [refused EXCEPT ![c] = @ \cup p.refused]
           /\ UNCHANGED handed
           /\ Breaks(c, p) \/ ShakesOn(c, p) \/ Drops(c, p) \/ Promotes(c, p) \/ Asks(c, p)
  BY <1>1
<1>3. c \in Shaking /\ c \in Opened /\ doing = "poll" /\ fds[at].fd \in Slots
  BY <1>2, PolledOpened DEF Shaking, Polling
<1>4. c \notin Waiting \cup Early BY <1>3 DEF MapInv
<1>5. /\ p.conn \in Socket /\ p.conn.stage \in {conn[c].stage, "closed"}
      /\ Alive(p.conn) => Alive(conn[c])
  BY <1>3, PollLeaves DEF Ends, Reads, Chooses, Refuses, Stays, Alive
<1>6. Passed' BY <1>2, <1>3, LoopPassed DEF Breaks, ShakesOn, Drops, Promotes, Asks
<1>7. /\ conn'[c] = p.conn \/ conn'[c].stage = "closed"
      /\ \A d \in Conns \ {c} : conn'[d] = conn[d] \/ conn'[d].stage = "closed"
  <2>1. TypeInv BY DEF Inv
  <2>2. CASE Release([conn EXCEPT ![c] = p.conn]) BY <1>5, <2>1, <2>2, ReleasedOthers
  <2>3. CASE conn' = [conn EXCEPT ![c] = p.conn] BY <2>1, <2>3 DEF TypeInv
  <2> QED BY <1>2, <2>2, <2>3 DEF Breaks, ShakesOn, Drops, Promotes, Asks
<1>8. Shaking' \subseteq Shaking
  <2>1. \A g \in Slots : handshake'[g] \in {handshake[g], None}
    BY <1>2, MappedOpened DEF Breaks, ShakesOn, Drops, Promotes, Asks
  <2>2. \A d \in Conns : d # None OBVIOUS
  <2> QED BY <2>1, <2>2 DEF Shaking
<1>9. Waiting' \subseteq Waiting \cup {c} /\ (c \in Waiting' => p.conn.version # None)
  <2>1. CASE UNCHANGED pending BY <1>4, <2>1 DEF Waiting
  <2>2. CASE Asks(c, p)
    <3>1. \A g \in Slots : pending'[g] \in {pending[g], c} BY <2>2, MappedOpened DEF Asks
    <3> QED BY <2>2, <3>1 DEF Waiting, Asks
  <2> QED BY <1>2, <2>1, <2>2 DEF Breaks, ShakesOn, Drops, Promotes
<1>10. (\A d \in Conns : refused[d] \subseteq refused'[d]) /\ refused'[c] = refused[c] \cup p.refused
  BY <1>2 DEF MapInv
<1>11. \A d \in Conns : \A n : Hears(d, n) => Hears(d, n)'
  <2>1. \A j \in DOMAIN events : j \in DOMAIN events' /\ events'[j] = events[j]
    <3>1. CASE UNCHANGED events BY <3>1
    <3>2. CASE Asks(c, p)
      <4>1. events' = Append(events, [type |-> "CONNECT", conn |-> c]) BY <3>2 DEF Asks
      <4>2. PICK S : S = EventsOf(Opened, Trustees) OBVIOUS
      <4>3. events \in Seq(S) BY <4>2 DEF Inv, Refers
      <4>4. [type |-> "CONNECT", conn |-> c] \in S BY <1>3, <4>2 DEF EventsOf
      <4> QED BY <4>1, <4>3, <4>4, AppendProperties, LenProperties
    <3> QED BY <1>2, <3>1, <3>2 DEF Breaks, ShakesOn, Drops, Promotes
  <2> QED BY <1>2, <1>10, <2>1, HearsMore
<1>12. LossOf(c)'
  <2>1. c \notin Early' /\ (Live(conn'[c]) => Alive(conn'[c]))
    <3>1. conn'[c].stage \in {conn[c].stage, "closed"} BY <1>5, <1>7
    <3> QED BY <1>4, <3>1 DEF Early, Live, Alive
  <2>2. ASSUME conn'[c] = p.conn, Alive(p.conn)
        PROVE  /\ \A n \in 1 .. p.conn.sent - 1 : Said(p.conn, n) \/ Hears(c, n)'
               /\ p.conn.version = None => InOrder(p.conn)
    <3>1. LossOf(c) /\ Live(conn[c]) BY <1>5, <2>2 DEF LossInv, Live, Alive
    <3>2. conn[c].version = None => InOrder(conn[c]) BY <1>3, <3>1 DEF LossOf
    <3>3. /\ \A n \in 1 .. p.conn.sent - 1 : Said(p.conn, n) \/ n \in p.refused \/ Hears(c, n)
          /\ p.conn.version = None => InOrder(p.conn)
      BY <1>3, <2>2, <3>1, <3>2, PollLoss
    <3>4. \A n \in p.refused : Hears(c, n)' BY <1>10 DEF Hears
    <3> QED BY <1>11, <3>3, <3>4
  <2> HIDE DEF Early, Shaking, Waiting, Hears
  <2>3. CASE conn'[c] = p.conn /\ Alive(p.conn) BY <1>9, <2>2, <2>3 DEF LossOf
  <2>4. CASE ~Alive(conn'[c]) BY <2>1, <2>4 DEF LossOf
  <2> QED BY <1>7, <2>3, <2>4 DEF Alive
<1>13. \A d \in Conns \ {c} : (d \in Shaking' => d \in Early \cup Shaking) /\ (d \in Waiting' => d \in Waiting)
  BY <1>8, <1>9
<1> HIDE DEF Early, Shaking, Waiting, Hears
<1> QED BY <1>6, <1>7, <1>11, <1>12, <1>13, OthersLoss

\* The steps that only close sockets.
LEMMA ClosingLoss ==
  ASSUME LossInv, Passed', \A d \in Conns : conn'[d] = conn[d] \/ conn'[d].stage = "closed",
         Shaking' \subseteq Shaking, Waiting' \subseteq Waiting,
         \A d \in Conns : \A n : Hears(d, n) => Hears(d, n)'
  PROVE  LossInv'
<1>1. ASSUME NEW d \in Conns PROVE LossOf(d)'
  <2>1. LossOf(d) BY DEF LossInv
  <2> HIDE DEF Early, Shaking, Waiting, Hears
  <2>2. /\ conn'[d] = conn[d] \/ conn'[d].stage = "closed"
        /\ d \in Shaking' => d \in Early \cup Shaking
        /\ d \in Waiting' => d \in Waiting
        /\ \A n : Hears(d, n) => Hears(d, n)'
    OBVIOUS
  <2> QED BY <2>1, <2>2, LossRemains
<1> QED BY <1>1 DEF LossInv

LEMMA ReleasedAll ==
  ASSUME TypeInv, Release(conn)
  PROVE  \A d \in Conns : conn'[d] = conn[d] \/ conn'[d].stage = "closed"
BY Released DEF TypeInv

\* The application takes the events: a request that leaves them is handed over.
LEMMA TakenLoss == ASSUME Inv, Next, MapInv, LossInv, Pull \/ ProcessEnd PROVE LossInv'
<1>1. UNCHANGED <<handshake, pending, refused>> /\ Release(conn) /\ doing' = "idle"
  BY DEF Pull, ProcessEnd, HandRequest, Idle, history
<1>2. \A d \in Conns : conn'[d] = conn[d] \/ conn'[d].stage = "closed" BY <1>1, ReleasedAll DEF Inv
<1>3. Shaking' = Shaking /\ Waiting' = Waiting BY <1>1 DEF Shaking, Waiting
<1>4. events \in Seq(EventsOf(Opened, Trustees)) BY DEF Inv, Refers
<1>5. ASSUME NEW d \in Conns, NEW n, Hears(d, n)
      PROVE  Hears(d, n)'
  <2>1. CASE ProcessEnd
    <3>1. UNCHANGED handed /\ doing = "process" /\ at > Len(events) BY <2>1 DEF ProcessEnd, history
    <3>2. at \in Nat BY DEF Inv, TypeInv, Position
    <3>3. \A i \in DOMAIN events : i < at BY <3>1, <3>2, EventsDomain
    <3>4. \A i \in DOMAIN events : events[i].type = "REQUEST" => events[i].nr \in handed[events[i].conn]
      BY <3>1, <3>3 DEF LossInv, Passed
    <3>5. n \in handed[d] \cup refused[d] BY <1>5, <3>4 DEF Hears
    <3> QED BY <1>1, <3>1, <3>5 DEF Hears
  <2>2. CASE Pull
    <3>1. Len(events) \in Nat /\ Len(events) \in DOMAIN events /\ DOMAIN events = 1 .. Len(events)
      BY <1>4, <2>2, LenProperties, EmptySeq DEF Pull
    <3>2. events' = SubSeq(events, 1, Len(events) - 1) BY <2>2 DEF Pull, Front
    <3>3. \A i \in 1 .. Len(events) - 1 : events'[i] = events[i] /\ i \in DOMAIN events
      BY <1>4, <3>1, <3>2, SubSeqProperties
    <3>4. DOMAIN events' = 1 .. Len(events) - 1
      <4>1. \A i \in 1 .. Len(events) - 1 : events[i] \in EventsOf(Opened, Trustees) BY <1>4, <3>1
      <4>2. events' \in Seq(EventsOf(Opened, Trustees)) /\ Len(events') = Len(events) - 1
        BY <3>1, <3>2, <4>1, SubSeqProperties
      <4> QED BY <4>2, LenProperties
    <3>5. handed' = handed \/ HandRequest(events[Len(events)]) BY <2>2 DEF Pull, Last
    <3>6. events[Len(events)].type = "REQUEST" => HandRequest(events[Len(events)]) BY <2>2 DEF Pull, Last
    <3>7. handed \in [Conns -> SUBSET Nat] BY DEF Inv, TypeInv
    <3>8. \A c \in Conns : handed[c] \subseteq handed'[c] BY <3>5, <3>7 DEF HandRequest
    <3>9. CASE n \in handed[d] \cup refused[d] BY <1>1, <3>8, <3>9 DEF Hears
    <3>10. ASSUME NEW i \in DOMAIN events, events[i].type = "REQUEST", events[i].conn = d, events[i].nr = n
           PROVE  Hears(d, n)'
      <4>1. CASE i = Len(events)
        <5>1. handed' = [handed EXCEPT ![d] = @ \cup {n}] BY <3>6, <3>10, <4>1 DEF HandRequest
        <5> QED BY <3>7, <5>1 DEF Hears
      <4>2. CASE i # Len(events)
        <5>1. i \in 1 .. Len(events) - 1 BY <3>1, <3>10, <4>2
        <5> QED BY <3>3, <3>4, <3>10, <5>1 DEF Hears
      <4> QED BY <4>1, <4>2
    <3> QED BY <1>5, <3>9, <3>10 DEF Hears
  <2> QED BY <2>1, <2>2
<1>6. Passed' BY <1>1 DEF Passed
<1> HIDE DEF Early, Shaking, Waiting, Hears
<1> QED BY <1>2, <1>3, <1>5, <1>6, ClosingLoss

\* The application answers a CONNECT.
LEMMA AcceptWaits ==
  ASSUME Inv, NEW c \in Opened, NEW temporary \in BOOLEAN, NEW outcome \in Accepted(c, temporary),
         Take(c, outcome)
  PROVE  Waiting' \subseteq Waiting
<1>1. \A g \in Slots : pending'[g] \in {pending[g], None}
  <2> DEFINE Misses == outcome.thrown = TRUE /\ outcome.pending = pending /\ outcome.peers = peers
             Hits(f) == /\ f \in Slots /\ (Alive(conn[c]) => f = conn[c].fd)
                        /\ outcome.thrown = (peers[f] # None) /\ outcome.pending = [pending EXCEPT ![f] = None]
                        /\ outcome.peers = IF peers[f] = None THEN [peers EXCEPT ![f] = c] ELSE peers
  <2>3. Misses \/ \E f \in {conn[c].fd, NoFd} : Hits(f) BY AcceptedShape, ZenonT(60)
  <2>4. Misses => outcome.pending = pending OBVIOUS
  <2>5. \A f : Hits(f) => f \in Slots /\ outcome.pending = [pending EXCEPT ![f] = None] OBVIOUS
  <2> HIDE DEF Misses, Hits
  <2>1. pending' = pending \/ \E f \in Slots : pending' = [pending EXCEPT ![f] = None]
    BY <2>3, <2>4, <2>5 DEF Take
  <2>2. pending \in [Slots -> Opened \cup {None}] BY MappedOpened
  <2> QED BY <2>1, <2>2
<1>2. \A d \in Conns : d # None OBVIOUS
<1> QED BY <1>1, <1>2 DEF Waiting

LEMMA ProcessConnectLoss ==
  ASSUME Inv, Next, MapInv, LossInv, NEW answer \in {"accept", "later"}, ProcessConnect(answer)
  PROVE  LossInv'
<1>1. /\ doing = "process" /\ Processing /\ events[at].type = "CONNECT"
      /\ events' = [events EXCEPT ![at].conn = None] /\ UNCHANGED <<handshake, handed, refused>>
      /\ Through \/ doing' \in {"idle", "undefined"}
      /\ Release(conn) \/ conn' = conn
  BY DEF ProcessConnect, Processing, Throw, Idle
<1>2. at \in Nat /\ at >= 1 BY <1>1 DEF Inv, TypeInv, Position
<1>3. /\ at \in DOMAIN events /\ DOMAIN events' = DOMAIN events
      /\ events[at].conn \in Opened \cup {None}
      /\ events'[at].type = "CONNECT" /\ \A i \in DOMAIN events : i # at => events'[i] = events[i]
  BY <1>1, <1>2, EventEmptied DEF Inv, Refers
<1>4. \A d \in Conns : conn'[d] = conn[d] \/ conn'[d].stage = "closed" BY <1>1, ReleasedAll DEF Inv
<1>5. Shaking' = Shaking BY <1>1 DEF Shaking
<1>6. Waiting' \subseteq Waiting
  <2> DEFINE c == events[at].conn
  <2>1. CASE UNCHANGED pending BY <2>1 DEF Waiting
  <2>2. CASE answer = "accept" /\ c # None
    <3>1. PICK outcome \in Accepted(c, FALSE) : Take(c, outcome) BY <2>2 DEF ProcessConnect
    <3>2. c \in Opened BY <1>3, <2>2
    <3> HIDE DEF c, Waiting
    <3> QED BY <3>1, <3>2, AcceptWaits
  <2> QED BY <2>1, <2>2 DEF ProcessConnect
<1>7. \A d \in Conns : \A n : Hears(d, n) => Hears(d, n)' BY <1>1, <1>3 DEF Hears
<1>8. Passed'
  <2>1. CASE Through
    <3>1. at' = at + 1 BY <2>1 DEF Through
    <3>2. \A i \in DOMAIN events : i < at + 1 => i < at \/ i = at BY <1>2, EventsDomain
    <3>3. \A i \in DOMAIN events : i < at /\ events[i].type = "REQUEST" => events[i].nr \in handed[events[i].conn]
      BY <1>1 DEF LossInv, Passed
    <3> QED BY <1>1, <1>3, <3>1, <3>2, <3>3 DEF Passed
  <2>2. CASE doing' \in {"idle", "undefined"} BY <2>2 DEF Passed
  <2> QED BY <1>1, <2>1, <2>2
<1> HIDE DEF Early, Shaking, Waiting, Hears
<1> QED BY <1>4, <1>5, <1>6, <1>7, <1>8, ClosingLoss

LEMMA AcceptHeldLoss ==
  ASSUME Inv, Next, MapInv, LossInv, NEW c \in Conns, NEW temporary \in BOOLEAN, AcceptHeld(c, temporary)
  PROVE  LossInv'
<1>1. /\ doing = "idle" /\ c \in held /\ Release(conn) /\ UNCHANGED <<handshake, events, doing, handed, refused>>
      /\ \E outcome \in Accepted(c, temporary) : Take(c, outcome)
  BY DEF AcceptHeld, loopVars
<1>2. c \in Opened BY <1>1 DEF Inv, Refers
<1>3. Waiting' \subseteq Waiting BY <1>1, <1>2, AcceptWaits
<1>4. Shaking' = Shaking /\ Passed' /\ \A d \in Conns : \A n : Hears(d, n) => Hears(d, n)'
  BY <1>1 DEF Shaking, Passed, Hears
<1>5. \A d \in Conns : conn'[d] = conn[d] \/ conn'[d].stage = "closed" BY <1>1, ReleasedAll DEF Inv
<1> HIDE DEF Early, Shaking, Waiting, Hears
<1> QED BY <1>3, <1>4, <1>5, ClosingLoss

LEMMA ConnectLoss ==
  ASSUME Inv, Next, MapInv, LossInv, NEW c \in Conns, Connect(c)
  PROVE  LossInv'
<1>1. /\ conn[c].stage = "unused" /\ doing' = "connect" /\ UNCHANGED <<serverVars, history>>
      /\ \A d \in Conns \ {c} : conn'[d] = conn[d]
      /\ \E r \in {conn'[c]} :
           /\ r.stage = "dialling" /\ r.version = conn[c].version /\ r.sent = conn[c].sent
           /\ r.inbox = conn[c].inbox /\ r.buffer = conn[c].buffer
  BY ConnectShape DEF Inv
<1>2. UNCHANGED <<handshake, pending, events, handed, refused>> BY <1>1 DEF serverVars, history
<1>3. Passed' BY <1>1 DEF Passed
<1>4. Shaking' = Shaking /\ Waiting' = Waiting /\ \A d \in Conns : \A n : Hears(d, n) => Hears(d, n)'
  BY <1>2 DEF Shaking, Waiting, Hears
<1>5. c \in Early /\ c \notin Waiting /\ conn[c].version = None /\ InOrder(conn[c])
  <2>1. c \in Early /\ Live(conn[c]) BY <1>1 DEF Early, Live
  <2> QED BY <2>1 DEF MapInv, LossInv, LossOf
<1>6. LossOf(c)'
  <2>1. conn'[c] \in Socket
    <3>1. Inv' BY StepsWell
    <3> QED BY <3>1 DEF Inv, TypeInv
  <2>2. InOrder(conn'[c]) BY <1>1, <1>5 DEF InOrder, Unread
  <2>3. \A n \in 1 .. conn'[c].sent - 1 : Said(conn'[c], n) BY <2>1, <2>2, InOrderSaid
  <2> HIDE DEF Early, Shaking, Waiting
  <2> QED BY <1>4, <1>5, <2>2, <2>3 DEF LossOf
<1>7. \A d \in Conns \ {c} : conn'[d] = conn[d] \/ conn'[d].stage = "closed" BY <1>1
<1>8. \A d \in Conns \ {c} : (d \in Shaking' => d \in Early \cup Shaking) /\ (d \in Waiting' => d \in Waiting)
  BY <1>4
<1> HIDE DEF Early, Shaking, Waiting, Hears
<1> QED BY <1>3, <1>4, <1>6, <1>7, <1>8, OthersLoss

LEMMA ConnectingLoss == ASSUME Inv, Next, MapInv, LossInv, Connecting PROVE LossInv'
<1>1. PICK c \in Conns : \E r \in Socket :
           /\ conn[c].stage = "dialling" /\ conn' = [conn EXCEPT ![c] = r]
           /\ UNCHANGED <<handshake, pending, events, handed, refused>>
           /\ Fails(c, r) \/ Meets(c, r)
           /\ r.stage = "open" => \E p \in PreAuthPoll(conn[c]) :
                /\ Alive(p.conn) /\ r.version = p.conn.version
                /\ r.sent = p.conn.sent /\ Unread(r) = Unread(p.conn)
  BY ConnectingShape
<1>2. PICK r \in Socket :
           /\ conn[c].stage = "dialling" /\ conn' = [conn EXCEPT ![c] = r]
           /\ UNCHANGED <<handshake, pending, events, handed, refused>>
           /\ Fails(c, r) \/ Meets(c, r)
           /\ r.stage = "open" => \E p \in PreAuthPoll(conn[c]) :
                /\ Alive(p.conn) /\ r.version = p.conn.version
                /\ r.sent = p.conn.sent /\ Unread(r) = Unread(p.conn)
  BY <1>1
<1>3. c \in Early /\ c \notin Shaking \cup Waiting /\ c \in Opened /\ conn[c].version = None
  BY <1>2 DEF MapInv, Early, Opened, Used
<1>4. conn'[c] = r /\ \A d \in Conns \ {c} : conn'[d] = conn[d] BY <1>2 DEF Inv, TypeInv
<1>5. Passed' BY <1>2 DEF Fails, Meets, Idle, Passed
<1>6. Shaking' = Shaking /\ Waiting' = Waiting /\ \A d \in Conns : \A n : Hears(d, n) => Hears(d, n)'
  BY <1>2 DEF Shaking, Waiting, Hears
<1>7. LossOf(c)'
  <2>1. CASE r.stage = "closed"
    <3> HIDE DEF Early, Shaking, Waiting
    <3> QED BY <1>4, <2>1 DEF LossOf, Alive, Live
  <2>2. CASE r.stage = "open"
    <3>1. PICK p \in PreAuthPoll(conn[c]) :
            /\ Alive(p.conn) /\ r.version = p.conn.version
            /\ r.sent = p.conn.sent /\ Unread(r) = Unread(p.conn)
      BY <1>2, <2>2
    <3>2. LossOf(c) /\ Live(conn[c]) BY <1>2 DEF LossInv, Live
    <3>3. InOrder(conn[c]) BY <1>3, <3>2 DEF LossOf
    <3>4. \A n \in 1 .. p.conn.sent - 1 : Said(p.conn, n) \/ n \in p.refused \/ Hears(c, n)
      BY <1>3, <3>1, <3>2, <3>3, PollLoss
    <3>5. p.refused = {}
      <4>1. Ends(p, conn[c]) \/ Reads(p, conn[c]) \/ Chooses(p, conn[c]) \/ Refuses(p, conn[c])
        BY <1>3, PollLeaves
      <4> QED BY <1>3, <3>1, <4>1 DEF Ends, Reads, Chooses, Refuses
    <3>6. \A n \in 1 .. r.sent - 1 : Said(r, n) \/ Hears(c, n) BY <3>1, <3>4, <3>5 DEF Said
    <3>7. c \notin Early' \cup Shaking' \cup Waiting' BY <1>3, <1>4, <1>6, <2>2 DEF Early
    <3> HIDE DEF Early, Shaking, Waiting, Hears
    <3> QED BY <1>4, <1>6, <3>6, <3>7 DEF LossOf
  <2> QED BY <1>2, <2>1, <2>2 DEF Fails, Meets
<1>8. \A d \in Conns \ {c} : conn'[d] = conn[d] \/ conn'[d].stage = "closed" BY <1>4
<1>9. \A d \in Conns \ {c} : (d \in Shaking' => d \in Early \cup Shaking) /\ (d \in Waiting' => d \in Waiting)
  BY <1>6
<1> HIDE DEF Early, Shaking, Waiting, Hears
<1> QED BY <1>5, <1>6, <1>7, <1>8, <1>9, OthersLoss

LEMMA LossStarts == Init => LossInv
<1> SUFFICES ASSUME Init PROVE LossInv OBVIOUS
<1>1. Passed BY DEF Init, Passed
<1>2. ASSUME NEW c \in Conns PROVE LossOf(c)
  <2>1. conn[c] = Unopened /\ c \notin Waiting
    <3>1. c # None OBVIOUS
    <3> QED BY <3>1 DEF Init, Waiting
  <2>2. InOrder(Unopened)
    <3>1. Unread(Unopened) = <<>> BY DEF Unread, Unopened
    <3>2. Unopened.sent = 0 BY DEF Unopened
    <3> QED BY <3>1, <3>2 DEF InOrder
  <2>3. ~Alive(Unopened) BY DEF Alive, Unopened
  <2> HIDE DEF Early, Shaking, Waiting
  <2> QED BY <2>1, <2>2, <2>3 DEF LossOf
<1> QED BY <1>1, <1>2 DEF LossInv

LEMMA LossStep == Inv /\ MapInv /\ LossInv /\ [Next]_vars => LossInv'
<1> SUFFICES ASSUME Inv, MapInv, LossInv, [Next]_vars PROVE LossInv' OBVIOUS
<1>1. CASE UNCHANGED vars
  <2>1. UNCHANGED <<conn, handshake, pending, events, doing, at, handed, refused>>
    BY <1>1 DEF vars, serverVars, loopVars, history
  <2> QED BY <2>1 DEF LossInv, LossOf, Passed, Early, Shaking, Waiting, Hears
<1>2. CASE Next
  <2>1. ASSUME Step PROVE LossInv'
    BY <1>2, <2>1, AcceptSocketLoss, PollPeerLoss, PollPendingLoss, PollHandshakeLoss, IdleLoss,
       ProcessRequestLoss, TakenLoss, ConnectingLoss, ProcessConnectLoss DEF Step, Idles
  <2>2. ASSUME Application PROVE LossInv'
    BY <1>2, <2>2, IdleLoss, ConnectLoss, AcceptHeldLoss DEF Application, Idles
  <2> QED BY <1>2, <2>1, <2>2, NetworkLoss DEF Next
<1> QED BY <1>1, <1>2

\* No request of an open connection disappears, from the moment it is sent until the
\* application has it or it is refused: what a poll reads stays in the buffer of the
\* PreAuthPeer, past the version message and into the peer, and what the loop takes
\* goes to the events whole (PreAuthPeer.cpp:23-72, PeerBase.cpp, Server.cpp).
THEOREM NothingLostAlways == Spec => []NothingLost
<1>1. Init => Inv /\ MapInv /\ LossInv BY StartsWell, MapsStart, LossStarts
<1>2. (Inv /\ MapInv /\ LossInv) /\ [Next]_vars => (Inv /\ MapInv /\ LossInv)'
  BY StepsWell, MapsStep, LossStep
<1>3. Inv /\ LossInv => NothingLost
  <2> SUFFICES ASSUME Inv, LossInv, NEW c \in Conns, conn[c].stage \in {"open", "dialling"},
                      NEW n \in 1 .. conn[c].sent - 1
               PROVE  \/ \E m \in ToSet(conn[c].inbox \o conn[c].buffer) : m.nr = n
                      \/ \E i \in DOMAIN events : /\ events[i].type = "REQUEST"
                                                  /\ events[i].conn = c /\ events[i].nr = n
                      \/ n \in handed[c] \cup refused[c]
    BY DEF NothingLost
  <2>1. Said(conn[c], n) \/ Hears(c, n) BY DEF LossInv, LossOf, Alive
  <2>2. conn[c].inbox \in Seq(Messages) /\ conn[c].buffer \in Seq(Messages)
    BY DEF Inv, TypeInv, Socket
  <2>3. ASSUME NEW i \in 1 .. Len(Unread(conn[c]))
        PROVE  Unread(conn[c])[i] \in ToSet(conn[c].inbox \o conn[c].buffer)
    <3> DEFINE a == conn[c].inbox
               b == conn[c].buffer
    <3> HIDE DEF a, b
    <3>1. a \in Seq(Messages) /\ b \in Seq(Messages) BY <2>2 DEF a, b
    <3>2. Len(a) \in Nat /\ Len(b) \in Nat /\ DOMAIN (a \o b) = 1 .. Len(a) + Len(b)
          /\ Len(b \o a) = Len(b) + Len(a)
      BY <3>1, LenProperties, ConcatProperties
    <3>3. i \in 1 .. Len(b) + Len(a) BY <2>3, <3>2 DEF Unread, a, b
    <3>4. CASE i <= Len(b)
      <4>1. Len(a) + i \in 1 .. Len(a) + Len(b) /\ ~(Len(a) + i <= Len(a)) /\ (Len(a) + i) - Len(a) = i
        BY <3>2, <3>3, <3>4
      <4>2. (b \o a)[i] = b[i] /\ (a \o b)[Len(a) + i] = b[i] BY <3>1, <3>2, <3>3, <3>4, <4>1, ConcatProperties
      <4> QED BY <3>2, <4>1, <4>2 DEF ToSet, Unread, a, b
    <3>5. CASE ~(i <= Len(b))
      <4>1. i - Len(b) \in 1 .. Len(a) + Len(b) /\ i - Len(b) <= Len(a) BY <3>2, <3>3, <3>5
      <4>2. (b \o a)[i] = a[i - Len(b)] /\ (a \o b)[i - Len(b)] = a[i - Len(b)]
        BY <3>1, <3>2, <3>3, <3>5, <4>1, ConcatProperties
      <4> QED BY <3>2, <4>1, <4>2 DEF ToSet, Unread, a, b
    <3> QED BY <3>4, <3>5
  <2> QED BY <2>1, <2>3 DEF Said, Hears
<1> QED BY <1>1, <1>2, <1>3, PTL DEF Spec-----------------------------------------------------------------------------
(***************************************************************************)
(* Where a connection is, and that its descriptor is polled.               *)
(***************************************************************************)
\* The entries of m_fds for a descriptor.
Where(s, f) == {i \in DOMAIN s : s[i].fd = f}
Entered(s, f) == Cardinality(Where(s, f))

LEMMA EnteredType ==
  ASSUME NEW s \in Seq(Entries), NEW f
  PROVE  /\ IsFiniteSet(Where(s, f)) /\ Entered(s, f) \in Nat
         /\ Entered(s, f) >= 1 => \E i \in DOMAIN s : s[i].fd = f
<1>1. DOMAIN s = 1 .. Len(s) /\ Len(s) \in Nat BY LenProperties
<1>2. IsFiniteSet(1 .. Len(s)) BY <1>1, FS_Interval
<1>3. IsFiniteSet(Where(s, f)) BY <1>1, <1>2, FS_Subset DEF Where
<1>4. Entered(s, f) \in Nat BY <1>3, FS_CardinalityType DEF Entered
<1>5. Where(s, f) = {} => Entered(s, f) = 0 BY FS_EmptySet DEF Entered
<1> QED BY <1>3, <1>4, <1>5 DEF Where

\* The same descriptors in the same places.
LEMMA EnteredSame ==
  ASSUME NEW s, NEW t, DOMAIN s = DOMAIN t, \A i \in DOMAIN s : s[i].fd = t[i].fd, NEW f
  PROVE  Entered(s, f) = Entered(t, f)
<1>1. Where(s, f) = Where(t, f) BY DEF Where
<1> QED BY <1>1 DEF Entered

LEMMA EnteredMore ==
  ASSUME NEW s \in Seq(Entries), NEW e \in Entries, NEW f
  PROVE  /\ Append(s, e) \in Seq(Entries)
         /\ Entered(Append(s, e), f) >= Entered(s, f)
         /\ e.fd = f => Entered(Append(s, e), f) = Entered(s, f) + 1
<1> DEFINE t == Append(s, e)
<1>1. /\ t \in Seq(Entries) /\ DOMAIN s = 1 .. Len(s) /\ DOMAIN t = 1 .. Len(s) + 1 /\ Len(s) \in Nat
      /\ t[Len(s) + 1] = e /\ \A i \in 1 .. Len(s) : t[i] = s[i]
  BY AppendProperties, LenProperties
<1> HIDE DEF t
<1>2. \A i : i \in 1 .. Len(s) + 1 <=> i \in 1 .. Len(s) \/ i = Len(s) + 1 BY <1>1
<1>3. Where(s, f) \subseteq Where(t, f) /\ Len(s) + 1 \notin Where(s, f) BY <1>1, <1>2 DEF Where
<1>4. e.fd = f => Where(t, f) = Where(s, f) \cup {Len(s) + 1} BY <1>1, <1>2 DEF Where
<1>5. IsFiniteSet(Where(s, f)) /\ IsFiniteSet(Where(t, f)) /\ Entered(s, f) \in Nat /\ Entered(t, f) \in Nat
  BY <1>1, EnteredType
<1>6. Cardinality(Where(s, f)) <= Cardinality(Where(t, f)) BY <1>3, <1>5, FS_Subset
<1>7. Cardinality(Where(s, f) \cup {Len(s) + 1}) = Cardinality(Where(s, f)) + 1 BY <1>3, <1>5, FS_AddElement
<1> QED BY <1>1, <1>4, <1>5, <1>6, <1>7 DEF Entered, t

LEMMA Below == \A n \in Nat : \A j \in 1 .. n : j # n => j \in 1 .. n - 1
OBVIOUS

\* delete_move takes one entry away, wherever the last one goes.
LEMMA EnteredLess ==
  ASSUME NEW s \in Seq(Entries), NEW i \in DOMAIN s, NEW f
  PROVE  /\ s[i].fd # f => Entered(DeleteMove(s, i), f) >= Entered(s, f)
         /\ s[i].fd = f => Entered(DeleteMove(s, i), f) >= Entered(s, f) - 1
<1> DEFINE t == DeleteMove(s, i)
           move == [j \in Where(s, f) \ {i} |-> IF j = Len(s) THEN i ELSE j]
<1>12. DOMAIN s = 1 .. Len(s) /\ Len(s) \in Nat /\ Len(s) >= 1 OBVIOUS
<1>1. /\ Front(s) \in Seq(Entries) /\ Len(Front(s)) = Len(s) - 1
      /\ \A j \in 1 .. Len(s) - 1 : Front(s)[j] = s[j]
  <2>1. \A j \in 1 .. Len(s) - 1 : s[j] \in Entries BY <1>12
  <2>2. 1 \in Int /\ Len(s) - 1 \in Int BY <1>12
  <2>3. /\ SubSeq(s, 1, Len(s) - 1) \in Seq(Entries)
        /\ Len(SubSeq(s, 1, Len(s) - 1)) = IF 1 <= Len(s) - 1 THEN Len(s) - 1 - 1 + 1 ELSE 0
        /\ \A j \in 1 .. Len(s) - 1 - 1 + 1 : SubSeq(s, 1, Len(s) - 1)[j] = s[1 + j - 1]
    BY <2>1, <2>2, SubSeqProperties
  <2>4. Len(SubSeq(s, 1, Len(s) - 1)) = Len(s) - 1 BY ONLY <1>12, <2>3
  <2>5. \A j \in 1 .. Len(s) - 1 : j \in 1 .. Len(s) - 1 - 1 + 1 /\ 1 + j - 1 = j BY ONLY <1>12
  <2> QED BY <2>3, <2>4, <2>5 DEF Front
<1>2. t \in Seq(Entries) BY DeleteMoveType
<1>3. DOMAIN Front(s) = 1 .. Len(s) - 1 BY <1>1, LenProperties
<1>4. DOMAIN t = 1 .. Len(s) - 1 BY <1>3 DEF DeleteMove
<1>5. \A j \in 1 .. Len(s) - 1 : t[j] = IF j = i THEN s[Len(s)] ELSE s[j]
  BY <1>1, <1>3 DEF DeleteMove, Last
<1> HIDE DEF t
<1>13. \A k \in 1 .. Len(s) : k # Len(s) => k \in 1 .. Len(s) - 1 BY <1>12, Below, Zenon
<1>6. \A j \in Where(s, f) \ {i} : move[j] \in Where(t, f)
  <2> SUFFICES ASSUME NEW j \in Where(s, f) \ {i}
               PROVE  (IF j = Len(s) THEN i ELSE j) \in Where(t, f)
    OBVIOUS
  <2>1. j \in 1 .. Len(s) /\ s[j].fd = f /\ j # i /\ i \in 1 .. Len(s) BY <1>12 DEF Where
  <2>2. CASE j = Len(s)
    <3>1. i \in 1 .. Len(s) - 1 BY <1>13, <2>1, <2>2
    <3> QED BY <1>4, <1>5, <2>1, <2>2, <3>1 DEF Where
  <2>3. CASE j # Len(s)
    <3>1. j \in 1 .. Len(s) - 1 BY <1>13, <2>1, <2>3, Zenon
    <3> QED BY <1>4, <1>5, <2>1, <2>3, <3>1 DEF Where
  <2> QED BY <2>2, <2>3
<1>7. move \in Injection(Where(s, f) \ {i}, Where(t, f))
  <2>1. \A j, k \in Where(s, f) \ {i} : move[j] = move[k] => j = k OBVIOUS
  <2>2. move \in [Where(s, f) \ {i} -> Where(t, f)] BY <1>6
  <2> HIDE DEF move
  <2> QED BY <2>1, <2>2 DEF Injection, IsInjective
<1>8. IsFiniteSet(Where(s, f)) /\ IsFiniteSet(Where(t, f)) /\ Entered(s, f) \in Nat /\ Entered(t, f) \in Nat
  BY <1>2, EnteredType
<1>9. Cardinality(Where(s, f) \ {i}) <= Entered(t, f)
  <2> HIDE DEF move
  <2> QED BY <1>7, <1>8, FS_Injection DEF Entered
<1>10. CASE s[i].fd = f
  <2>1. i \in Where(s, f) BY <1>10 DEF Where
  <2>2. Cardinality(Where(s, f) \ {i}) = Cardinality(Where(s, f)) - 1
    BY ONLY <1>8, <2>1, FS_RemoveElement, Zenon
  <2>3. Entered(t, f) \in Nat /\ Entered(s, f) - 1 <= Entered(t, f) /\ Entered(s, f) \in Nat
    <3> HIDE DEF t
    <3> QED BY <1>8, <1>9, <2>2, Zenon DEF Entered
  <2> QED BY <1>10, <2>3 DEF t
<1>11. CASE s[i].fd # f
  <2>1. Where(s, f) \ {i} = Where(s, f) BY <1>11 DEF Where
  <2> QED BY <1>8, <1>9, <1>11, <2>1 DEF Entered, t
<1> QED BY <1>10, <1>11

LEMMA EnteredUnmarked ==
  ASSUME NEW s, NEW f
  PROVE  Entered(Unmarked(s), f) = Entered(s, f)
<1>1. DOMAIN Unmarked(s) = DOMAIN s /\ \A i \in DOMAIN s : Unmarked(s)[i].fd = s[i].fd BY DEF Unmarked, Entry
<1> QED BY <1>1, EnteredSame

LEMMA EnteredAhead ==
  ASSUME NEW s, NEW i, NEW n, Advance(s, i, n), NEW f
  PROVE  Entered(fds', f) = Entered(s, f)
<1>1. fds' = s \/ fds' = Unmarked(s) BY DEF Advance
<1> QED BY <1>1, EnteredUnmarked

\* The loop at an entry: it goes past, or takes it away.
LEMMA EnteredInLoop ==
  ASSUME Inv, at \in DOMAIN fds
  PROVE  /\ Advance(fds, at + 1, left - 1) => \A f : Entered(fds', f) = Entered(fds, f)
         /\ Advance(DeleteMove(fds, at), at, left - 1) =>
              \A f : Entered(fds', f) >= IF f = fds[at].fd THEN Entered(fds, f) - 1 ELSE Entered(fds, f)
<1>1. fds \in Seq(Entries) BY DEF Inv, TypeInv
<1>2. Advance(fds, at + 1, left - 1) => \A f : Entered(fds', f) = Entered(fds, f) BY EnteredAhead
<1>3. Advance(DeleteMove(fds, at), at, left - 1) => \A f : Entered(fds', f) = Entered(DeleteMove(fds, at), f)
  BY EnteredAhead
<1>4. \A f : Entered(DeleteMove(fds, at), f) >= IF f = fds[at].fd THEN Entered(fds, f) - 1 ELSE Entered(fds, f)
  BY <1>1, EnteredLess
<1> QED BY <1>2, <1>3, <1>4

LEMMA ThrowEntered == ThrowInLoop => \A f : Entered(fds', f) = Entered(fds, f)
BY EnteredUnmarked DEF ThrowInLoop
-----------------------------------------------------------------------------
One(x) == IF x = None THEN 0 ELSE 1
Occupied(f) == One(handshake[f]) + One(pending[f]) + One(peers[f])

\* Those the application has not answered yet.
Unanswered(e) == e.type = "CONNECT" /\ e.conn # None
Callers == held \cup {c \in Conns : \E i \in DOMAIN events : Unanswered(events[i]) /\ events[i].conn = c}

Distinct ==
  \A c, d \in Conns : Holds(conn[c].stage) /\ Holds(conn[d].stage) /\ conn[c].fd = conn[d].fd => c = d
OwnSlot ==
  \A f \in Slots : /\ handshake[f] # None => conn[handshake[f]].fd = f
                   /\ pending[f] # None => conn[pending[f]].fd = f
AskedOnce ==
  /\ \A i, j \in DOMAIN events : Unanswered(events[i]) /\ Unanswered(events[j]) /\ events[i].conn = events[j].conn => i = j
  /\ \A i \in DOMAIN events : Unanswered(events[i]) => events[i].conn \notin held

\* A peer that waits has its descriptor for itself: whoever left it was removed before.
WaitsAlone == \A f \in Slots : pending[f] # None /\ conn[pending[f]].stage = "open" => peers[f] = None

\* While no peer was accepted after it had left.
InPlace ==
  /\ \A f \in Slots : peers[f] # None => conn[peers[f]].fd = f
  /\ (Callers \cup Waiting) \cap Joined = {}
  /\ \A c \in Conns : conn[c].stage = "open" => c \in Shaking \cup Waiting \cup Joined
  /\ \A f \in Slots : Entered(fds, f) >= Occupied(f)
  /\ WaitsAlone

PlaceInv == Distinct /\ OwnSlot /\ AskedOnce /\ (~stale => InPlace)

\* A socket that keeps its descriptor, or gives it back.
Keeps(s, r) == (Holds(s.stage) => Holds(r.stage)) /\ s.fd = r.fd

LEMMA FadesKeeps ==
  ASSUME NEW s, NEW r, Fades(s, r)
  PROVE  Keeps(s, r) /\ (s.stage = "open" => r.stage = "open")
BY DEF Fades, Keeps, Holds

LEMMA DistinctKept ==
  ASSUME Distinct, \A d \in Conns : Keeps(conn'[d], conn[d])
  PROVE  Distinct'
BY DEF Distinct, Keeps

LEMMA DistinctFresh ==
  ASSUME Distinct, NEW c \in Conns, \A d \in Conns \ {c} : Keeps(conn'[d], conn[d]), conn'[c].fd \in FreeFds
  PROVE  Distinct'
<1>1. \A d \in Conns : Holds(conn[d].stage) => conn[d].fd # conn'[c].fd BY DEF FreeFds
<1>2. \A d \in Conns \ {c} : Holds(conn'[d].stage) => conn'[d].fd # conn'[c].fd BY <1>1 DEF Keeps
<1>3. \A d, e \in Conns \ {c} : Holds(conn'[d].stage) /\ Holds(conn'[e].stage) /\ conn'[d].fd = conn'[e].fd => d = e
  BY DEF Distinct, Keeps
<1> QED BY <1>2, <1>3 DEF Distinct

LEMMA SlotsKept ==
  ASSUME Inv, OwnSlot, NEW c, \A d \in Shaking \cup Waiting : conn'[d].fd = conn[d].fd,
         \A f \in Slots : handshake'[f] \in {handshake[f], None} \/ (handshake'[f] = c /\ conn'[c].fd = f),
         \A f \in Slots : pending'[f] \in {pending[f], None} \/ (pending'[f] = c /\ conn'[c].fd = f)
  PROVE  OwnSlot'
<1>1. \A f \in Slots : /\ handshake[f] # None => handshake[f] \in Shaking
                       /\ pending[f] # None => pending[f] \in Waiting
  BY MappedOpened DEF Shaking, Waiting, Opened
<1> QED BY <1>1 DEF OwnSlot

\* The application is asked of a connection once.
LEMMA AskedKept ==
  ASSUME AskedOnce,
         \A j \in DOMAIN events' : Unanswered(events'[j]) => j \in DOMAIN events /\ events'[j] = events[j],
         \A c \in held' : \/ c \in held
                          \/ \E k \in DOMAIN events : /\ Unanswered(events[k]) /\ events[k].conn = c
                                                      /\ k \in DOMAIN events' => ~Unanswered(events'[k])
  PROVE  AskedOnce' /\ Callers' \subseteq Callers \cup held'
<1>1. \A i, j \in DOMAIN events' : Unanswered(events'[i]) /\ Unanswered(events'[j]) /\ events'[i].conn = events'[j].conn => i = j
  BY DEF AskedOnce
<1>2. ASSUME NEW j \in DOMAIN events', Unanswered(events'[j]), events'[j].conn \in held'
      PROVE  FALSE
  <2>1. j \in DOMAIN events /\ events'[j] = events[j] /\ events[j].conn \notin held BY <1>2 DEF AskedOnce
  <2>2. PICK k \in DOMAIN events : /\ Unanswered(events[k]) /\ events[k].conn = events'[j].conn
                                   /\ k \in DOMAIN events' => ~Unanswered(events'[k])
    BY <1>2, <2>1
  <2>3. k = j BY <1>2, <2>1, <2>2 DEF AskedOnce
  <2> QED BY <1>2, <2>2, <2>3
<1>3. Callers' \subseteq Callers \cup held' BY DEF Callers
<1> QED BY <1>1, <1>2, <1>3 DEF AskedOnce

LEMMA CallersKept ==
  ASSUME Inv, Callers' \subseteq Callers \cup held',
         \A c \in held' : \/ c \in held
                          \/ \E k \in DOMAIN events : /\ Unanswered(events[k]) /\ events[k].conn = c
                                                      /\ k \in DOMAIN events' => ~Unanswered(events'[k])
  PROVE  Callers' \subseteq Callers
<1>1. Inv /\ held \subseteq Opened BY DEF Inv, Refers
<1>2. ASSUME NEW c \in held' PROVE c \in Callers
  <2>1. CASE c \in held BY <2>1 DEF Callers
  <2>2. CASE \E k \in DOMAIN events : Unanswered(events[k]) /\ events[k].conn = c
    <3>1. c \in Conns
      <4>1. events \in Seq(EventsOf(Opened, Trustees)) BY DEF Inv, Refers
      <4>2. \A k \in DOMAIN events : Unanswered(events[k]) => events[k].conn \in Conns
        BY <4>1 DEF EventsOf, Unanswered, Opened
      <4> QED BY <2>2, <4>2
    <3> QED BY <2>2, <3>1 DEF Callers
  <2> QED BY <1>2, <2>1, <2>2
<1> QED BY <1>2

LEMMA EnteredNext ==
  ASSUME Inv, Next
  PROVE  \A f : Entered(fds, f) \in Nat /\ Entered(fds', f) \in Nat
<1>1. Inv' BY StepsWell
<1>2. fds \in Seq(Entries) /\ fds' \in Seq(Entries) BY <1>1 DEF Inv, TypeInv
<1> QED BY <1>2, EnteredType

\* A step that moves nobody.
LEMMA InPlaceQuiet ==
  ASSUME Inv, InPlace, UNCHANGED <<handshake, pending, peers>>, Callers' \subseteq Callers,
         \A d \in Conns : conn'[d].stage = "open" => conn[d].stage = "open",
         \A d \in Joined : conn'[d].fd = conn[d].fd,
         \A f \in Slots : Entered(fds', f) >= Occupied(f)
  PROVE  InPlace'
<1>1. Shaking' = Shaking /\ Waiting' = Waiting /\ Joined' = Joined /\ \A f : Occupied(f)' = Occupied(f)
  BY DEF Shaking, Waiting, Joined, Occupied
<1>2. \A f \in Slots : peers'[f] # None => conn'[peers'[f]].fd = f
  <2>1. \A f \in Slots : peers[f] # None => peers[f] \in Joined /\ peers[f] \in Conns
    BY MappedOpened DEF Joined, Opened
  <2> QED BY <2>1 DEF InPlace
<1>3. \A d \in Conns : conn'[d].stage = "open" => d \in Shaking \cup Waiting \cup Joined
  BY DEF InPlace
<1>4. ((Callers \cup Waiting) \cap Joined = {})' BY <1>1 DEF InPlace
<1>5. WaitsAlone'
  <2>1. WaitsAlone /\ \A f \in Slots : pending[f] # None => pending[f] \in Conns
    BY MappedOpened DEF InPlace, Opened
  <2> QED BY <2>1 DEF WaitsAlone
<1> HIDE DEF Shaking, Waiting, Joined, Callers, Occupied, Entered, WaitsAlone
<1> QED BY <1>1, <1>2, <1>3, <1>4, <1>5 DEF InPlace

LEMMA PlaceQuiet ==
  ASSUME Inv, PlaceInv, UNCHANGED <<handshake, pending, peers, stale>>, AskedOnce', Callers' \subseteq Callers,
         \A d \in Conns : Keeps(conn'[d], conn[d]) /\ (conn'[d].stage = "open" => conn[d].stage = "open"),
         ~stale => \A f \in Slots : Entered(fds', f) >= Occupied(f)
  PROVE  PlaceInv'
<1>1. Distinct' BY DistinctKept DEF PlaceInv
<1>2. OwnSlot'
  <2>1. \A d \in Shaking \cup Waiting : conn'[d].fd = conn[d].fd BY DEF Keeps, Shaking, Waiting
  <2>2. OwnSlot /\ \A f \in Slots : handshake'[f] = handshake[f] /\ pending'[f] = pending[f] BY DEF PlaceInv
  <2> HIDE DEF Shaking, Waiting
  <2> QED BY <2>1, <2>2, SlotsKept
<1>3. ~stale => InPlace'
  <2>1. \A d \in Joined : conn'[d].fd = conn[d].fd BY DEF Joined, Keeps
  <2> HIDE DEF Shaking, Waiting, Joined, Callers, Occupied, Entered
  <2> QED BY <2>1, InPlaceQuiet DEF PlaceInv
<1> QED BY <1>1, <1>2, <1>3 DEF PlaceInv

LEMMA SettledFades ==
  ASSUME NEW r \in Socket
  PROVE  Fades(r, r) /\ Fades(Settled(Closed(r)), r)
<1>1. Closed(r).stage = "closed" /\ Closed(r).fd = r.fd BY DEF Closed, Socket
<1>2. Settled(Closed(r)) = [Unopened EXCEPT !.stage = "closed", !.device = Closed(r).device, !.fd = Closed(r).fd,
                                            !.parsed = Closed(r).parsed]
  BY <1>1 DEF Settled
<1> QED BY <1>1, <1>2 DEF Fades, Unopened

LEMMA AskedSame ==
  ASSUME AskedOnce, UNCHANGED <<held, events>>
  PROVE  AskedOnce' /\ Callers' \subseteq Callers
BY DEF AskedOnce, Callers

\* A step of the loop that leaves a descriptor it knows, or removes one it does not.
LEMMA EnteredStill ==
  ASSUME Inv, Next, InPlace, at \in DOMAIN fds,
         \/ Advance(fds, at + 1, left - 1) \/ ThrowInLoop
         \/ fds' = fds
         \/ Advance(DeleteMove(fds, at), at, left - 1) /\ Occupied(fds[at].fd) = 0
  PROVE  \A f \in Slots : Entered(fds', f) >= Occupied(f)
<1>1. \A f : Entered(fds, f) \in Nat /\ Entered(fds', f) \in Nat BY EnteredNext
<1>2. \A f \in Slots : Entered(fds, f) >= Occupied(f) BY DEF InPlace
<1>3. \A f : Occupied(f) \in Nat BY DEF Occupied, One
<1>4. CASE Advance(fds, at + 1, left - 1) \/ ThrowInLoop \/ fds' = fds
  <2>1. \A f : Entered(fds', f) = Entered(fds, f) BY <1>4, EnteredInLoop, ThrowEntered
  <2> QED BY <1>2, <2>1
<1>5. CASE Advance(DeleteMove(fds, at), at, left - 1) /\ Occupied(fds[at].fd) = 0
  <2>1. \A f : Entered(fds', f) >= IF f = fds[at].fd THEN Entered(fds, f) - 1 ELSE Entered(fds, f)
    BY <1>5, EnteredInLoop
  <2> HIDE DEF Entered, Occupied
  <2> SUFFICES ASSUME NEW f \in Slots PROVE Entered(fds', f) >= Occupied(f) OBVIOUS
  <2>2. CASE f = fds[at].fd BY <1>1, <1>5, <2>2
  <2>3. CASE f # fds[at].fd
    <3>1. Entered(fds', f) >= Entered(fds, f) BY <2>1, <2>3
    <3> QED BY <1>1, <1>2, <1>3, <3>1
  <2> QED BY <2>2, <2>3
<1> QED BY <1>4, <1>5

LEMMA StartPollEntered ==
  ASSUME TypeInv, NEW call, StartPoll(call)
  PROVE  \A f : Entered(fds', f) = Entered(fds, f)
<1>1. fds \in Seq(Entries) BY DEF TypeInv
<1>2. \A i \in DOMAIN fds : fds[i] \in Entries BY <1>1
<1>3. DOMAIN fds' = DOMAIN fds /\ \A i \in DOMAIN fds : fds'[i].fd = fds[i].fd
  <2>1. \A i \in DOMAIN fds : \A v : [fds[i] EXCEPT !.revents = v].fd = fds[i].fd BY <1>2 DEF Entries
  <2> DEFINE owner(f) == {c \in Conns : Alive(conn[c]) /\ conn[c].fd = f}
             revents(f) == IF owner(f) = {} THEN "invalid"
                           ELSE IF \E c \in owner(f) : Readable(conn[c]) THEN "in" ELSE "none"
             marked == [i \in DOMAIN fds |-> [fds[i] EXCEPT !.revents = revents(fds[i].fd)]]
  <2>2. fds' = marked \/ fds' = fds BY DEF StartPoll
  <2>3. DOMAIN marked = DOMAIN fds /\ \A i \in DOMAIN fds : marked[i] = [fds[i] EXCEPT !.revents = revents(fds[i].fd)]
    OBVIOUS
  <2>4. \A i \in DOMAIN fds : marked[i].fd = fds[i].fd
    <3> HIDE DEF revents, marked
    <3> QED BY <2>1, <2>3
  <2> HIDE DEF revents, marked
  <2> QED BY <2>2, <2>3, <2>4
<1> QED BY <1>3, EnteredSame

LEMMA IdlesPlace == ASSUME Inv, Next, MapInv, PlaceInv, Idles PROVE PlaceInv'
<1>1. conn \in [Conns -> Socket] BY DEF Inv, TypeInv
<1>7. /\ UNCHANGED <<handshake, pending, peers, held, events, stale>>
      /\ conn' = conn \/ (\E c \in Conns : HangUp(c)) \/ \E disabled \in BOOLEAN : Restart(disabled)
  <2>1. CASE \E call \in {"process", "pull"} : StartPoll(call) BY <2>1 DEF StartPoll, history
  <2>2. CASE PollUnknown BY <2>2 DEF PollUnknown, history
  <2>3. CASE PullNothing BY <2>3 DEF PullNothing, serverVars, history
  <2>4. CASE \E c \in Conns : HangUp(c) BY <2>4 DEF HangUp, serverVars, history
  <2>5. CASE \E disabled \in BOOLEAN : Restart(disabled) BY <2>5 DEF Restart, history
  <2> QED BY <2>1, <2>2, <2>3, <2>4, <2>5 DEF Idles
<1>2. UNCHANGED <<handshake, pending, peers, held, events, stale>> BY <1>7
<1>3. \A d \in Conns : Keeps(conn'[d], conn[d]) /\ (conn'[d].stage = "open" => conn[d].stage = "open")
  <2> SUFFICES ASSUME NEW d \in Conns PROVE Fades(conn'[d], conn[d])
    BY FadesKeeps DEF Fades
  <2>1. conn'[d] \in {conn[d], Settled(Closed(conn[d]))} BY IdlesEffect
  <2> QED BY <1>1, <2>1, SettledFades
<1>4. AskedOnce' /\ Callers' \subseteq Callers BY <1>2, AskedSame DEF PlaceInv
<1>6. ASSUME ~stale PROVE \A f \in Slots : Entered(fds', f) >= Occupied(f)
  <2>1. InPlace BY <1>6 DEF PlaceInv
  <2>2. CASE PollUnknown
    <3>1. at \in 1 .. Len(fds) /\ fds \in Seq(Entries) BY <2>2 DEF PollUnknown, Inv, TypeInv, Position
    <3>2. at \in DOMAIN fds BY <3>1
    <3>3. Occupied(fds[at].fd) = 0 BY <2>2 DEF PollUnknown, Occupied, One
    <3> QED BY <2>1, <2>2, <3>2, <3>3, EnteredStill DEF PollUnknown
  <2>3. CASE ~PollUnknown
    <3>1. \A f : Entered(fds', f) = Entered(fds, f)
      <4>1. CASE \E call \in {"process", "pull"} : StartPoll(call) BY <4>1, StartPollEntered DEF Inv
      <4>2. CASE fds' = fds BY <4>2
      <4> QED BY <2>3, <4>1, <4>2 DEF Idles, PullNothing, HangUp, Restart, serverVars
    <3> QED BY <2>1, <3>1 DEF InPlace
  <2> QED BY <2>2, <2>3
<1> HIDE DEF Callers, Joined, Entered, Occupied
<1> QED BY <1>2, <1>3, <1>4, <1>6, PlaceQuiet

LEMMA NetworkPlace == ASSUME Inv, Next, MapInv, PlaceInv, Network PROVE PlaceInv'
<1>1. UNCHANGED <<handshake, pending, peers, held, events, stale, fds>>
  BY DEF Network, Arrive, Send, Leave, serverVars, history
<1>2. TypeInv BY DEF Inv
<1>3. ASSUME NEW d \in Conns
      PROVE  /\ Keeps(conn'[d], conn[d]) /\ (conn'[d].stage = "open" => conn[d].stage = "open")
             /\ conn'[d].stage = conn[d].stage \/ conn[d].stage = "unused"
  BY <1>2, NetworkEffect DEF Keeps, Holds
<1>4. AskedOnce' /\ Callers' \subseteq Callers BY <1>1, AskedSame DEF PlaceInv
<1>6. ~stale => \A f \in Slots : Entered(fds', f) >= Occupied(f) BY <1>1 DEF PlaceInv, InPlace
<1> HIDE DEF Callers, Joined, Entered, Occupied
<1> QED BY <1>1, <1>3, <1>4, <1>6, PlaceQuiet

LEMMA ProcessRequestPlace == ASSUME Inv, Next, PlaceInv, ProcessRequest PROVE PlaceInv'
<1>1. UNCHANGED <<conn, handshake, pending, peers, held, events, stale, fds>>
  BY DEF ProcessRequest, HandRequest
<1>2. AskedOnce' /\ Callers' \subseteq Callers BY <1>1, AskedSame DEF PlaceInv
<1>3. ~stale => \A f \in Slots : Entered(fds', f) >= Occupied(f) BY <1>1 DEF PlaceInv, InPlace
<1>4. \A d : Keeps(conn'[d], conn[d]) BY <1>1 DEF Keeps
<1> HIDE DEF Callers, Joined, Entered, Occupied
<1> QED BY <1>1, <1>2, <1>3, <1>4, PlaceQuiet
-----------------------------------------------------------------------------
\* A connection a map still has is not closed behind it.
LEMMA JoinedStay ==
  ASSUME NEW after \in [Conns -> Socket], Release(after)
  PROVE  \A d \in Joined' : conn'[d] = after[d]
<1> SUFFICES ASSUME NEW d \in Conns, d \in Joined' PROVE conn'[d] = after[d]
  BY DEF Joined
<1>1. Referred(d) BY DEF Joined, Referred
<1> QED BY <1>1, Released

LEMMA ReleasedKeeps ==
  ASSUME TypeInv, NEW c \in Conns, NEW r \in Socket, Release([conn EXCEPT ![c] = r]),
         r.stage \in {conn[c].stage, "closed"}, r.fd = conn[c].fd
  PROVE  /\ \A d \in Conns : Keeps(conn'[d], conn[d]) /\ (conn'[d].stage = "open" => conn[d].stage = "open")
         /\ r.stage # "open" => conn'[c].stage # "open"
         /\ \A d \in Joined' : conn'[d].stage = (IF d = c THEN r.stage ELSE conn[d].stage)
<1>1. Fades(conn'[c], r) /\ \A d \in Conns \ {c} : Fades(conn'[d], conn[d]) BY ReleasedOne
<1>2. Keeps(conn'[c], conn[c]) /\ (conn'[c].stage = "open" => conn[c].stage = "open")
      /\ (r.stage # "open" => conn'[c].stage # "open")
  BY <1>1 DEF Fades, Keeps, Holds
<1>3. \A d \in Conns \ {c} : Keeps(conn'[d], conn[d]) /\ (conn'[d].stage = "open" => conn[d].stage = "open")
  BY <1>1, FadesKeeps DEF Fades
<1> DEFINE after == [conn EXCEPT ![c] = r]
<1>4. after \in [Conns -> Socket] /\ after[c] = r /\ \A d \in Conns \ {c} : after[d] = conn[d]
  BY DEF TypeInv
<1>5. \A d \in Joined' : d \in Conns /\ conn'[d] = after[d]
  <2> HIDE DEF after
  <2> QED BY <1>4, JoinedStay DEF after, Joined
<1> HIDE DEF after
<1> QED BY <1>2, <1>3, <1>4, <1>5

\* A connection that is over leaves its slot, and its descriptor the loop.
LEMMA InPlaceWithout ==
  ASSUME Inv, Next, InPlace, NEW c \in Conns, NEW F \in Slots, at \in DOMAIN fds, F = fds[at].fd,
         Advance(DeleteMove(fds, at), at, left - 1),
         \A f \in Slots : /\ handshake'[f] = handshake[f] \/ (f = F /\ handshake[f] = c /\ handshake'[f] = None)
                          /\ pending'[f] = pending[f] \/ (f = F /\ pending[f] = c /\ pending'[f] = None)
                          /\ peers'[f] = peers[f] \/ (f = F /\ peers[f] = c /\ peers'[f] = None),
         \/ handshake[F] = c /\ handshake'[F] = None
         \/ pending[F] = c /\ pending'[F] = None
         \/ peers[F] = c /\ peers'[F] = None,
         c \notin Joined', conn'[c].stage # "open", Callers' \subseteq Callers,
         \A d \in Conns : Keeps(conn'[d], conn[d]) /\ (conn'[d].stage = "open" => conn[d].stage = "open")
  PROVE  InPlace'
<1>1. /\ Shaking \subseteq Shaking' \cup {c} /\ Waiting \subseteq Waiting' \cup {c} /\ Joined \subseteq Joined' \cup {c}
      /\ Waiting' \subseteq Waiting /\ Joined' \subseteq Joined
  BY DEF Shaking, Waiting, Joined
<1>2. ASSUME NEW f \in Slots, peers'[f] # None PROVE conn'[peers'[f]].fd = f
  <2>1. peers'[f] = peers[f] /\ peers[f] \in Conns BY <1>2, MappedOpened DEF Opened
  <2>2. peers'[f] \in Joined' /\ peers'[f] # c BY <2>1 DEF Joined
  <2>3. conn[peers[f]].fd = f BY <1>2, <2>1 DEF InPlace
  <2> QED BY <2>1, <2>2, <2>3 DEF Keeps
<1>3. ASSUME NEW d \in Conns, conn'[d].stage = "open" PROVE d \in Shaking' \cup Waiting' \cup Joined'
  <2>1. d # c /\ d \in Shaking \cup Waiting \cup Joined BY <1>3 DEF InPlace
  <2> HIDE DEF Shaking, Waiting, Joined
  <2> QED BY <1>1, <2>1
<1>4. ((Callers \cup Waiting) \cap Joined = {})' BY <1>1 DEF InPlace
<1>5. ASSUME NEW f \in Slots PROVE Entered(fds', f) >= Occupied(f)'
  <2>1. Entered(fds, f) \in Nat /\ Entered(fds', f) \in Nat BY EnteredNext
  <2>2. Entered(fds', f) >= IF f = F THEN Entered(fds, f) - 1 ELSE Entered(fds, f) BY EnteredInLoop
  <2>3. Entered(fds, f) >= Occupied(f) BY DEF InPlace
  <2>4. Occupied(f) \in Nat /\ Occupied(f)' \in Nat BY DEF Occupied, One
  <2>5. f # F => Occupied(f)' = Occupied(f) BY DEF Occupied
  <2>6. f = F => Occupied(f)' <= Occupied(f) - 1
    <3>1. c # None OBVIOUS
    <3> QED BY <3>1 DEF Occupied, One
  <2> HIDE DEF Entered, Occupied
  <2> QED BY <2>1, <2>2, <2>3, <2>4, <2>5, <2>6
<1>6. WaitsAlone'
  <2> SUFFICES ASSUME NEW f \in Slots, pending'[f] # None, conn'[pending'[f]].stage = "open" PROVE peers'[f] = None
    BY DEF WaitsAlone
  <2>1. pending'[f] = pending[f] /\ pending[f] \in Conns BY MappedOpened DEF Opened
  <2>2. conn[pending[f]].stage = "open" BY <2>1
  <2>3. peers[f] = None BY <2>1, <2>2 DEF InPlace, WaitsAlone
  <2> QED BY <2>3
<1> HIDE DEF Shaking, Waiting, Joined, Callers, Occupied, Entered, WaitsAlone
<1> QED BY <1>2, <1>3, <1>4, <1>5, <1>6 DEF InPlace

LEMMA OwnFade ==
  ASSUME Inv, OwnSlot, \A d \in Conns : Keeps(conn'[d], conn[d]),
         \A f \in Slots : handshake'[f] \in {handshake[f], None} /\ pending'[f] \in {pending[f], None}
  PROVE  OwnSlot'
<1>1. \A d \in Shaking \cup Waiting : conn'[d].fd = conn[d].fd BY DEF Keeps, Shaking, Waiting
<1> HIDE DEF Shaking, Waiting
<1> QED BY <1>1, SlotsKept

LEMMA PeerPolledPlace ==
  ASSUME Inv, Next, MapInv, PlaceInv, NEW c \in Conns, NEW r \in Socket, NEW got \in Seq(Messages),
         PeerPolled(c, r, got)
  PROVE  PlaceInv'
<1>2. /\ Polling(peers, c) /\ r.fd = conn[c].fd /\ Release([conn EXCEPT ![c] = r])
      /\ events' = events \o [i \in DOMAIN got |-> [type |-> "REQUEST", conn |-> c, nr |-> got[i].nr]]
      /\ UNCHANGED <<handshake, pending, listening, known, history>>
      /\ r.stage \in {conn[c].stage, "closed"}
  BY DEF PeerPolled
<1>3. UNCHANGED <<handshake, pending, held, stale>> BY <1>2 DEF history
<1>4. fds[at].fd \in Slots /\ peers[fds[at].fd] = c /\ at \in DOMAIN fds BY <1>2, PolledOpened
<1>5. /\ \A d \in Conns : Keeps(conn'[d], conn[d]) /\ (conn'[d].stage = "open" => conn[d].stage = "open")
      /\ r.stage # "open" => conn'[c].stage # "open"
      /\ \A d \in Joined' : conn'[d].stage = (IF d = c THEN r.stage ELSE conn[d].stage)
  BY <1>2, ReleasedKeeps DEF Inv
<1>6. AskedOnce' /\ Callers' \subseteq Callers
  <2>1. \A j \in DOMAIN events' : Unanswered(events'[j]) => j \in DOMAIN events /\ events'[j] = events[j]
    BY <1>2, EventsGrow DEF Inv, Refers, Unanswered
  <2>2. AskedOnce' /\ Callers' \subseteq Callers \cup held' BY <1>3, <2>1, AskedKept DEF PlaceInv
  <2> QED BY <1>3, <2>2 DEF Callers
<1>7. Distinct' BY <1>5, DistinctKept DEF PlaceInv
<1>8. OwnSlot' BY <1>3, <1>5, OwnFade DEF PlaceInv
<1>9. ASSUME InPlace, Alive(r) PROVE InPlace'
  <2>1. r.stage = conn[c].stage /\ Advance(fds, at + 1, left - 1) /\ UNCHANGED peers
    BY <1>9 DEF PeerPolled
  <2>3. \A d \in Joined : conn'[d].fd = conn[d].fd BY <1>5 DEF Keeps, Joined
  <2>4. \A f \in Slots : Entered(fds', f) >= Occupied(f) BY <1>4, <1>9, <2>1, EnteredStill
  <2> HIDE DEF Callers, Joined, Entered, Occupied
  <2> QED BY <1>3, <1>5, <1>6, <1>9, <2>1, <2>3, <2>4, InPlaceQuiet
<1>10. ASSUME InPlace, ~Alive(r) PROVE InPlace'
  <2>1. Advance(DeleteMove(fds, at), at, left - 1) /\ peers' = [peers EXCEPT ![fds[at].fd] = None]
    BY <1>10 DEF PeerPolled
  <2>2. \A f \in Slots : peers'[f] = IF f = fds[at].fd THEN None ELSE peers[f] BY <2>1, MappedOpened
  <2>3. c \notin Joined'
    <3> SUFFICES ASSUME NEW f \in Slots, peers'[f] = c PROVE FALSE BY DEF Joined
    <3>1. c # None OBVIOUS
    <3>2. f # fds[at].fd /\ peers[f] = c BY <2>2, <3>1
    <3> QED BY <1>4, <1>10, <3>1, <3>2 DEF InPlace
  <2>4. conn'[c].stage # "open" BY <1>5, <1>10 DEF Alive
  <2>5. \A f \in Slots :
          /\ handshake'[f] = handshake[f] /\ pending'[f] = pending[f]
          /\ peers'[f] = peers[f] \/ (f = fds[at].fd /\ peers[f] = c /\ peers'[f] = None)
    BY <1>3, <1>4, <2>2
  <2>6. peers[fds[at].fd] = c /\ peers'[fds[at].fd] = None BY <1>4, <2>2
  <2> HIDE DEF Callers, Joined, Entered, Occupied
  <2> QED BY <1>4, <1>5, <1>6, <1>10, <2>1, <2>3, <2>4, <2>5, <2>6, InPlaceWithout
<1> QED BY <1>3, <1>6, <1>7, <1>8, <1>9, <1>10 DEF PlaceInv

LEMMA PeerFailsPlace ==
  ASSUME Inv, Next, MapInv, PlaceInv, NEW c \in Conns, NEW r \in Socket, PeerFails(c, r)
  PROVE  PlaceInv'
<1>1. UNCHANGED <<handshake, pending, peers, held, events, stale>> /\ ThrowInLoop BY DEF PeerFails, history
<1>2. AskedOnce' /\ Callers' \subseteq Callers BY <1>1, AskedSame DEF PlaceInv
<1>3. \A d \in Conns : Keeps(conn'[d], conn[d]) /\ (conn'[d].stage = "open" => conn[d].stage = "open")
  BY FailsFades, FadesKeeps DEF Inv, Fades
<1>4. ~stale => \A f \in Slots : Entered(fds', f) >= Occupied(f) BY <1>1, ThrowEntered DEF PlaceInv, InPlace
<1> HIDE DEF Callers, Joined, Entered, Occupied
<1> QED BY <1>1, <1>2, <1>3, <1>4, PlaceQuiet

LEMMA PollPeerPlace == ASSUME Inv, Next, MapInv, PlaceInv, PollPeer PROVE PlaceInv'
BY PollPeerShape, PeerPolledPlace, PeerFailsPlace

LEMMA PollPendingPlace == ASSUME Inv, Next, MapInv, PlaceInv, PollPending PROVE PlaceInv'
<1>1. PICK c \in Conns : \E p \in PreAuthPoll(conn[c]) :
           /\ Polling(pending, c) /\ p.end = "return"
           /\ refused' = [refused EXCEPT ![c] = @ \cup p.refused]
           /\ WaitsOn(c, p) \/ Expires(c, p)
           /\ UNCHANGED <<handshake, peers, listening, known, events, held, trusted, handed, stale>>
           /\ Release([conn EXCEPT ![c] = p.conn])
  BY PollPendingShape
<1>2. PICK p \in PreAuthPoll(conn[c]) :
           /\ Polling(pending, c) /\ p.end = "return"
           /\ refused' = [refused EXCEPT ![c] = @ \cup p.refused]
           /\ WaitsOn(c, p) \/ Expires(c, p)
           /\ UNCHANGED <<handshake, peers, listening, known, events, held, trusted, handed, stale>>
           /\ Release([conn EXCEPT ![c] = p.conn])
  BY <1>1
<1>3. fds[at].fd \in Slots /\ pending[fds[at].fd] = c /\ at \in DOMAIN fds /\ c \in Waiting /\ c \in Opened
  BY <1>2, PolledOpened DEF Waiting
<1>4. p.conn \in Socket /\ p.conn.stage \in {conn[c].stage, "closed"} /\ p.conn.fd = conn[c].fd
  BY <1>3, PollLeaves DEF Ends, Reads, Chooses, Refuses, Stays
<1>5. /\ \A d \in Conns : Keeps(conn'[d], conn[d]) /\ (conn'[d].stage = "open" => conn[d].stage = "open")
      /\ p.conn.stage # "open" => conn'[c].stage # "open"
      /\ \A d \in Joined' : conn'[d].stage = (IF d = c THEN p.conn.stage ELSE conn[d].stage)
  BY <1>2, <1>4, ReleasedKeeps DEF Inv
<1>6. AskedOnce' /\ Callers' \subseteq Callers BY <1>2, AskedSame DEF PlaceInv
<1>7. Joined' = Joined BY <1>2 DEF Joined
<1>8. \A f \in Slots : pending'[f] \in {pending[f], None} BY <1>2, MappedOpened DEF WaitsOn, Expires
<1>9. Distinct' /\ OwnSlot' BY <1>2, <1>5, <1>8, DistinctKept, OwnFade DEF PlaceInv
<1>10. ASSUME InPlace PROVE InPlace'
  <2>1. c \notin Joined /\ c \notin Joined' BY <1>3, <1>7, <1>10 DEF InPlace
  <2>2. \A d \in Joined : conn'[d].stage = conn[d].stage /\ conn'[d].fd = conn[d].fd
    BY <1>5, <1>7, <2>1 DEF Keeps, Joined
  <2>3. CASE WaitsOn(c, p)
    <3>1. Advance(fds, at + 1, left - 1) /\ UNCHANGED <<handshake, pending, peers>> BY <1>2, <2>3 DEF WaitsOn
    <3>2. \A f \in Slots : Entered(fds', f) >= Occupied(f) BY <1>3, <1>10, <3>1, EnteredStill
    <3> HIDE DEF Callers, Joined, Entered, Occupied
    <3> QED BY <1>5, <1>6, <1>10, <2>2, <3>1, <3>2, InPlaceQuiet
  <2>4. CASE Expires(c, p)
    <3>1. Advance(DeleteMove(fds, at), at, left - 1) /\ ~Alive(p.conn)
          /\ pending' = [pending EXCEPT ![fds[at].fd] = None]
      BY <2>4 DEF Expires
    <3>2. \A f \in Slots : pending'[f] = IF f = fds[at].fd THEN None ELSE pending[f] BY <3>1, MappedOpened
    <3>3. \A f \in Slots :
          /\ handshake'[f] = handshake[f] /\ peers'[f] = peers[f]
          /\ pending'[f] = pending[f] \/ (f = fds[at].fd /\ pending[f] = c /\ pending'[f] = None)
      BY <1>2, <1>3, <3>2
    <3>4. pending[fds[at].fd] = c /\ pending'[fds[at].fd] = None BY <1>3, <3>2
    <3>5. conn'[c].stage # "open" BY <1>5, <3>1 DEF Alive
    <3> HIDE DEF Callers, Joined, Entered, Occupied
    <3> QED BY <1>3, <1>5, <1>6, <1>7, <1>10, <2>1, <2>2, <3>1, <3>3, <3>4, <3>5, InPlaceWithout
  <2> QED BY <1>2, <2>3, <2>4
<1> QED BY <1>2, <1>6, <1>9, <1>10 DEF PlaceInv

\* A connection goes from the handshake to another map, under the same descriptor.
LEMMA InPlaceMoved ==
  ASSUME Inv, Next, InPlace, OwnSlot, MapInv, NEW c \in Conns, NEW F \in Slots, handshake[F] = c,
         peers[F] = None, pending[F] = None, at \in DOMAIN fds, Advance(fds, at + 1, left - 1),
         \A f \in Slots : /\ handshake'[f] = IF f = F THEN None ELSE handshake[f]
                          /\ f # F => pending'[f] = pending[f] /\ peers'[f] = peers[f],
         \/ pending'[F] = None /\ peers'[F] = c /\ Callers' \subseteq Callers
         \/ pending'[F] = c /\ peers'[F] = None /\ Callers' \subseteq Callers \cup {c},
         \A d \in Conns : /\ conn'[d].fd = conn[d].fd /\ (conn'[d].stage = "open" => conn[d].stage = "open")
                          /\ conn'[d].stage = conn[d].stage,
         conn[c].stage = "open"
  PROVE  InPlace'
<1>0. c # None /\ \A d \in Conns : d # None OBVIOUS
<1>1. c \in Shaking /\ c \notin Waiting /\ c \notin Joined /\ c \notin Callers
  <2>1. c \in Shaking BY DEF Shaking
  <2>2. Callers \subseteq Named BY DEF Callers, Named
  <2> HIDE DEF Shaking, Waiting, Joined, Callers, Named
  <2> QED BY <2>1, <2>2 DEF MapInv
<1>2. /\ Shaking \subseteq Shaking' \cup {c} /\ Waiting \subseteq Waiting' /\ Joined \subseteq Joined'
      /\ Waiting' \subseteq Waiting \cup {c} /\ Joined' \subseteq Joined \cup {c}
      /\ c \in Waiting' \cup Joined'
      /\ (c \in Joined' => Callers' \subseteq Callers /\ c \notin Waiting')
      /\ (c \in Waiting' => c \notin Joined')
  BY <1>0, <1>1 DEF Shaking, Waiting, Joined
<1>3. ASSUME NEW f \in Slots, peers'[f] # None PROVE conn'[peers'[f]].fd = f
  <2>1. CASE f = F
    <3>1. peers'[f] = c BY <1>3, <2>1
    <3>2. conn[c].fd = F BY <1>0 DEF OwnSlot
    <3> QED BY <2>1, <3>1, <3>2
  <2>2. CASE f # F
    <3>1. peers'[f] = peers[f] /\ peers[f] \in Conns BY <1>3, <2>2, MappedOpened DEF Opened
    <3>2. conn[peers[f]].fd = f BY <1>3, <3>1 DEF InPlace
    <3> QED BY <3>1, <3>2
  <2> QED BY <2>1, <2>2
<1>4. ASSUME NEW d \in Conns, conn'[d].stage = "open" PROVE d \in Shaking' \cup Waiting' \cup Joined'
  <2>1. d \in Shaking \cup Waiting \cup Joined BY <1>4 DEF InPlace
  <2> HIDE DEF Shaking, Waiting, Joined
  <2> QED BY <1>2, <2>1
<1>5. ((Callers \cup Waiting) \cap Joined = {})'
  <2>1. (Callers \cup Waiting) \cap Joined = {} BY DEF InPlace
  <2>2. Callers' \subseteq Callers \cup {c} OBVIOUS
  <2> HIDE DEF Shaking, Waiting, Joined, Callers
  <2> QED BY <1>1, <1>2, <2>1, <2>2
<1>6. ASSUME NEW f \in Slots PROVE Entered(fds', f) >= Occupied(f)'
  <2>1. Occupied(f)' = Occupied(f) BY <1>0 DEF Occupied, One
  <2>2. \A g \in Slots : Entered(fds', g) >= Occupied(g) BY EnteredStill
  <2> HIDE DEF Entered, Occupied
  <2> QED BY <2>1, <2>2
<1>7. WaitsAlone'
  <2> SUFFICES ASSUME NEW f \in Slots, pending'[f] # None, conn'[pending'[f]].stage = "open" PROVE peers'[f] = None
    BY DEF WaitsAlone
  <2>1. CASE f = F BY <1>0, <2>1
  <2>2. CASE f # F
    <3>1. pending'[f] = pending[f] /\ peers'[f] = peers[f] /\ pending[f] \in Conns
      BY <2>2, MappedOpened DEF Opened
    <3>2. conn[pending[f]].stage = "open" BY <3>1
    <3> QED BY <3>1, <3>2 DEF InPlace, WaitsAlone
  <2> QED BY <2>1, <2>2
<1> HIDE DEF Shaking, Waiting, Joined, Callers, Occupied, Entered, WaitsAlone
<1> QED BY <1>3, <1>4, <1>5, <1>6, <1>7 DEF InPlace

\* The application is asked of a connection it has not heard of.
LEMMA AskedNow ==
  ASSUME Inv, AskedOnce, NEW c \in Opened, c \notin Named, UNCHANGED held,
         events' = Append(events, [type |-> "CONNECT", conn |-> c])
  PROVE  AskedOnce' /\ Callers' \subseteq Callers \cup {c}
<1> DEFINE e == [type |-> "CONNECT", conn |-> c]
<1>1. events \in Seq(EventsOf(Opened, Trustees)) BY DEF Inv, Refers
<1>2. e \in EventsOf(Opened, Trustees) BY DEF EventsOf
<1>3. /\ DOMAIN events = 1 .. Len(events) /\ Len(events) \in Nat /\ DOMAIN events' = 1 .. Len(events) + 1
      /\ events'[Len(events) + 1] = e /\ \A i \in 1 .. Len(events) : events'[i] = events[i]
  BY <1>1, <1>2, AppendProperties, LenProperties
<1>4. e.conn = c OBVIOUS
<1> HIDE DEF e
<1>5. \A j \in DOMAIN events' : (j \in DOMAIN events /\ events'[j] = events[j]) \/ (j = Len(events) + 1 /\ events'[j].conn = c)
  BY <1>3, <1>4
<1>6. c \notin held /\ \A i \in DOMAIN events : events[i].conn # c BY DEF Named, Opened
<1>7. \A i, j \in DOMAIN events' :
        Unanswered(events'[i]) /\ Unanswered(events'[j]) /\ events'[i].conn = events'[j].conn => i = j
  BY <1>5, <1>6 DEF AskedOnce
<1>8. \A i \in DOMAIN events' : Unanswered(events'[i]) => events'[i].conn \notin held'
  BY <1>5, <1>6 DEF AskedOnce
<1>9. Callers' \subseteq Callers \cup {c} BY <1>5 DEF Callers
<1> QED BY <1>7, <1>8, <1>9 DEF AskedOnce

LEMMA PollHandshakePlace == ASSUME Inv, Next, MapInv, PlaceInv, PollHandshake PROVE PlaceInv'
<1>1. PICK c \in Conns : \E p \in PreAuthPoll(conn[c]) :
           /\ Polling(handshake, c) /\ peers[fds[at].fd] = None /\ pending[fds[at].fd] = None
           /\ refused' = [refused EXCEPT ![c] = @ \cup p.refused]
           /\ UNCHANGED <<listening, known, held, trusted, handed, stale>>
           /\ Breaks(c, p) \/ ShakesOn(c, p) \/ Drops(c, p) \/ Promotes(c, p) \/ Asks(c, p)
  BY PollHandshakeShape
<1>2. PICK p \in PreAuthPoll(conn[c]) :
           /\ Polling(handshake, c) /\ peers[fds[at].fd] = None /\ pending[fds[at].fd] = None
           /\ refused' = [refused EXCEPT ![c] = @ \cup p.refused]
           /\ UNCHANGED <<listening, known, held, trusted, handed, stale>>
           /\ Breaks(c, p) \/ ShakesOn(c, p) \/ Drops(c, p) \/ Promotes(c, p) \/ Asks(c, p)
  BY <1>1
<1>3. /\ fds[at].fd \in Slots /\ handshake[fds[at].fd] = c /\ at \in DOMAIN fds
      /\ c \in Shaking /\ c \in Opened /\ c \notin Waiting \cup Joined \cup Named \cup Early
  BY <1>2, PolledOpened DEF Shaking, MapInv
<1>4. p.conn \in Socket /\ p.conn.stage \in {conn[c].stage, "closed"} /\ p.conn.fd = conn[c].fd
  BY <1>3, PollLeaves DEF Ends, Reads, Chooses, Refuses, Stays
<1>5. TypeInv /\ conn \in [Conns -> Socket] BY DEF Inv, TypeInv
<1>6. /\ \A d \in Conns : Keeps(conn'[d], conn[d]) /\ (conn'[d].stage = "open" => conn[d].stage = "open")
      /\ p.conn.stage # "open" => conn'[c].stage # "open"
      /\ \A d \in Joined' : conn'[d].stage = (IF d = c THEN p.conn.stage ELSE conn[d].stage)
  <2>1. CASE conn' = [conn EXCEPT ![c] = p.conn]
    <3>1. conn'[c] = p.conn /\ \A d \in Conns \ {c} : conn'[d] = conn[d] BY <1>5, <2>1
    <3>2. Joined' \subseteq Conns BY DEF Joined
    <3> HIDE DEF Joined
    <3> QED BY <1>4, <3>1, <3>2 DEF Keeps, Holds
  <2>2. CASE Release([conn EXCEPT ![c] = p.conn]) BY <1>4, <1>5, <2>2, ReleasedKeeps
  <2> QED BY <1>2, <2>1, <2>2 DEF Breaks, ShakesOn, Drops, Promotes, Asks
<1>7. Distinct' BY <1>6, DistinctKept DEF PlaceInv
<1>8. handshake \in [Slots -> Opened \cup {None}] /\ pending \in [Slots -> Opened \cup {None}]
      /\ peers \in [Slots -> Opened \cup {None}]
  BY MappedOpened
<1>9. ASSUME UNCHANGED <<pending, peers, events>>
      PROVE  AskedOnce' /\ Callers' \subseteq Callers /\ c \notin Joined' /\ Joined' = Joined
  BY <1>2, <1>3, <1>9, AskedSame DEF PlaceInv, Joined
<1>10. CASE Breaks(c, p) \/ ShakesOn(c, p)
  <2>1. UNCHANGED <<handshake, pending, peers, events, stale>>
        /\ (ThrowInLoop \/ Advance(fds, at + 1, left - 1) \/ fds' = fds)
    BY <1>2, <1>10 DEF Breaks, ShakesOn
  <2>2. \A d \in Joined : conn'[d].stage = conn[d].stage BY <1>6, <1>9, <2>1
  <2>3. ~stale => \A f \in Slots : Entered(fds', f) >= Occupied(f) BY <1>3, <2>1, EnteredStill DEF PlaceInv
  <2> HIDE DEF Callers, Joined, Entered, Occupied
  <2> QED BY <1>6, <1>9, <2>1, <2>2, <2>3, PlaceQuiet
<1>11. CASE Drops(c, p)
  <2>1. /\ UNCHANGED <<pending, peers, events, stale>> /\ ~Alive(p.conn)
        /\ Advance(DeleteMove(fds, at), at, left - 1) /\ handshake' = [handshake EXCEPT ![fds[at].fd] = None]
    BY <1>2, <1>11 DEF Drops
  <2>2. \A f \in Slots : handshake'[f] = IF f = fds[at].fd THEN None ELSE handshake[f] BY <1>8, <2>1
  <2>3. OwnSlot' BY <1>6, <2>1, <2>2, OwnFade DEF PlaceInv
  <2>4. \A f \in Slots :
          /\ pending'[f] = pending[f] /\ peers'[f] = peers[f]
          /\ handshake'[f] = handshake[f] \/ (f = fds[at].fd /\ handshake[f] = c /\ handshake'[f] = None)
    BY <1>3, <2>1, <2>2
  <2>5. handshake[fds[at].fd] = c /\ handshake'[fds[at].fd] = None BY <1>3, <2>2
  <2>6. conn'[c].stage # "open" /\ \A d \in Joined' : d # c => conn'[d].stage = conn[d].stage
    BY <1>6, <2>1 DEF Alive
  <2>7. ~stale => InPlace'
    <3> HIDE DEF Callers, Joined, Entered, Occupied
    <3> QED BY <1>3, <1>6, <1>9, <2>1, <2>4, <2>5, <2>6, InPlaceWithout DEF PlaceInv
  <2> QED BY <1>7, <1>9, <2>1, <2>3, <2>7 DEF PlaceInv
<1>12. CASE Promotes(c, p) \/ Asks(c, p)
  <2>1. /\ Alive(p.conn) /\ conn' = [conn EXCEPT ![c] = p.conn] /\ Advance(fds, at + 1, left - 1)
        /\ handshake' = [handshake EXCEPT ![fds[at].fd] = None] /\ stale' = stale
        /\ \/ peers' = [peers EXCEPT ![fds[at].fd] = c] /\ UNCHANGED <<pending, events>>
           \/ /\ pending' = [pending EXCEPT ![fds[at].fd] = c] /\ UNCHANGED peers
              /\ events' = Append(events, [type |-> "CONNECT", conn |-> c])
    BY <1>2, <1>12 DEF Promotes, Asks
  <2>2. p.conn.stage = conn[c].stage /\ conn[c].stage = "open"
    <3>1. p.conn.stage \in {"open", "dialling"} BY <2>1 DEF Alive
    <3> QED BY <1>3, <1>4, <3>1 DEF Early
  <2>3. \A d \in Conns : conn'[d].fd = conn[d].fd /\ conn'[d].stage = conn[d].stage
    BY <1>4, <1>5, <2>1, <2>2
  <2>4. \A f \in Slots : /\ handshake'[f] = IF f = fds[at].fd THEN None ELSE handshake[f]
                         /\ f # fds[at].fd => pending'[f] = pending[f] /\ peers'[f] = peers[f]
    BY <1>3, <1>8, <2>1
  <2>5. AskedOnce' /\ \/ pending'[fds[at].fd] = None /\ peers'[fds[at].fd] = c /\ Callers' \subseteq Callers
                      \/ pending'[fds[at].fd] = c /\ peers'[fds[at].fd] = None /\ Callers' \subseteq Callers \cup {c}
    <3>1. CASE peers' = [peers EXCEPT ![fds[at].fd] = c] /\ UNCHANGED <<pending, events>>
      <4>1. AskedOnce' /\ Callers' \subseteq Callers BY <1>2, <3>1, AskedSame DEF PlaceInv
      <4> QED BY <1>2, <1>3, <1>8, <3>1, <4>1
    <3>2. CASE /\ pending' = [pending EXCEPT ![fds[at].fd] = c] /\ UNCHANGED peers
               /\ events' = Append(events, [type |-> "CONNECT", conn |-> c])
      <4>1. c \notin Named BY <1>3
      <4> HIDE DEF Named, Callers
      <4>2. AskedOnce' /\ Callers' \subseteq Callers \cup {c} BY <1>2, <1>3, <3>2, <4>1, AskedNow DEF PlaceInv
      <4> QED BY <1>2, <1>3, <1>8, <3>2, <4>2
    <3> QED BY <2>1, <3>1, <3>2
  <2>6. OwnSlot'
    <3>1. conn'[c].fd = fds[at].fd
      <4>1. c # None OBVIOUS
      <4> QED BY <1>3, <2>3, <4>1 DEF PlaceInv, OwnSlot
    <3>2. \A d \in Shaking \cup Waiting : conn'[d].fd = conn[d].fd BY <2>3 DEF Shaking, Waiting
    <3>3. \A f \in Slots : /\ handshake'[f] \in {handshake[f], None}
                           /\ pending'[f] \in {pending[f], None} \/ (pending'[f] = c /\ conn'[c].fd = f)
      BY <2>4, <2>5, <3>1
    <3> HIDE DEF Shaking, Waiting
    <3> QED BY <3>2, <3>3, SlotsKept DEF PlaceInv
  <2>7. ~stale => InPlace'
    <3> HIDE DEF Callers, Joined, Entered, Occupied
    <3> QED BY <1>2, <1>3, <2>1, <2>2, <2>3, <2>4, <2>5, InPlaceMoved DEF PlaceInv
  <2> QED BY <1>7, <2>1, <2>5, <2>6, <2>7 DEF PlaceInv
<1> QED BY <1>2, <1>10, <1>11, <1>12
-----------------------------------------------------------------------------
\* A step in which the application takes events, or answers one later.
LEMMA EventsTakenPlace ==
  ASSUME Inv, Next, PlaceInv, UNCHANGED <<handshake, pending, peers, fds, stale>>, Release(conn),
         \A j \in DOMAIN events' : Unanswered(events'[j]) => j \in DOMAIN events /\ events'[j] = events[j],
         \A c \in held' : \/ c \in held
                          \/ \E k \in DOMAIN events : /\ Unanswered(events[k]) /\ events[k].conn = c
                                                      /\ k \in DOMAIN events' => ~Unanswered(events'[k])
  PROVE  PlaceInv'
<1>1. AskedOnce' /\ Callers' \subseteq Callers
  <2>1. AskedOnce' /\ Callers' \subseteq Callers \cup held' BY AskedKept DEF PlaceInv
  <2> QED BY <2>1, CallersKept
<1>2. \A d \in Conns : Keeps(conn'[d], conn[d]) /\ (conn'[d].stage = "open" => conn[d].stage = "open")
  BY FadesWhenReleased, FadesKeeps DEF Inv, Fades
<1>3. \A d \in Joined : conn'[d].stage = conn[d].stage
  <2>1. conn \in [Conns -> Socket] BY DEF Inv, TypeInv
  <2>2. Joined' = Joined BY DEF Joined
  <2> QED BY <2>1, <2>2, JoinedStay
<1>4. ~stale => \A f \in Slots : Entered(fds', f) >= Occupied(f) BY DEF PlaceInv, InPlace
<1> HIDE DEF Callers, Joined, Entered, Occupied
<1> QED BY <1>1, <1>2, <1>3, <1>4, PlaceQuiet

LEMMA TakenPlace == ASSUME Inv, Next, PlaceInv, Pull \/ ProcessEnd PROVE PlaceInv'
<1>1. UNCHANGED <<handshake, pending, peers, fds, stale>> /\ Release(conn)
  BY DEF Pull, ProcessEnd, HandRequest, history
<1>2. CASE ProcessEnd
  <2>1. events' = <<>> /\ held' = held BY <1>2 DEF ProcessEnd, history
  <2> QED BY <1>1, <2>1, EventsTakenPlace
<1>3. CASE Pull
  <2>1. events \in Seq(EventsOf(Opened, Trustees)) BY DEF Inv, Refers
  <2>2. Len(events) \in Nat /\ Len(events) \in DOMAIN events /\ DOMAIN events = 1 .. Len(events)
    BY <1>3, <2>1, LenProperties, EmptySeq DEF Pull
  <2>3. events' = SubSeq(events, 1, Len(events) - 1) BY <1>3 DEF Pull, Front
  <2>4. \A i \in 1 .. Len(events) - 1 : events'[i] = events[i] /\ i \in DOMAIN events
    BY <2>1, <2>2, <2>3, SubSeqProperties
  <2>5. DOMAIN events' = 1 .. Len(events) - 1
    <3>1. \A i \in 1 .. Len(events) - 1 : events[i] \in EventsOf(Opened, Trustees) BY <2>1, <2>2
    <3>2. events' \in Seq(EventsOf(Opened, Trustees)) /\ Len(events') = Len(events) - 1
      BY <2>2, <2>3, <3>1, SubSeqProperties
    <3> QED BY <3>2, LenProperties
  <2>6. Len(events) \notin DOMAIN events' BY <2>2, <2>5
  <2>7. \/ held' = held
        \/ /\ held' = held \cup ({events[Len(events)].conn} \ {None})
           /\ events[Len(events)].type = "CONNECT"
    BY <1>3 DEF Pull, HandRequest, Last
  <2>8. \A c \in held' : c \in held \/ (Unanswered(events[Len(events)]) /\ events[Len(events)].conn = c)
    BY <2>7 DEF Unanswered
  <2> QED BY <1>1, <2>2, <2>4, <2>5, <2>6, <2>8, EventsTakenPlace
<1> QED BY <1>2, <1>3

LEMMA AliveTaken ==
  ASSUME Inv, NEW c \in Opened, NEW temporary \in BOOLEAN, NEW outcome \in Accepted(c, temporary),
         Take(c, outcome), Alive(conn[c])
  PROVE  \/ UNCHANGED <<pending, peers>>
         \/ /\ pending' = [pending EXCEPT ![conn[c].fd] = None]
            /\ peers' = IF peers[conn[c].fd] = None THEN [peers EXCEPT ![conn[c].fd] = c] ELSE peers
<1> DEFINE Misses == outcome.thrown = TRUE /\ outcome.pending = pending /\ outcome.peers = peers
           Hits(f) == /\ f \in Slots /\ (Alive(conn[c]) => f = conn[c].fd)
                      /\ outcome.thrown = (peers[f] # None) /\ outcome.pending = [pending EXCEPT ![f] = None]
                      /\ outcome.peers = IF peers[f] = None THEN [peers EXCEPT ![f] = c] ELSE peers
           Moves(f) == /\ outcome.pending = [pending EXCEPT ![f] = None]
                       /\ outcome.peers = IF peers[f] = None THEN [peers EXCEPT ![f] = c] ELSE peers
<1>1. Misses \/ \E f \in {conn[c].fd, NoFd} : Hits(f) BY AcceptedShape, ZenonT(60)
<1>2. Misses => outcome.pending = pending /\ outcome.peers = peers OBVIOUS
<1>3. \A f : Hits(f) => Moves(f) /\ f = conn[c].fd OBVIOUS
<1>4. pending' = outcome.pending /\ peers' = outcome.peers BY DEF Take
<1> HIDE DEF Misses, Hits
<1>5. (outcome.pending = pending /\ outcome.peers = peers) \/ Moves(conn[c].fd) BY <1>1, <1>2, <1>3, Zenon
<1> QED BY <1>4, <1>5

\* The application accepts a connection: it waited under its descriptor, which no peer has.
LEMMA AcceptPlace ==
  ASSUME Inv, Next, MapInv, PlaceInv, NEW c \in Callers, NEW temporary \in BOOLEAN,
         NEW outcome \in Accepted(c, temporary), Take(c, outcome), Release(conn),
         UNCHANGED <<handshake, fds>>, AskedOnce', Callers' \subseteq Callers \ {c}
  PROVE  PlaceInv'
<1>0. \A d \in Conns : d # None OBVIOUS
<1>1. c \in Named /\ c \in Opened /\ c \in Conns /\ c \notin Shaking /\ c \notin Early
  <2>1. c \in Named BY DEF Callers, Named, Inv, Refers, Opened
  <2>2. Named \subseteq Opened BY MappedOpened
  <2> QED BY <2>1, <2>2 DEF MapInv, Opened
<1>2. /\ \A d \in Conns : Keeps(conn'[d], conn[d]) /\ (conn'[d].stage = "open" => conn[d].stage = "open")
      /\ \A d \in Joined' : d \in Conns /\ conn'[d] = conn[d]
  <2>1. conn \in [Conns -> Socket] BY DEF Inv, TypeInv
  <2>2. Joined' \subseteq Conns BY DEF Joined
  <2>3. \A d \in Joined' : conn'[d] = conn[d] BY <2>1, JoinedStay
  <2>4. \A d \in Conns : Keeps(conn'[d], conn[d]) /\ (conn'[d].stage = "open" => conn[d].stage = "open")
    BY FadesWhenReleased, FadesKeeps DEF Inv, Fades
  <2> HIDE DEF Joined
  <2> QED BY <2>2, <2>3, <2>4
<1>3. handshake \in [Slots -> Opened \cup {None}] /\ pending \in [Slots -> Opened \cup {None}]
      /\ peers \in [Slots -> Opened \cup {None}]
  BY MappedOpened
<1>4. \A f \in Slots : pending'[f] \in {pending[f], None}
  <2> DEFINE Misses == outcome.thrown = TRUE /\ outcome.pending = pending /\ outcome.peers = peers
             Hits(f) == /\ f \in Slots /\ (Alive(conn[c]) => f = conn[c].fd)
                        /\ outcome.thrown = (peers[f] # None) /\ outcome.pending = [pending EXCEPT ![f] = None]
                        /\ outcome.peers = IF peers[f] = None THEN [peers EXCEPT ![f] = c] ELSE peers
  <2>1. Misses \/ \E f \in {conn[c].fd, NoFd} : Hits(f) BY <1>1, AcceptedShape, ZenonT(60)
  <2>2. \A f : Hits(f) => f \in Slots /\ outcome.pending = [pending EXCEPT ![f] = None] OBVIOUS
  <2>3. Misses => outcome.pending = pending OBVIOUS
  <2>4. pending' = outcome.pending BY DEF Take
  <2> HIDE DEF Misses, Hits
  <2> QED BY <1>3, <2>1, <2>2, <2>3, <2>4
<1>5. Distinct' BY <1>2, DistinctKept DEF PlaceInv
<1>6. OwnSlot' BY <1>2, <1>4, OwnFade DEF PlaceInv
<1>7. ASSUME ~stale' PROVE InPlace'
  <2>1. InPlace /\ OwnSlot /\ Distinct /\ Alive(conn[c]) BY <1>7 DEF Take, PlaceInv
  <2>2. conn[c].stage = "open" BY <1>1, <2>1 DEF Early, Alive
  <2>3. c \notin Joined /\ c \in Waiting BY <1>1, <2>1, <2>2 DEF InPlace
  <2> DEFINE F == conn[c].fd
  <2>4. F \in Slots /\ pending[F] = c
    <3>1. PICK g \in Slots : pending[g] = c BY <2>3 DEF Waiting
    <3>2. conn[c].fd = g BY <1>0, <1>1, <2>1, <3>1 DEF OwnSlot
    <3> QED BY <3>1, <3>2
  <2>5. peers[F] = None
    <3>1. conn[pending[F]].stage = "open" /\ pending[F] # None BY <1>0, <1>1, <2>2, <2>4
    <3> QED BY <2>1, <2>4, <3>1 DEF InPlace, WaitsAlone
  <2>6. UNCHANGED <<pending, peers>> \/ (pending' = [pending EXCEPT ![F] = None] /\ peers' = [peers EXCEPT ![F] = c])
    BY <1>1, <2>1, <2>5, AliveTaken
  <2> HIDE DEF F
  <2>7. CASE UNCHANGED <<pending, peers>>
    <3>1. Joined' = Joined BY <2>7 DEF Joined
    <3>2. Callers' \subseteq Callers OBVIOUS
    <3>3. \A f \in Slots : Entered(fds', f) >= Occupied(f) BY <2>1 DEF InPlace
    <3> HIDE DEF Callers, Joined, Entered, Occupied
    <3> QED BY <1>2, <2>1, <2>7, <3>1, <3>2, <3>3, InPlaceQuiet
  <2>8. CASE pending' = [pending EXCEPT ![F] = None] /\ peers' = [peers EXCEPT ![F] = c]
    <3>1. \A f \in Slots : /\ pending'[f] = IF f = F THEN None ELSE pending[f]
                           /\ peers'[f] = IF f = F THEN c ELSE peers[f]
      BY <1>3, <2>4, <2>8
    <3>2. \A f \in Slots : pending[f] = c => f = F BY <1>0, <1>1, <2>1 DEF OwnSlot, F
    <3>3. /\ Shaking' = Shaking /\ Waiting \subseteq Waiting' \cup {c} /\ Joined \subseteq Joined'
          /\ Waiting' \subseteq Waiting /\ Joined' \subseteq Joined \cup {c} /\ c \in Joined' /\ c \notin Waiting'
      BY <1>0, <1>1, <2>4, <2>5, <3>1, <3>2 DEF Shaking, Waiting, Joined
    <3>4. ASSUME NEW f \in Slots, peers'[f] # None PROVE conn'[peers'[f]].fd = f
      <4>1. peers'[f] \in Joined' BY <1>1, <1>3, <3>1, <3>4 DEF Joined, Opened
      <4>2. conn'[peers'[f]] = conn[peers'[f]] BY <1>2, <4>1
      <4> QED BY <2>1, <2>2, <3>1, <3>4, <4>2 DEF InPlace, F
    <3>5. ASSUME NEW d \in Conns, conn'[d].stage = "open" PROVE d \in Shaking' \cup Waiting' \cup Joined'
      <4>1. d \in Shaking \cup Waiting \cup Joined BY <1>2, <2>1, <3>5 DEF InPlace
      <4> HIDE DEF Shaking, Waiting, Joined
      <4> QED BY <3>3, <4>1
    <3>6. ((Callers \cup Waiting) \cap Joined = {})'
      <4>1. (Callers \cup Waiting) \cap Joined = {} BY <2>1 DEF InPlace
      <4> HIDE DEF Shaking, Waiting, Joined, Callers
      <4> QED BY <3>3, <4>1
    <3>7. \A f \in Slots : Entered(fds', f) >= Occupied(f)'
      <4>1. \A f \in Slots : Occupied(f)' = Occupied(f) BY <1>0, <1>1, <2>4, <2>5, <3>1 DEF Occupied, One
      <4>2. fds' = fds OBVIOUS
      <4> QED BY <2>1, <4>1, <4>2 DEF InPlace
    <3>8. WaitsAlone'
      <4> SUFFICES ASSUME NEW f \in Slots, pending'[f] # None, conn'[pending'[f]].stage = "open" PROVE peers'[f] = None
        BY DEF WaitsAlone
      <4>1. f # F /\ pending'[f] = pending[f] /\ peers'[f] = peers[f] /\ pending[f] \in Conns
        BY <1>3, <3>1 DEF Opened
      <4>2. conn[pending[f]].stage = "open" BY <1>2, <4>1
      <4> QED BY <2>1, <4>1, <4>2 DEF InPlace, WaitsAlone
    <3> HIDE DEF Shaking, Waiting, Joined, Callers, Occupied, Entered, WaitsAlone
    <3> QED BY <3>4, <3>5, <3>6, <3>7, <3>8 DEF InPlace
  <2> QED BY <2>6, <2>7, <2>8
<1> QED BY <1>5, <1>6, <1>7 DEF PlaceInv

LEMMA ProcessConnectPlace ==
  ASSUME Inv, Next, MapInv, PlaceInv, NEW answer \in {"accept", "later"}, ProcessConnect(answer)
  PROVE  PlaceInv'
<1> DEFINE c == events[at].conn
<1>1. /\ Processing /\ events[at].type = "CONNECT" /\ events' = [events EXCEPT ![at].conn = None]
      /\ UNCHANGED <<handshake, fds>>
  BY DEF ProcessConnect
<1>2. /\ at \in DOMAIN events /\ DOMAIN events' = DOMAIN events
      /\ c \in Opened \cup {None} /\ events'[at].conn = None
      /\ \A i \in DOMAIN events : i # at => events'[i] = events[i]
  <2>1. events \in Seq(EventsOf(Opened, Trustees)) /\ at \in Nat /\ at >= 1
    BY <1>1 DEF Inv, Refers, TypeInv, Position, Processing
  <2> QED BY <1>1, <2>1, EventEmptied
<1>3. /\ \A j \in DOMAIN events' : Unanswered(events'[j]) => j \in DOMAIN events /\ events'[j] = events[j] /\ j # at
      /\ ~Unanswered(events'[at]) /\ (c # None => Unanswered(events[at]) /\ c \in Conns)
  BY <1>1, <1>2 DEF Unanswered, Opened
<1>4. CASE answer = "later"
  <2>1. UNCHANGED <<pending, peers, stale>> /\ Release(conn) /\ held' = held \cup ({c} \ {None})
    BY <1>4 DEF ProcessConnect
  <2> HIDE DEF c
  <2>2. \A d \in held' : d \in held \/ (d = c /\ Unanswered(events[at])) BY <1>3, <2>1
  <2> QED BY <1>1, <1>2, <1>3, <2>1, <2>2, EventsTakenPlace DEF c
<1>5. CASE answer = "accept" /\ c = None
  <2>1. UNCHANGED <<pending, peers, stale, conn, held>> BY <1>5 DEF ProcessConnect
  <2>2. AskedOnce' /\ Callers' \subseteq Callers \cup held' BY <1>3, <2>1, AskedKept DEF PlaceInv
  <2>3. Callers' \subseteq Callers BY <2>1, <2>2 DEF Callers
  <2>4. ~stale => \A f \in Slots : Entered(fds', f) >= Occupied(f) BY <1>1 DEF PlaceInv, InPlace
  <2>5. \A d \in Conns : Keeps(conn'[d], conn[d]) BY <2>1 DEF Keeps
  <2> HIDE DEF Callers, Joined, Entered, Occupied, c
  <2> QED BY <1>1, <2>1, <2>2, <2>3, <2>4, <2>5, PlaceQuiet
<1>6. CASE answer = "accept" /\ c # None
  <2>1. PICK outcome \in Accepted(c, FALSE) : Take(c, outcome) /\ held' = held /\ Release(conn)
    BY <1>6 DEF ProcessConnect
  <2>2. c \in Callers BY <1>2, <1>3, <1>6 DEF Callers
  <2>3. AskedOnce' /\ Callers' \subseteq Callers \cup held'
    <3> HIDE DEF c
    <3> QED BY <1>3, <2>1, AskedKept DEF PlaceInv
  <2>4. Callers' \subseteq Callers \ {c}
    <3>1. c \notin held /\ \A j \in DOMAIN events : Unanswered(events[j]) /\ events[j].conn = c => j = at
      BY <1>2, <1>3, <1>6 DEF PlaceInv, AskedOnce
    <3> HIDE DEF c
    <3>2. c \notin Callers' BY <1>3, <2>1, <3>1 DEF Callers
    <3>3. held' \subseteq Callers BY <2>1 DEF Callers
    <3> HIDE DEF Callers
    <3> QED BY <2>3, <3>2, <3>3
  <2> HIDE DEF c, Callers
  <2> QED BY <1>1, <2>1, <2>2, <2>3, <2>4, AcceptPlace
<1> QED BY <1>4, <1>5, <1>6

LEMMA AcceptHeldPlace ==
  ASSUME Inv, Next, MapInv, PlaceInv, NEW c \in Conns, NEW temporary \in BOOLEAN, AcceptHeld(c, temporary)
  PROVE  PlaceInv'
<1>1. c \in held /\ held' = held \ {c} /\ UNCHANGED <<handshake, fds, events>> /\ Release(conn)
  BY DEF AcceptHeld
<1>2. PICK outcome \in Accepted(c, temporary) : Take(c, outcome) BY DEF AcceptHeld
<1>3. c \in Callers /\ Callers' \subseteq Callers \ {c} /\ AskedOnce'
  BY <1>1 DEF PlaceInv, AskedOnce, Callers
<1> HIDE DEF Callers
<1> QED BY <1>1, <1>2, <1>3, AcceptPlace

LEMMA FreshFd == FreeFds # {} => NewFd \in FreeFds /\ NewFd \in Slots
<1> SUFFICES ASSUME FreeFds # {} PROVE NewFd \in FreeFds BY DEF FreeFds, Slots
<1>1. FreeFds \subseteq Nat BY DEF FreeFds
<1>2. \E f \in FreeFds : \A g \in FreeFds : f <= g
  <2> HIDE DEF FreeFds
  <2> QED BY <1>1, Least
<1> QED BY <1>2 DEF NewFd

\* A socket gets a descriptor nobody has.
LEMMA DistinctPlaced ==
  ASSUME Inv, PlaceInv, NEW c \in Conns, FreeFds # {}, conn[c].stage \in {"unused", "backlog"}, MapInv,
         \A d \in Conns \ {c} : Keeps(conn'[d], conn[d]), conn'[c].fd = NewFd,
         UNCHANGED pending,
         \A f \in Slots : handshake'[f] = handshake[f] \/ (f = NewFd /\ handshake'[f] = c)
  PROVE  /\ Distinct' /\ OwnSlot' /\ c \notin Shaking \cup Waiting \cup Joined \cup Named
<1>1. c \notin Shaking \cup Waiting \cup Joined \cup Named BY DEF MapInv, Early
<1>2. Distinct' BY FreshFd, DistinctFresh DEF PlaceInv
<1>3. \A d \in Shaking \cup Waiting : conn'[d].fd = conn[d].fd BY <1>1 DEF Keeps, Shaking, Waiting
<1>4. \A f \in Slots : pending'[f] = pending[f] OBVIOUS
<1>5. OwnSlot'
  <2> HIDE DEF Shaking, Waiting
  <2> QED BY <1>3, <1>4, SlotsKept DEF PlaceInv
<1> QED BY <1>1, <1>2, <1>5

LEMMA OpenReferred ==
  ASSUME NEW after \in [Conns -> Socket], Release(after), NEW c \in Conns, conn'[c].stage = "open"
  PROVE  Referred(c)
<1>1. conn'[c] = IF after[c].stage = "open" /\ ~Referred(c) THEN Settled(Closed(after[c])) ELSE after[c]
  BY DEF Release
<1>2. Fades(Settled(Closed(after[c])), after[c]) /\ Closed(after[c]).stage = "closed"
  BY SettledFades DEF Closed, Socket
<1>3. Settled(Closed(after[c])).stage = "closed" BY <1>2 DEF Settled, Unopened
<1> HIDE DEF Referred, Release
<1> QED BY <1>1, <1>3

LEMMA ConnectPlace == ASSUME Inv, Next, MapInv, PlaceInv, NEW c \in Conns, Connect(c) PROVE PlaceInv'
<1>1. /\ conn[c].stage = "unused" /\ FreeFds # {} /\ UNCHANGED <<serverVars, history>>
      /\ \A d \in Conns \ {c} : conn'[d] = conn[d]
      /\ conn'[c].fd = NewFd /\ conn'[c].stage = "dialling"
  BY ConnectShape DEF Inv
<1>2. UNCHANGED <<handshake, pending, peers, fds, events, held, stale>> BY <1>1 DEF serverVars, history
<1>3. Distinct' /\ OwnSlot' /\ c \notin Joined
  <2>1. \A d \in Conns \ {c} : Keeps(conn'[d], conn[d]) BY <1>1 DEF Keeps
  <2> QED BY <1>1, <1>2, <2>1, DistinctPlaced
<1>4. AskedOnce' /\ Callers' \subseteq Callers BY <1>2, AskedSame DEF PlaceInv
<1>5. ASSUME InPlace PROVE InPlace'
  <2>1. \A d \in Joined : conn'[d].stage = conn[d].stage /\ conn'[d].fd = conn[d].fd BY <1>1, <1>3 DEF Joined
  <2>2. \A f \in Slots : Entered(fds', f) >= Occupied(f) BY <1>2, <1>5 DEF InPlace
  <2>3. \A d \in Conns : conn'[d].stage = "open" => conn[d].stage = "open" BY <1>1
  <2> HIDE DEF Callers, Joined, Entered, Occupied
  <2> QED BY <1>2, <1>4, <1>5, <2>1, <2>2, <2>3, InPlaceQuiet
<1> QED BY <1>2, <1>3, <1>4, <1>5 DEF PlaceInv

\* The loop takes a connection, which enters the handshake or is closed at once.
LEMMA AcceptSocketPlace == ASSUME Inv, Next, MapInv, PlaceInv, AcceptSocket PROVE PlaceInv'
<1>1. TypeInv /\ fds \in Seq(Entries) BY DEF Inv, TypeInv
<1>2. PICK c \in Conns :
        /\ conn[c].stage = "backlog" /\ FreeFds # {}
        /\ UNCHANGED <<pending, peers, listening, known, events, history>>
        /\ \/ conn' = Placed(c, "leaked") /\ ThrowInLoop /\ UNCHANGED handshake
           \/ /\ handshake' = IF handshake[NewFd] = None THEN [handshake EXCEPT ![NewFd] = c] ELSE handshake
              /\ Release(Placed(c, "open"))
              /\ \/ doing' = "undefined" /\ fds' = Append(fds, Entry(NewFd)) /\ UNCHANGED <<at, left, caller>>
                 \/ Advance(Append(fds, Entry(NewFd)), 1, left - 1)
  BY <1>1, AcceptSocketShape
<1>3. UNCHANGED <<pending, peers, events, held, stale>> BY <1>2 DEF history
<1>4. /\ NewFd \in Slots /\ \A stage \in {"open", "leaked"} :
           /\ Placed(c, stage) \in [Conns -> Socket]
           /\ \A d \in Conns \ {c} : Placed(c, stage)[d] = conn[d]
           /\ Placed(c, stage)[c].stage = stage /\ Placed(c, stage)[c].fd = NewFd
  BY <1>1, <1>2, PlacedType DEF Stages, Slots
<1>5. handshake \in [Slots -> Opened \cup {None}] BY MappedOpened
<1>6. \A f \in Slots : handshake'[f] = handshake[f] \/ (f = NewFd /\ handshake[f] = None /\ handshake'[f] = c)
  BY <1>2, <1>4, <1>5
<1>7. /\ \A d \in Conns \ {c} : Fades(conn'[d], conn[d])
      /\ conn'[c].fd = NewFd /\ conn'[c].stage \in {"leaked", "open", "closed"}
  <2>1. CASE conn' = Placed(c, "leaked") BY <1>4, <2>1 DEF Fades
  <2>2. CASE Release(Placed(c, "open"))
    <3>1. \A d \in Conns : Fades(conn'[d], Placed(c, "open")[d]) BY <1>4, <2>2, Released DEF Fades
    <3> QED BY <1>4, <3>1 DEF Fades
  <2> QED BY <1>2, <2>1, <2>2
<1>8. Distinct' /\ OwnSlot' /\ c \notin Shaking \cup Waiting \cup Joined \cup Named
  <2>1. \A d \in Conns \ {c} : Keeps(conn'[d], conn[d]) BY <1>7, FadesKeeps
  <2> QED BY <1>2, <1>3, <1>6, <1>7, <2>1, DistinctPlaced
<1>9. AskedOnce' /\ Callers' \subseteq Callers BY <1>3, AskedSame DEF PlaceInv
<1>10. /\ Waiting' = Waiting /\ Joined' = Joined /\ Shaking \subseteq Shaking' /\ Named' = Named
       /\ Shaking \cup Waiting \cup Joined \subseteq Conns
  BY <1>3, <1>5, <1>6 DEF Shaking, Waiting, Joined, Named
<1>11. \A d \in Joined : d # c /\ conn'[d].stage = conn[d].stage /\ conn'[d].fd = conn[d].fd
  <2>1. \A d \in Joined : d \in Conns \ {c} BY <1>8, <1>10
  <2>2. CASE conn' = Placed(c, "leaked") BY <1>4, <2>1, <2>2
  <2>3. CASE Release(Placed(c, "open"))
    <3>1. \A d \in Joined : conn'[d] = Placed(c, "open")[d] BY <1>4, <1>10, <2>3, JoinedStay
    <3> QED BY <1>4, <2>1, <3>1
  <2> QED BY <1>2, <2>2, <2>3
<1>12. ASSUME InPlace, conn' = Placed(c, "leaked"), ThrowInLoop, UNCHANGED handshake PROVE InPlace'
  <2>1. \A d \in Conns : conn'[d].stage = "open" => conn[d].stage = "open" BY <1>4, <1>7, <1>12 DEF Fades
  <2>2. \A f \in Slots : Entered(fds', f) >= Occupied(f) BY <1>12, ThrowEntered DEF InPlace
  <2> HIDE DEF Callers, Joined, Entered, Occupied
  <2> QED BY <1>3, <1>9, <1>11, <1>12, <2>1, <2>2, InPlaceQuiet
<1>13. ASSUME InPlace, Release(Placed(c, "open")),
              \/ fds' = Append(fds, Entry(NewFd)) \/ Advance(Append(fds, Entry(NewFd)), 1, left - 1),
              handshake' = IF handshake[NewFd] = None THEN [handshake EXCEPT ![NewFd] = c] ELSE handshake
       PROVE  InPlace'
  <2>1. ASSUME NEW f \in Slots, peers'[f] # None PROVE conn'[peers'[f]].fd = f
    <3>1. peers[f] \in Joined /\ peers'[f] = peers[f] BY <1>3, <2>1, MappedOpened DEF Joined, Opened
    <3> QED BY <1>11, <1>13, <2>1, <3>1 DEF InPlace
  <2>2. ((Callers \cup Waiting) \cap Joined = {})'
    <3>1. (Callers \cup Waiting) \cap Joined = {} BY <1>13 DEF InPlace
    <3> HIDE DEF Waiting, Joined, Callers
    <3> QED BY <1>9, <1>10, <3>1
  <2>3. ASSUME NEW d \in Conns, conn'[d].stage = "open" PROVE d \in Shaking' \cup Waiting' \cup Joined'
    <3>1. CASE d # c
      <4>1. d \in Shaking \cup Waiting \cup Joined BY <1>7, <1>13, <2>3, <3>1 DEF InPlace, Fades
      <4> HIDE DEF Shaking, Waiting, Joined
      <4> QED BY <1>10, <4>1
    <3>2. CASE d = c
      <4>1. Referred(c) BY <1>4, <1>13, <2>3, <3>2, OpenReferred
      <4>2. c \notin Named' BY <1>8, <1>10
      <4>3. \E f \in Slots : c \in {handshake'[f], pending'[f], peers'[f]} BY <4>1, <4>2 DEF Referred, Named
      <4> QED BY <3>2, <4>3 DEF Shaking, Waiting, Joined
    <3> QED BY <3>1, <3>2
  <2>4. ASSUME NEW f \in Slots PROVE Entered(fds', f) >= Occupied(f)'
    <3>1. Entry(NewFd) \in Entries /\ Entry(NewFd).fd = NewFd BY <1>4 DEF Entry, Entries
    <3>2. Entered(fds', f) = Entered(Append(fds, Entry(NewFd)), f) BY <1>13, EnteredAhead
    <3>3. /\ Entered(fds', f) >= Entered(fds, f)
          /\ f = NewFd => Entered(fds', f) = Entered(fds, f) + 1
      BY <1>1, <3>1, <3>2, EnteredMore
    <3>4. Entered(fds, f) \in Nat /\ Entered(fds', f) \in Nat BY EnteredNext
    <3>5. Entered(fds, f) >= Occupied(f) BY <1>13 DEF InPlace
    <3>6. Occupied(f) \in Nat BY DEF Occupied, One
    <3>7. f # NewFd => Occupied(f)' = Occupied(f) BY <1>3, <1>6 DEF Occupied
    <3>8. f = NewFd => Occupied(f)' <= Occupied(f) + 1 /\ Occupied(f)' \in Nat BY <1>3, <1>6 DEF Occupied, One
    <3> HIDE DEF Entered, Occupied
    <3> QED BY <3>3, <3>4, <3>5, <3>6, <3>7, <3>8
  <2>5. WaitsAlone'
    <3> SUFFICES ASSUME NEW f \in Slots, pending'[f] # None, conn'[pending'[f]].stage = "open" PROVE peers'[f] = None
      BY DEF WaitsAlone
    <3>1. pending'[f] = pending[f] /\ peers'[f] = peers[f] /\ pending[f] \in Waiting
      <4>1. pending'[f] = pending[f] /\ peers'[f] = peers[f] /\ pending[f] \in Conns BY <1>3, MappedOpened DEF Opened
      <4> QED BY <4>1 DEF Waiting
    <3>2. pending[f] \in Conns \ {c} BY <1>8, <1>10, <3>1
    <3>3. conn[pending[f]].stage = "open" BY <1>7, <3>1, <3>2 DEF Fades
    <3> QED BY <1>13, <3>1, <3>3 DEF InPlace, WaitsAlone
  <2> HIDE DEF Shaking, Waiting, Joined, Callers, Occupied, Entered, WaitsAlone
  <2> QED BY <2>1, <2>2, <2>3, <2>4, <2>5 DEF InPlace
<1>14. ~stale => InPlace' BY <1>2, <1>12, <1>13 DEF PlaceInv
<1> QED BY <1>3, <1>8, <1>9, <1>14 DEF PlaceInv

LEMMA ConnectingPlace == ASSUME Inv, Next, MapInv, PlaceInv, Connecting PROVE PlaceInv'
<1>1. PICK c \in Conns : \E r \in Socket :
           /\ conn[c].stage = "dialling" /\ r.fd = conn[c].fd /\ conn' = [conn EXCEPT ![c] = r]
           /\ UNCHANGED <<handshake, pending, events, held, stale>>
           /\ Fails(c, r) \/ Meets(c, r)
  BY ConnectingShape
<1>2. PICK r \in Socket :
           /\ conn[c].stage = "dialling" /\ r.fd = conn[c].fd /\ conn' = [conn EXCEPT ![c] = r]
           /\ UNCHANGED <<handshake, pending, events, held, stale>>
           /\ Fails(c, r) \/ Meets(c, r)
  BY <1>1
<1>3. conn \in [Conns -> Socket] /\ fds \in Seq(Entries) BY DEF Inv, TypeInv
<1>4. conn'[c] = r /\ \A d \in Conns \ {c} : conn'[d] = conn[d] BY <1>2, <1>3
<1>5. c \notin Shaking \cup Waiting \cup Joined \cup Named BY <1>2 DEF MapInv, Early
<1>6. conn[c].fd \in Slots /\ Entry(conn[c].fd) \in Entries /\ Entry(conn[c].fd).fd = conn[c].fd
  BY <1>3 DEF Socket, Entry, Entries
<1>7. \A d \in Conns : Keeps(conn'[d], conn[d]) BY <1>2, <1>4 DEF Keeps, Holds
<1>8. AskedOnce' /\ Callers' \subseteq Callers BY <1>2, AskedSame DEF PlaceInv
<1>9. \A d \in Joined : conn'[d] = conn[d] /\ d \in Conns BY <1>4, <1>5 DEF Joined
<1>10. \A f : /\ Entered(Append(fds, Entry(conn[c].fd)), f) >= Entered(fds, f)
              /\ f = conn[c].fd => Entered(Append(fds, Entry(conn[c].fd)), f) = Entered(fds, f) + 1
  BY <1>3, <1>6, EnteredMore
<1>11. \A f : Entered(fds, f) \in Nat /\ Entered(fds', f) \in Nat BY EnteredNext
<1>12. \A f : Occupied(f) \in Nat BY DEF Occupied, One
<1>13. CASE Fails(c, r)
  <2>1. /\ UNCHANGED peers /\ r.stage = "closed"
        /\ fds' = fds \/ fds' = Append(fds, Entry(conn[c].fd))
    BY <1>13 DEF Fails
  <2>2. ASSUME ~stale PROVE \A f \in Slots : Entered(fds', f) >= Occupied(f)
    <3>1. \A f \in Slots : Entered(fds, f) >= Occupied(f) BY <2>2 DEF PlaceInv, InPlace
    <3>2. \A f : Entered(fds', f) >= Entered(fds, f)
      <4>1. CASE fds' = fds
        <5> HIDE DEF Entered
        <5> QED BY <1>11, <4>1
      <4>2. CASE fds' = Append(fds, Entry(conn[c].fd)) BY <1>10, <4>2
      <4> QED BY <2>1, <4>1, <4>2
    <3> HIDE DEF Entered, Occupied
    <3> QED BY <1>11, <1>12, <3>1, <3>2
  <2>3. \A d \in Conns : conn'[d].stage = "open" => conn[d].stage = "open" BY <1>4, <2>1
  <2> HIDE DEF Callers, Joined, Entered, Occupied
  <2> QED BY <1>2, <1>7, <1>8, <1>9, <2>1, <2>2, <2>3, PlaceQuiet
<1>14. CASE Meets(c, r)
  <2>1. /\ peers[conn[c].fd] = None /\ peers' = [peers EXCEPT ![conn[c].fd] = c] /\ r.stage = "open"
        /\ fds' = Append(fds, Entry(conn[c].fd))
    BY <1>14 DEF Meets
  <2>2. \A f \in Slots : peers'[f] = IF f = conn[c].fd THEN c ELSE peers[f] BY <1>6, <2>1, MappedOpened
  <2>3. Distinct' BY <1>7, DistinctKept DEF PlaceInv
  <2>4. OwnSlot'
    <3>1. \A f \in Slots : handshake'[f] = handshake[f] /\ pending'[f] = pending[f] BY <1>2
    <3> QED BY <1>7, <3>1, OwnFade DEF PlaceInv
  <2>5. ASSUME InPlace PROVE InPlace'
    <3>1. /\ Joined' = Joined \cup {c} /\ Waiting' = Waiting /\ Shaking' = Shaking
      <4>1. Joined' = Joined \cup {c} BY <1>6, <2>1, <2>2 DEF Joined
      <4> QED BY <1>2, <4>1 DEF Waiting, Shaking
    <3>2. ASSUME NEW f \in Slots, peers'[f] # None PROVE conn'[peers'[f]].fd = f
      <4>1. CASE f = conn[c].fd BY <1>2, <1>4, <2>1, <2>2, <4>1
      <4>2. CASE f # conn[c].fd
        <5>1. peers'[f] = peers[f] /\ peers[f] \in Conns BY <2>2, <3>2, <4>2, MappedOpened DEF Opened
        <5>2. peers[f] \in Joined BY <5>1 DEF Joined
        <5> QED BY <1>9, <2>5, <3>2, <5>1, <5>2 DEF InPlace
      <4> QED BY <4>1, <4>2
    <3>3. ((Callers \cup Waiting) \cap Joined = {})'
      <4>1. (Callers \cup Waiting) \cap Joined = {} BY <2>5 DEF InPlace
      <4>2. Callers \subseteq Named BY DEF Callers, Named
      <4> HIDE DEF Shaking, Waiting, Joined, Callers, Named
      <4> QED BY <1>5, <1>8, <3>1, <4>1, <4>2
    <3>4. ASSUME NEW d \in Conns, conn'[d].stage = "open" PROVE d \in Shaking' \cup Waiting' \cup Joined'
      <4>1. CASE d = c BY <3>1, <4>1
      <4>2. CASE d # c
        <5>1. d \in Shaking \cup Waiting \cup Joined BY <1>4, <2>5, <3>4, <4>2 DEF InPlace
        <5> HIDE DEF Shaking, Waiting, Joined
        <5> QED BY <3>1, <5>1
      <4> QED BY <4>1, <4>2
    <3>5. ASSUME NEW f \in Slots PROVE Entered(fds', f) >= Occupied(f)'
      <4>1. /\ Entered(fds', f) >= Entered(fds, f)
            /\ f = conn[c].fd => Entered(fds', f) = Entered(fds, f) + 1
        BY <1>10, <2>1
      <4>2. Entered(fds, f) >= Occupied(f) BY <2>5 DEF InPlace
      <4>3. f # conn[c].fd => Occupied(f)' = Occupied(f) BY <1>2, <2>2 DEF Occupied
      <4>4. f = conn[c].fd => Occupied(f)' = Occupied(f) + 1
        <5>1. c # None OBVIOUS
        <5> QED BY <1>2, <2>1, <2>2, <5>1 DEF Occupied, One
      <4> HIDE DEF Entered, Occupied
      <4> QED BY <1>11, <1>12, <4>1, <4>2, <4>3, <4>4
    <3>6. WaitsAlone'
      <4> SUFFICES ASSUME NEW f \in Slots, pending'[f] # None, conn'[pending'[f]].stage = "open" PROVE peers'[f] = None
        BY DEF WaitsAlone
      <4>1. pending'[f] = pending[f] /\ pending[f] \in Waiting
        <5>1. pending'[f] = pending[f] /\ pending[f] \in Conns BY <1>2, MappedOpened DEF Opened
        <5> QED BY <5>1 DEF Waiting
      <4>2. pending[f] \in Conns \ {c} BY <1>5, <4>1, MappedOpened DEF Opened
      <4>3. conn'[pending[f]] = conn[pending[f]] BY <1>4, <4>2
      <4>4. conn[pending[f]].stage = "open" BY <4>1, <4>3
      <4>5. conn[pending[f]].fd = f BY <4>1 DEF PlaceInv, OwnSlot
      <4>6. f # conn[c].fd
        <5> SUFFICES ASSUME f = conn[c].fd PROVE FALSE OBVIOUS
        <5>1. pending[f] = c BY <1>2, <4>2, <4>4, <4>5 DEF PlaceInv, Distinct, Holds
        <5> QED BY <4>2, <5>1
      <4> QED BY <2>2, <2>5, <4>1, <4>4, <4>6 DEF InPlace, WaitsAlone
    <3> HIDE DEF Shaking, Waiting, Joined, Callers, Occupied, Entered, WaitsAlone
    <3> QED BY <3>2, <3>3, <3>4, <3>5, <3>6 DEF InPlace
  <2> QED BY <1>2, <1>8, <2>3, <2>4, <2>5 DEF PlaceInv
<1> QED BY <1>2, <1>13, <1>14

LEMMA PlaceStarts == Init => PlaceInv
<1> SUFFICES ASSUME Init PROVE PlaceInv OBVIOUS
<1>1. \A c \in Conns : conn[c].stage = "unused" /\ c # None BY DEF Init, Unopened
<1>2. \A f \in Slots : handshake[f] = None /\ pending[f] = None /\ peers[f] = None BY DEF Init
<1>3. Distinct /\ OwnSlot /\ AskedOnce BY <1>1, <1>2 DEF Distinct, OwnSlot, AskedOnce, Holds, Init
<1>4. Joined = {} /\ \A f \in Slots : Occupied(f) = 0 BY <1>1, <1>2 DEF Joined, Occupied, One
<1>5. \A f \in Slots : Entered(fds, f) \in Nat
  <2>1. fds = <<>> /\ <<>> \in Seq(Entries) BY DEF Init
  <2> QED BY <2>1, EnteredType
<1> HIDE DEF Joined, Occupied, Entered
<1>6. InPlace BY <1>1, <1>2, <1>4, <1>5 DEF InPlace, WaitsAlone
<1> QED BY <1>3, <1>6 DEF PlaceInv

LEMMA PlaceStep == Inv /\ MapInv /\ PlaceInv /\ [Next]_vars => PlaceInv'
<1> SUFFICES ASSUME Inv, MapInv, PlaceInv, [Next]_vars PROVE PlaceInv' OBVIOUS
<1>1. CASE UNCHANGED vars
  <2>1. UNCHANGED <<conn, handshake, pending, peers, fds, events, held, stale>>
    BY <1>1 DEF vars, serverVars, history
  <2> QED BY <2>1 DEF PlaceInv, Distinct, OwnSlot, AskedOnce, InPlace, WaitsAlone, Callers, Shaking, Waiting, Joined, Occupied
<1>2. CASE Next
  <2>1. ASSUME Step PROVE PlaceInv'
    BY <1>2, <2>1, AcceptSocketPlace, PollPeerPlace, PollPendingPlace, PollHandshakePlace, IdlesPlace,
       ProcessRequestPlace, TakenPlace, ConnectingPlace, ProcessConnectPlace DEF Step, Idles
  <2>2. ASSUME Application PROVE PlaceInv'
    BY <1>2, <2>2, IdlesPlace, ConnectPlace, AcceptHeldPlace DEF Application, Idles
  <2> QED BY <1>2, <2>1, <2>2, NetworkPlace DEF Next
<1> QED BY <1>1, <1>2

LEMMA PlacedOnce == Inv /\ MapInv /\ PlaceInv => NobodyForgotten
<1> SUFFICES ASSUME Inv, MapInv, PlaceInv, ~stale, NEW c \in Conns, conn[c].stage = "open"
             PROVE  /\ \E i \in DOMAIN fds : fds[i].fd = conn[c].fd
                    /\ Cardinality({map \in {"handshake", "pending", "peers"} :
                         CASE map = "handshake" -> handshake[conn[c].fd] = c
                           [] map = "pending" -> pending[conn[c].fd] = c
                           [] map = "peers" -> peers[conn[c].fd] = c}) = 1
  BY DEF NobodyForgotten
<1> DEFINE F == conn[c].fd
<1>1. F \in Slots /\ c # None /\ fds \in Seq(Entries) BY DEF Inv, TypeInv, Socket
<1>2. /\ c \in Shaking <=> handshake[F] = c
      /\ c \in Waiting <=> pending[F] = c
      /\ c \in Joined <=> peers[F] = c
  BY <1>1 DEF PlaceInv, OwnSlot, InPlace, Shaking, Waiting, Joined
<1>3. /\ c \in Shaking \cup Waiting \cup Joined /\ Shaking \cap (Waiting \cup Joined) = {} /\ Waiting \cap Joined = {}
  BY DEF PlaceInv, InPlace, MapInv
<1> HIDE DEF F
<1>4. Entered(fds, F) >= Occupied(F) /\ Entered(fds, F) \in Nat BY <1>1, EnteredType DEF PlaceInv, InPlace
<1>5. Occupied(F) >= 1
  <2>1. handshake[F] = c \/ pending[F] = c \/ peers[F] = c
    <3> HIDE DEF Shaking, Waiting, Joined
    <3> QED BY <1>2, <1>3
  <2> QED BY <1>1, <2>1 DEF Occupied, One
<1>6. \E i \in DOMAIN fds : fds[i].fd = F
  <2> SUFFICES Entered(fds, F) >= 1 BY <1>1, EnteredType
  <2>1. Occupied(F) \in Nat BY DEF Occupied, One
  <2> HIDE DEF Entered, Occupied
  <2> QED BY <1>4, <1>5, <2>1
<1>7. ASSUME NEW h \in BOOLEAN, NEW p \in BOOLEAN, NEW q \in BOOLEAN,
             h \/ p \/ q, ~(h /\ p), ~(h /\ q), ~(p /\ q)
      PROVE  Cardinality({map \in {"handshake", "pending", "peers"} :
               CASE map = "handshake" -> h [] map = "pending" -> p [] map = "peers" -> q}) = 1
  <2> DEFINE maps == {map \in {"handshake", "pending", "peers"} :
                        CASE map = "handshake" -> h [] map = "pending" -> p [] map = "peers" -> q}
  <2>1. maps = {"handshake"} \/ maps = {"pending"} \/ maps = {"peers"} BY <1>7
  <2> HIDE DEF maps
  <2>2. Cardinality(maps) = 1 BY <2>1, FS_Singleton
  <2> QED BY <2>2 DEF maps
<1>8. /\ handshake[F] = c \/ pending[F] = c \/ peers[F] = c
      /\ ~(handshake[F] = c /\ pending[F] = c) /\ ~(handshake[F] = c /\ peers[F] = c)
      /\ ~(pending[F] = c /\ peers[F] = c)
  <2> HIDE DEF Shaking, Waiting, Joined
  <2> QED BY <1>2, <1>3
<1>9. Cardinality({map \in {"handshake", "pending", "peers"} :
         CASE map = "handshake" -> (handshake[F] = c) [] map = "pending" -> (pending[F] = c)
           [] map = "peers" -> (peers[F] = c)}) = 1
  BY <1>7, <1>8
<1> QED BY <1>6, <1>9 DEF F

\* A connection that is open is in exactly one of the three maps, under its own
\* descriptor, and the loop polls that descriptor: whatever delete_move does to the
\* order of m_fds, whichever descriptors the system gives out again, and whenever the
\* application answers - as long as it accepts no peer that has left (Server.cpp:
\* poll_peers, poll_pending_peers, poll_handshake_peers, accept_peer).
THEOREM NobodyForgottenAlways == Spec => []NobodyForgotten
<1>1. Init => Inv /\ MapInv /\ PlaceInv BY StartsWell, MapsStart, PlaceStarts
<1>2. Inv /\ MapInv /\ PlaceInv /\ [Next]_vars => (Inv /\ MapInv /\ PlaceInv)' BY StepsWell, MapsStep, PlaceStep
<1>3. Inv /\ MapInv /\ PlaceInv => NobodyForgotten BY PlacedOnce
<1> QED BY <1>1, <1>2, <1>3, PTL DEF Spec
=============================================================================
