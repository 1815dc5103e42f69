-------------------------- MODULE PeerSessionProofs --------------------------
(***************************************************************************)
(* Two peers that send, fetch and list, for any calls, ids, files, packets *)
(* and pages.                                                              *)
(***************************************************************************)
EXTENDS PeerSession, SequenceTheorems, FiniteSetTheorems, WellFoundedInduction, TLAPS

USE MaxIdAssumption, FinalAssumption, RequestsAssumption
DEF MaxIdAssumption, FinalAssumption, RequestsAssumption

-----------------------------------------------------------------------------
\* The burst of packets: a function over the numbers up to n.

\* A nonempty set of numbers has a least one.
LEMMA LeastNumber ==
  ASSUME NEW T, T \subseteq Nat, T # {}
  PROVE  \E x \in T : \A y \in T : x <= y
<1>1. PICK x \in T : \A y \in T : <<y, x>> \notin OpToRel(<, Nat)
  BY WFMin, NatLessThanWellFounded, Zenon
<1>2. \A y \in T : ~(y < x)
  BY <1>1 DEF OpToRel
<1> QED BY <1>2

\* g is the peer P before and after each of n packets of the upload id.
Sent(g, P, id, n) ==
  /\ g[0] = P /\ g[n] = SendPackets(P, id, n)
  /\ \A i \in 1 .. n : g[i] = SendPacket(g[i - 1], id)

LEMMA Bursts ==
  ASSUME NEW P, NEW id, NEW n \in Nat
  PROVE  \E g : Sent(g, P, id, n)
<1> DEFINE Steps(g, k) == g = [i \in 0 .. k |-> IF i = 0 THEN P ELSE SendPacket(g[i - 1], id)]
           bad == {k \in Nat : ~\E g : Steps(g, k)}
<1>1. bad = {}
  <2> SUFFICES ASSUME bad # {} PROVE FALSE OBVIOUS
  <2>1. PICK k \in bad : \A j \in bad : k <= j
    <3>1. bad \subseteq Nat OBVIOUS
    <3> HIDE DEF bad
    <3> QED BY <3>1, LeastNumber
  <2>2. k # 0
    <3>1. Steps([i \in 0 .. 0 |-> P], 0) OBVIOUS
    <3> QED BY <3>1
  <2>3. PICK g : Steps(g, k - 1) BY <2>1, <2>2
  <2> DEFINE h == [i \in 0 .. k |-> IF i < k THEN g[i] ELSE SendPacket(g[k - 1], id)]
  <2>4. \A i \in 0 .. k : h[i] = IF i = 0 THEN P ELSE SendPacket(h[i - 1], id)
    <3> TAKE i \in 0 .. k
    <3> HIDE DEF Steps
    <3>1. \A j \in 0 .. k - 1 : g[j] = IF j = 0 THEN P ELSE SendPacket(g[j - 1], id) BY <2>3 DEF Steps
    <3>2. CASE i = k
      <4>1. h[k] = SendPacket(g[k - 1], id) /\ h[k - 1] = g[k - 1] BY <2>1, <2>2
      <4> QED BY <2>2, <3>2, <4>1
    <3>3. CASE i = 0 BY <2>1, <2>2, <3>1, <3>3
    <3>4. CASE i # k /\ i # 0
      <4>1. h[i] = g[i] /\ h[i - 1] = g[i - 1] /\ i \in 0 .. k - 1 BY <2>1, <3>4
      <4> QED BY <3>1, <3>4, <4>1
    <3> QED BY <3>2, <3>3, <3>4
  <2>5. Steps(h, k)
    <3>1. h = [i \in 0 .. k |-> h[i]] OBVIOUS
    <3> HIDE DEF h
    <3> QED BY <2>4, <3>1
  <2> QED BY <2>1, <2>5
<1>2. \E g : Steps(g, n) BY <1>1
<1> DEFINE after == CHOOSE g : Steps(g, n)
<1>3. Steps(after, n) BY <1>2, Zenon
<1>4. after[n] = SendPackets(P, id, n) BY DEF SendPackets
<1> HIDE DEF after
<1>5. \A i \in 0 .. n : after[i] = IF i = 0 THEN P ELSE SendPacket(after[i - 1], id) BY <1>3
<1>6. after[0] = P /\ \A i \in 1 .. n : after[i] = SendPacket(after[i - 1], id) BY <1>5
<1> QED BY <1>4, <1>6 DEF Sent
-----------------------------------------------------------------------------
\* Types.

Exceptions == {"nothing", "no slot", "no upload", "no page"}
Asked      == [id : Ids, req : Requests]
Transferred == [live : BOOLEAN, file : Files, left : 0 .. Packets + Pages, keep : BOOLEAN]

\* A peer within a call.
PeerTypes == [
  next : Ids, slots : Ids, hung : BOOLEAN, out : [Ids -> Messages], in : [Ids -> Messages],
  uploads : Transfers, downloads : Transfers, lists : Transfers, listings : Transfers,
  asked : SUBSET Asked, written : Seq(OnWire), thrown : Exceptions]

LEMMA Assumed ==
  /\ Packets \in Nat \ {0} /\ Pages \in Nat \ {0} /\ Burst \in Nat \ {0} /\ MaxBatch \in Nat \ {0}
  /\ Requests = [code : RequestCodes, file : Files, ref : Ids \cup {NoRef}, last : BOOLEAN]
  /\ {"STATUS_OK", "UP_TO_DATE", "FILE_NOT_FOUND", "INVALID_REQUEST_ID", "FORBIDDEN"} \subseteq Statuses
  /\ \A c \in UNION Scripts : c.by \in Peers /\ c.file \in Files
                              /\ c.call \in {"send_file", "receive_file", "list_files"}
  /\ Files # {}
<1>1. Files # {}
  <2> SUFFICES ASSUME Files = {} PROVE FALSE OBVIOUS
  <2>1. PICK r \in Requests : TRUE OBVIOUS
  <2>2. r.file \in Files BY <2>1, SessionAssumption DEF SessionAssumption
  <2> QED BY <2>2
<1> QED BY <1>1, SessionAssumption DEF SessionAssumption, Statuses

\* The other peer.
LEMMA Two ==
  ASSUME NEW p \in Peers
  PROVE  /\ Other(p) \in Peers /\ Other(p) # p /\ Other(Other(p)) = p
         /\ \A q \in Peers : q = p \/ q = Other(p)
<1>1. PICK a, b \in Peers : a # b /\ Peers = {a, b} BY SessionAssumption DEF SessionAssumption
<1>2. Other(a) = b /\ Other(b) = a BY <1>1 DEF Other
<1> QED BY <1>1, <1>2

LEMMA RequestType ==
  ASSUME NEW code \in RequestCodes, NEW f \in Files, NEW ref \in Ids \cup {NoRef}, NEW last \in BOOLEAN
  PROVE  Req(code, f, ref, last) \in Requests
BY Assumed DEF Req

LEMMA MessageType ==
  /\ NoMessage \in Messages
  /\ \A r \in Requests : Message(r) \in Messages
  /\ \A m \in Messages, status \in Statuses : [m EXCEPT !.status = status] \in Messages
BY DEF NoMessage, Message, Messages, Statuses

LEMMA TransferType ==
  /\ NoTransfer \in Transferred
  /\ \A f \in Files, n \in 0 .. Packets + Pages : Transfer(f, n) \in Transferred
  /\ \A old, t \in Transferred : Emplaced(old, t) \in Transferred
  /\ \A t \in Transferred, r \in Requests : Taken(t, r) \in Transferred
  /\ Transfers = [Ids -> Transferred]
  /\ 1 \in 0 .. Packets + Pages /\ Packets \in 0 .. Packets + Pages /\ Pages \in 0 .. Packets + Pages
<1> DEFINE some == 0 .. Packets + Pages
<1>1. 0 \in some /\ 1 \in some /\ Packets \in some /\ Pages \in some
  <2>1. Packets \in Nat \ {0} /\ Pages \in Nat \ {0} BY Assumed
  <2> QED BY ONLY <2>1
<1>2. (CHOOSE f \in Files : TRUE) \in Files BY Assumed
<1>3. Transferred = [live : BOOLEAN, file : Files, left : some, keep : BOOLEAN] BY DEF Transferred
<1> HIDE DEF some
<1>4. NoTransfer \in Transferred BY <1>1, <1>2, <1>3 DEF NoTransfer
<1>5. \A f \in Files, n \in some : Transfer(f, n) \in Transferred BY <1>3, <1>4 DEF Transfer
<1>6. \A t \in Transferred, r \in Requests : Taken(t, r) \in Transferred BY <1>1, <1>3 DEF Taken
<1> QED BY <1>1, <1>4, <1>5, <1>6, Zenon DEF Emplaced, Transfers, Transferred, some

LEMMA SuccType == \A id \in Ids : Succ(id) \in Ids
BY DEF Ids, Succ

\* One more id than slots.
LEMMA IdsFinite ==
  /\ IsFiniteSet(Ids) /\ Cardinality(Ids) = MaxId + 1
  /\ \A msgs : IsFiniteSet(Open(msgs)) /\ Cardinality(Open(msgs)) \in Nat
<1>1. IsFiniteSet(Ids) /\ Cardinality(Ids) = MaxId + 1
  BY FS_Interval DEF Ids
<1>2. \A msgs : Open(msgs) \in SUBSET Ids
  BY DEF Open
<1> QED BY <1>1, <1>2, FS_Subset, FS_CardinalityType

\* As long as an id is left, the search ends at one.
LEMMA Found ==
  ASSUME NEW P \in PeerTypes
  PROVE  NewId(P) \in Ids /\ (Open(P.out) # Ids => Finds(P.out, P.next, NewId(P)))
<1>1. P.next \in Ids /\ 0 \in Ids BY DEF PeerTypes, Ids
<1>2. CASE Open(P.out) = Ids
  <2>1. NewId(P) \in Ids BY <1>1, <1>2 DEF NewId
  <2> QED BY <1>2, <2>1
<1>3. CASE Open(P.out) # Ids
  <2> DEFINE ways == {Distance(P.next, id) : id \in Ids \ Open(P.out)}
  <2>1. ways \subseteq Nat BY <1>1 DEF Distance, Ids
  <2>2. ways # {} BY <1>3 DEF Open
  <2> HIDE DEF ways
  <2>3. PICK way \in ways : \A other \in ways : way <= other BY <2>1, <2>2, LeastNumber
  <2>4. PICK id \in Ids \ Open(P.out) : way = Distance(P.next, id) BY <2>3 DEF ways
  <2>5. ASSUME NEW other \in Ids, Distance(P.next, other) < way PROVE other \in Open(P.out)
    <3> SUFFICES ASSUME other \notin Open(P.out) PROVE FALSE OBVIOUS
    <3>1. Distance(P.next, other) \in ways BY DEF ways
    <3>2. way <= Distance(P.next, other) /\ way \in Nat /\ Distance(P.next, other) \in Nat
      BY <2>1, <2>3, <3>1
    <3> QED BY <2>5, <3>2
  <2>6. Finds(P.out, P.next, id) BY <2>4, <2>5 DEF Finds
  <2> QED BY <1>3, <2>4, <2>6 DEF NewId
<1> QED BY <1>2, <1>3

\* A packet, a page and the answer to a RECEIVE_FILE name what they belong to.
Plain    == {r \in Requests : r.ref \in Ids /\ r.code \in {"DATA_PACKET", "FILE_LIST", "SEND_FILE"}}
Referred == {r \in Requests : r.code \in {"DATA_PACKET", "FILE_LIST"} => r.ref \in Ids}

\* What is under way to a peer whose other may send the requests of G.
Wired(G) == [type : {"REQUEST"}, id : Ids, req : G] \cup [type : {"RESPONSE"}, id : Ids, status : Statuses]

\* A peer that may send the requests of G.
Typed(P, G) ==
  /\ P \in PeerTypes
  /\ \A id \in Ids : P.out[id].status # Absent => P.out[id].req \in G
  /\ P.written \in Seq(Wired(G))

Allowed(G) == Plain \subseteq G /\ G \subseteq Referred

LEMMA SendRequestTyped ==
  ASSUME NEW G, Allowed(G), NEW P, Typed(P, G), NEW r \in G
  PROVE  /\ Typed(SendRequest(P, r), G)
         /\ SendRequest(P, r).slots = P.slots \/ SendRequest(P, r).slots = P.slots - 1
         /\ SendRequest(P, r).uploads = P.uploads /\ SendRequest(P, r).lists = P.lists
         /\ SendRequest(P, r).asked = P.asked /\ SendRequest(P, r).in = P.in
<1> DEFINE m == [type |-> "REQUEST", id |-> NewId(P), req |-> r]
           Q == SendRequest(P, r)
<1>1. P \in PeerTypes /\ P.out \in [Ids -> Messages] /\ P.written \in Seq(OnWire) /\ P.slots \in Ids
  BY DEF Typed, PeerTypes
<1>2. r \in Requests BY DEF Allowed, Referred
<1>3. NewId(P) \in Ids BY <1>1, Found
<1>4. m \in OnWire BY <1>2, <1>3 DEF OnWire
<1>0. P.slots > 0 => P.slots # 0 BY <1>1 DEF Ids
<1>5. CASE P.slots = 0
  <2>1. Q = [P EXCEPT !.thrown = "no slot"] BY <1>5 DEF SendRequest
  <2> HIDE DEF Q
  <2>2. /\ Q \in PeerTypes /\ Q.slots = P.slots /\ Q.uploads = P.uploads /\ Q.lists = P.lists
        /\ Q.asked = P.asked /\ Q.in = P.in /\ Q.out = P.out /\ Q.written = P.written
    BY <1>1, <2>1 DEF PeerTypes, Exceptions
  <2>3. Typed(Q, G) BY <2>2 DEF Typed
  <2> QED BY <2>2, <2>3 DEF Q
<1>6. CASE P.slots > 0 /\ Open(P.out) = Ids
  <2>1. Q = [P EXCEPT !.slots = @ - 1, !.hung = TRUE] BY <1>0, <1>6 DEF SendRequest
  <2>2. P.slots - 1 \in Ids BY <1>1, <1>6 DEF Ids
  <2> HIDE DEF Q
  <2>3. /\ Q \in PeerTypes /\ Q.slots = P.slots - 1 /\ Q.uploads = P.uploads /\ Q.lists = P.lists
        /\ Q.asked = P.asked /\ Q.in = P.in /\ Q.out = P.out /\ Q.written = P.written
    BY <1>1, <2>1, <2>2 DEF PeerTypes
  <2>4. Typed(Q, G) BY <2>3 DEF Typed
  <2> QED BY <2>3, <2>4 DEF Q
<1>7. CASE P.slots > 0 /\ Open(P.out) # Ids
  <2>1. Q = [P EXCEPT !.slots = @ - 1, !.next = Succ(NewId(P)), !.out[NewId(P)] = Message(r),
                      !.written = Append(@, m)]
    BY <1>0, <1>7, Zenon DEF SendRequest
  <2>2. P.slots - 1 \in Ids BY <1>1, <1>7 DEF Ids
  <2>3. Succ(NewId(P)) \in Ids /\ Message(r) \in Messages /\ Append(P.written, m) \in Seq(OnWire)
    BY <1>1, <1>2, <1>3, <1>4, SuccType, MessageType
  <2> HIDE DEF Q, m
  <2>4. /\ Q \in PeerTypes /\ Q.slots = P.slots - 1 /\ Q.uploads = P.uploads /\ Q.lists = P.lists
        /\ Q.asked = P.asked /\ Q.in = P.in /\ Q.written = Append(P.written, m)
        /\ Q.out = [P.out EXCEPT ![NewId(P)] = Message(r)]
    BY <1>1, <2>1, <2>2, <2>3 DEF PeerTypes
  <2>5. \A id \in Ids : Q.out[id].status # Absent => Q.out[id].req \in G
    BY <1>1, <2>4 DEF Typed, Message
  <2>6. Q.written \in Seq(Wired(G))
    <3>1. P.written \in Seq(Wired(G)) BY DEF Typed
    <3>2. m \in Wired(G) BY <1>3 DEF m, Wired
    <3> QED BY <2>4, <3>1, <3>2
  <2>7. Typed(Q, G) BY <2>4, <2>5, <2>6 DEF Typed
  <2> QED BY <2>4, <2>7 DEF Q
<1>8. P.slots \in Nat BY <1>1 DEF Ids
<1> QED BY <1>5, <1>6, <1>7, <1>8

LEMMA SendReplyTyped ==
  ASSUME NEW G, NEW P, Typed(P, G), NEW id \in Ids, NEW status \in Statuses
  PROVE  /\ Typed(SendReply(P, id, status), G)
         /\ SendReply(P, id, status).uploads = P.uploads /\ SendReply(P, id, status).lists = P.lists
<1> DEFINE m == [type |-> "RESPONSE", id |-> id, status |-> status]
           Q == SendReply(P, id, status)
<1>1. P \in PeerTypes /\ P.written \in Seq(OnWire) /\ P.in \in [Ids -> Messages] BY DEF Typed, PeerTypes
<1>2. m \in OnWire BY DEF OnWire
<1>3. Q = [P EXCEPT !.in[id].status = status, !.written = Append(@, m)] BY DEF SendReply
<1>4. [P.in[id] EXCEPT !.status = status] \in Messages /\ Append(P.written, m) \in Seq(OnWire)
  BY <1>1, <1>2, MessageType
<1> HIDE DEF m, Q
<1>5. /\ Q \in PeerTypes /\ Q.uploads = P.uploads /\ Q.lists = P.lists /\ Q.out = P.out
      /\ Q.written = Append(P.written, m)
  BY <1>1, <1>3, <1>4 DEF PeerTypes
<1>6. Q.written \in Seq(Wired(G))
  <2>1. P.written \in Seq(Wired(G)) BY DEF Typed
  <2>2. m \in Wired(G) BY DEF m, Wired
  <2> QED BY <1>5, <2>1, <2>2
<1>7. Typed(Q, G) BY <1>5, <1>6 DEF Typed
<1> QED BY <1>5, <1>7 DEF Q

LEMMA SettleTyped ==
  ASSUME NEW G, NEW P, Typed(P, G), NEW id \in Ids, NEW status \in Statuses,
         P.out[id].status # Absent
  PROVE  /\ Typed(Settle(P, id, status), G)
         /\ Settle(P, id, status).uploads = P.uploads /\ Settle(P, id, status).lists = P.lists
         /\ Settle(P, id, status).written = P.written /\ Settle(P, id, status).in = P.in
<1> DEFINE Q == Settle(P, id, status)
<1>1. P \in PeerTypes /\ P.out \in [Ids -> Messages] /\ P.slots \in Ids BY DEF Typed, PeerTypes
<1>2. SlotsAfterReply(P.slots, P.out[id].status, status) \in Ids BY <1>1, SuccType DEF SlotsAfterReply
<1>3. [P.out[id] EXCEPT !.status = status] \in Messages /\ [P.out[id] EXCEPT !.status = status].req = P.out[id].req
  BY <1>1, MessageType DEF Messages
<1>4. Q = [P EXCEPT !.out[id].status = status, !.slots = SlotsAfterReply(P.slots, P.out[id].status, status)]
  BY DEF Settle
<1> HIDE DEF Q
<1>5. /\ Q \in PeerTypes /\ Q.uploads = P.uploads /\ Q.lists = P.lists /\ Q.written = P.written
      /\ Q.out = [P.out EXCEPT ![id].status = status] /\ Q.in = P.in
  BY <1>1, <1>2, <1>3, <1>4 DEF PeerTypes
<1>6. \A other \in Ids : Q.out[other].status # Absent => Q.out[other].req \in G
  BY <1>1, <1>3, <1>5 DEF Typed
<1>7. Typed(Q, G) BY <1>5, <1>6 DEF Typed
<1> QED BY <1>5, <1>7 DEF Q

\* Q is P but for its transfers and the requests it has received.
SameQueue(P, Q) ==
  /\ Q \in PeerTypes
  /\ Q.next = P.next /\ Q.slots = P.slots /\ Q.hung = P.hung /\ Q.out = P.out
  /\ Q.asked = P.asked /\ Q.written = P.written /\ Q.thrown = P.thrown

LEMMA SameTyped ==
  ASSUME NEW G, NEW P, Typed(P, G), NEW Q, SameQueue(P, Q)
  PROVE  Typed(Q, G)
BY DEF Typed, SameQueue

LEMMA SameAgain ==
  ASSUME NEW P, NEW Q, NEW R, SameQueue(P, Q), SameQueue(Q, R)
  PROVE  SameQueue(P, R)
BY DEF SameQueue

LEMMA UpdateSame ==
  ASSUME NEW P \in PeerTypes, NEW t \in Transfers
  PROVE  /\ SameQueue(P, P)
         /\ SameQueue(P, [P EXCEPT !.uploads = t]) /\ SameQueue(P, [P EXCEPT !.downloads = t])
         /\ SameQueue(P, [P EXCEPT !.lists = t]) /\ SameQueue(P, [P EXCEPT !.listings = t])
<1>1. SameQueue(P, P) BY DEF SameQueue
<1>2. SameQueue(P, [P EXCEPT !.uploads = t]) BY DEF SameQueue, PeerTypes
<1>3. SameQueue(P, [P EXCEPT !.downloads = t]) BY DEF SameQueue, PeerTypes
<1>4. SameQueue(P, [P EXCEPT !.lists = t]) BY DEF SameQueue, PeerTypes
<1>5. SameQueue(P, [P EXCEPT !.listings = t]) BY DEF SameQueue, PeerTypes
<1> QED BY <1>1, <1>2, <1>3, <1>4, <1>5

LEMMA ReceivedSame ==
  ASSUME NEW P \in PeerTypes, NEW id \in Ids, NEW r \in Requests
  PROVE  /\ SameQueue(P, [P EXCEPT !.in[id] = Message(r)])
         /\ [P EXCEPT !.in[id] = Message(r)].in = [P.in EXCEPT ![id] = Message(r)]
<1>1. Message(r) \in Messages BY MessageType
<1> QED BY <1>1 DEF SameQueue, PeerTypes

LEMMA UpdateTyped ==
  ASSUME NEW G, NEW P, Typed(P, G), NEW t \in Transfers
  PROVE  /\ Typed([P EXCEPT !.uploads = t], G) /\ Typed([P EXCEPT !.downloads = t], G)
         /\ Typed([P EXCEPT !.lists = t], G) /\ Typed([P EXCEPT !.listings = t], G)
<1>1. P \in PeerTypes BY DEF Typed
<1> QED BY <1>1, UpdateSame, SameTyped

\* An exception changes nothing else.
LEMMA ThrownTyped ==
  ASSUME NEW G, NEW P, Typed(P, G), NEW e \in Exceptions
  PROVE  Typed([P EXCEPT !.thrown = e], G) /\ [P EXCEPT !.thrown = e].thrown = e
<1> DEFINE Q == [P EXCEPT !.thrown = e]
<1>1. P \in PeerTypes BY DEF Typed
<1>2. Q \in PeerTypes /\ Q.out = P.out /\ Q.written = P.written /\ Q.thrown = e BY <1>1 DEF PeerTypes
<1> HIDE DEF Q
<1>3. Typed(Q, G) BY <1>2 DEF Typed
<1> QED BY <1>2, <1>3 DEF Q

\* The next packet of an upload, and what is left of it then.
LEMMA PacketSent ==
  ASSUME NEW G, Allowed(G), NEW P, Typed(P, G), NEW id \in Ids, P.uploads[id].left > 0
  PROVE  LET r == Req("DATA_PACKET", P.uploads[id].file, id, P.uploads[id].left = 1)
             fewer == [P.uploads EXCEPT ![id].left = @ - 1]
         IN  /\ r \in G /\ r.code = "DATA_PACKET"
             /\ fewer \in Transfers /\ fewer[id].left = P.uploads[id].left - 1
<1> DEFINE fewer == [P.uploads EXCEPT ![id].left = @ - 1]
           r == Req("DATA_PACKET", P.uploads[id].file, id, P.uploads[id].left = 1)
<1>1. P.uploads \in [Ids -> Transferred] BY TransferType DEF Typed, PeerTypes
<1>2. P.uploads[id] \in Transferred BY <1>1
<1>3. r \in Requests /\ r.ref = id /\ r.code = "DATA_PACKET"
  BY <1>2, RequestType DEF Transferred, RequestCodes, Req
<1>4. r \in G BY <1>3 DEF Allowed, Plain
<1>5. fewer \in Transfers /\ fewer[id].left = P.uploads[id].left - 1
  <2>1. P.uploads[id].left - 1 \in 0 .. Packets + Pages
    <3>1. P.uploads[id].left \in 0 .. Packets + Pages BY <1>2 DEF Transferred
    <3>2. Packets \in Nat /\ Pages \in Nat BY Assumed
    <3> QED BY ONLY <3>1, <3>2, P.uploads[id].left > 0
  <2>2. [P.uploads[id] EXCEPT !.left = @ - 1] \in Transferred BY <1>2, <2>1 DEF Transferred
  <2> QED BY <1>1, <1>2, <2>2, TransferType DEF Transferred
<1> QED BY <1>3, <1>4, <1>5

\* The next page of a listing.
LEMMA PageSent ==
  ASSUME NEW G, Allowed(G), NEW P, Typed(P, G), NEW id \in Ids, P.lists[id].left > 0
  PROVE  LET r == Req("FILE_LIST", P.lists[id].file, id, P.lists[id].left = 1)
             fewer == [P.lists EXCEPT ![id].left = @ - 1]
         IN  r \in G /\ r.code = "FILE_LIST" /\ fewer \in Transfers
<1> DEFINE fewer == [P.lists EXCEPT ![id].left = @ - 1]
           r == Req("FILE_LIST", P.lists[id].file, id, P.lists[id].left = 1)
<1>1. P.lists \in [Ids -> Transferred] BY TransferType DEF Typed, PeerTypes
<1>2. P.lists[id] \in Transferred BY <1>1
<1>3. r \in Requests /\ r.ref = id /\ r.code = "FILE_LIST"
  BY <1>2, RequestType DEF Transferred, RequestCodes, Req
<1>4. r \in G BY <1>3 DEF Allowed, Plain
<1>5. fewer \in Transfers
  <2>1. P.lists[id].left - 1 \in 0 .. Packets + Pages
    <3>1. P.lists[id].left \in 0 .. Packets + Pages BY <1>2 DEF Transferred
    <3>2. Packets \in Nat /\ Pages \in Nat BY Assumed
    <3> QED BY ONLY <3>1, <3>2, P.lists[id].left > 0
  <2>2. [P.lists[id] EXCEPT !.left = @ - 1] \in Transferred BY <1>2, <2>1 DEF Transferred
  <2> QED BY <1>1, <1>2, <2>2, TransferType DEF Transferred
<1> QED BY <1>3, <1>4, <1>5

LEMMA SendPacketTyped ==
  ASSUME NEW G, Allowed(G), NEW P, Typed(P, G), NEW id \in Ids, P.uploads[id].left > 0
  PROVE  /\ Typed(SendPacket(P, id), G)
         /\ SendPacket(P, id).uploads[id].left = P.uploads[id].left - 1
<1> DEFINE fewer == [P.uploads EXCEPT ![id].left = @ - 1]
           r == Req("DATA_PACKET", P.uploads[id].file, id, P.uploads[id].left = 1)
<1>1. r \in G /\ fewer \in Transfers /\ fewer[id].left = P.uploads[id].left - 1 BY PacketSent
<1> HIDE DEF r
<1> DEFINE base == [P EXCEPT !.uploads = fewer]
<1>2. SendPacket(P, id) = SendRequest(base, r) BY DEF SendPacket, r
<1>3. base.uploads = fewer BY DEF Typed, PeerTypes
<1> HIDE DEF fewer
<1>4. Typed(base, G) BY <1>1, UpdateTyped
<1> HIDE DEF base
<1>5. Typed(SendRequest(base, r), G) /\ SendRequest(base, r).uploads = fewer
  BY <1>1, <1>3, <1>4, SendRequestTyped
<1> QED BY <1>1, <1>2, <1>5

LEMMA SendPageTyped ==
  ASSUME NEW G, Allowed(G), NEW P, Typed(P, G), NEW id \in Ids, P.lists[id].left > 0
  PROVE  Typed(SendPage(P, id), G)
<1> DEFINE fewer == [P.lists EXCEPT ![id].left = @ - 1]
           r == Req("FILE_LIST", P.lists[id].file, id, P.lists[id].left = 1)
<1>1. r \in G /\ fewer \in Transfers BY PageSent
<1> HIDE DEF r
<1>2. SendPage(P, id) = SendRequest([P EXCEPT !.lists = fewer], r) BY DEF SendPage, r
<1> HIDE DEF fewer
<1>3. Typed([P EXCEPT !.lists = fewer], G) BY <1>1, UpdateTyped
<1> QED BY <1>1, <1>2, <1>3, SendRequestTyped

LEMMA CreateUploadTyped ==
  ASSUME NEW G, Allowed(G), NEW P, Typed(P, G), NEW f \in Files, NEW ref \in Ids \cup {NoRef},
         Req("SEND_FILE", f, ref, FALSE) \in G
  PROVE  Typed(CreateUpload(P, f, ref), G)
<1> DEFINE r == Req("SEND_FILE", f, ref, FALSE)
           Q == SendRequest(P, r)
           t == [Q.uploads EXCEPT ![NewId(P)] = Emplaced(@, Transfer(f, Packets))]
<1>1. Typed(Q, G)
  <2> HIDE DEF r
  <2> QED BY SendRequestTyped DEF r
<1>2. CreateUpload(P, f, ref) = Q \/ CreateUpload(P, f, ref) = [Q EXCEPT !.uploads = t]
  BY Zenon DEF CreateUpload
<1> HIDE DEF Q
<1>3. t \in Transfers
  <2>1. Q.uploads \in [Ids -> Transferred] BY <1>1, TransferType DEF Typed, PeerTypes
  <2>2. \A id \in Ids : Emplaced(Q.uploads[id], Transfer(f, Packets)) \in Transferred
    <3>1. Transfer(f, Packets) \in Transferred BY TransferType
    <3> QED BY <2>1, <3>1, TransferType
  <2> QED BY <2>1, <2>2, TransferType
<1> HIDE DEF t
<1>4. Typed([Q EXCEPT !.uploads = t], G) BY <1>1, <1>3, UpdateTyped
<1> QED BY <1>1, <1>2, <1>4, Zenon

LEMMA SendPacketsTyped ==
  ASSUME NEW G, Allowed(G), NEW P, Typed(P, G), NEW id \in Ids, NEW n \in Nat, n <= P.uploads[id].left
  PROVE  Typed(SendPackets(P, id, n), G)
<1>0. PICK g : Sent(g, P, id, n) BY Bursts, Zenon
<1>1. g[0] = P /\ g[n] = SendPackets(P, id, n) /\ \A i \in 1 .. n : g[i] = SendPacket(g[i - 1], id)
  BY <1>0 DEF Sent
<1> DEFINE good(i) == Typed(g[i], G) /\ g[i].uploads[id].left = P.uploads[id].left - i
           bad == {i \in 0 .. n : ~good(i)}
<1>2. P.uploads[id].left \in Nat
  <2>1. P.uploads[id] \in Transferred BY TransferType DEF Typed, PeerTypes
  <2>2. P.uploads[id].left \in 0 .. Packets + Pages /\ Packets \in Nat /\ Pages \in Nat
    BY <2>1, Assumed DEF Transferred
  <2> QED BY <2>2
<1>3. bad = {}
  <2> SUFFICES ASSUME bad # {} PROVE FALSE OBVIOUS
  <2>1. PICK i \in bad : \A j \in bad : i <= j
    <3>1. bad \subseteq Nat OBVIOUS
    <3> HIDE DEF bad
    <3> QED BY <3>1, LeastNumber
  <2>2. good(0) BY <1>1, <1>2
  <2>3. i # 0 /\ i \in 1 .. n BY <2>1, <2>2
  <2>4. good(i - 1) /\ i - 1 \in Nat BY <2>1, <2>3
  <2>5. g[i - 1].uploads[id].left > 0 BY <1>2, <2>3, <2>4
  <2>6. Typed(g[i], G) /\ g[i].uploads[id].left = g[i - 1].uploads[id].left - 1
    BY <1>1, <2>3, <2>4, <2>5, SendPacketTyped
  <2>7. good(i) BY <1>2, <2>3, <2>4, <2>6
  <2> QED BY <2>1, <2>7
<1>4. n \in 0 .. n OBVIOUS
<1>5. good(n) BY <1>3, <1>4
<1> QED BY <1>1, <1>5

LEMMA LeastOfThree ==
  ASSUME NEW a \in Nat, NEW b \in Nat, NEW c \in Nat
  PROVE  /\ Least({a, b, c}) \in Nat /\ Least({a, b, c}) \in {a, b, c}
         /\ Least({a, b, c}) <= a /\ Least({a, b, c}) <= b /\ Least({a, b, c}) <= c
<1> DEFINE T == {a, b, c}
<1>1. T \subseteq Nat /\ T # {} OBVIOUS
<1> HIDE DEF T
<1>2. \E x \in T : \A y \in T : x <= y BY <1>1, LeastNumber
<1>3. Least(T) \in T /\ \A y \in T : Least(T) <= y BY <1>2 DEF Least
<1> QED BY <1>3 DEF T

\* The burst after a SEND_FILE is accepted stays within the packets and the slots.
BurstOf(P, id) == Least({Burst, P.uploads[id].left, P.slots})

LEMMA BurstBounds ==
  ASSUME NEW G, NEW P, Typed(P, G), NEW id \in Ids
  PROVE  BurstOf(P, id) \in Nat /\ BurstOf(P, id) <= P.uploads[id].left /\ BurstOf(P, id) <= P.slots
<1>1. P.uploads[id] \in Transferred /\ P.slots \in Ids BY TransferType DEF Typed, PeerTypes
<1>2. P.uploads[id].left \in 0 .. Packets + Pages /\ Packets \in Nat /\ Pages \in Nat /\ Burst \in Nat
  BY <1>1, Assumed DEF Transferred
<1>3. P.uploads[id].left \in Nat /\ P.slots \in Nat BY <1>1, <1>2 DEF Ids
<1> QED BY <1>2, <1>3, LeastOfThree DEF BurstOf

\* What receive_reply makes of Q, in which the status of request r is recorded,
\* case by case.
Replied(X, Q, id, r, status) ==
  \/ X = Q
  \/ /\ status = "STATUS_OK" /\ r.code = "DATA_PACKET" /\ Q.uploads[r.ref].live
     /\ Q.uploads[r.ref].left > 0 /\ X = SendPacket(Q, r.ref)
  \/ X = [Q EXCEPT !.uploads[r.ref] = NoTransfer]
  \/ X = [Q EXCEPT !.thrown = "no upload"]
  \/ /\ status = "STATUS_OK" /\ r.code = "SEND_FILE" /\ Q.uploads[id].live
     /\ X = SendPackets(Q, id, BurstOf(Q, id))
  \/ X = [Q EXCEPT !.listings[id] = Emplaced(@, Transfer(r.file, 1))]
  \/ /\ status = "STATUS_OK" /\ r.code = "FILE_LIST" /\ Q.lists[r.ref].live
     /\ Q.lists[r.ref].left > 0 /\ X = SendPage(Q, r.ref)
  \/ X = [Q EXCEPT !.uploads[id] = NoTransfer]

LEMMA Replies ==
  ASSUME NEW P, NEW id, NEW reply, NEW Q, NEW r, NEW status,
         r = P.out[id].req, status = Recorded(r, reply), Q = Settle(P, id, status)
  PROVE  Replied(ReceiveReply(P, id, reply), Q, id, r, status)
<1> DEFINE X == ReceiveReply(P, id, reply)
<1>1. CASE status # "STATUS_OK"
  <2>1. X = Q BY <1>1, Zenon DEF ReceiveReply
  <2> QED BY <2>1 DEF Replied
<1>2. CASE status = "STATUS_OK" /\ r.code = "DATA_PACKET"
  <2>1. X = IF ~Q.uploads[r.ref].live THEN Q
            ELSE IF Q.uploads[r.ref].left > 0 THEN SendPacket(Q, r.ref)
            ELSE [Q EXCEPT !.uploads[r.ref] = NoTransfer]
    BY <1>2 DEF ReceiveReply
  <2> HIDE DEF X
  <2>2. \/ X = Q \/ (Q.uploads[r.ref].live /\ Q.uploads[r.ref].left > 0 /\ X = SendPacket(Q, r.ref))
        \/ X = [Q EXCEPT !.uploads[r.ref] = NoTransfer]
    BY <2>1, Zenon
  <2> QED BY <1>2, <2>2, Zenon DEF X, Replied
<1>3. CASE status = "STATUS_OK" /\ r.code = "SEND_FILE"
  <2>1. X = IF ~Q.uploads[id].live THEN [Q EXCEPT !.thrown = "no upload"]
            ELSE SendPackets(Q, id, BurstOf(Q, id))
    BY <1>3 DEF ReceiveReply, BurstOf
  <2> HIDE DEF X
  <2>2. \/ X = [Q EXCEPT !.thrown = "no upload"]
        \/ Q.uploads[id].live /\ X = SendPackets(Q, id, BurstOf(Q, id))
    BY <2>1, Zenon
  <2> QED BY <1>3, <2>2, Zenon DEF X, Replied
<1>4. CASE status = "STATUS_OK" /\ r.code = "LIST_FILES"
  <2>1. X = [Q EXCEPT !.listings[id] = Emplaced(@, Transfer(r.file, 1))] BY <1>4 DEF ReceiveReply
  <2> QED BY <2>1, Zenon DEF Replied
<1>5. CASE status = "STATUS_OK" /\ r.code = "FILE_LIST"
  <2>1. X = IF ~Q.lists[r.ref].live THEN Q
            ELSE IF Q.lists[r.ref].left > 0 THEN SendPage(Q, r.ref)
            ELSE [Q EXCEPT !.uploads[id] = NoTransfer]
    BY <1>5 DEF ReceiveReply
  <2> HIDE DEF X
  <2>2. \/ X = Q \/ (Q.lists[r.ref].live /\ Q.lists[r.ref].left > 0 /\ X = SendPage(Q, r.ref))
        \/ X = [Q EXCEPT !.uploads[id] = NoTransfer]
    BY <2>1, Zenon
  <2> QED BY <1>5, <2>2, Zenon DEF X, Replied
<1>6. CASE status = "STATUS_OK" /\ r.code \notin {"DATA_PACKET", "SEND_FILE", "LIST_FILES", "FILE_LIST"}
  <2>1. X = Q BY <1>6 DEF ReceiveReply
  <2> QED BY <2>1 DEF Replied
<1> QED BY <1>1, <1>2, <1>3, <1>4, <1>5, <1>6, Zenon

LEMMA RecordedType ==
  ASSUME NEW r, NEW reply \in Statuses
  PROVE  Recorded(r, reply) \in Statuses
BY DEF Recorded, Statuses

LEMMA ReceiveReplyTyped ==
  ASSUME NEW G, Allowed(G), NEW P, Typed(P, G), NEW id \in Ids, NEW reply \in Statuses,
         P.out[id].status # Absent
  PROVE  Typed(ReceiveReply(P, id, reply), G)
<1> DEFINE X == ReceiveReply(P, id, reply)
<1>1. PICK r : r = P.out[id].req OBVIOUS
<1>2. PICK status \in Statuses : status = Recorded(r, reply) BY RecordedType
<1>3. PICK Q : Q = Settle(P, id, status) OBVIOUS
<1>4. Typed(Q, G) BY <1>3, SettleTyped
<1>5. r \in G /\ r \in Requests /\ r.file \in Files
  <2>1. r \in G BY <1>1 DEF Typed
  <2>2. r \in Requests BY <2>1 DEF Allowed, Referred
  <2> QED BY <2>1, <2>2, Assumed
<1>6. r.code \in {"DATA_PACKET", "FILE_LIST"} => r.ref \in Ids BY <1>5 DEF Allowed, Referred
<1>7. Q \in PeerTypes /\ Q.uploads \in [Ids -> Transferred] /\ Q.listings \in [Ids -> Transferred]
  BY <1>4, TransferType DEF Typed, PeerTypes
<1> SUFFICES Typed(X, G) OBVIOUS
<1> HIDE DEF X
<1>16. Replied(X, Q, id, r, status) BY <1>1, <1>2, <1>3, Replies DEF X
<1>8. CASE X = Q BY <1>4, <1>8
<1>9. CASE /\ status = "STATUS_OK" /\ r.code = "DATA_PACKET" /\ Q.uploads[r.ref].live
           /\ Q.uploads[r.ref].left > 0 /\ X = SendPacket(Q, r.ref)
  BY <1>4, <1>6, <1>9, SendPacketTyped
<1>10. CASE X = [Q EXCEPT !.uploads[r.ref] = NoTransfer]
  <2>1. [Q.uploads EXCEPT ![r.ref] = NoTransfer] \in Transfers BY <1>7, TransferType
  <2>2. Typed([Q EXCEPT !.uploads = [Q.uploads EXCEPT ![r.ref] = NoTransfer]], G) BY <1>4, <2>1, UpdateTyped
  <2> QED BY <1>10, <2>2
<1>11. CASE X = [Q EXCEPT !.thrown = "no upload"]
  <2>1. "no upload" \in Exceptions BY DEF Exceptions
  <2>2. Typed([Q EXCEPT !.thrown = "no upload"], G) BY <1>4, <2>1, ThrownTyped
  <2> QED BY <1>11, <2>2
<1>12. CASE /\ status = "STATUS_OK" /\ r.code = "SEND_FILE" /\ Q.uploads[id].live
            /\ X = SendPackets(Q, id, BurstOf(Q, id))
  BY <1>4, <1>12, BurstBounds, SendPacketsTyped
<1>13. CASE X = [Q EXCEPT !.listings[id] = Emplaced(@, Transfer(r.file, 1))]
  <2>1. [Q.listings EXCEPT ![id] = Emplaced(@, Transfer(r.file, 1))] \in Transfers
    <3>1. Transfer(r.file, 1) \in Transferred BY <1>5, TransferType
    <3> QED BY <1>7, <3>1, TransferType
  <2>2. Typed([Q EXCEPT !.listings = [Q.listings EXCEPT ![id] = Emplaced(@, Transfer(r.file, 1))]], G)
    BY <1>4, <2>1, UpdateTyped
  <2> QED BY <1>13, <2>2
<1>14. CASE /\ status = "STATUS_OK" /\ r.code = "FILE_LIST" /\ Q.lists[r.ref].live
            /\ Q.lists[r.ref].left > 0 /\ X = SendPage(Q, r.ref)
  BY <1>4, <1>6, <1>14, SendPageTyped
<1>15. CASE X = [Q EXCEPT !.uploads[id] = NoTransfer]
  <2>1. [Q.uploads EXCEPT ![id] = NoTransfer] \in Transfers BY <1>7, TransferType
  <2>2. Typed([Q EXCEPT !.uploads = [Q.uploads EXCEPT ![id] = NoTransfer]], G) BY <1>4, <2>1, UpdateTyped
  <2> QED BY <1>15, <2>2
<1> QED BY <1>8, <1>9, <1>10, <1>11, <1>12, <1>13, <1>14, <1>15, <1>16, Zenon DEF Replied

\* What respond_to_request does, case by case: it answers, and then sends what
\* the request was for.
Responds(Q, X, id, r) ==
  \/ \E status \in Final : X = SendReply(Q, id, status)
  \/ r.code = "RECEIVE_FILE" /\ X = CreateUpload(SendReply(Q, id, "STATUS_OK"), r.file, id)
  \/ X = [SendReply(Q, id, "STATUS_OK") EXCEPT !.thrown = "no page"]
  \/ SendReply(Q, id, "STATUS_OK").lists[id].left > 0 /\ X = SendPage(SendReply(Q, id, "STATUS_OK"), id)

LEMMA Responses ==
  ASSUME NEW P \in PeerTypes, NEW id \in Ids, NEW r \in Requests, NEW current \in BOOLEAN
  PROVE  \E Q : SameQueue(P, Q) /\ Responds(Q, Respond(P, id, r, current), id, r)
<1> DEFINE X == Respond(P, id, r, current)
<1>1. PICK Q : Q = [P EXCEPT !.in[id] = Message(r)] OBVIOUS
<1>2. SameQueue(P, Q) /\ Q \in PeerTypes
  <2>1. SameQueue(P, Q) BY <1>1, ReceivedSame
  <2> QED BY <2>1 DEF SameQueue
<1>3. /\ "STATUS_OK" \in Final /\ "UP_TO_DATE" \in Final /\ "FILE_NOT_FOUND" \in Final
      /\ "INVALID_REQUEST_ID" \in Final
  BY SessionAssumption DEF SessionAssumption
<1>4. /\ Q.downloads \in [Ids -> Transferred] /\ Q.lists \in [Ids -> Transferred]
      /\ Q.listings \in [Ids -> Transferred] /\ r.file \in Files
      /\ r.code \in {"SEND_FILE", "RECEIVE_FILE", "LIST_FILES", "DATA_PACKET", "FILE_LIST"}
  BY <1>2, TransferType, Assumed DEF PeerTypes, RequestCodes
<1>5. CASE r.code = "DATA_PACKET"
  <2> DEFINE down == Taken(Q.downloads[r.ref], r)
             kept == IF down.left = 0 /\ ~down.keep THEN NoTransfer ELSE down
             t == [Q.downloads EXCEPT ![r.ref] = kept]
  <2>1. X = IF ~Q.downloads[r.ref].live THEN SendReply(Q, id, "INVALID_REQUEST_ID")
            ELSE SendReply([Q EXCEPT !.downloads = t], id, "STATUS_OK")
    BY <1>1, <1>5 DEF Respond
  <2>2. t \in Transfers
    <3>1. r.ref \in Ids => kept \in Transferred BY <1>4, TransferType
    <3> HIDE DEF kept
    <3> QED BY <1>4, <3>1, TransferType
  <2> HIDE DEF t, X
  <2>3. SameQueue(P, [Q EXCEPT !.downloads = t])
    BY <1>2, <2>2, UpdateSame, SameAgain
  <2>4. X = SendReply(Q, id, "INVALID_REQUEST_ID") \/ X = SendReply([Q EXCEPT !.downloads = t], id, "STATUS_OK")
    BY <2>1, Zenon
  <2> QED BY <1>2, <1>3, <2>3, <2>4, Zenon DEF Responds, X
<1>6. CASE r.code = "SEND_FILE"
  <2> DEFINE t == [Q.downloads EXCEPT ![id] = Emplaced(@, Transfer(r.file, 1))]
  <2>1. X = IF current THEN SendReply(Q, id, "UP_TO_DATE")
            ELSE SendReply([Q EXCEPT !.downloads = t], id, "STATUS_OK")
    BY <1>1, <1>6 DEF Respond
  <2>2. t \in Transfers
    <3>1. Transfer(r.file, 1) \in Transferred BY <1>4, TransferType
    <3> QED BY <1>4, <3>1, TransferType
  <2> HIDE DEF t, X
  <2>3. SameQueue(P, [Q EXCEPT !.downloads = t])
    BY <1>2, <2>2, UpdateSame, SameAgain
  <2>4. X = SendReply(Q, id, "UP_TO_DATE") \/ X = SendReply([Q EXCEPT !.downloads = t], id, "STATUS_OK")
    BY <2>1, Zenon
  <2> QED BY <1>2, <1>3, <2>3, <2>4, Zenon DEF Responds, X
<1>7. CASE r.code = "RECEIVE_FILE"
  <2>1. X = IF r.file \notin Visible THEN SendReply(Q, id, "FILE_NOT_FOUND")
            ELSE CreateUpload(SendReply(Q, id, "STATUS_OK"), r.file, id)
    BY <1>1, <1>7 DEF Respond
  <2> HIDE DEF X
  <2>2. \/ X = SendReply(Q, id, "FILE_NOT_FOUND")
        \/ X = CreateUpload(SendReply(Q, id, "STATUS_OK"), r.file, id)
    BY <2>1, Zenon
  <2> QED BY <1>2, <1>3, <1>7, <2>2, Zenon DEF Responds, X
<1>8. CASE r.code = "LIST_FILES"
  <2> DEFINE t == [Q.lists EXCEPT ![id] = Emplaced(@, Transfer(r.file, Pages))]
             L == SendReply([Q EXCEPT !.lists = t], id, "STATUS_OK")
  <2>1. X = IF L.lists[id].left = 0 THEN [L EXCEPT !.thrown = "no page"] ELSE SendPage(L, id)
    BY <1>1, <1>8 DEF Respond
  <2>2. t \in Transfers
    <3>1. Transfer(r.file, Pages) \in Transferred BY <1>4, TransferType
    <3> QED BY <1>4, <3>1, TransferType
  <2>3. L.lists[id].left # 0 => L.lists[id].left > 0
    <3>1. L.lists = t BY <1>2 DEF SendReply, PeerTypes
    <3>2. t[id].left \in 0 .. Packets + Pages BY <2>2 DEF Transfers
    <3>3. Packets \in Nat /\ Pages \in Nat BY Assumed
    <3> HIDE DEF t, L
    <3> QED BY <3>1, <3>2, <3>3
  <2> HIDE DEF t, X
  <2>4. SameQueue(P, [Q EXCEPT !.lists = t])
    BY <1>2, <2>2, UpdateSame, SameAgain
  <2>5. X = [L EXCEPT !.thrown = "no page"] \/ (L.lists[id].left > 0 /\ X = SendPage(L, id))
    <3> HIDE DEF L
    <3> QED BY <2>1, <2>3, Zenon
  <2> QED BY <2>4, <2>5, Zenon DEF Responds, X
<1>9. CASE r.code = "FILE_LIST"
  <2> DEFINE t == [Q.listings EXCEPT ![r.ref] = Taken(@, r)]
  <2>1. X = IF ~Q.listings[r.ref].live THEN SendReply(Q, id, "INVALID_REQUEST_ID")
            ELSE SendReply([Q EXCEPT !.listings = t], id, "STATUS_OK")
    BY <1>1, <1>9 DEF Respond
  <2>2. t \in Transfers BY <1>4, TransferType
  <2> HIDE DEF t, X
  <2>3. SameQueue(P, [Q EXCEPT !.listings = t])
    BY <1>2, <2>2, UpdateSame, SameAgain
  <2>4. X = SendReply(Q, id, "INVALID_REQUEST_ID") \/ X = SendReply([Q EXCEPT !.listings = t], id, "STATUS_OK")
    BY <2>1, Zenon
  <2> QED BY <1>2, <1>3, <2>3, <2>4, Zenon DEF Responds, X
<1> QED BY <1>4, <1>5, <1>6, <1>7, <1>8, <1>9

LEMMA RespondTyped ==
  ASSUME NEW G, Allowed(G), NEW P, Typed(P, G), NEW id \in Ids, NEW r \in Requests,
         NEW current \in BOOLEAN
  PROVE  Typed(Respond(P, id, r, current), G)
<1>0. PICK X : X = Respond(P, id, r, current) OBVIOUS
<1>1. P \in PeerTypes BY DEF Typed
<1>2. PICK Q : SameQueue(P, Q) /\ Responds(Q, X, id, r) BY <1>0, <1>1, Responses
<1> SUFFICES Typed(X, G) BY <1>0
<1>3. Typed(Q, G) BY <1>2, SameTyped
<1>4. "STATUS_OK" \in Statuses /\ Final \subseteq Statuses BY Assumed DEF Statuses
<1> DEFINE L == SendReply(Q, id, "STATUS_OK")
<1>5. Typed(L, G) BY <1>3, <1>4, SendReplyTyped
<1>6. CASE \E status \in Final : X = SendReply(Q, id, status)
  BY <1>3, <1>4, <1>6, SendReplyTyped
<1>7. CASE r.code = "RECEIVE_FILE" /\ X = CreateUpload(L, r.file, id)
  <2>1. r.file \in Files BY Assumed
  <2>2. Req("SEND_FILE", r.file, id, FALSE) \in Requests BY <2>1, RequestType DEF RequestCodes
  <2>3. Req("SEND_FILE", r.file, id, FALSE) \in G BY <2>2 DEF Allowed, Plain, Req
  <2> HIDE DEF L
  <2> QED BY <1>5, <1>7, <2>1, <2>3, CreateUploadTyped
<1>8. CASE X = [L EXCEPT !.thrown = "no page"]
  <2>1. "no page" \in Exceptions BY DEF Exceptions
  <2> HIDE DEF L
  <2>2. Typed([L EXCEPT !.thrown = "no page"], G) BY <1>5, <2>1, ThrownTyped
  <2> QED BY <1>8, <2>2
<1>9. CASE L.lists[id].left > 0 /\ X = SendPage(L, id)
  <2> HIDE DEF L
  <2> QED BY <1>5, <1>9, SendPageTyped
<1> QED BY <1>2, <1>6, <1>7, <1>8, <1>9, Zenon DEF Responds

LEMMA RefuseTyped ==
  ASSUME NEW G, NEW P, Typed(P, G), NEW id \in Ids, NEW r \in Requests, NEW status \in Statuses
  PROVE  /\ Typed(Refuse(P, id, r, status), G)
         /\ Refuse(P, id, r, status).in[id].status = status
         /\ Refuse(P, id, r, status).thrown = P.thrown
<1>1. P \in PeerTypes BY DEF Typed
<1>2. PICK Q : Q = [P EXCEPT !.in[id] = Message(r)] OBVIOUS
<1>3. SameQueue(P, Q) BY <1>1, <1>2, ReceivedSame
<1>4. Typed(Q, G) BY <1>3, SameTyped
<1>5. Refuse(P, id, r, status) = SendReply(Q, id, status) BY <1>2 DEF Refuse
<1>6. Q \in PeerTypes /\ Q.thrown = P.thrown BY <1>3 DEF SameQueue
<1>7. SendReply(Q, id, status).in[id].status = status /\ SendReply(Q, id, status).thrown = P.thrown
  BY <1>6 DEF SendReply, PeerTypes, Messages
<1> QED BY <1>4, <1>5, <1>7, SendReplyTyped

\* The requests that wait for the application.
LEMMA AskedTyped ==
  ASSUME NEW G, NEW P, Typed(P, G), NEW asked \in SUBSET Asked
  PROVE  /\ Typed([P EXCEPT !.asked = asked], G)
         /\ [P EXCEPT !.asked = asked].in = P.in /\ [P EXCEPT !.asked = asked].thrown = P.thrown
<1> DEFINE Q == [P EXCEPT !.asked = asked]
<1>1. P \in PeerTypes BY DEF Typed
<1>2. Q \in PeerTypes /\ Q.out = P.out /\ Q.written = P.written /\ Q.in = P.in /\ Q.thrown = P.thrown
  BY <1>1 DEF PeerTypes
<1> HIDE DEF Q
<1>3. Typed(Q, G) BY <1>2 DEF Typed
<1> QED BY <1>2, <1>3 DEF Q

\* What authorize_request does with a request, case by case.
LEMMA Authorizes ==
  ASSUME NEW P, NEW id, NEW r, NEW X \in Authorized(P, id, r)
  PROVE  \/ /\ r.code = "SEND_FILE"
            /\ \E match \in Matches(P, r), current \in BOOLEAN :
                 X = Respond(Settle(P, match, "STATUS_OK"), id, r, current)
         \/ /\ r.code = "SEND_FILE" /\ Matches(P, r) = {}
            /\ X = Asks(P, id, r)
         \/ r.code = "LIST_FILES" /\ X = Refuse(P, id, r, "FILE_NOT_FOUND")
         \/ r.code # "SEND_FILE" /\ X = Respond(P, id, r, FALSE)
<1>1. CASE r.code = "SEND_FILE" /\ Matches(P, r) # {}
  <2>1. Authorized(P, id, r) = Accepts(P, id, r) BY <1>1 DEF Authorized
  <2> QED BY <1>1, <2>1 DEF Accepts
<1>2. CASE r.code = "SEND_FILE" /\ Matches(P, r) = {}
  <2>1. Authorized(P, id, r) = {Asks(P, id, r)}
    BY <1>2 DEF Authorized
  <2> QED BY <1>2, <2>1
<1>3. CASE r.code = "LIST_FILES" /\ r.file \notin Visible
  <2>1. Authorized(P, id, r) = {Refuse(P, id, r, "FILE_NOT_FOUND")} BY <1>3 DEF Authorized
  <2> QED BY <1>3, <2>1
<1>4. CASE r.code # "SEND_FILE" /\ ~(r.code = "LIST_FILES" /\ r.file \notin Visible)
  <2>1. Authorized(P, id, r) = {Respond(P, id, r, FALSE)} BY <1>4 DEF Authorized
  <2> QED BY <1>4, <2>1
<1> QED BY <1>1, <1>2, <1>3, <1>4

\* Every handler keeps the types, and accepts a SEND_FILE only if it matches.
LEMMA HandledTyped ==
  ASSUME NEW G, Allowed(G), NEW P, Typed(P, G), NEW m \in OnWire, NEW X \in Handled(P, m),
         P.thrown = "nothing"
  PROVE  /\ Typed(X, G)
         /\ m.type = "REQUEST" /\ m.req.code = "SEND_FILE" /\ Matches(P, m.req) = {}
              => X.in[m.id].status = Pending /\ X.thrown = "nothing"
<1>1. CASE m.type = "REQUEST"
  <2>1. PICK id \in Ids, r \in Requests : id = m.id /\ r = m.req BY <1>1 DEF OnWire
  <2>2. X \in Authorized(P, id, r) BY <1>1, <2>1 DEF Handled
  <2>3. CASE /\ r.code = "SEND_FILE"
             /\ \E match \in Matches(P, r), current \in BOOLEAN :
                  X = Respond(Settle(P, match, "STATUS_OK"), id, r, current)
    <3>1. PICK match \in Matches(P, r), current \in BOOLEAN :
                 X = Respond(Settle(P, match, "STATUS_OK"), id, r, current)
      BY <2>3
    <3>2. match \in Ids /\ P.out[match].status # Absent BY DEF Matches
    <3>3. PICK S : S = Settle(P, match, "STATUS_OK") OBVIOUS
    <3>4. Typed(S, G) /\ X = Respond(S, id, r, current) BY <3>1, <3>2, <3>3, SettleTyped, Assumed
    <3>5. Typed(X, G) BY <3>4, RespondTyped
    <3> QED BY <2>1, <3>1, <3>5
  <2>4. CASE /\ r.code = "SEND_FILE" /\ Matches(P, r) = {}
             /\ X = Asks(P, id, r)
    <3> DEFINE Q == Refuse(P, id, r, Pending)
               asked == Q.asked \cup {[id |-> id, req |-> r]}
    <3>1. Typed(Q, G) /\ Q.in[id].status = Pending /\ Q.thrown = "nothing"
      BY RefuseTyped DEF Statuses
    <3> HIDE DEF Q
    <3>2. asked \in SUBSET Asked BY <3>1 DEF Typed, PeerTypes, Asked
    <3>3. X = [Q EXCEPT !.asked = asked] BY <2>4 DEF Q, Asks
    <3> DEFINE Z == [Q EXCEPT !.asked = asked]
    <3> HIDE DEF asked
    <3>4. Typed(Z, G) /\ Z.in = Q.in /\ Z.thrown = Q.thrown BY <3>1, <3>2, AskedTyped
    <3> HIDE DEF Z
    <3>5. X = Z BY <3>3 DEF Z
    <3> QED BY <2>1, <3>1, <3>4, <3>5
  <2>5. CASE r.code = "LIST_FILES" /\ X = Refuse(P, id, r, "FILE_NOT_FOUND")
    BY <2>1, <2>5, RefuseTyped, Assumed
  <2>6. CASE r.code # "SEND_FILE" /\ X = Respond(P, id, r, FALSE)
    BY <2>1, <2>6, RespondTyped
  <2> QED BY <2>2, <2>3, <2>4, <2>5, <2>6, Authorizes
<1>2. CASE m.type = "RESPONSE"
  <2>1. PICK id \in Ids, status \in Statuses : id = m.id /\ status = m.status BY <1>2 DEF OnWire
  <2>2. X = P \/ (P.out[id].status # Absent /\ X = ReceiveReply(P, id, status))
    BY <1>2, <2>1 DEF Handled
  <2> QED BY <1>2, <2>2, ReceiveReplyTyped
<1> QED BY <1>1, <1>2 DEF OnWire

-----------------------------------------------------------------------------
\* Where the requests come from.

\* The files a peer asks for, or sends, in the calls of s.
Made(s, p, name) == {c.file : c \in {d \in s : d.by = p /\ d.call = name}}

\* What p may send when the applications make the calls of s.
Mine(s, p) == {r \in Referred :
  /\ r.code = "SEND_FILE" /\ r.ref = NoRef => r.file \in Made(s, p, "send_file")
  /\ r.code = "RECEIVE_FILE" => r.file \in Made(s, p, "receive_file")}

CallTypes == [call : {"none", "send_file", "receive_file", "list_files"},
              phase : {"none", "waiting", "pushing", "looping"}, file : Files, id : Ids, key : Ids]

PeersTyped(s) ==
  /\ peer \in [Peers -> PeerTypes]
  /\ \A p \in Peers : Typed(peer[p], Mine(s, p)) /\ peer[p].written = <<>> /\ peer[p].thrown = "nothing"
Carries(f, s) ==
  f \in [Peers -> Seq(OnWire)] /\ \A p \in Peers : f[p] \in Seq(Wired(Mine(s, Other(p))))
Types(s) ==
  /\ s \in Scripts /\ todo \subseteq s
  /\ PeersTyped(s) /\ Carries(wire, s) /\ Carries(batch, s)
  /\ done \in [Peers -> Nat] /\ call \in [Peers -> CallTypes]

LEMMA MineAllowed == \A s, p : Allowed(Mine(s, p)) /\ Wired(Mine(s, p)) \subseteq OnWire
<1> TAKE s, p
<1>1. Plain \subseteq Mine(s, p)
  <2>1. NoRef \notin Ids BY DEF NoRef, Ids
  <2> QED BY <2>1 DEF Plain, Mine, Referred
<1>2. Mine(s, p) \subseteq Referred /\ Referred \subseteq Requests BY DEF Mine, Referred
<1> QED BY <1>1, <1>2 DEF Allowed, Wired, OnWire

LEMMA NoCallType == NoCall \in CallTypes
<1>1. NoTransfer.file \in Files BY TransferType DEF Transferred
<1>2. 0 \in Ids BY DEF Ids
<1> QED BY <1>1, <1>2 DEF NoCall, CallTypes

LEMMA NewPeerTyped ==
  ASSUME NEW G
  PROVE  /\ NewPeer \in PeerTypes /\ Typed(NewPeer, G) /\ NewPeer.written = <<>>
         /\ NewPeer.thrown = "nothing"
<1>1. 0 \in Ids /\ MaxId \in Ids BY DEF Ids
<1>2. NoMessage \in Messages /\ NoMessage.status = Absent BY MessageType DEF NoMessage
<1>3. [id \in Ids |-> NoTransfer] \in Transfers BY TransferType
<1>4. [id \in Ids |-> NoMessage] \in [Ids -> Messages] BY <1>2
<1> DEFINE none == [id \in Ids |-> NoTransfer]
           nil == [id \in Ids |-> NoMessage]
<1>5. /\ NewPeer = [next |-> 0, slots |-> MaxId, hung |-> FALSE, out |-> nil, in |-> nil, uploads |-> none,
                    downloads |-> none, lists |-> none, listings |-> none, asked |-> {},
                    written |-> <<>>, thrown |-> "nothing"]
      /\ \A id \in Ids : nil[id].status = Absent
  BY <1>2 DEF NewPeer
<1> HIDE DEF none, nil
<1>6. NewPeer \in PeerTypes BY <1>1, <1>3, <1>4, <1>5 DEF PeerTypes, Exceptions, none, nil
<1> QED BY <1>5, <1>6 DEF Typed

LEMMA TypesInit ==
  ASSUME Init
  PROVE  \E s \in Scripts : Types(s)
<1>1. PICK s \in Scripts : s = todo BY DEF Init
<1>2. PeersTyped(s) BY NewPeerTyped DEF Init, PeersTyped
<1>3. Carries(wire, s) /\ Carries(batch, s) BY DEF Init, Carries
<1>4. done \in [Peers -> Nat] /\ call \in [Peers -> CallTypes] BY NoCallType DEF Init
<1> QED BY <1>1, <1>2, <1>3, <1>4 DEF Types

LEMMA CarriesUpdate ==
  ASSUME NEW f, NEW s, Carries(f, s), NEW p \in Peers, NEW w \in Seq(Wired(Mine(s, Other(p))))
  PROVE  Carries([f EXCEPT ![p] = w], s)
<1> DEFINE g == [f EXCEPT ![p] = w]
<1>1. f \in [Peers -> Seq(OnWire)] BY DEF Carries
<1>2. w \in Seq(OnWire)
  <2>1. Wired(Mine(s, Other(p))) \subseteq OnWire BY MineAllowed
  <2> QED BY <2>1
<1>3. g \in [Peers -> Seq(OnWire)] BY <1>1, <1>2
<1>4. ASSUME NEW o \in Peers PROVE g[o] \in Seq(Wired(Mine(s, Other(o))))
  <2>1. CASE o = p BY <1>1, <2>1
  <2>2. CASE o # p
    <3>1. g[o] = f[o] BY <1>1, <2>2
    <3> QED BY <3>1 DEF Carries
  <2> QED BY <2>1, <2>2
<1> QED BY <1>3, <1>4 DEF Carries

\* A call of the code leaves the peer and what it wrote.
LEMMA BecomesTyped ==
  ASSUME NEW s, Types(s), NEW p \in Peers, NEW Q, Typed(Q, Mine(s, p)), Becomes(p, Q)
  PROVE  PeersTyped(s)' /\ Carries(wire', s)
<1> DEFINE N == [Q EXCEPT !.written = <<>>, !.thrown = "nothing"]
           q == Other(p)
<1>1. Q \in PeerTypes /\ Q.written \in Seq(Wired(Mine(s, p))) BY DEF Typed
<1>2. /\ N \in PeerTypes /\ N.out = Q.out /\ N.written = <<>> /\ N.thrown = "nothing"
  <2>1. <<>> \in Seq(OnWire) /\ "nothing" \in Exceptions BY DEF Exceptions
  <2> QED BY <1>1, <2>1 DEF PeerTypes
<1>3. peer' = [peer EXCEPT ![p] = N] /\ wire' = [wire EXCEPT ![q] = @ \o Q.written]
  BY DEF Becomes
<1> HIDE DEF N
<1>4. Typed(N, Mine(s, p)) BY <1>2 DEF Typed
<1>5. PeersTyped(s)' BY <1>2, <1>3, <1>4 DEF Types, PeersTyped
<1>6. q \in Peers /\ Other(q) = p BY Two
<1>7. Carries(wire, s) BY DEF Types
<1>8. wire[q] \o Q.written \in Seq(Wired(Mine(s, Other(q)))) BY <1>1, <1>6, <1>7 DEF Carries
<1>9. Carries(wire', s) BY <1>3, <1>6, <1>7, <1>8, CarriesUpdate
<1> QED BY <1>5, <1>9

LEMMA PollTyped ==
  ASSUME NEW s, Types(s), NEW p \in Peers, Poll(p) \/ PollEnds(p)
  PROVE  Types(s)' /\ events' = events
<1>1. CASE Poll(p)
  <2>1. PICK n \in 1 .. MaxBatch :
           /\ n <= Len(wire[p])
           /\ batch' = [batch EXCEPT ![p] = @ \o SubSeq(wire[p], 1, n)]
           /\ wire' = [wire EXCEPT ![p] = SubSeq(@, n + 1, Len(@))]
    BY <1>1 DEF Poll
  <2> DEFINE S == Wired(Mine(s, Other(p)))
  <2>2. wire[p] \in Seq(S) /\ batch[p] \in Seq(S) BY DEF Types, Carries
  <2> HIDE DEF S
  <2>3. n \in Nat /\ 1 <= n /\ n <= Len(wire[p]) /\ Len(wire[p]) \in Nat
    <3>1. MaxBatch \in Nat BY Assumed
    <3>2. Len(wire[p]) \in Nat BY <2>2
    <3> QED BY <2>1, <3>1, <3>2
  <2>4. SubSeq(wire[p], 1, n) \in Seq(S) /\ SubSeq(wire[p], n + 1, Len(wire[p])) \in Seq(S)
    BY <2>2, <2>3, SubSeqProperties
  <2>5. batch[p] \o SubSeq(wire[p], 1, n) \in Seq(S) BY <2>2, <2>4
  <2>6. Carries(wire', s) /\ Carries(batch', s)
    BY <2>1, <2>4, <2>5, CarriesUpdate DEF Types, S
  <2>7. done' \in [Peers -> Nat] BY <1>1 DEF Types, Poll
  <2>8. PeersTyped(s)'
    <3>1. peer' = peer BY <1>1 DEF Poll
    <3> QED BY <3>1 DEF Types, PeersTyped
  <2> QED BY <1>1, <2>6, <2>7, <2>8 DEF Types, Poll
<1>2. CASE PollEnds(p)
  <2>1. <<>> \in Seq(Wired(Mine(s, Other(p)))) OBVIOUS
  <2>2. Carries(batch', s) BY <1>2, <2>1, CarriesUpdate DEF Types, PollEnds
  <2>3. PeersTyped(s)' /\ done' \in [Peers -> Nat] BY <1>2 DEF Types, PeersTyped, PollEnds
  <2> QED BY <1>2, <2>2, <2>3 DEF Types, PollEnds
<1> QED BY <1>1, <1>2

\* No file is sent to the peer that fetches it from the one that sends it.
OneWay ==
  \A s \in Scripts : \A c, d \in s :
    c.call = "send_file" /\ d.call = "receive_file" /\ c.by # d.by => c.file # d.file

\* p handles m and is Q then.
Turns(s, p, m, Q) ==
  /\ m = batch[p][done[p]] /\ m \in Wired(Mine(s, Other(p)))
  /\ Q \in Handled(peer[p], m) /\ Typed(Q, Mine(s, p)) /\ Becomes(p, Q)
  /\ done' = [done EXCEPT ![p] = IF Q.thrown = "nothing" THEN @ + 1 ELSE 0]
  /\ call' = IF Q.thrown = "nothing" THEN call ELSE [call EXCEPT ![p] = NoCall]
  /\ events' = events \cup ({Q.thrown} \ {"nothing"})
                      \cup (IF Unasked(p, m, Q) THEN {"accepted unasked"} ELSE {})

LEMMA HandleTyped ==
  ASSUME NEW s, Types(s), NEW p \in Peers, Handle(p)
  PROVE  Types(s)' /\ batch' = batch /\ \E m, Q : Turns(s, p, m, Q)
<1> DEFINE S == Wired(Mine(s, Other(p)))
<1>1. done[p] \in 1 .. Len(batch[p]) /\ batch[p] \in Seq(S) BY DEF Handle, Types, Carries
<1>2. PICK m \in S : m = batch[p][done[p]]
  <2> HIDE DEF S
  <2>1. batch[p][done[p]] \in S BY <1>1
  <2> QED BY <2>1
<1>3. PICK Q \in Handled(peer[p], m) :
         /\ Becomes(p, Q)
         /\ done' = [done EXCEPT ![p] = IF Q.thrown = "nothing" THEN @ + 1 ELSE 0]
         /\ call' = IF Q.thrown = "nothing" THEN call ELSE [call EXCEPT ![p] = NoCall]
         /\ events' = events \cup ({Q.thrown} \ {"nothing"})
                             \cup (IF Unasked(p, m, Q) THEN {"accepted unasked"} ELSE {})
  BY <1>2 DEF Handle
<1>4. Typed(Q, Mine(s, p))
  <2>1. m \in OnWire BY MineAllowed
  <2>2. PICK P : P = peer[p] OBVIOUS
  <2>3. Typed(P, Mine(s, p)) /\ P.thrown = "nothing" BY <2>2 DEF Types, PeersTyped
  <2>4. Q \in Handled(P, m) BY <2>2
  <2> QED BY <2>1, <2>3, <2>4, MineAllowed, HandledTyped
<1>5. PeersTyped(s)' /\ Carries(wire', s) BY <1>3, <1>4, BecomesTyped
<1>6. done' \in [Peers -> Nat] /\ call' \in [Peers -> CallTypes]
  <2>1. done \in [Peers -> Nat] /\ call \in [Peers -> CallTypes] BY DEF Types
  <2>2. done' \in [Peers -> Nat]
    <3>1. PICK n \in Nat : n = IF Q.thrown = "nothing" THEN done[p] + 1 ELSE 0 BY <2>1
    <3>2. done' = [done EXCEPT ![p] = n] BY <1>3, <3>1
    <3> QED BY <2>1, <3>2
  <2>3. call' \in [Peers -> CallTypes]
    <3>1. CASE Q.thrown = "nothing" BY <1>3, <2>1, <3>1
    <3>2. CASE Q.thrown # "nothing" BY <1>3, <2>1, <3>2, NoCallType
    <3> QED BY <3>1, <3>2
  <2> QED BY <2>2, <2>3
<1>7. batch' = batch /\ todo' = todo BY DEF Handle
<1>8. Types(s)' BY <1>5, <1>6, <1>7 DEF Types
<1>9. Turns(s, p, m, Q) BY <1>2, <1>3, <1>4 DEF Turns
<1> QED BY <1>7, <1>8, <1>9

\* The call of p is c after this, and p is Q.
Advances(p, Q, c) ==
  /\ Becomes(p, Q) /\ call' = [call EXCEPT ![p] = c] /\ UNCHANGED <<batch, done, todo>>
  /\ \/ SameQueue(peer[p], Q)
     \/ peer[p].uploads[call[p].id].left > 0 /\ Q = SendPacket(peer[p], call[p].id)
  /\ c \in CallTypes /\ c.phase # "waiting"
  /\ \E new \in SUBSET {"no download", "no listing"} : events' = events \cup new

LEMMA Returns ==
  ASSUME NEW p, NEW Q, NEW error \in {"nothing", "no download", "no listing"}, Return(p, Q, error),
         SameQueue(peer[p], Q), UNCHANGED <<batch, done, todo>>
  PROVE  \E X, c : Advances(p, X, c)
<1>1. NoCall \in CallTypes /\ NoCall.phase # "waiting" BY NoCallType DEF NoCall
<1>2. {error} \ {"nothing"} \in SUBSET {"no download", "no listing"} OBVIOUS
<1>3. Advances(p, Q, NoCall) BY <1>1, <1>2 DEF Return, Advances
<1> QED BY <1>3

LEMMA Continues ==
  ASSUME NEW p, NEW Q, NEW c \in CallTypes, Continue(p, Q, c), c.phase # "waiting",
         \/ SameQueue(peer[p], Q)
         \/ peer[p].uploads[call[p].id].left > 0 /\ Q = SendPacket(peer[p], call[p].id),
         UNCHANGED <<batch, done, todo>>
  PROVE  \E X, d : Advances(p, X, d)
<1>1. events' = events \cup {} /\ {} \in SUBSET {"no download", "no listing"} BY DEF Continue
<1>2. Advances(p, Q, c) BY <1>1 DEF Continue, Advances
<1> QED BY <1>2

LEMMA ResumeAdvances ==
  ASSUME NEW s, Types(s), NEW p \in Peers, Resume(p)
  PROVE  Ready(p) /\ ~peer[p].hung /\ done[p] = 0 /\ \E Q, c : Advances(p, Q, c)
<1>1. /\ Ready(p) /\ ~peer[p].hung /\ done[p] = 0 /\ UNCHANGED <<batch, done, todo>>
  BY Zenon DEF Resume, SendFileAnswered, SendFileLoop, ReceiveFileAnswered, ReceiveFileLoop,
         ListFilesAnswered, ListFilesLoop, Resumes
<1>2. PICK P \in PeerTypes : P = peer[p] BY DEF Types, PeersTyped
<1>3. PICK c \in CallTypes : c = call[p] BY DEF Types
<1>4. /\ P.uploads \in [Ids -> Transferred] /\ P.downloads \in [Ids -> Transferred]
      /\ P.listings \in [Ids -> Transferred] /\ P.in \in [Ids -> Messages] /\ SameQueue(P, P)
  BY <1>2, TransferType DEF PeerTypes, SameQueue
<1>5. CASE SendFileAnswered(p)
  <2>1. \/ Continue(p, P, [c EXCEPT !.phase = "pushing"])
        \/ Return(p, [P EXCEPT !.uploads[c.id] = NoTransfer], "nothing")
    BY <1>2, <1>3, <1>5 DEF SendFileAnswered
  <2>2. CASE Continue(p, P, [c EXCEPT !.phase = "pushing"])
    <3>1. PICK d \in CallTypes : d = [c EXCEPT !.phase = "pushing"] /\ d.phase = "pushing"
      <4>1. /\ [c EXCEPT !.phase = "pushing"] \in CallTypes
            /\ [c EXCEPT !.phase = "pushing"].phase = "pushing"
        BY DEF CallTypes
      <4> QED BY <4>1
    <3>2. Continue(p, P, d) BY <2>2, <3>1
    <3> QED BY <1>1, <1>2, <1>4, <3>1, <3>2, Continues
  <2>3. CASE Return(p, [P EXCEPT !.uploads[c.id] = NoTransfer], "nothing")
    <3> DEFINE t == [P.uploads EXCEPT ![c.id] = NoTransfer]
    <3>1. t \in Transfers BY <1>4, TransferType
    <3>2. Return(p, [P EXCEPT !.uploads = t], "nothing") BY <2>3
    <3> HIDE DEF t
    <3>3. SameQueue(P, [P EXCEPT !.uploads = t]) BY <3>1, UpdateSame
    <3> QED BY <1>1, <1>2, <3>2, <3>3, Returns
  <2> QED BY <2>1, <2>2, <2>3
<1>6. CASE SendFileLoop(p)
  <2>1. \/ P.uploads[c.id].left > 0 /\ Continue(p, SendPacket(P, c.id), c)
        \/ Return(p, P, "nothing")
    BY <1>2, <1>3, <1>6 DEF SendFileLoop
  <2>2. c.phase = "pushing" BY <1>3, <1>6 DEF SendFileLoop, Resumes
  <2> QED BY <1>1, <1>2, <1>3, <1>4, <2>1, <2>2, Continues, Returns
<1>7. CASE ReceiveFileAnswered(p)
  <2>1. \/ Return(p, P, "nothing") \/ Return(p, P, "no download")
        \/ \E id \in Ids : Continue(p, [P EXCEPT !.downloads[id].keep = TRUE],
                                    [c EXCEPT !.phase = "looping", !.key = id])
    BY <1>2, <1>3, <1>7, Zenon DEF ReceiveFileAnswered
  <2>2. ASSUME NEW id \in Ids, Continue(p, [P EXCEPT !.downloads[id].keep = TRUE],
                                        [c EXCEPT !.phase = "looping", !.key = id])
        PROVE  \E Q, d : Advances(p, Q, d)
    <3> DEFINE t == [P.downloads EXCEPT ![id].keep = TRUE]
    <3>1. PICK u \in Transferred : u = P.downloads[id] BY <1>4
    <3>2. t \in Transfers
      <4>1. [u EXCEPT !.keep = TRUE] \in Transferred BY DEF Transferred
      <4>2. t = [P.downloads EXCEPT ![id] = [u EXCEPT !.keep = TRUE]] BY <3>1
      <4> QED BY <1>4, <4>1, <4>2, TransferType
    <3>3. PICK d \in CallTypes : d = [c EXCEPT !.phase = "looping", !.key = id] /\ d.phase = "looping"
      <4>1. /\ [c EXCEPT !.phase = "looping", !.key = id] \in CallTypes
            /\ [c EXCEPT !.phase = "looping", !.key = id].phase = "looping"
        BY DEF CallTypes
      <4> QED BY <4>1
    <3>4. Continue(p, [P EXCEPT !.downloads = t], d) BY <2>2, <3>3
    <3> HIDE DEF t
    <3>5. SameQueue(P, [P EXCEPT !.downloads = t]) BY <3>2, UpdateSame
    <3> QED BY <1>1, <1>2, <3>3, <3>4, <3>5, Continues
  <2> QED BY <1>1, <1>2, <1>4, <2>1, <2>2, Returns, Zenon
<1>8. CASE ReceiveFileLoop(p)
  <2> DEFINE t == [P.downloads EXCEPT ![c.key] = NoTransfer]
  <2>1. t \in Transfers BY <1>4, TransferType
  <2>2. Return(p, [P EXCEPT !.downloads = t], "nothing") BY <1>2, <1>3, <1>8 DEF ReceiveFileLoop
  <2> HIDE DEF t
  <2>3. SameQueue(P, [P EXCEPT !.downloads = t]) BY <2>1, UpdateSame
  <2> QED BY <1>1, <1>2, <2>2, <2>3, Returns
<1>9. CASE ListFilesAnswered(p)
  <2>1. \/ Return(p, P, "nothing") \/ Return(p, P, "no listing")
        \/ Continue(p, P, [c EXCEPT !.phase = "looping"])
    BY <1>2, <1>3, <1>9 DEF ListFilesAnswered
  <2>2. PICK d \in CallTypes : d = [c EXCEPT !.phase = "looping"] /\ d.phase = "looping"
    <3>1. /\ [c EXCEPT !.phase = "looping"] \in CallTypes
          /\ [c EXCEPT !.phase = "looping"].phase = "looping"
      BY DEF CallTypes
    <3> QED BY <3>1
  <2>3. \/ Return(p, P, "nothing") \/ Return(p, P, "no listing") \/ Continue(p, P, d)
    BY <2>1, <2>2
  <2> QED BY <1>1, <1>2, <1>4, <2>2, <2>3, Continues, Returns
<1>10. CASE ListFilesLoop(p)
  <2> DEFINE t == [P.listings EXCEPT ![c.id] = NoTransfer]
  <2>1. t \in Transfers BY <1>4, TransferType
  <2>2. Return(p, [P EXCEPT !.listings = t], "nothing") BY <1>2, <1>3, <1>10 DEF ListFilesLoop
  <2> HIDE DEF t
  <2>3. SameQueue(P, [P EXCEPT !.listings = t]) BY <2>1, UpdateSame
  <2> QED BY <1>1, <1>2, <2>2, <2>3, Returns
<1> QED BY <1>1, <1>5, <1>6, <1>7, <1>8, <1>9, <1>10 DEF Resume

LEMMA AdvancesTyped ==
  ASSUME NEW s, Types(s), NEW p \in Peers, NEW Q, NEW c, Advances(p, Q, c)
  PROVE  Types(s)'
<1>1. PICK P : P = peer[p] OBVIOUS
<1>2. Typed(P, Mine(s, p)) BY <1>1 DEF Types, PeersTyped
<1>3. PICK id \in Ids : id = call[p].id BY DEF Types, CallTypes
<1>4. SameQueue(P, Q) \/ (P.uploads[id].left > 0 /\ Q = SendPacket(P, id))
  BY <1>1, <1>3 DEF Advances
<1>5. Typed(Q, Mine(s, p)) BY <1>2, <1>4, MineAllowed, SameTyped, SendPacketTyped
<1>6. PeersTyped(s)' /\ Carries(wire', s) BY <1>5, BecomesTyped DEF Advances
<1>7. call' \in [Peers -> CallTypes] BY DEF Types, Advances
<1> QED BY <1>6, <1>7 DEF Types, Advances

\* What p sends first when the application makes the call c.
Opening(c) ==
  CASE c.call = "send_file"    -> Req("SEND_FILE", c.file, NoRef, FALSE)
    [] c.call = "receive_file" -> Req("RECEIVE_FILE", c.file, NoRef, FALSE)
    [] c.call = "list_files"   -> Req("LIST_FILES", c.file, NoRef, FALSE)

\* The application makes the call c, and p is Q then.
Calls(s, p, c, Q) ==
  /\ c \in todo /\ c.by = p /\ c.file \in Files /\ Opening(c) \in Mine(s, p)
  /\ \/ c.call = "send_file" /\ Q = CreateUpload(peer[p], c.file, NoRef)
     \/ c.call \in {"receive_file", "list_files"} /\ Q = SendRequest(peer[p], Opening(c))
  /\ Becomes(p, Q)
  /\ call' = [call EXCEPT ![p] = [NoCall EXCEPT !.call = c.call, !.phase = "waiting",
                                                !.file = c.file, !.id = NewId(peer[p])]]

LEMMA CallTyped ==
  ASSUME NEW s, Types(s), NEW p \in Peers, NEW c, Call(p, c)
  PROVE  Types(s)' /\ UNCHANGED <<batch, done, events>> /\ \E Q : Calls(s, p, c, Q)
<1>1. c \in s /\ c \in UNION Scripts /\ c.by = p BY DEF Call, Types
<1>2. c.file \in Files /\ c.call \in {"send_file", "receive_file", "list_files"} BY <1>1, Assumed
<1>3. Opening(c) \in Mine(s, p)
  <2>1. \A code \in {"SEND_FILE", "RECEIVE_FILE", "LIST_FILES"} :
          LET r == Req(code, c.file, NoRef, FALSE)
          IN  r \in Requests /\ r.code = code /\ r.file = c.file
    BY <1>2, RequestType DEF RequestCodes, Req
  <2>2. c.file \in Made(s, p, c.call) BY <1>1 DEF Made
  <2>3. CASE c.call = "send_file"
    <3>1. Opening(c) = Req("SEND_FILE", c.file, NoRef, FALSE) BY <2>3 DEF Opening
    <3> QED BY <2>1, <2>2, <2>3, <3>1 DEF Mine, Referred
  <2>4. CASE c.call = "receive_file"
    <3>1. Opening(c) = Req("RECEIVE_FILE", c.file, NoRef, FALSE) BY <2>4 DEF Opening
    <3> QED BY <2>1, <2>2, <2>4, <3>1 DEF Mine, Referred
  <2>5. CASE c.call = "list_files"
    <3>1. Opening(c) = Req("LIST_FILES", c.file, NoRef, FALSE) BY <2>5 DEF Opening
    <3> QED BY <2>1, <3>1 DEF Mine, Referred
  <2> QED BY <1>2, <2>3, <2>4, <2>5
<1>4. PICK P : P = peer[p] OBVIOUS
<1>5. Typed(P, Mine(s, p)) /\ P \in PeerTypes BY <1>4 DEF Types, PeersTyped
<1> DEFINE X == CASE c.call = "send_file"    -> CreateUpload(P, c.file, NoRef)
                  [] c.call = "receive_file" -> SendRequest(P, Req("RECEIVE_FILE", c.file, NoRef, FALSE))
                  [] c.call = "list_files"   -> SendRequest(P, Req("LIST_FILES", c.file, NoRef, FALSE))
<1>6. \/ c.call = "send_file" /\ X = CreateUpload(P, c.file, NoRef)
      \/ c.call \in {"receive_file", "list_files"} /\ X = SendRequest(P, Opening(c))
  <2>1. CASE c.call = "send_file" BY <2>1
  <2>2. CASE c.call = "receive_file"
    <3>1. Opening(c) = Req("RECEIVE_FILE", c.file, NoRef, FALSE) BY <2>2 DEF Opening
    <3> QED BY <2>2, <3>1
  <2>3. CASE c.call = "list_files"
    <3>1. Opening(c) = Req("LIST_FILES", c.file, NoRef, FALSE) BY <2>3 DEF Opening
    <3> QED BY <2>3, <3>1
  <2> QED BY <1>2, <2>1, <2>2, <2>3
<1>7. Becomes(p, X) BY <1>4 DEF Call
<1> HIDE DEF X
<1>8. Typed(X, Mine(s, p))
  <2>1. CASE c.call = "send_file" /\ X = CreateUpload(P, c.file, NoRef)
    <3>1. Opening(c) = Req("SEND_FILE", c.file, NoRef, FALSE) BY <2>1 DEF Opening
    <3> QED BY <1>2, <1>3, <1>5, <2>1, <3>1, MineAllowed, CreateUploadTyped
  <2>2. CASE c.call \in {"receive_file", "list_files"} /\ X = SendRequest(P, Opening(c))
    BY <1>3, <1>5, <2>2, MineAllowed, SendRequestTyped
  <2> QED BY <1>6, <2>1, <2>2
<1>9. PeersTyped(s)' /\ Carries(wire', s) BY <1>7, <1>8, BecomesTyped
<1> DEFINE n == [NoCall EXCEPT !.call = c.call, !.phase = "waiting", !.file = c.file, !.id = NewId(P)]
<1>10. n \in CallTypes
  <2>1. PICK id \in Ids : id = NewId(P) BY <1>5, Found
  <2> QED BY <1>2, <2>1, NoCallType DEF CallTypes
<1>11. call' = [call EXCEPT ![p] = n] BY <1>4 DEF Call
<1>12. call' \in [Peers -> CallTypes]
  <2> HIDE DEF n
  <2> QED BY <1>10, <1>11 DEF Types
<1>13. UNCHANGED <<batch, done, events>> /\ todo' = todo \ {c} /\ c \in todo BY DEF Call
<1>14. Calls(s, p, c, X) BY <1>1, <1>2, <1>3, <1>4, <1>6, <1>7, <1>11, <1>13 DEF Calls
<1>15. Types(s)' BY <1>9, <1>12, <1>13 DEF Types
<1> QED BY <1>13, <1>14, <1>15

\* The application answers the request a, and p is Q then.
Answers(p, a, Q) ==
  /\ a \in peer[p].asked /\ Becomes(p, Q)
  /\ LET P == [peer[p] EXCEPT !.asked = @ \ {a}]
     IN  \/ \E current \in BOOLEAN : Q = Respond(P, a.id, a.req, current)
         \/ Q = Refuse(P, a.id, a.req, "FORBIDDEN")

LEMMA AnswerTyped ==
  ASSUME NEW s, Types(s), NEW p \in Peers, Answer(p)
  PROVE  Types(s)' /\ UNCHANGED <<batch, done, call, todo, events>> /\ \E a, Q : Answers(p, a, Q)
<1>1. PICK P : P = peer[p] OBVIOUS
<1>2. Typed(P, Mine(s, p)) /\ P.asked \in SUBSET Asked BY <1>1 DEF Types, PeersTyped, Typed, PeerTypes
<1>3. PICK a \in P.asked :
         LET L == [peer[p] EXCEPT !.asked = @ \ {a}]
         IN  \/ \E current \in BOOLEAN : Becomes(p, Respond(L, a.id, a.req, current))
             \/ Becomes(p, Refuse(L, a.id, a.req, "FORBIDDEN"))
  BY <1>1 DEF Answer
<1>4. PICK Q : Answers(p, a, Q) BY <1>1, <1>3, Zenon DEF Answers
<1>5. a.id \in Ids /\ a.req \in Requests BY <1>2 DEF Asked
<1> DEFINE rest == P.asked \ {a}
           L == [P EXCEPT !.asked = rest]
<1>6. /\ Becomes(p, Q)
      /\ (\E current \in BOOLEAN : Q = Respond(L, a.id, a.req, current)) \/ Q = Refuse(L, a.id, a.req, "FORBIDDEN")
  BY <1>1, <1>4, Zenon DEF Answers
<1>7. Typed(L, Mine(s, p))
  <2>1. rest \in SUBSET Asked BY <1>2
  <2> HIDE DEF rest
  <2> QED BY <1>2, <2>1, AskedTyped
<1> HIDE DEF L
<1>8. Typed(Q, Mine(s, p))
  <2>1. ASSUME NEW current \in BOOLEAN PROVE Typed(Respond(L, a.id, a.req, current), Mine(s, p))
    BY <1>5, <1>7, MineAllowed, RespondTyped
  <2>2. Typed(Refuse(L, a.id, a.req, "FORBIDDEN"), Mine(s, p))
    <3>1. "FORBIDDEN" \in Statuses BY Assumed
    <3> QED BY <1>5, <1>7, <3>1, RefuseTyped
  <2> QED BY <1>6, <2>1, <2>2
<1>9. PeersTyped(s)' /\ Carries(wire', s) BY <1>6, <1>8, BecomesTyped
<1>10. UNCHANGED <<batch, done, call, todo, events>> BY DEF Answer
<1> QED BY <1>4, <1>9, <1>10 DEF Types
-----------------------------------------------------------------------------
\* The invariant: the types, for the calls s that are made, and where a peer is
\* in its batch.
Session ==
  /\ \E s \in Scripts : Types(s)
  /\ \A p \in Peers : done[p] <= Len(batch[p]) + 1
  /\ events \subseteq Exceptions \cup {"no download", "no listing", "accepted unasked"}
  /\ "nothing" \notin events

LEMMA SessionInit == Init => Session
<1> SUFFICES ASSUME Init PROVE Session OBVIOUS
<1>1. \A p \in Peers : done[p] <= Len(batch[p]) + 1 BY DEF Init
<1>2. events = {} BY DEF Init
<1> QED BY <1>1, <1>2, TypesInit DEF Session

\* Every step is that of one peer: it polls, handles a message, goes on with its
\* call, answers the other, or makes a call.
LEMMA Steps ==
  ASSUME [Next]_vars
  PROVE  \/ UNCHANGED vars
         \/ \E p \in Peers : \/ Poll(p) \/ PollEnds(p) \/ Handle(p) \/ Resume(p) \/ Answer(p)
                             \/ \E c \in UNION Scripts : Call(p, c)
BY DEF Next, Work

LEMMA SessionStep ==
  ASSUME Session, [Next]_vars
  PROVE  Session'
<1>1. PICK s \in Scripts : Types(s) BY DEF Session
<1>2. /\ done \in [Peers -> Nat] /\ batch \in [Peers -> Seq(OnWire)]
      /\ \A p \in Peers : Len(batch[p]) \in Nat
  BY <1>1 DEF Types, Carries
<1> DEFINE Inside == \A p \in Peers : done[p] <= Len(batch[p]) + 1
           Known == /\ events \subseteq Exceptions \cup {"no download", "no listing", "accepted unasked"}
                    /\ "nothing" \notin events
<1>3. Inside /\ Known BY DEF Session
<1> SUFFICES Types(s)' /\ Inside' /\ Known'
  BY <1>1 DEF Session
<1>4. CASE UNCHANGED vars
  <2>1. Types(s)' BY <1>1, <1>4 DEF vars, Types, PeersTyped, Carries
  <2>2. done' = done /\ batch' = batch /\ events' = events BY <1>4 DEF vars
  <2> QED BY <1>3, <2>1, <2>2
<1>5. ASSUME NEW p \in Peers, Poll(p) \/ PollEnds(p) PROVE Types(s)' /\ Inside' /\ Known'
  <2>1. Types(s)' /\ events' = events BY <1>1, <1>5, PollTyped
  <2>2. \A o \in Peers : Len(batch[o])' \in Nat BY <2>1 DEF Types, Carries
  <2>3. done'[p] \in {0, 1} /\ \A o \in Peers : o # p => done'[o] = done[o] /\ batch'[o] = batch[o]
    BY <1>2, <1>5 DEF Poll, PollEnds
  <2>4. ASSUME NEW o \in Peers PROVE done'[o] <= Len(batch'[o]) + 1
    <3>1. CASE o = p
      <4>1. Len(batch'[o]) \in Nat BY <2>2
      <4>2. done'[o] \in {0, 1} BY <2>3, <3>1
      <4> QED BY ONLY <4>1, <4>2
    <3>2. CASE o # p BY <1>3, <2>3, <3>2
    <3> QED BY <3>1, <3>2
  <2> QED BY <1>3, <2>1, <2>4
<1>6. ASSUME NEW p \in Peers, Handle(p) PROVE Types(s)' /\ Inside' /\ Known'
  <2>1. Types(s)' /\ batch' = batch BY <1>1, <1>6, HandleTyped
  <2>2. PICK m, Q : Turns(s, p, m, Q) BY <1>1, <1>6, HandleTyped
  <2>3. done[p] \in 1 .. Len(batch[p]) BY <1>6 DEF Handle
  <2>4. \A o \in Peers : done'[o] = done[o] \/ (o = p /\ done'[o] \in {0, done[o] + 1})
    <3>1. done' = [done EXCEPT ![p] = IF Q.thrown = "nothing" THEN @ + 1 ELSE 0] BY <2>2 DEF Turns
    <3>2. \A o \in Peers : o # p => done'[o] = done[o] BY <1>2, <3>1
    <3>3. CASE Q.thrown = "nothing" BY ONLY <1>2, <3>1, <3>2, <3>3
    <3>4. CASE Q.thrown # "nothing" BY ONLY <1>2, <3>1, <3>2, <3>4
    <3> QED BY <3>3, <3>4
  <2>5. ASSUME NEW o \in Peers PROVE done'[o] <= Len(batch'[o]) + 1
    <3>1. done[o] \in Nat /\ Len(batch[o]) \in Nat /\ done[o] <= Len(batch[o]) + 1 BY <1>2, <1>3
    <3>2. batch' = batch BY <2>1
    <3>3. done'[o] = done[o] \/ (o = p /\ done'[o] \in {0, done[o] + 1}) BY <2>4
    <3> QED BY ONLY <2>3, <3>1, <3>2, <3>3
  <2>6. Q.thrown \in Exceptions BY <2>2 DEF Turns, Typed, PeerTypes
  <2>7. events' \subseteq events \cup ({Q.thrown} \ {"nothing"}) \cup {"accepted unasked"}
    BY <2>2 DEF Turns
  <2> QED BY <1>3, <2>1, <2>5, <2>6, <2>7
<1>7. ASSUME NEW p \in Peers, Resume(p) PROVE Types(s)' /\ Inside' /\ Known'
  <2>1. PICK Q, c : Advances(p, Q, c) BY <1>1, <1>7, ResumeAdvances
  <2>2. Types(s)' BY <1>1, <2>1, AdvancesTyped
  <2>3. batch' = batch /\ done' = done /\ \E new \in SUBSET {"no download", "no listing"} : events' = events \cup new
    BY <2>1 DEF Advances
  <2> QED BY <1>3, <2>2, <2>3
<1>8. ASSUME NEW p \in Peers, Answer(p) PROVE Types(s)' /\ Inside' /\ Known'
  BY <1>1, <1>3, <1>8, AnswerTyped
<1>9. ASSUME NEW p \in Peers, NEW c, Call(p, c) PROVE Types(s)' /\ Inside' /\ Known'
  BY <1>1, <1>3, <1>9, CallTyped
<1> HIDE DEF Inside, Known
<1> QED BY <1>4, <1>5, <1>6, <1>7, <1>8, <1>9, Steps

LEMMA SessionAlways == Spec => []Session
<1>1. Session /\ UNCHANGED vars => Session' BY SessionStep
<1>2. Session /\ [Next]_vars => Session' BY SessionStep
<1> QED BY <1>2, SessionInit, PTL DEF Spec

LEMMA SessionTyped == Session => SessionTypeOK
<1> SUFFICES ASSUME Session PROVE SessionTypeOK OBVIOUS
<1>1. PICK s \in Scripts : Types(s) BY DEF Session
<1>2. /\ peer \in [Peers -> PeerTypes]
      /\ \A p \in Peers : peer[p].written = <<>> /\ peer[p].thrown = "nothing"
  BY <1>1 DEF Types, PeersTyped
<1>3. peer \in [Peers -> [next : Ids, slots : Ids, hung : BOOLEAN, out : [Ids -> Messages], in : [Ids -> Messages],
                         uploads : Transfers, downloads : Transfers, lists : Transfers,
                         listings : Transfers, asked : SUBSET [id : Ids, req : Requests],
                         written : {<<>>}, thrown : {"nothing"}]]
  BY <1>2 DEF PeerTypes, Asked
<1>4. \A p \in Peers : wire[p] \in Seq(OnWire) /\ batch[p] \in Seq(OnWire)
  BY <1>1 DEF Types, Carries
<1>5. \A p \in Peers : done[p] \in 0 .. Len(batch[p]) + 1
  <2> TAKE p \in Peers
  <2>1. done[p] \in Nat /\ Len(batch[p]) \in Nat BY <1>1, <1>4 DEF Types
  <2>2. done[p] <= Len(batch[p]) + 1 BY DEF Session
  <2> QED BY <2>1, <2>2
<1>6. todo \subseteq UNION Scripts BY <1>1 DEF Types
<1>7. events \subseteq {"no slot", "no upload", "no download", "no listing", "no page",
                        "accepted unasked"}
  BY DEF Session, Exceptions
<1>8. call \in [Peers -> CallTypes] BY <1>1 DEF Types
<1> QED BY <1>3, <1>4, <1>5, <1>6, <1>7, <1>8 DEF SessionTypeOK, CallTypes

\* Whatever the applications call, whatever they answer and however the messages
\* are cut into batches, every variable keeps its type: an id is never beyond
\* MAX_ID, a slot is never missing nor one too many for its type, and no handler
\* leaves a message unwritten or an exception unthrown (Peer_private.cpp:57-191).
THEOREM TypeCorrect == Spec => []SessionTypeOK
BY SessionAlways, SessionTyped, PTL

\* When no file is sent to the peer that fetches it, a SEND_FILE that answers no
\* RECEIVE_FILE matches none.
LEMMA NoneMatches ==
  ASSUME OneWay, NEW s, Types(s), NEW p \in Peers, NEW r \in Mine(s, Other(p)),
         r.code = "SEND_FILE", r.ref = NoRef
  PROVE  Matches(peer[p], r) = {}
<1> SUFFICES ASSUME NEW id \in Matches(peer[p], r) PROVE FALSE OBVIOUS
<1>1. /\ id \in Ids /\ peer[p].out[id].status # Absent
      /\ peer[p].out[id].req.code = "RECEIVE_FILE" /\ peer[p].out[id].req.file = r.file
  BY DEF Matches
<1>2. peer[p].out[id].req \in Mine(s, p) BY <1>1 DEF Types, PeersTyped, Typed
<1>3. r.file \in Made(s, p, "receive_file") BY <1>1, <1>2 DEF Mine
<1>4. r.file \in Made(s, Other(p), "send_file") BY DEF Mine
<1>5. PICK d \in s : d.by = p /\ d.call = "receive_file" /\ d.file = r.file BY <1>3 DEF Made
<1>6. PICK c \in s : c.by = Other(p) /\ c.call = "send_file" /\ c.file = r.file BY <1>4 DEF Made
<1>7. s \in Scripts /\ c.by # d.by BY <1>5, <1>6, Two DEF Types
<1> QED BY <1>5, <1>6, <1>7 DEF OneWay

LEMMA HandledUnasked ==
  ASSUME OneWay, NEW s, Types(s), NEW p \in Peers, NEW m, NEW Q, Turns(s, p, m, Q)
  PROVE  ~Unasked(p, m, Q)
<1> SUFFICES ASSUME Unasked(p, m, Q) PROVE FALSE OBVIOUS
<1>1. m.type = "REQUEST" /\ m.req.code = "SEND_FILE" /\ m.req.ref = NoRef /\ Q.in[m.id].status # Pending
  BY DEF Unasked
<1>2. m \in Wired(Mine(s, Other(p))) /\ m \in OnWire BY MineAllowed DEF Turns
<1>3. m.req \in Mine(s, Other(p)) BY <1>1, <1>2 DEF Wired
<1>4. Matches(peer[p], m.req) = {} BY <1>1, <1>3, NoneMatches
<1>5. PICK P : P = peer[p] OBVIOUS
<1>6. Typed(P, Mine(s, p)) /\ P.thrown = "nothing" /\ Q \in Handled(P, m) /\ Allowed(Mine(s, p))
  BY <1>5, MineAllowed DEF Types, PeersTyped, Turns
<1>7. Q.in[m.id].status = Pending BY <1>1, <1>2, <1>4, <1>5, <1>6, HandledTyped
<1> QED BY <1>1, <1>7

LEMMA UnaskedStep ==
  ASSUME OneWay, Session, UnaskedOnlyInReply, [Next]_vars
  PROVE  UnaskedOnlyInReply'
<1>1. PICK s \in Scripts : Types(s) BY DEF Session
<1>2. CASE UNCHANGED vars BY <1>2 DEF vars, UnaskedOnlyInReply
<1>3. ASSUME NEW p \in Peers, Poll(p) \/ PollEnds(p) \/ Answer(p) PROVE events' = events
  BY <1>1, <1>3, PollTyped, AnswerTyped
<1>4. ASSUME NEW p \in Peers, NEW c, Call(p, c) PROVE events' = events
  BY <1>1, <1>4, CallTyped
<1>5. ASSUME NEW p \in Peers, Handle(p) PROVE UnaskedOnlyInReply'
  <2>1. PICK m, Q : Turns(s, p, m, Q) BY <1>1, <1>5, HandleTyped
  <2>2. ~Unasked(p, m, Q) BY <1>1, <2>1, HandledUnasked
  <2>3. events' \subseteq events \cup {Q.thrown} BY <2>1, <2>2 DEF Turns
  <2>4. Q.thrown \in Exceptions BY <2>1 DEF Turns, Typed, PeerTypes
  <2> QED BY <2>3, <2>4 DEF Exceptions, UnaskedOnlyInReply
<1>6. ASSUME NEW p \in Peers, Resume(p) PROVE UnaskedOnlyInReply'
  <2>1. PICK Q, c : Advances(p, Q, c) BY <1>1, <1>6, ResumeAdvances
  <2>2. PICK new \in SUBSET {"no download", "no listing"} : events' = events \cup new
    BY <2>1 DEF Advances
  <2> QED BY <2>2 DEF UnaskedOnlyInReply
<1> QED BY <1>2, <1>3, <1>4, <1>5, <1>6, Steps DEF UnaskedOnlyInReply

\* As long as no file is sent to the peer that fetches it, no application gets a
\* file it neither fetched nor was asked about, whatever the calls and whatever
\* their number: a SEND_FILE that answers no RECEIVE_FILE waits for the
\* application (Peer_private.cpp:63-94).
THEOREM NeverUnasked == ASSUME OneWay PROVE Spec => []UnaskedOnlyInReply
<1>1. Init => UnaskedOnlyInReply BY DEF Init, UnaskedOnlyInReply
<1>2. Session /\ UnaskedOnlyInReply /\ [Next]_vars => UnaskedOnlyInReply' BY UnaskedStep
<1> QED BY <1>1, <1>2, SessionAlways, PTL DEF Spec
-----------------------------------------------------------------------------
\* Where an id may be.  A peer has its requests in out; the other has those that
\* wait for its application in asked; to and from are the messages that go to the
\* other and come from it.

Asking(m, id)   == m.type = "REQUEST" /\ m.id = id
Replying(m, id) == m.type = "RESPONSE" /\ m.id = id

\* The SEND_FILE that answers the RECEIVE_FILE id.
Sending(m, id)  == m.type = "REQUEST" /\ m.req.code = "SEND_FILE" /\ m.req.ref = id

\* The RECEIVE_FILE requests that wait.
Fetches(out) == {id \in Open(out) : out[id].req.code = "RECEIVE_FILE"}

\* A request on its way is nowhere else, and has no status.
Underway(id, out, asked, to, from) ==
  \A i \in 1 .. Len(to) : Asking(to[i], id) =>
    /\ out[id] = Message(to[i].req)
    /\ \A j \in 1 .. Len(to) : Asking(to[j], id) => j = i
    /\ \A k \in 1 .. Len(from) : ~Replying(from[k], id) /\ ~Sending(from[k], id)
    /\ \A a \in asked : a.id # id

\* One that waits for the application has at most its APPROVAL_PENDING on its way.
Awaits(id, out, asked, from) ==
  \A a \in asked : a.id = id =>
    /\ id \in Open(out) /\ out[id].req = a.req /\ a.req.code = "SEND_FILE"
    /\ \A b \in asked : b.id = id => b = a
    /\ \A k \in 1 .. Len(from) : Replying(from[k], id) => from[k].status = Pending

\* A reply finds its request open; only an APPROVAL_PENDING has another behind it.
Returning(id, out, from) ==
  \A k \in 1 .. Len(from) : Replying(from[k], id) =>
    /\ id \in Open(out)
    /\ \A l \in 1 .. Len(from) : l > k /\ Replying(from[l], id) => from[k].status = Pending

\* The SEND_FILE for a RECEIVE_FILE comes once, behind its STATUS_OK.
Answering(id, out, from) ==
  \A k \in 1 .. Len(from) : Sending(from[k], id) =>
    /\ id \in Fetches(out)
    /\ \A l \in 1 .. Len(from) : Sending(from[l], id) => l = k
    /\ \A l \in 1 .. Len(from) : Replying(from[l], id) => l < k /\ from[l].status = "STATUS_OK"

Placed(id, out, asked, to, from) ==
  /\ Underway(id, out, asked, to, from) /\ Awaits(id, out, asked, from)
  /\ Returning(id, out, from) /\ Answering(id, out, from)

Half(out, asked, to, from) == \A id \in Ids : Placed(id, out, asked, to, from)

\* What happens to other ids, and with messages that are not about id, changes
\* nothing for it.
LEMMA OtherPlaced ==
  ASSUME NEW id, NEW out, NEW new, NEW asked, NEW some, NEW to, NEW next, NEW from, NEW last,
         Placed(id, out, asked, to, from),
         new[id] = out[id], id \in Open(out) <=> id \in Open(new),
         \A a \in some : a.id = id => a \in asked,
         \A i \in 1 .. Len(next) : Asking(next[i], id) => i \in 1 .. Len(to) /\ to[i] = next[i],
         \A i \in 1 .. Len(last) : Replying(last[i], id) \/ Sending(last[i], id)
           => i \in 1 .. Len(from) /\ from[i] = last[i]
  PROVE  Placed(id, new, some, next, last)
<1>1. Underway(id, new, some, next, last)
  BY DEF Placed, Underway
<1>2. Awaits(id, new, some, last)
  BY DEF Placed, Awaits
<1>3. Returning(id, new, last)
  BY DEF Placed, Returning
<1>4. Answering(id, new, last)
  BY DEF Placed, Answering, Fetches
<1> QED BY <1>1, <1>2, <1>3, <1>4 DEF Placed

LEMMA OpenUpdate ==
  ASSUME NEW out \in [Ids -> Messages], NEW id \in Ids, NEW m \in Messages
  PROVE  /\ [out EXCEPT ![id] = m] \in [Ids -> Messages]
         /\ \A o \in Ids : o # id => /\ [out EXCEPT ![id] = m][o] = out[o]
                                     /\ o \in Open(out) <=> o \in Open([out EXCEPT ![id] = m])
         /\ [out EXCEPT ![id] = m][id] = m
         /\ id \in Open([out EXCEPT ![id] = m]) <=> m.status \in Unanswered
BY DEF Open

LEMMA Appending ==
  ASSUME NEW s \in Seq(OnWire), NEW m \in OnWire
  PROVE  /\ Append(s, m) \in Seq(OnWire) /\ Len(Append(s, m)) = Len(s) + 1 /\ Len(s) \in Nat
         /\ \A i \in 1 .. Len(s) : Append(s, m)[i] = s[i]
         /\ Append(s, m)[Len(s) + 1] = m
         /\ \A i \in 1 .. Len(s) + 1 : i \in 1 .. Len(s) \/ i = Len(s) + 1
OBVIOUS

\* A request is sent, under an id that is free.
LEMMA HalfRequested ==
  ASSUME NEW out \in [Ids -> Messages], NEW asked, NEW to \in Seq(OnWire), NEW from \in Seq(OnWire),
         Half(out, asked, to, from), NEW id \in Ids, id \notin Open(out), NEW r \in Requests
  PROVE  Half([out EXCEPT ![id] = Message(r)], asked,
              Append(to, [type |-> "REQUEST", id |-> id, req |-> r]), from)
<1> DEFINE m == [type |-> "REQUEST", id |-> id, req |-> r]
           new == [out EXCEPT ![id] = Message(r)]
           next == Append(to, m)
<1>1. m \in OnWire /\ m.id = id /\ m.type = "REQUEST" /\ m.req = r BY DEF OnWire
<1>2. Message(r) \in Messages /\ Message(r).status \in Unanswered BY MessageType DEF Message, Unanswered
<1> HIDE DEF m
<1>3. /\ Len(next) = Len(to) + 1 /\ Len(to) \in Nat /\ next[Len(to) + 1] = m
      /\ \A i \in 1 .. Len(to) : next[i] = to[i]
      /\ \A i \in 1 .. Len(to) + 1 : i \in 1 .. Len(to) \/ i = Len(to) + 1
  BY <1>1, Appending
<1>4. /\ \A o \in Ids : o # id => new[o] = out[o] /\ (o \in Open(out) <=> o \in Open(new))
      /\ new[id] = Message(r)
  BY <1>2, OpenUpdate
<1> HIDE DEF new, next
<1>5. ASSUME NEW o \in Ids, o # id PROVE Placed(o, new, asked, next, from)
  <2>1. Placed(o, out, asked, to, from) BY DEF Half
  <2>2. \A i \in 1 .. Len(next) : Asking(next[i], o) => i \in 1 .. Len(to) /\ to[i] = next[i]
    BY <1>1, <1>3, <1>5 DEF Asking
  <2> QED BY <1>4, <1>5, <2>1, <2>2, OtherPlaced
<1>6. Placed(id, new, asked, next, from)
  <2>1. Placed(id, out, asked, to, from) BY DEF Half
  <2>2. \A k \in 1 .. Len(from) : ~Replying(from[k], id) /\ ~Sending(from[k], id)
    BY <2>1 DEF Placed, Returning, Answering, Fetches
  <2>3. \A a \in asked : a.id # id BY <2>1 DEF Placed, Awaits
  <2>4. \A i \in 1 .. Len(to) : ~Asking(to[i], id)
    BY <2>1 DEF Placed, Underway, Message, Open, Unanswered
  <2>5. Underway(id, new, asked, next, from)
    BY <1>1, <1>3, <1>4, <2>2, <2>3, <2>4 DEF Underway
  <2> QED BY <2>2, <2>3, <2>5 DEF Placed, Awaits, Returning, Answering
<1> QED BY <1>5, <1>6 DEF Half, new, next, m

\* What a SEND_FILE for the RECEIVE_FILE id needs.
MayAnswer(id, out, to, from) ==
  /\ id \in Fetches(out)
  /\ \A i \in 1 .. Len(to) : ~Asking(to[i], id)
  /\ \A k \in 1 .. Len(from) : ~Sending(from[k], id)
  /\ \A k \in 1 .. Len(from) : Replying(from[k], id) => from[k].status = "STATUS_OK"

\* The other peer sends a request.
LEMMA HalfAnswered ==
  ASSUME NEW out, NEW asked, NEW to, NEW from \in Seq(OnWire),
         Half(out, asked, to, from), NEW id \in Ids, NEW r \in Requests,
         \A o \in Ids : r.code = "SEND_FILE" /\ r.ref = o => MayAnswer(o, out, to, from)
  PROVE  Half(out, asked, to, Append(from, [type |-> "REQUEST", id |-> id, req |-> r]))
<1> DEFINE m == [type |-> "REQUEST", id |-> id, req |-> r]
           last == Append(from, m)
<1>1. m \in OnWire /\ m.type = "REQUEST" /\ m.req = r BY DEF OnWire
<1> HIDE DEF m
<1>2. /\ Len(last) = Len(from) + 1 /\ Len(from) \in Nat /\ last[Len(from) + 1] = m
      /\ \A i \in 1 .. Len(from) : last[i] = from[i]
      /\ \A i \in 1 .. Len(from) + 1 : i \in 1 .. Len(from) \/ i = Len(from) + 1
  BY <1>1, Appending
<1> HIDE DEF last
<1>3. ASSUME NEW o \in Ids PROVE Placed(o, out, asked, to, last)
  <2>1. Placed(o, out, asked, to, from) BY DEF Half
  <2>2. \A i \in 1 .. Len(last) : Replying(last[i], o) => i \in 1 .. Len(from) /\ from[i] = last[i]
    BY <1>1, <1>2 DEF Replying
  <2>3. CASE r.code = "SEND_FILE" /\ r.ref = o
    <3>1. MayAnswer(o, out, to, from) BY <2>3
    <3>2. Underway(o, out, asked, to, last) BY <3>1 DEF MayAnswer, Underway
    <3>3. Awaits(o, out, asked, last) BY <2>1, <2>2 DEF Placed, Awaits
    <3>4. Returning(o, out, last) BY <2>1, <2>2 DEF Placed, Returning
    <3>5. Answering(o, out, last)
      BY <1>2, <2>2, <3>1 DEF Answering, MayAnswer
    <3> QED BY <3>2, <3>3, <3>4, <3>5 DEF Placed
  <2>4. CASE ~(r.code = "SEND_FILE" /\ r.ref = o)
    <3>1. \A i \in 1 .. Len(last) : Sending(last[i], o) => i \in 1 .. Len(from) /\ from[i] = last[i]
      BY <1>1, <1>2, <2>4 DEF Sending
    <3> QED BY <2>1, <2>2, <3>1, OtherPlaced
  <2> QED BY <2>3, <2>4
<1> QED BY <1>3 DEF Half, last, m

\* What an answer to the request id needs.
MayReply(id, out, asked, to, from, status) ==
  /\ id \in Open(out)
  /\ \A i \in 1 .. Len(to) : ~Asking(to[i], id)
  /\ \A k \in 1 .. Len(from) : ~Sending(from[k], id)
  /\ \A k \in 1 .. Len(from) : Replying(from[k], id) => from[k].status = Pending
  /\ \A a \in asked : a.id = id => status = Pending

\* The other peer answers.
LEMMA HalfReplied ==
  ASSUME NEW out, NEW asked, NEW to, NEW from \in Seq(OnWire),
         Half(out, asked, to, from), NEW id \in Ids, NEW status \in Statuses,
         MayReply(id, out, asked, to, from, status)
  PROVE  Half(out, asked, to, Append(from, [type |-> "RESPONSE", id |-> id, status |-> status]))
<1> DEFINE m == [type |-> "RESPONSE", id |-> id, status |-> status]
           last == Append(from, m)
<1>1. m \in OnWire /\ m.type = "RESPONSE" /\ m.id = id /\ m.status = status BY DEF OnWire
<1> HIDE DEF m
<1>2. /\ Len(last) = Len(from) + 1 /\ Len(from) \in Nat /\ last[Len(from) + 1] = m
      /\ \A i \in 1 .. Len(from) : last[i] = from[i]
      /\ \A i \in 1 .. Len(from) + 1 : i \in 1 .. Len(from) \/ i = Len(from) + 1
  BY <1>1, Appending
<1> HIDE DEF last
<1>3. ASSUME NEW o \in Ids PROVE Placed(o, out, asked, to, last)
  <2>1. Placed(o, out, asked, to, from) BY DEF Half
  <2>2. \A i \in 1 .. Len(last) : Sending(last[i], o) => i \in 1 .. Len(from) /\ from[i] = last[i]
    BY <1>1, <1>2 DEF Sending
  <2>3. CASE o = id
    <3>1. Underway(o, out, asked, to, last) BY <2>3 DEF MayReply, Underway
    <3>2. Awaits(o, out, asked, last) BY <1>1, <1>2, <2>1, <2>3 DEF MayReply, Placed, Awaits
    <3>3. Returning(o, out, last) BY <1>2, <2>3 DEF MayReply, Returning
    <3>4. Answering(o, out, last) BY <2>2, <2>3 DEF MayReply, Answering
    <3> QED BY <3>1, <3>2, <3>3, <3>4 DEF Placed
  <2>4. CASE o # id
    <3>1. \A i \in 1 .. Len(last) : Replying(last[i], o) => i \in 1 .. Len(from) /\ from[i] = last[i]
      BY <1>1, <1>2, <2>4 DEF Replying
    <3> QED BY <2>1, <2>2, <3>1, OtherPlaced
  <2> QED BY <2>3, <2>4
<1> QED BY <1>3 DEF Half, last, m

\* The peer answers a request of the other.
LEMMA HalfAnswers ==
  ASSUME NEW out, NEW asked, NEW to \in Seq(OnWire), NEW from,
         Half(out, asked, to, from), NEW id \in Ids, NEW status \in Statuses
  PROVE  Half(out, asked, Append(to, [type |-> "RESPONSE", id |-> id, status |-> status]), from)
<1> DEFINE m == [type |-> "RESPONSE", id |-> id, status |-> status]
           next == Append(to, m)
<1>1. m \in OnWire /\ m.type = "RESPONSE" BY DEF OnWire
<1> HIDE DEF m
<1>2. /\ Len(next) = Len(to) + 1 /\ next[Len(to) + 1] = m
      /\ \A i \in 1 .. Len(to) : next[i] = to[i]
      /\ \A i \in 1 .. Len(to) + 1 : i \in 1 .. Len(to) \/ i = Len(to) + 1
  BY <1>1, Appending
<1> HIDE DEF next
<1>3. ASSUME NEW o \in Ids PROVE Placed(o, out, asked, next, from)
  <2>1. Placed(o, out, asked, to, from) BY DEF Half
  <2>2. \A i \in 1 .. Len(next) : Asking(next[i], o) => i \in 1 .. Len(to) /\ to[i] = next[i]
    BY <1>1, <1>2 DEF Asking
  <2> QED BY <2>1, <2>2, OtherPlaced
<1> QED BY <1>3 DEF Half, next, m

\* What recording a status for the request id needs.
MaySettle(id, out, asked, to, from, status) ==
  /\ \A i \in 1 .. Len(to) : ~Asking(to[i], id)
  /\ status = Pending => id \in Open(out)
  /\ status # Pending => /\ \A a \in asked : a.id # id
                         /\ \A k \in 1 .. Len(from) : ~Replying(from[k], id) /\ ~Sending(from[k], id)

LEMMA HalfSettled ==
  ASSUME NEW out \in [Ids -> Messages], NEW asked, NEW to, NEW from,
         Half(out, asked, to, from), NEW id \in Ids, NEW status \in Statuses,
         MaySettle(id, out, asked, to, from, status)
  PROVE  Half([out EXCEPT ![id].status = status], asked, to, from)
<1> DEFINE m == [out[id] EXCEPT !.status = status]
           new == [out EXCEPT ![id].status = status]
<1>1. m \in Messages /\ m.status = status /\ m.req = out[id].req BY MessageType DEF Messages
<1>2. new = [out EXCEPT ![id] = m] OBVIOUS
<1> HIDE DEF m, new
<1>3. /\ \A o \in Ids : o # id => new[o] = out[o] /\ (o \in Open(out) <=> o \in Open(new))
      /\ new[id] = m /\ (id \in Open(new) <=> status \in Unanswered)
  BY <1>1, <1>2, OpenUpdate
<1>4. ASSUME NEW o \in Ids, o # id PROVE Placed(o, new, asked, to, from)
  BY <1>3, <1>4, OtherPlaced DEF Half
<1>5. Placed(id, new, asked, to, from)
  <2>1. Placed(id, out, asked, to, from) BY DEF Half
  <2>2. CASE status = Pending
    <3>1. id \in Open(new) BY <1>3, <2>2 DEF Unanswered
    <3>2. Underway(id, new, asked, to, from) BY DEF MaySettle, Underway
    <3>3. Awaits(id, new, asked, from) BY <1>1, <1>3, <2>1, <3>1 DEF Placed, Awaits
    <3>4. Returning(id, new, from) BY <2>1, <3>1 DEF Placed, Returning
    <3>5. Answering(id, new, from) BY <1>1, <1>3, <2>1, <3>1 DEF Placed, Answering, Fetches
    <3> QED BY <3>2, <3>3, <3>4, <3>5 DEF Placed
  <2>3. CASE status # Pending
    BY <2>3 DEF MaySettle, Placed, Underway, Awaits, Returning, Answering
  <2> QED BY <2>2, <2>3
<1> QED BY <1>4, <1>5 DEF Half, new

\* A request that is settled has nothing under way.
LEMMA ClosedSettles ==
  ASSUME NEW out, NEW asked, NEW to, NEW from, Half(out, asked, to, from),
         NEW id \in Ids, id \notin Open(out), NEW status, status # Pending
  PROVE  MaySettle(id, out, asked, to, from, status)
<1>1. Placed(id, out, asked, to, from) BY DEF Half
<1>2. ASSUME NEW i \in 1 .. Len(to), Asking(to[i], id) PROVE FALSE
  <2>1. out[id] = Message(to[i].req) BY <1>1, <1>2 DEF Placed, Underway
  <2>2. out[id].status = None BY <2>1 DEF Message
  <2> QED BY <2>2 DEF Open, Unanswered
<1>3. \A a \in asked : a.id # id BY <1>1 DEF Placed, Awaits
<1>4. \A k \in 1 .. Len(from) : ~Replying(from[k], id) BY <1>1 DEF Placed, Returning
<1>5. \A k \in 1 .. Len(from) : ~Sending(from[k], id) BY <1>1 DEF Placed, Answering, Fetches
<1> QED BY <1>2, <1>3, <1>4, <1>5 DEF MaySettle

\* The first message is taken.
LEMMA Taking ==
  ASSUME NEW s \in Seq(OnWire), s # <<>>
  PROVE  /\ Tail(s) \in Seq(OnWire) /\ Len(s) \in Nat /\ Len(s) # 0 /\ Len(Tail(s)) = Len(s) - 1
         /\ \A i \in 1 .. Len(s) - 1 : i + 1 \in 1 .. Len(s) /\ Tail(s)[i] = s[i + 1]
         /\ 1 \in 1 .. Len(s) /\ s[1] \in OnWire
OBVIOUS

LEMMA HalfTakenTo ==
  ASSUME NEW out, NEW asked, NEW to \in Seq(OnWire), to # <<>>, NEW from, Half(out, asked, to, from)
  PROVE  Half(out, asked, Tail(to), from)
<1> DEFINE next == Tail(to)
<1>1. /\ Len(to) \in Nat /\ Len(next) = Len(to) - 1
      /\ \A i \in 1 .. Len(to) - 1 : i + 1 \in 1 .. Len(to) /\ next[i] = to[i + 1]
  BY Taking
<1> HIDE DEF next
<1>2. ASSUME NEW o \in Ids PROVE Placed(o, out, asked, next, from)
  <2>1. Placed(o, out, asked, to, from) BY DEF Half
  <2>2. Underway(o, out, asked, next, from)
    <3> SUFFICES ASSUME NEW i \in 1 .. Len(next), Asking(next[i], o)
                 PROVE  /\ out[o] = Message(next[i].req)
                        /\ \A j \in 1 .. Len(next) : Asking(next[j], o) => j = i
                        /\ \A k \in 1 .. Len(from) : ~Replying(from[k], o) /\ ~Sending(from[k], o)
                        /\ \A a \in asked : a.id # o
      BY DEF Underway
    <3>1. i + 1 \in 1 .. Len(to) /\ Asking(to[i + 1], o) /\ next[i] = to[i + 1] BY <1>1
    <3>2. /\ out[o] = Message(to[i + 1].req)
          /\ \A j \in 1 .. Len(to) : Asking(to[j], o) => j = i + 1
          /\ \A k \in 1 .. Len(from) : ~Replying(from[k], o) /\ ~Sending(from[k], o)
          /\ \A a \in asked : a.id # o
      BY <2>1, <3>1 DEF Placed, Underway
    <3>3. ASSUME NEW j \in 1 .. Len(next), Asking(next[j], o) PROVE j = i
      <4>1. j + 1 \in 1 .. Len(to) /\ Asking(to[j + 1], o) BY <1>1, <3>3
      <4>2. j + 1 = i + 1 BY <3>2, <4>1
      <4> QED BY <4>2
    <3> QED BY <3>1, <3>2, <3>3
  <2> QED BY <2>1, <2>2 DEF Placed
<1> QED BY <1>2 DEF Half, next

LEMMA HalfTakenFrom ==
  ASSUME NEW out, NEW asked, NEW to, NEW from \in Seq(OnWire), from # <<>>, Half(out, asked, to, from)
  PROVE  Half(out, asked, to, Tail(from))
<1> DEFINE last == Tail(from)
<1>1. /\ Len(from) \in Nat /\ Len(last) = Len(from) - 1
      /\ \A i \in 1 .. Len(from) - 1 : i + 1 \in 1 .. Len(from) /\ last[i] = from[i + 1]
  BY Taking
<1> HIDE DEF last
<1>0. \A i \in 1 .. Len(last) : i \in Nat /\ i + 1 \in 1 .. Len(from) /\ last[i] = from[i + 1]
  BY <1>1
<1>2. ASSUME NEW o \in Ids PROVE Placed(o, out, asked, to, last)
  <2>1. Placed(o, out, asked, to, from) BY DEF Half
  <2>2. Underway(o, out, asked, to, last)
    <3>1. Underway(o, out, asked, to, from) BY <2>1 DEF Placed
    <3> QED BY <1>0, <3>1 DEF Underway
  <2>3. Awaits(o, out, asked, last)
    <3>1. Awaits(o, out, asked, from) BY <2>1 DEF Placed
    <3> QED BY <1>0, <3>1 DEF Awaits
  <2>4. Returning(o, out, last)
    <3>1. Returning(o, out, from) BY <2>1 DEF Placed
    <3>2. \A k, l \in 1 .. Len(last) : l > k => l + 1 > k + 1 OBVIOUS
    <3> QED BY <1>0, <3>1, <3>2 DEF Returning
  <2>5. Answering(o, out, last)
    <3>1. Answering(o, out, from) BY <2>1 DEF Placed
    <3>2. \A k, l \in 1 .. Len(last) : (l + 1 < k + 1 => l < k) /\ (l + 1 = k + 1 => l = k) OBVIOUS
    <3> QED BY <1>0, <3>1, <3>2 DEF Answering
  <2> QED BY <2>2, <2>3, <2>4, <2>5 DEF Placed
<1> QED BY <1>2 DEF Half, last

\* The application is asked, and takes a request up.
LEMMA HalfAsked ==
  ASSUME NEW out, NEW asked, NEW to, NEW from, Half(out, asked, to, from), NEW id \in Ids, NEW r,
         id \in Open(out), out[id].req = r, r.code = "SEND_FILE",
         \A a \in asked : a.id # id,
         \A i \in 1 .. Len(to) : ~Asking(to[i], id),
         \A k \in 1 .. Len(from) : Replying(from[k], id) => from[k].status = Pending
  PROVE  Half(out, asked \cup {[id |-> id, req |-> r]}, to, from)
<1> DEFINE some == asked \cup {[id |-> id, req |-> r]}
<1>1. \A a \in some : a \in asked \/ (a.id = id /\ a.req = r /\ a = [id |-> id, req |-> r]) OBVIOUS
<1> HIDE DEF some
<1>2. ASSUME NEW o \in Ids, o # id PROVE Placed(o, out, some, to, from)
  BY <1>1, <1>2, OtherPlaced DEF Half
<1>3. Placed(id, out, some, to, from)
  <2>1. Placed(id, out, asked, to, from) BY DEF Half
  <2>2. Awaits(id, out, some, from) BY <1>1 DEF Awaits
  <2> QED BY <2>1, <2>2 DEF Placed, Underway
<1> QED BY <1>2, <1>3 DEF Half, some

LEMMA HalfFewer ==
  ASSUME NEW out, NEW asked, NEW some, some \subseteq asked, NEW to, NEW from, Half(out, asked, to, from)
  PROVE  Half(out, some, to, from)
<1>1. ASSUME NEW o \in Ids PROVE Placed(o, out, some, to, from)
  <2>1. Placed(o, out, asked, to, from) BY DEF Half
  <2>2. Underway(o, out, some, to, from) BY <2>1 DEF Placed, Underway
  <2>3. Awaits(o, out, some, from) BY <2>1 DEF Placed, Awaits
  <2> QED BY <2>1, <2>2, <2>3 DEF Placed
<1> QED BY <1>1 DEF Half
-----------------------------------------------------------------------------
\* Two peers, of which P is within a call: w is on its way to V apart from what P
\* has written, mine on its way to P.  fetches has the ids of the RECEIVE_FILE
\* requests P may have.
Sound(P, V, mine, w, fetches) ==
  /\ Half(P.out, V.asked, w \o P.written, mine)
  /\ Half(V.out, P.asked, mine, w \o P.written)
  /\ Fetches(P.out) \subseteq fetches
  /\ P.slots + Cardinality(Open(P.out)) = MaxId
  /\ ~P.hung

Context(V, mine, w) == V \in PeerTypes /\ mine \in Seq(OnWire) /\ w \in Seq(OnWire)

LEMMA SoundSame ==
  ASSUME NEW P, NEW V, NEW mine, NEW w, NEW F, Sound(P, V, mine, w, F), NEW Q, SameQueue(P, Q)
  PROVE  Sound(Q, V, mine, w, F)
BY DEF Sound, SameQueue

LEMMA SoundThrown ==
  ASSUME NEW P \in PeerTypes, NEW V, NEW mine, NEW w, NEW F, Sound(P, V, mine, w, F), NEW e \in Exceptions
  PROVE  Sound([P EXCEPT !.thrown = e], V, mine, w, F)
<1> DEFINE Q == [P EXCEPT !.thrown = e]
<1>1. /\ Q.out = P.out /\ Q.written = P.written /\ Q.asked = P.asked /\ Q.slots = P.slots
      /\ Q.hung = P.hung
  BY DEF PeerTypes
<1> HIDE DEF Q
<1>2. Sound(Q, V, mine, w, F) BY <1>1 DEF Sound
<1> QED BY <1>2 DEF Q

\* As long as a slot is left, so is an id: fewer than MaxId + 1 are open.
LEMMA IdLeft ==
  ASSUME NEW P \in PeerTypes, NEW V, NEW mine, NEW w, NEW F, Sound(P, V, mine, w, F)
  PROVE  Open(P.out) # Ids
<1> SUFFICES ASSUME Open(P.out) = Ids PROVE FALSE OBVIOUS
<1>1. P.slots + (MaxId + 1) = MaxId BY IdsFinite DEF Sound
<1>2. P.slots \in Nat BY DEF PeerTypes, Ids
<1> QED BY <1>1, <1>2

\* How many ids are open after one is used or settled.
LEMMA OpenCount ==
  ASSUME NEW out \in [Ids -> Messages], NEW id \in Ids, NEW m \in Messages
  PROVE  LET before == Cardinality(Open(out))
             after  == Cardinality(Open([out EXCEPT ![id] = m]))
         IN  /\ before \in Nat /\ after \in Nat
             /\ id \notin Open(out) /\ m.status \in Unanswered => after = before + 1
             /\ id \in Open(out) /\ m.status \notin Unanswered => after = before - 1
             /\ (id \in Open(out) <=> m.status \in Unanswered) => after = before
<1> DEFINE new == [out EXCEPT ![id] = m]
<1>1. \A o \in Ids : o # id => (o \in Open(out) <=> o \in Open(new)) BY OpenUpdate
<1>2. id \in Open(new) <=> m.status \in Unanswered BY OpenUpdate
<1>3. Open(out) \subseteq Ids /\ Open(new) \subseteq Ids BY DEF Open
<1> HIDE DEF new
<1>4. /\ IsFiniteSet(Open(out)) /\ IsFiniteSet(Open(new))
      /\ Cardinality(Open(out)) \in Nat /\ Cardinality(Open(new)) \in Nat
  BY IdsFinite
<1>5. CASE id \notin Open(out) /\ m.status \in Unanswered
  <2>1. Open(new) = Open(out) \cup {id} BY <1>1, <1>2, <1>3, <1>5
  <2>2. Cardinality(Open(new)) = Cardinality(Open(out)) + 1 BY <1>4, <1>5, <2>1, FS_AddElement
  <2> QED BY <1>4, <1>5, <2>2 DEF new
<1>6. CASE id \in Open(out) /\ m.status \notin Unanswered
  <2>1. Open(new) = Open(out) \ {id} BY <1>1, <1>2, <1>3, <1>6
  <2>2. Cardinality(Open(new)) = Cardinality(Open(out)) - 1 BY <1>4, <1>6, <2>1, FS_RemoveElement
  <2> QED BY <1>4, <1>6, <2>2 DEF new
<1>7. CASE id \in Open(out) <=> m.status \in Unanswered
  <2>1. Open(new) = Open(out) BY <1>1, <1>2, <1>3, <1>7
  <2> QED BY <1>4, <1>7, <2>1 DEF new
<1> QED BY <1>5, <1>6, <1>7

\* What P needs to send a SEND_FILE in answer.
Answerable(r, P, V, mine, w) ==
  \A o \in Ids : r.code = "SEND_FILE" /\ r.ref = o => MayAnswer(o, V.out, mine, w \o P.written)

LEMMA SoundRequest ==
  ASSUME NEW G, Allowed(G), NEW P, Typed(P, G), NEW V, NEW mine, NEW w, Context(V, mine, w), NEW F,
         Sound(P, V, mine, w, F), NEW r \in G,
         r.code = "RECEIVE_FILE" => NewId(P) \in F, Answerable(r, P, V, mine, w)
  PROVE  Sound(SendRequest(P, r), V, mine, w, F)
<1> DEFINE id == NewId(P)
           m == [type |-> "REQUEST", id |-> id, req |-> r]
           Q == SendRequest(P, r)
<1>1. P \in PeerTypes /\ P.out \in [Ids -> Messages] /\ P.written \in Seq(OnWire) /\ P.slots \in Ids
  BY DEF Typed, PeerTypes
<1>2. Open(P.out) # Ids BY <1>1, IdLeft
<1>3. id \in Ids /\ id \notin Open(P.out) BY <1>1, <1>2, Found DEF Finds
<1>4. r \in Requests /\ Message(r) \in Messages /\ Message(r).status \in Unanswered /\ Message(r).req = r
  BY MessageType DEF Allowed, Referred, Message, Unanswered
<1>5. /\ Half(P.out, V.asked, w \o P.written, mine) /\ Half(V.out, P.asked, mine, w \o P.written)
      /\ Fetches(P.out) \subseteq F /\ P.slots + Cardinality(Open(P.out)) = MaxId /\ ~P.hung
      /\ mine \in Seq(OnWire) /\ w \in Seq(OnWire)
  BY DEF Sound, Context
<1>6. CASE P.slots = 0
  <2>1. "no slot" \in Exceptions BY DEF Exceptions
  <2>2. Q = [P EXCEPT !.thrown = "no slot"] BY <1>6 DEF SendRequest
  <2> HIDE DEF Q
  <2>3. Sound([P EXCEPT !.thrown = "no slot"], V, mine, w, F) BY <1>1, <2>1, SoundThrown
  <2>4. Sound(Q, V, mine, w, F) BY <2>2, <2>3
  <2> QED BY <2>4 DEF Q
<1>7. CASE P.slots # 0
  <2>1. m \in OnWire BY <1>3, <1>4 DEF OnWire
  <2>2. P.slots > 0 BY <1>1, <1>7 DEF Ids
  <2>3. Q = [P EXCEPT !.slots = @ - 1, !.next = Succ(id), !.out[id] = Message(r),
                      !.written = Append(@, m)]
    BY <1>2, <1>7, Zenon DEF SendRequest
  <2> HIDE DEF Q, m, id
  <2>4. /\ Q.slots = P.slots - 1 /\ Q.asked = P.asked /\ Q.hung = P.hung
        /\ Q.written = Append(P.written, m) /\ Q.out = [P.out EXCEPT ![id] = Message(r)]
    BY <1>1, <2>3 DEF PeerTypes
  <2>5. w \o Q.written = Append(w \o P.written, m) /\ w \o P.written \in Seq(OnWire)
    BY <1>1, <1>5, <2>1, <2>4
  <2> DEFINE sent == w \o P.written
  <2>11. /\ Half(P.out, V.asked, sent, mine) /\ Half(V.out, P.asked, mine, sent)
         /\ sent \in Seq(OnWire) /\ w \o Q.written = Append(sent, m)
         /\ \A o \in Ids : r.code = "SEND_FILE" /\ r.ref = o => MayAnswer(o, V.out, mine, sent)
    BY <1>5, <2>5 DEF Answerable
  <2> HIDE DEF sent
  <2>6. Half(Q.out, V.asked, w \o Q.written, mine)
    <3>1. Half([P.out EXCEPT ![id] = Message(r)], V.asked, Append(sent, m), mine)
      BY <1>1, <1>3, <1>4, <1>5, <2>11, HalfRequested DEF m
    <3> QED BY <2>4, <2>11, <3>1
  <2>7. Half(V.out, Q.asked, mine, w \o Q.written)
    <3>1. Half(V.out, P.asked, mine, Append(sent, m))
      BY <1>3, <1>4, <2>11, HalfAnswered DEF m
    <3> QED BY <2>4, <2>11, <3>1
  <2>8. Fetches(Q.out) \subseteq F
    <3>1. \A o \in Ids : o # id => Q.out[o] = P.out[o] /\ (o \in Open(P.out) <=> o \in Open(Q.out))
      BY <1>1, <1>3, <1>4, <2>4, OpenUpdate
    <3>2. Q.out[id].req = r BY <1>1, <1>3, <1>4, <2>4
    <3>3. r.code = "RECEIVE_FILE" => id \in F BY DEF id
    <3>4. \A o \in Fetches(Q.out) : o \in Ids /\ (o # id => o \in Fetches(P.out)) /\ Q.out[o].req.code = "RECEIVE_FILE"
      BY <3>1 DEF Fetches, Open
    <3> QED BY <1>5, <3>2, <3>3, <3>4
  <2>9. Q.slots + Cardinality(Open(Q.out)) = MaxId /\ ~Q.hung
    <3>1. /\ Cardinality(Open(P.out)) \in Nat
          /\ Cardinality(Open([P.out EXCEPT ![id] = Message(r)])) = Cardinality(Open(P.out)) + 1
      BY <1>1, <1>3, <1>4, OpenCount
    <3>2. P.slots \in Nat BY <1>1 DEF Ids
    <3>3. Cardinality(Open(Q.out)) = Cardinality(Open(P.out)) + 1 BY <2>4, <3>1
    <3>4. Q.slots + Cardinality(Open(Q.out)) = MaxId
      <4>1. P.slots + Cardinality(Open(P.out)) = MaxId /\ Q.slots = P.slots - 1 BY <1>5, <2>4
      <4>2. Cardinality(Open(P.out)) \in Nat BY <3>1
      <4> QED BY ONLY <3>2, <3>3, <4>1, <4>2
    <3> QED BY <1>5, <2>4, <3>4
  <2>10. Sound(Q, V, mine, w, F) BY <2>6, <2>7, <2>8, <2>9 DEF Sound
  <2> QED BY <2>10 DEF Q
<1> QED BY <1>6, <1>7

LEMMA SoundReply ==
  ASSUME NEW P \in PeerTypes, NEW V, NEW mine, NEW w, Context(V, mine, w), NEW F,
         Sound(P, V, mine, w, F), NEW id \in Ids, NEW status \in Statuses,
         MayReply(id, V.out, P.asked, mine, w \o P.written, status)
  PROVE  /\ Sound(SendReply(P, id, status), V, mine, w, F)
         /\ SendReply(P, id, status).written
              = Append(P.written, [type |-> "RESPONSE", id |-> id, status |-> status])
         /\ SendReply(P, id, status).asked = P.asked /\ SendReply(P, id, status).out = P.out
<1> DEFINE m == [type |-> "RESPONSE", id |-> id, status |-> status]
           Q == SendReply(P, id, status)
           sent == w \o P.written
<1>1. P.written \in Seq(OnWire) /\ m \in OnWire BY DEF PeerTypes, OnWire
<1>2. /\ Half(P.out, V.asked, sent, mine) /\ Half(V.out, P.asked, mine, sent)
      /\ mine \in Seq(OnWire) /\ w \in Seq(OnWire) /\ sent \in Seq(OnWire)
      /\ MayReply(id, V.out, P.asked, mine, sent, status)
  BY <1>1 DEF Sound, Context
<1>3. Q = [P EXCEPT !.in[id].status = status, !.written = Append(@, m)] BY DEF SendReply
<1> HIDE DEF Q, m
<1>4. /\ Q.written = Append(P.written, m) /\ Q.out = P.out /\ Q.asked = P.asked
      /\ Q.slots = P.slots /\ Q.hung = P.hung
  BY <1>3 DEF PeerTypes
<1>5. w \o Q.written = Append(sent, m) BY <1>1, <1>2, <1>4
<1> HIDE DEF sent
<1>6. Half(P.out, V.asked, Append(sent, m), mine) BY <1>2, HalfAnswers DEF m
<1>7. Half(V.out, P.asked, mine, Append(sent, m)) BY <1>2, HalfReplied DEF m
<1>8. Sound(Q, V, mine, w, F) BY <1>4, <1>5, <1>6, <1>7 DEF Sound
<1> QED BY <1>4, <1>8 DEF Q, m

LEMMA SoundSettle ==
  ASSUME NEW P \in PeerTypes, NEW V, NEW mine, NEW w, Context(V, mine, w), NEW F,
         Sound(P, V, mine, w, F), NEW id \in Ids, NEW status \in Statuses,
         MaySettle(id, P.out, V.asked, w \o P.written, mine, status)
  PROVE  /\ Sound(Settle(P, id, status), V, mine, w, F)
         /\ Settle(P, id, status).written = P.written /\ Settle(P, id, status).asked = P.asked
<1> DEFINE m == [P.out[id] EXCEPT !.status = status]
           Q == Settle(P, id, status)
           n == SlotsAfterReply(P.slots, P.out[id].status, status)
           sent == w \o P.written
<1>1. P.out \in [Ids -> Messages] /\ P.slots \in Ids BY DEF PeerTypes
<1>2. m \in Messages /\ m.status = status /\ m.req = P.out[id].req BY <1>1, MessageType DEF Messages
<1>3. Q = [P EXCEPT !.out[id].status = status, !.slots = n] BY DEF Settle
<1> HIDE DEF Q, n
<1>4. /\ Q.out = [P.out EXCEPT ![id].status = status] /\ Q.slots = n
      /\ Q.written = P.written /\ Q.asked = P.asked /\ Q.hung = P.hung
  BY <1>3 DEF PeerTypes
<1>5. Q.out = [P.out EXCEPT ![id] = m] BY <1>4
<1> HIDE DEF m
<1>6. /\ Half(P.out, V.asked, sent, mine) /\ Half(V.out, P.asked, mine, sent)
      /\ MaySettle(id, P.out, V.asked, sent, mine, status)
      /\ Fetches(P.out) \subseteq F /\ P.slots + Cardinality(Open(P.out)) = MaxId /\ ~P.hung
  BY DEF Sound
<1> HIDE DEF sent
<1>7. Half(Q.out, V.asked, sent, mine) BY <1>1, <1>4, <1>6, HalfSettled
<1>8. status \in Unanswered <=> status = Pending BY DEF Unanswered, Statuses
<1>9. id \in Open(P.out) <=> P.out[id].status \in Unanswered BY DEF Open
<1>10. /\ \A o \in Ids : o # id => Q.out[o] = P.out[o] /\ (o \in Open(P.out) <=> o \in Open(Q.out))
       /\ Q.out[id] = m /\ (id \in Open(Q.out) <=> status \in Unanswered)
  BY <1>1, <1>2, <1>5, OpenUpdate
<1>11. status = Pending => id \in Open(P.out) BY <1>6 DEF MaySettle
<1>12. Fetches(Q.out) \subseteq F
  <2>1. ASSUME NEW o \in Fetches(Q.out) PROVE o \in Fetches(P.out)
    BY <1>2, <1>8, <1>10, <1>11 DEF Fetches, Open
  <2> QED BY <1>6, <2>1
<1>13. Q.slots + Cardinality(Open(Q.out)) = MaxId
  <2> DEFINE before == Cardinality(Open(P.out))
             after == Cardinality(Open(Q.out))
  <2>1. /\ before \in Nat /\ after \in Nat
        /\ id \in Open(P.out) /\ status \notin Unanswered => after = before - 1
        /\ (id \in Open(P.out) <=> status \in Unanswered) => after = before
    BY <1>1, <1>2, <1>5, OpenCount
  <2>2. P.slots + before = MaxId /\ P.slots \in 0 .. MaxId BY <1>1, <1>6 DEF Ids
  <2> HIDE DEF before, after
  <2>3. CASE id \in Open(P.out) /\ status # Pending
    <3>1. after = before - 1 BY <1>8, <2>1, <2>3
    <3>2. n = Succ(P.slots) BY <1>9, <2>3 DEF n, SlotsAfterReply
    <3>3. P.slots # MaxId BY ONLY <2>1, <2>2, <3>1
    <3>4. n = P.slots + 1 BY <3>2, <3>3 DEF Succ
    <3>5. n + after = MaxId BY ONLY <2>1, <2>2, <3>1, <3>4
    <3> QED BY <1>4, <3>5 DEF after
  <2>4. CASE ~(id \in Open(P.out) /\ status # Pending)
    <3>1. n = P.slots BY <1>9, <2>4 DEF n, SlotsAfterReply
    <3>2. after = before BY <1>8, <1>11, <2>1, <2>4
    <3> QED BY <1>4, <2>2, <3>1, <3>2 DEF after
  <2> QED BY <2>3, <2>4
<1>14. Sound(Q, V, mine, w, F) BY <1>4, <1>6, <1>7, <1>12, <1>13 DEF Sound, sent
<1> QED BY <1>4, <1>14 DEF Q

\* A packet and a page answer nothing.
LEMMA Plainly ==
  ASSUME NEW r, r.code \notin {"SEND_FILE", "RECEIVE_FILE"}
  PROVE  \A P, V, mine, w : Answerable(r, P, V, mine, w)
BY DEF Answerable

LEMMA SoundPacket ==
  ASSUME NEW G, Allowed(G), NEW P, Typed(P, G), NEW V, NEW mine, NEW w, Context(V, mine, w), NEW F,
         Sound(P, V, mine, w, F), NEW id \in Ids, P.uploads[id].left > 0
  PROVE  Sound(SendPacket(P, id), V, mine, w, F)
<1> DEFINE fewer == [P.uploads EXCEPT ![id].left = @ - 1]
           r == Req("DATA_PACKET", P.uploads[id].file, id, P.uploads[id].left = 1)
           base == [P EXCEPT !.uploads = fewer]
<1>1. r \in G /\ r.code = "DATA_PACKET" /\ fewer \in Transfers BY PacketSent
<1> HIDE DEF fewer
<1>2. SameQueue(P, base) BY <1>1, UpdateSame DEF Typed
<1>3. SendPacket(P, id) = SendRequest(base, r) BY DEF SendPacket, fewer
<1> HIDE DEF r, base
<1>4. Typed(base, G) /\ Sound(base, V, mine, w, F) BY <1>2, SameTyped, SoundSame
<1>5. Answerable(r, base, V, mine, w) BY <1>1, Plainly
<1>6. Sound(SendRequest(base, r), V, mine, w, F) BY <1>1, <1>4, <1>5, SoundRequest
<1> QED BY <1>3, <1>6

LEMMA SoundPage ==
  ASSUME NEW G, Allowed(G), NEW P, Typed(P, G), NEW V, NEW mine, NEW w, Context(V, mine, w), NEW F,
         Sound(P, V, mine, w, F), NEW id \in Ids, P.lists[id].left > 0
  PROVE  Sound(SendPage(P, id), V, mine, w, F)
<1> DEFINE fewer == [P.lists EXCEPT ![id].left = @ - 1]
           r == Req("FILE_LIST", P.lists[id].file, id, P.lists[id].left = 1)
           base == [P EXCEPT !.lists = fewer]
<1>1. r \in G /\ r.code = "FILE_LIST" /\ fewer \in Transfers BY PageSent
<1> HIDE DEF fewer
<1>2. SameQueue(P, base) BY <1>1, UpdateSame DEF Typed
<1>3. SendPage(P, id) = SendRequest(base, r) BY DEF SendPage, fewer
<1> HIDE DEF r, base
<1>4. Typed(base, G) /\ Sound(base, V, mine, w, F) BY <1>2, SameTyped, SoundSame
<1>5. Answerable(r, base, V, mine, w) BY <1>1, Plainly
<1>6. Sound(SendRequest(base, r), V, mine, w, F) BY <1>1, <1>4, <1>5, SoundRequest
<1> QED BY <1>3, <1>6

LEMMA SoundPackets ==
  ASSUME NEW G, Allowed(G), NEW P, Typed(P, G), NEW V, NEW mine, NEW w, Context(V, mine, w), NEW F,
         Sound(P, V, mine, w, F), NEW id \in Ids, NEW n \in Nat, n <= P.uploads[id].left
  PROVE  Sound(SendPackets(P, id, n), V, mine, w, F)
<1>0. PICK g : Sent(g, P, id, n) BY Bursts, Zenon
<1>1. g[0] = P /\ g[n] = SendPackets(P, id, n) /\ \A i \in 1 .. n : g[i] = SendPacket(g[i - 1], id)
  BY <1>0 DEF Sent
<1> DEFINE good(i) == /\ Typed(g[i], G) /\ g[i].uploads[id].left = P.uploads[id].left - i
                      /\ Sound(g[i], V, mine, w, F)
           bad == {i \in 0 .. n : ~good(i)}
<1>2. P.uploads[id].left \in Nat
  <2>1. P.uploads[id] \in Transferred BY TransferType DEF Typed, PeerTypes
  <2>2. P.uploads[id].left \in 0 .. Packets + Pages /\ Packets \in Nat /\ Pages \in Nat
    BY <2>1, Assumed DEF Transferred
  <2> QED BY <2>2
<1>3. bad = {}
  <2> SUFFICES ASSUME bad # {} PROVE FALSE OBVIOUS
  <2>1. PICK i \in bad : \A j \in bad : i <= j
    <3>1. bad \subseteq Nat OBVIOUS
    <3> HIDE DEF bad
    <3> QED BY <3>1, LeastNumber
  <2>2. good(0) BY <1>1, <1>2
  <2>3. i # 0 /\ i \in 1 .. n BY <2>1, <2>2
  <2>4. good(i - 1) /\ i - 1 \in Nat BY <2>1, <2>3
  <2>5. g[i - 1].uploads[id].left > 0 BY <1>2, <2>3, <2>4
  <2>6. Typed(g[i], G) /\ g[i].uploads[id].left = g[i - 1].uploads[id].left - 1
    BY <1>1, <2>3, <2>4, <2>5, SendPacketTyped
  <2>7. Sound(g[i], V, mine, w, F) BY <1>1, <2>3, <2>4, <2>5, SoundPacket
  <2>8. good(i) BY <1>2, <2>3, <2>4, <2>6, <2>7
  <2> QED BY <2>1, <2>8
<1>4. n \in 0 .. n OBVIOUS
<1>5. good(n) BY <1>3, <1>4
<1> QED BY <1>1, <1>5

LEMMA SoundUpload ==
  ASSUME NEW G, Allowed(G), NEW P, Typed(P, G), NEW V, NEW mine, NEW w, Context(V, mine, w), NEW F,
         Sound(P, V, mine, w, F), NEW f \in Files, NEW ref \in Ids \cup {NoRef},
         Req("SEND_FILE", f, ref, FALSE) \in G,
         Answerable(Req("SEND_FILE", f, ref, FALSE), P, V, mine, w)
  PROVE  Sound(CreateUpload(P, f, ref), V, mine, w, F)
<1> DEFINE r == Req("SEND_FILE", f, ref, FALSE)
           Q == SendRequest(P, r)
           t == [Q.uploads EXCEPT ![NewId(P)] = Emplaced(@, Transfer(f, Packets))]
<1>1. Typed(Q, G) /\ Sound(Q, V, mine, w, F)
  <2>1. r.code # "RECEIVE_FILE" BY DEF Req
  <2> HIDE DEF r
  <2> QED BY <2>1, SendRequestTyped, SoundRequest DEF r
<1>2. CreateUpload(P, f, ref) = Q \/ CreateUpload(P, f, ref) = [Q EXCEPT !.uploads = t]
  BY Zenon DEF CreateUpload
<1> HIDE DEF Q
<1>3. t \in Transfers
  <2>1. Q.uploads \in [Ids -> Transferred] BY <1>1, TransferType DEF Typed, PeerTypes
  <2>2. \A id \in Ids : Emplaced(Q.uploads[id], Transfer(f, Packets)) \in Transferred
    <3>1. Transfer(f, Packets) \in Transferred BY TransferType
    <3> QED BY <2>1, <3>1, TransferType
  <2> QED BY <2>1, <2>2, TransferType
<1> HIDE DEF t
<1>4. SameQueue(Q, [Q EXCEPT !.uploads = t]) BY <1>1, <1>3, UpdateSame DEF Typed
<1>5. Sound([Q EXCEPT !.uploads = t], V, mine, w, F) BY <1>1, <1>4, SoundSame
<1> QED BY <1>1, <1>2, <1>5, Zenon

\* What receive_reply does after it has recorded the status keeps the ids apart.
LEMMA SoundReplied ==
  ASSUME NEW G, Allowed(G), NEW Q, Typed(Q, G), NEW V, NEW mine, NEW w, Context(V, mine, w), NEW F,
         Sound(Q, V, mine, w, F), NEW id \in Ids, NEW r \in G, NEW status, NEW X,
         Replied(X, Q, id, r, status)
  PROVE  Sound(X, V, mine, w, F)
<1>1. r \in Requests /\ r.file \in Files /\ (r.code \in {"DATA_PACKET", "FILE_LIST"} => r.ref \in Ids)
  <2>1. r \in Requests /\ r \in Referred BY DEF Allowed, Referred
  <2> QED BY <2>1, Assumed DEF Referred
<1>2. Q \in PeerTypes /\ Q.uploads \in [Ids -> Transferred] /\ Q.listings \in [Ids -> Transferred]
  BY TransferType DEF Typed, PeerTypes
<1>3. CASE X = Q BY <1>3
<1>4. CASE /\ status = "STATUS_OK" /\ r.code = "DATA_PACKET" /\ Q.uploads[r.ref].live
           /\ Q.uploads[r.ref].left > 0 /\ X = SendPacket(Q, r.ref)
  BY <1>1, <1>4, SoundPacket
<1>5. CASE X = [Q EXCEPT !.uploads[r.ref] = NoTransfer]
  <2> DEFINE t == [Q.uploads EXCEPT ![r.ref] = NoTransfer]
  <2>1. t \in Transfers BY <1>2, TransferType
  <2>2. X = [Q EXCEPT !.uploads = t] BY <1>5
  <2> HIDE DEF t
  <2>3. SameQueue(Q, [Q EXCEPT !.uploads = t]) BY <1>2, <2>1, UpdateSame
  <2> QED BY <2>2, <2>3, SoundSame
<1>6. CASE X = [Q EXCEPT !.thrown = "no upload"]
  <2>1. "no upload" \in Exceptions BY DEF Exceptions
  <2>2. Sound([Q EXCEPT !.thrown = "no upload"], V, mine, w, F) BY <1>2, <2>1, SoundThrown
  <2> QED BY <1>6, <2>2
<1>7. CASE /\ status = "STATUS_OK" /\ r.code = "SEND_FILE" /\ Q.uploads[id].live
           /\ X = SendPackets(Q, id, BurstOf(Q, id))
  BY <1>7, BurstBounds, SoundPackets
<1>8. CASE X = [Q EXCEPT !.listings[id] = Emplaced(@, Transfer(r.file, 1))]
  <2> DEFINE t == [Q.listings EXCEPT ![id] = Emplaced(@, Transfer(r.file, 1))]
  <2>1. t \in Transfers
    <3>1. Transfer(r.file, 1) \in Transferred BY <1>1, TransferType
    <3> QED BY <1>2, <3>1, TransferType
  <2>2. X = [Q EXCEPT !.listings = t] BY <1>8
  <2> HIDE DEF t
  <2>3. SameQueue(Q, [Q EXCEPT !.listings = t]) BY <1>2, <2>1, UpdateSame
  <2> QED BY <2>2, <2>3, SoundSame
<1>9. CASE /\ status = "STATUS_OK" /\ r.code = "FILE_LIST" /\ Q.lists[r.ref].live
           /\ Q.lists[r.ref].left > 0 /\ X = SendPage(Q, r.ref)
  BY <1>1, <1>9, SoundPage
<1>10. CASE X = [Q EXCEPT !.uploads[id] = NoTransfer]
  <2> DEFINE t == [Q.uploads EXCEPT ![id] = NoTransfer]
  <2>1. t \in Transfers BY <1>2, TransferType
  <2>2. X = [Q EXCEPT !.uploads = t] BY <1>10
  <2> HIDE DEF t
  <2>3. SameQueue(Q, [Q EXCEPT !.uploads = t]) BY <1>2, <2>1, UpdateSame
  <2> QED BY <2>2, <2>3, SoundSame
<1> QED BY <1>3, <1>4, <1>5, <1>6, <1>7, <1>8, <1>9, <1>10, Zenon DEF Replied

\* The first message that comes for P is taken.
LEMMA SoundTaken ==
  ASSUME NEW P \in PeerTypes, NEW V, NEW mine, NEW w, Context(V, mine, w), NEW F,
         Sound(P, V, mine, w, F), mine # <<>>
  PROVE  Sound(P, V, Tail(mine), w, F) /\ Context(V, Tail(mine), w)
<1> DEFINE sent == w \o P.written
<1>1. Half(P.out, V.asked, sent, mine) /\ Half(V.out, P.asked, mine, sent) BY DEF Sound
<1>2. mine \in Seq(OnWire) BY DEF Context
<1> HIDE DEF sent
<1>3. Half(P.out, V.asked, sent, Tail(mine)) BY <1>1, <1>2, HalfTakenFrom
<1>4. Half(V.out, P.asked, Tail(mine), sent) BY <1>1, <1>2, HalfTakenTo
<1>5. Tail(mine) \in Seq(OnWire) BY <1>2, Taking
<1> QED BY <1>3, <1>4, <1>5 DEF Sound, Context, sent

\* The first reply may be recorded, once it is taken.
LEMMA FirstReply ==
  ASSUME NEW out, NEW asked, NEW to, NEW from \in Seq(OnWire), from # <<>>,
         Half(out, asked, to, from), NEW id \in Ids, Replying(from[1], id)
  PROVE  /\ id \in Open(out)
         /\ MaySettle(id, out, asked, to, Tail(from), Recorded(out[id].req, from[1].status))
<1> DEFINE last == Tail(from)
           status == Recorded(out[id].req, from[1].status)
<1>1. /\ 1 \in 1 .. Len(from)
      /\ \A i \in 1 .. Len(last) : i + 1 \in 1 .. Len(from) /\ last[i] = from[i + 1] /\ i + 1 > 1
  <2>1. /\ Len(from) \in Nat /\ Len(last) = Len(from) - 1 /\ 1 \in 1 .. Len(from)
        /\ \A i \in 1 .. Len(from) - 1 : i + 1 \in 1 .. Len(from) /\ last[i] = from[i + 1]
    BY Taking
  <2> HIDE DEF last
  <2> QED BY <2>1
<1> HIDE DEF last
<1>2. Placed(id, out, asked, to, from) BY DEF Half
<1>3. \A i \in 1 .. Len(to) : ~Asking(to[i], id) BY <1>1, <1>2 DEF Placed, Underway
<1>4. /\ id \in Open(out)
      /\ \A l \in 1 .. Len(from) : l > 1 /\ Replying(from[l], id) => from[1].status = Pending
  BY <1>1, <1>2 DEF Placed, Returning
<1>5. \A a \in asked : a.id = id => from[1].status = Pending BY <1>1, <1>2 DEF Placed, Awaits
<1>6. \A k \in 1 .. Len(from) : Sending(from[k], id)
        => from[1].status = "STATUS_OK" /\ out[id].req.code = "RECEIVE_FILE"
  BY <1>1, <1>2 DEF Placed, Answering, Fetches
<1>7. ASSUME status # Pending
      PROVE  /\ \A a \in asked : a.id # id
             /\ \A k \in 1 .. Len(last) : ~Replying(last[k], id) /\ ~Sending(last[k], id)
  <2>1. from[1].status # Pending /\ ~(from[1].status = "STATUS_OK" /\ out[id].req.code = "RECEIVE_FILE")
    BY <1>7 DEF Recorded
  <2> QED BY <1>1, <1>4, <1>5, <1>6, <2>1
<1> HIDE DEF status
<1>8. MaySettle(id, out, asked, to, last, status) BY <1>3, <1>4, <1>7 DEF MaySettle
<1> QED BY <1>4, <1>8 DEF last, status

\* P handles a reply.
LEMMA SoundReceived ==
  ASSUME NEW G, Allowed(G), NEW P, Typed(P, G), NEW V, NEW mine, NEW w, Context(V, mine, w), NEW F,
         Sound(P, V, mine, w, F), mine # <<>>, mine[1].type = "RESPONSE",
         NEW X \in Handled(P, mine[1])
  PROVE  Sound(X, V, Tail(mine), w, F)
<1> DEFINE sent == w \o P.written
<1>1. P \in PeerTypes /\ mine \in Seq(OnWire) BY DEF Typed, Context
<1>2. PICK m \in OnWire : m = mine[1] BY <1>1, Taking
<1>3. PICK id \in Ids, reply \in Statuses : id = m.id /\ reply = m.status BY <1>2 DEF OnWire
<1>4. Sound(P, V, Tail(mine), w, F) /\ Context(V, Tail(mine), w) BY <1>1, SoundTaken
<1>5. Half(P.out, V.asked, sent, mine) BY DEF Sound
<1>6. Replying(mine[1], id) BY <1>2, <1>3 DEF Replying
<1> HIDE DEF sent
<1>7. PICK r : r = P.out[id].req OBVIOUS
<1>8. PICK status \in Statuses : status = Recorded(r, reply) BY RecordedType
<1>9. id \in Open(P.out) /\ MaySettle(id, P.out, V.asked, sent, Tail(mine), status)
  BY <1>1, <1>2, <1>3, <1>5, <1>6, <1>7, <1>8, FirstReply
<1>10. P.out[id].status # Absent BY <1>9 DEF Open, Unanswered, None, Absent, Pending
<1>11. X = ReceiveReply(P, id, reply) BY <1>2, <1>3, <1>10 DEF Handled
<1>12. PICK Q : Q = Settle(P, id, status) OBVIOUS
<1>13. Typed(Q, G) BY <1>10, <1>12, SettleTyped
<1>14. Sound(Q, V, Tail(mine), w, F) BY <1>1, <1>4, <1>9, <1>12, SoundSettle DEF sent
<1>15. r \in G BY <1>7, <1>10 DEF Typed
<1>16. Replied(X, Q, id, r, status) BY <1>7, <1>8, <1>11, <1>12, Replies
<1> QED BY <1>4, <1>13, <1>14, <1>15, <1>16, SoundReplied

\* The request r of V is with P, which has not answered it but for an
\* APPROVAL_PENDING.
Fresh(id, r, P, V, mine, w) ==
  LET sent == w \o P.written IN
  /\ id \in Open(V.out) /\ V.out[id].req = r
  /\ \A i \in 1 .. Len(mine) : ~Asking(mine[i], id)
  /\ \A k \in 1 .. Len(sent) : ~Sending(sent[k], id)
  /\ \A k \in 1 .. Len(sent) : Replying(sent[k], id) => sent[k].status = Pending /\ r.code # "RECEIVE_FILE"
  /\ \A a \in P.asked : a.id # id

LEMMA FreshReply ==
  ASSUME NEW G, NEW P, Typed(P, G), NEW V, NEW mine, NEW w, Context(V, mine, w), NEW F,
         Sound(P, V, mine, w, F), NEW id \in Ids, NEW r, Fresh(id, r, P, V, mine, w), NEW status \in Statuses
  PROVE  /\ Typed(SendReply(P, id, status), G) /\ Sound(SendReply(P, id, status), V, mine, w, F)
         /\ SendReply(P, id, status).asked = P.asked
         /\ SendReply(P, id, status).written
              = Append(P.written, [type |-> "RESPONSE", id |-> id, status |-> status])
<1>1. P \in PeerTypes BY DEF Typed
<1>2. MayReply(id, V.out, P.asked, mine, w \o P.written, status) BY DEF Fresh, MayReply
<1> QED BY <1>1, <1>2, SendReplyTyped, SoundReply

\* Once it has the STATUS_OK before it, the SEND_FILE may answer.
LEMMA FreshAnswerable ==
  ASSUME NEW P \in PeerTypes, NEW V, NEW mine, NEW w \in Seq(OnWire), NEW id \in Ids, NEW r,
         Fresh(id, r, P, V, mine, w), r.code = "RECEIVE_FILE", NEW f, NEW L,
         L.written = Append(P.written, [type |-> "RESPONSE", id |-> id, status |-> "STATUS_OK"])
  PROVE  Answerable(Req("SEND_FILE", f, id, FALSE), L, V, mine, w)
<1> DEFINE m == [type |-> "RESPONSE", id |-> id, status |-> "STATUS_OK"]
           sent == w \o P.written
           next == Append(sent, m)
<1>0. /\ id \in Open(V.out) /\ V.out[id].req = r
      /\ \A i \in 1 .. Len(mine) : ~Asking(mine[i], id)
      /\ \A k \in 1 .. Len(sent) : ~Sending(sent[k], id) /\ ~Replying(sent[k], id)
  BY DEF Fresh
<1>1. m \in OnWire /\ m.type = "RESPONSE" /\ m.status = "STATUS_OK" BY Assumed DEF OnWire
<1> HIDE DEF m
<1>2. /\ Len(next) = Len(sent) + 1 /\ next[Len(sent) + 1] = m
      /\ \A i \in 1 .. Len(sent) : next[i] = sent[i]
      /\ \A i \in 1 .. Len(sent) + 1 : i \in 1 .. Len(sent) \/ i = Len(sent) + 1
  <2>1. sent \in Seq(OnWire)
    <3>1. P.written \in Seq(OnWire) BY DEF PeerTypes
    <3> QED BY <3>1
  <2> HIDE DEF sent
  <2> QED BY <1>1, <2>1, Appending
<1>3. w \o L.written = next
  <2>1. P.written \in Seq(OnWire) /\ L.written = Append(P.written, m) BY DEF PeerTypes, m
  <2> QED BY <1>1, <2>1
<1> HIDE DEF next, sent
<1>4. \A k \in 1 .. Len(next) : (k \in 1 .. Len(sent) /\ next[k] = sent[k]) \/ next[k] = m BY <1>2
<1>5. Pending # "STATUS_OK" /\ id \in Fetches(V.out) BY <1>0 DEF Fetches, Pending
<1>6. \A k \in 1 .. Len(next) : ~Sending(next[k], id) BY <1>0, <1>1, <1>4 DEF Sending
<1>7. \A k \in 1 .. Len(next) : Replying(next[k], id) => next[k].status = "STATUS_OK"
  BY <1>0, <1>1, <1>4
<1>8. MayAnswer(id, V.out, mine, next) BY <1>0, <1>5, <1>6, <1>7 DEF MayAnswer
<1> QED BY <1>3, <1>8 DEF Answerable, Req

\* P answers a request.
LEMMA SoundRespond ==
  ASSUME NEW G, Allowed(G), NEW P, Typed(P, G), NEW V, NEW mine, NEW w, Context(V, mine, w), NEW F,
         Sound(P, V, mine, w, F), NEW id \in Ids, NEW r \in Requests, NEW current \in BOOLEAN,
         Fresh(id, r, P, V, mine, w)
  PROVE  Sound(Respond(P, id, r, current), V, mine, w, F)
<1>0. PICK X : X = Respond(P, id, r, current) OBVIOUS
<1>1. P \in PeerTypes /\ w \in Seq(OnWire) BY DEF Typed, Context
<1>2. PICK Q : SameQueue(P, Q) /\ Responds(Q, X, id, r) BY <1>0, <1>1, Responses
<1> SUFFICES Sound(X, V, mine, w, F) BY <1>0
<1>3. Typed(Q, G) /\ Sound(Q, V, mine, w, F) BY <1>2, SameTyped, SoundSame
<1>4. Q.written = P.written /\ Q.asked = P.asked BY <1>2 DEF SameQueue
<1>5. Fresh(id, r, Q, V, mine, w) BY <1>4 DEF Fresh
<1>6. "STATUS_OK" \in Statuses /\ Final \subseteq Statuses BY Assumed DEF Statuses
<1> DEFINE L == SendReply(Q, id, "STATUS_OK")
<1>7. /\ Typed(L, G) /\ Sound(L, V, mine, w, F)
      /\ L.written = Append(P.written, [type |-> "RESPONSE", id |-> id, status |-> "STATUS_OK"])
  BY <1>3, <1>4, <1>5, <1>6, FreshReply
<1>8. CASE \E status \in Final : X = SendReply(Q, id, status)
  <2>1. PICK status \in Statuses : X = SendReply(Q, id, status) BY <1>6, <1>8
  <2> QED BY <1>3, <1>5, <2>1, FreshReply
<1> HIDE DEF L
<1>9. CASE r.code = "RECEIVE_FILE" /\ X = CreateUpload(L, r.file, id)
  <2>1. r.file \in Files BY Assumed
  <2>2. Req("SEND_FILE", r.file, id, FALSE) \in Requests BY <2>1, RequestType DEF RequestCodes
  <2>3. Req("SEND_FILE", r.file, id, FALSE) \in G BY <2>2 DEF Allowed, Plain, Req
  <2>4. Answerable(Req("SEND_FILE", r.file, id, FALSE), L, V, mine, w)
    BY <1>1, <1>7, <1>9, FreshAnswerable
  <2> QED BY <1>7, <1>9, <2>1, <2>3, <2>4, SoundUpload
<1>10. CASE X = [L EXCEPT !.thrown = "no page"]
  <2>1. "no page" \in Exceptions /\ L \in PeerTypes BY <1>7 DEF Exceptions, Typed
  <2>2. Sound([L EXCEPT !.thrown = "no page"], V, mine, w, F) BY <1>7, <2>1, SoundThrown
  <2> QED BY <1>10, <2>2
<1>11. CASE L.lists[id].left > 0 /\ X = SendPage(L, id)
  BY <1>7, <1>11, SoundPage
<1> QED BY <1>2, <1>8, <1>9, <1>10, <1>11, Zenon DEF L, Responds

LEMMA SoundRefuse ==
  ASSUME NEW G, NEW P, Typed(P, G), NEW V, NEW mine, NEW w, Context(V, mine, w), NEW F,
         Sound(P, V, mine, w, F), NEW id \in Ids, NEW r \in Requests, NEW status \in Statuses,
         Fresh(id, r, P, V, mine, w)
  PROVE  /\ Sound(Refuse(P, id, r, status), V, mine, w, F) /\ Refuse(P, id, r, status).asked = P.asked
         /\ Refuse(P, id, r, status).written
              = Append(P.written, [type |-> "RESPONSE", id |-> id, status |-> status])
<1>1. P \in PeerTypes BY DEF Typed
<1>2. PICK Q : Q = [P EXCEPT !.in[id] = Message(r)] OBVIOUS
<1>3. SameQueue(P, Q) BY <1>1, <1>2, ReceivedSame
<1>4. Typed(Q, G) /\ Sound(Q, V, mine, w, F) BY <1>3, SameTyped, SoundSame
<1>5. Refuse(P, id, r, status) = SendReply(Q, id, status) BY <1>2 DEF Refuse
<1>6. Q.written = P.written /\ Q.asked = P.asked BY <1>3 DEF SameQueue
<1>7. Fresh(id, r, Q, V, mine, w) BY <1>6 DEF Fresh
<1>8. /\ Sound(SendReply(Q, id, status), V, mine, w, F) /\ SendReply(Q, id, status).asked = Q.asked
      /\ SendReply(Q, id, status).written
           = Append(Q.written, [type |-> "RESPONSE", id |-> id, status |-> status])
  BY <1>4, <1>7, FreshReply
<1> QED BY <1>5, <1>6, <1>8

LEMMA SoundAsked ==
  ASSUME NEW G, NEW P, Typed(P, G), NEW V, NEW mine, NEW w, Context(V, mine, w), NEW F,
         Sound(P, V, mine, w, F), NEW id \in Ids, NEW r \in Requests, r.code = "SEND_FILE",
         Fresh(id, r, P, V, mine, w)
  PROVE  Sound(Asks(P, id, r), V, mine, w, F)
<1> DEFINE m == [type |-> "RESPONSE", id |-> id, status |-> Pending]
           sent == w \o P.written
           next == Append(sent, m)
           Q == Refuse(P, id, r, Pending)
           some == Q.asked \cup {[id |-> id, req |-> r]}
           X == [Q EXCEPT !.asked = some]
<1>1. Pending \in Statuses /\ m \in OnWire /\ m.type = "RESPONSE" /\ m.status = Pending
  BY DEF Statuses, OnWire
<1>2. /\ Typed(Q, G) /\ Sound(Q, V, mine, w, F) /\ Q.asked = P.asked /\ Q.written = Append(P.written, m)
  BY <1>1, RefuseTyped, SoundRefuse
<1>3. Asks(P, id, r) = X BY DEF Asks
<1> HIDE DEF Q, m
<1>4. P.written \in Seq(OnWire) /\ w \in Seq(OnWire) BY DEF Typed, PeerTypes, Context
<1>5. w \o Q.written = next /\ sent \in Seq(OnWire) BY <1>1, <1>2, <1>4
<1>6. /\ id \in Open(V.out) /\ V.out[id].req = r
      /\ \A i \in 1 .. Len(mine) : ~Asking(mine[i], id)
      /\ \A k \in 1 .. Len(sent) : Replying(sent[k], id) => sent[k].status = Pending
      /\ \A a \in P.asked : a.id # id
  BY DEF Fresh
<1> HIDE DEF sent
<1>7. \A k \in 1 .. Len(next) : (k \in 1 .. Len(sent) /\ next[k] = sent[k]) \/ next[k] = m
  BY <1>1, <1>5, Appending
<1> HIDE DEF next
<1>8. Half(V.out, Q.asked, mine, next) BY <1>2, <1>5 DEF Sound
<1>9. Half(V.out, some, mine, next) BY <1>1, <1>2, <1>6, <1>7, <1>8, HalfAsked
<1> HIDE DEF some
<1>10. /\ X.out = Q.out /\ X.written = Q.written /\ X.slots = Q.slots /\ X.hung = Q.hung /\ X.asked = some
  BY <1>2 DEF Typed, PeerTypes
<1> HIDE DEF X
<1>11. Sound(X, V, mine, w, F) BY <1>2, <1>5, <1>9, <1>10 DEF Sound
<1> QED BY <1>3, <1>11

\* The first request is new to P, once it is taken.
LEMMA FirstRequest ==
  ASSUME NEW P, NEW V, NEW mine \in Seq(OnWire), mine # <<>>, NEW w, NEW id \in Ids, NEW r,
         Half(V.out, P.asked, mine, w \o P.written), Asking(mine[1], id), mine[1].req = r
  PROVE  Fresh(id, r, P, V, Tail(mine), w)
<1> DEFINE sent == w \o P.written
           rest == Tail(mine)
<1>1. /\ 1 \in 1 .. Len(mine)
      /\ \A i \in 1 .. Len(rest) : i + 1 \in 1 .. Len(mine) /\ rest[i] = mine[i + 1] /\ i + 1 # 1
  <2>1. /\ Len(mine) \in Nat /\ Len(rest) = Len(mine) - 1 /\ 1 \in 1 .. Len(mine)
        /\ \A i \in 1 .. Len(mine) - 1 : i + 1 \in 1 .. Len(mine) /\ rest[i] = mine[i + 1]
    BY Taking
  <2> HIDE DEF rest
  <2> QED BY <2>1
<1>2. Placed(id, V.out, P.asked, mine, sent) BY DEF Half
<1> HIDE DEF sent, rest
<1>3. /\ V.out[id] = Message(r)
      /\ \A j \in 1 .. Len(mine) : Asking(mine[j], id) => j = 1
      /\ \A k \in 1 .. Len(sent) : ~Replying(sent[k], id) /\ ~Sending(sent[k], id)
      /\ \A a \in P.asked : a.id # id
  BY <1>1, <1>2 DEF Placed, Underway
<1>4. id \in Open(V.out) /\ V.out[id].req = r BY <1>3 DEF Message, Open, Unanswered
<1>5. \A i \in 1 .. Len(rest) : ~Asking(rest[i], id) BY <1>1, <1>3
<1> QED BY <1>3, <1>4, <1>5 DEF Fresh, sent, rest

\* The SEND_FILE that answers id settles it, once it is taken.
LEMMA FirstAnswer ==
  ASSUME NEW out, NEW asked, NEW to, NEW from \in Seq(OnWire), from # <<>>,
         Half(out, asked, to, from), NEW id \in Ids, Sending(from[1], id)
  PROVE  id \in Fetches(out) /\ MaySettle(id, out, asked, to, Tail(from), "STATUS_OK")
<1> DEFINE last == Tail(from)
<1>1. /\ 1 \in 1 .. Len(from)
      /\ \A i \in 1 .. Len(last) : i + 1 \in 1 .. Len(from) /\ last[i] = from[i + 1] /\ i + 1 # 1
      /\ \A l \in 1 .. Len(from) : ~(l < 1)
  <2>1. /\ Len(from) \in Nat /\ Len(last) = Len(from) - 1 /\ 1 \in 1 .. Len(from)
        /\ \A i \in 1 .. Len(from) - 1 : i + 1 \in 1 .. Len(from) /\ last[i] = from[i + 1]
    BY Taking
  <2> HIDE DEF last
  <2> QED BY <2>1
<1> HIDE DEF last
<1>2. Placed(id, out, asked, to, from) BY DEF Half
<1>3. /\ id \in Fetches(out)
      /\ \A l \in 1 .. Len(from) : (Sending(from[l], id) => l = 1) /\ ~Replying(from[l], id)
  BY <1>1, <1>2 DEF Placed, Answering
<1>4. \A i \in 1 .. Len(to) : ~Asking(to[i], id) BY <1>1, <1>2 DEF Placed, Underway
<1>5. \A a \in asked : a.id # id BY <1>2, <1>3 DEF Placed, Awaits, Fetches
<1>6. "STATUS_OK" # Pending BY DEF Pending
<1> QED BY <1>1, <1>3, <1>4, <1>5, <1>6 DEF MaySettle, last

\* A SEND_FILE that is accepted does not wait for the application.
LEMMA AcceptedAnswered ==
  ASSUME NEW P \in PeerTypes, NEW id \in Ids, NEW r \in Requests, NEW current, r.code = "SEND_FILE"
  PROVE  Respond(P, id, r, current).in[id].status # Pending
<1>1. PICK Q : Q = [P EXCEPT !.in[id] = Message(r)] OBVIOUS
<1>2. SameQueue(P, Q) /\ Q \in PeerTypes
  <2>1. SameQueue(P, Q) BY <1>1, ReceivedSame
  <2> QED BY <2>1 DEF SameQueue
<1> DEFINE t == [Q.downloads EXCEPT ![id] = Emplaced(@, Transfer(r.file, 1))]
           D == [Q EXCEPT !.downloads = t]
<1>3. Respond(P, id, r, current) = SendReply(Q, id, "UP_TO_DATE")
      \/ Respond(P, id, r, current) = SendReply(D, id, "STATUS_OK")
  BY <1>1 DEF Respond
<1>4. D.in = Q.in /\ Q.in \in [Ids -> Messages] BY <1>2 DEF PeerTypes
<1>5. \A status : SendReply(Q, id, status).in[id].status = status BY <1>2 DEF SendReply, PeerTypes, Messages
<1> HIDE DEF t
<1>6. SendReply(D, id, "STATUS_OK").in[id].status = "STATUS_OK" BY <1>2 DEF SendReply, PeerTypes, Messages
<1> QED BY <1>3, <1>5, <1>6 DEF Pending

\* P handles a request.
LEMMA SoundAuthorized ==
  ASSUME NEW G, Allowed(G), NEW P, Typed(P, G), NEW V, NEW mine, NEW w, Context(V, mine, w), NEW F,
         \A a, b \in F : a = b, Sound(P, V, mine, w, F), mine # <<>>, mine[1].type = "REQUEST",
         NEW X \in Handled(P, mine[1]),
         ~(/\ mine[1].req.code = "SEND_FILE" /\ mine[1].req.ref = NoRef
           /\ X.in[mine[1].id].status # Pending)
  PROVE  Sound(X, V, Tail(mine), w, F)
<1> DEFINE sent == w \o P.written
           rest == Tail(mine)
<1>1. P \in PeerTypes /\ mine \in Seq(OnWire) BY DEF Typed, Context
<1>2. PICK m \in OnWire : m = mine[1] BY <1>1, Taking
<1>3. PICK id \in Ids, r \in Requests : id = m.id /\ r = m.req BY <1>2 DEF OnWire
<1>4. X \in Authorized(P, id, r) BY <1>2, <1>3 DEF Handled
<1>5. Sound(P, V, rest, w, F) /\ Context(V, rest, w) BY <1>1, SoundTaken
<1>6. Half(P.out, V.asked, sent, mine) /\ Half(V.out, P.asked, mine, sent)
      /\ Half(P.out, V.asked, sent, rest) /\ Fetches(P.out) \subseteq F
  BY <1>5 DEF Sound
<1>7. Fresh(id, r, P, V, rest, w) BY <1>1, <1>2, <1>3, <1>6, FirstRequest DEF Asking
<1> HIDE DEF sent
<1>8. CASE /\ r.code = "SEND_FILE"
           /\ \E match \in Matches(P, r), current \in BOOLEAN :
                X = Respond(Settle(P, match, "STATUS_OK"), id, r, current)
  <2>1. PICK match \in Matches(P, r), current \in BOOLEAN :
               X = Respond(Settle(P, match, "STATUS_OK"), id, r, current)
    BY <1>8
  <2>2. /\ match \in Ids /\ P.out[match].status # Absent
        /\ P.out[match].req.code = "RECEIVE_FILE" /\ "STATUS_OK" \in Statuses /\ "STATUS_OK" # Pending
    BY Assumed DEF Matches, Pending
  <2>3. PICK S : S = Settle(P, match, "STATUS_OK") OBVIOUS
  <2>4. Typed(S, G) /\ S \in PeerTypes /\ X = Respond(S, id, r, current)
    <3>1. Typed(S, G) BY <2>2, <2>3, SettleTyped
    <3> QED BY <2>1, <2>3, <3>1 DEF Typed
  <2>5. r.ref \in Ids
    <3>1. X.in[id].status # Pending BY <1>8, <2>4, AcceptedAnswered
    <3>2. r.ref # NoRef BY <1>2, <1>3, <1>8, <3>1
    <3> QED BY <3>2, Assumed
  <2>6. MaySettle(match, P.out, V.asked, sent, rest, "STATUS_OK")
    <3>1. CASE match \notin Open(P.out) BY <1>6, <2>2, <3>1, ClosedSettles
    <3>2. CASE match \in Open(P.out)
      <4>1. Sending(mine[1], r.ref) BY <1>2, <1>3, <1>8 DEF Sending
      <4>2. r.ref \in Fetches(P.out) /\ MaySettle(r.ref, P.out, V.asked, sent, rest, "STATUS_OK")
        BY <1>1, <1>6, <2>5, <4>1, FirstAnswer
      <4>3. match \in Fetches(P.out) BY <2>2, <3>2 DEF Fetches
      <4>4. match = r.ref BY <1>6, <4>2, <4>3
      <4> QED BY <4>2, <4>4
    <3> QED BY <3>1, <3>2
  <2>7. Sound(S, V, rest, w, F) /\ S.written = P.written /\ S.asked = P.asked
    BY <1>1, <1>5, <2>2, <2>3, <2>6, SoundSettle DEF sent
  <2>8. Fresh(id, r, S, V, rest, w) BY <1>7, <2>7 DEF Fresh
  <2> QED BY <1>5, <2>4, <2>7, <2>8, SoundRespond
<1>9. CASE r.code = "SEND_FILE" /\ Matches(P, r) = {} /\ X = Asks(P, id, r)
  BY <1>5, <1>7, <1>9, SoundAsked
<1>10. CASE r.code = "LIST_FILES" /\ X = Refuse(P, id, r, "FILE_NOT_FOUND")
  BY <1>5, <1>7, <1>10, SoundRefuse, Assumed
<1>11. CASE r.code # "SEND_FILE" /\ X = Respond(P, id, r, FALSE)
  BY <1>5, <1>7, <1>11, SoundRespond
<1> QED BY <1>4, <1>8, <1>9, <1>10, <1>11, Authorizes

\* P handles the first message that comes for it.
LEMMA SoundHandled ==
  ASSUME NEW G, Allowed(G), NEW P, Typed(P, G), NEW V, NEW mine, NEW w, Context(V, mine, w), NEW F,
         \A a, b \in F : a = b, Sound(P, V, mine, w, F), mine # <<>>,
         NEW X \in Handled(P, mine[1]),
         ~(/\ mine[1].type = "REQUEST" /\ mine[1].req.code = "SEND_FILE" /\ mine[1].req.ref = NoRef
           /\ X.in[mine[1].id].status # Pending)
  PROVE  Sound(X, V, Tail(mine), w, F)
<1>1. mine[1] \in OnWire BY Taking DEF Context
<1>2. CASE mine[1].type = "REQUEST" BY <1>2, SoundAuthorized
<1>3. CASE mine[1].type = "RESPONSE" BY <1>3, SoundReceived
<1> QED BY <1>1, <1>2, <1>3 DEF OnWire
-----------------------------------------------------------------------------
\* The messages that come for a peer: those left of its batch, of which it is at
\* the d-th, and those on the wire.
Left(b, d, w) == IF d = 0 THEN w ELSE SubSeq(b, d, Len(b)) \o w

LEMMA LeftType ==
  ASSUME NEW b \in Seq(OnWire), NEW w \in Seq(OnWire), NEW d \in Nat
  PROVE  Left(b, d, w) \in Seq(OnWire)
<1>1. CASE d = 0 BY <1>1 DEF Left
<1>2. CASE d # 0
  <2>1. Len(b) \in Nat /\ d \in Int /\ \A i \in d .. Len(b) : b[i] \in OnWire BY <1>2
  <2>2. PICK rest : rest = SubSeq(b, d, Len(b)) OBVIOUS
  <2>3. rest \in Seq(OnWire) BY <2>1, <2>2, SubSeqProperties
  <2> QED BY <1>2, <2>2, <2>3 DEF Left
<1> QED BY <1>1, <1>2

\* Reading moves messages from the wire to the batch, in their order.
LEMMA LeftPolled ==
  ASSUME NEW w \in Seq(OnWire), NEW n \in 1 .. Len(w)
  PROVE  Left(<<>> \o SubSeq(w, 1, n), 1, SubSeq(w, n + 1, Len(w))) = w
<1> DEFINE b == SubSeq(w, 1, n)
<1>1. b \in Seq(OnWire) BY SubSeqProperties
<1>2. SubSeq(w, 1, Len(w)) = w BY SubSeqFull
<1>3. b \o SubSeq(w, n + 1, Len(w)) = SubSeq(w, 1, Len(w))
  <2>1. 1 \in 1 .. Len(w) + 1 /\ n \in 1 - 1 .. Len(w) /\ Len(w) \in n .. Len(w) OBVIOUS
  <2> QED BY <2>1, ConcatAdjacentSubSeq
<1> HIDE DEF b
<1>4. <<>> \o b = b /\ SubSeq(b, 1, Len(b)) = b BY <1>1, ConcatEmptySeq, SubSeqFull
<1>5. \A t : Left(<<>> \o b, 1, t) = b \o t
  <2>1. \A c, t : Left(c, 1, t) = SubSeq(c, 1, Len(c)) \o t BY DEF Left
  <2> QED BY <1>4, <2>1, Zenon
<1>6. Left(<<>> \o b, 1, SubSeq(w, n + 1, Len(w))) = w BY <1>2, <1>3, <1>5, Zenon
<1> QED BY <1>6 DEF b

LEMMA LeftEnded ==
  ASSUME NEW b \in Seq(OnWire), NEW w \in Seq(OnWire)
  PROVE  Left(b, Len(b) + 1, w) = w
<1>1. SubSeq(b, Len(b) + 1, Len(b)) = <<>>
  <2>1. Len(b) \in Int /\ Len(b) + 1 \in Int /\ Len(b) < Len(b) + 1 OBVIOUS
  <2> QED BY <2>1, SubSeqEmpty
<1>2. <<>> \o w = w BY ConcatEmptySeq
<1>3. Len(b) + 1 # 0 OBVIOUS
<1> QED BY <1>1, <1>2, <1>3 DEF Left

LEMMA LeftHandled ==
  ASSUME NEW b \in Seq(OnWire), NEW w \in Seq(OnWire), NEW d \in 1 .. Len(b)
  PROVE  /\ Left(b, d, w) # <<>> /\ Left(b, d, w)[1] = b[d]
         /\ Tail(Left(b, d, w)) = Left(b, d + 1, w)
<1> DEFINE rest == SubSeq(b, d + 1, Len(b))
           whole == rest \o w
<1>0. Len(b) \in Nat /\ d \in Nat /\ d # 0 /\ d + 1 # 0 OBVIOUS
<1>1. b[d] \in OnWire OBVIOUS
<1>2. rest \in Seq(OnWire) BY SubSeqProperties
<1>3. SubSeq(b, d, Len(b)) = <<b[d]>> \o rest
  <2>1. Len(b) \in d .. Len(b) OBVIOUS
  <2> QED BY <2>1, SubSeqRecursiveFirst
<1>4. Left(b, d, w) = (<<b[d]>> \o rest) \o w /\ Left(b, d + 1, w) = rest \o w
  BY <1>0, <1>3 DEF Left
<1> HIDE DEF rest
<1>5. (<<b[d]>> \o rest) \o w = <<b[d]>> \o whole
  <2>1. <<b[d]>> \in Seq(OnWire) BY <1>1
  <2> QED BY <1>2, <2>1, ConcatAssociative
<1>6. whole \in Seq(OnWire) BY <1>2
<1> HIDE DEF whole
<1>7. ASSUME NEW m \in OnWire
      PROVE  <<m>> \o whole # <<>> /\ (<<m>> \o whole)[1] = m /\ Tail(<<m>> \o whole) = whole
  <2> DEFINE s == <<m>> \o whole
  <2>1. /\ s \in Seq(OnWire) /\ Len(whole) \in Nat /\ Len(s) = Len(whole) + 1 /\ s[1] = m
        /\ \A i \in 1 .. Len(whole) : s[i + 1] = whole[i]
    BY <1>6
  <2> HIDE DEF s
  <2>2. s # <<>> BY <2>1
  <2>3. /\ Tail(s) \in Seq(OnWire) /\ Len(Tail(s)) = Len(whole)
        /\ \A i \in 1 .. Len(whole) : Tail(s)[i] = s[i + 1]
    BY <2>1, <2>2, HeadTailProperties
  <2>4. Tail(s) = whole BY <1>6, <2>1, <2>3, SeqEqual
  <2> QED BY <2>1, <2>2, <2>4 DEF s
<1> QED BY <1>1, <1>4, <1>5, <1>7 DEF whole

\* The application takes up a request of V.
LEMMA SoundTakenUp ==
  ASSUME NEW G, NEW P, Typed(P, G), NEW V, NEW mine, NEW w, Context(V, mine, w), NEW F,
         Sound(P, V, mine, w, F), NEW a \in P.asked, NEW L, L = [P EXCEPT !.asked = @ \ {a}]
  PROVE  Typed(L, G) /\ Sound(L, V, mine, w, F) /\ Fresh(a.id, a.req, L, V, mine, w)
<1> DEFINE rest == P.asked \ {a}
           sent == w \o P.written
<1>1. P \in PeerTypes /\ a \in Asked /\ rest \in SUBSET Asked BY DEF Typed, PeerTypes
<1>2. a.id \in Ids /\ a.req \in Requests BY <1>1 DEF Asked
<1>3. Half(P.out, V.asked, sent, mine) /\ Half(V.out, P.asked, mine, sent) BY DEF Sound
<1>4. L = [P EXCEPT !.asked = rest] OBVIOUS
<1>5. /\ L.out = P.out /\ L.written = P.written /\ L.slots = P.slots /\ L.hung = P.hung /\ L.asked = rest
  BY <1>1, <1>4 DEF PeerTypes
<1>6. Typed(L, G)
  <2> HIDE DEF rest
  <2> QED BY <1>1, <1>4, AskedTyped
<1>7. Half(V.out, rest, mine, sent)
  <2>1. rest \subseteq P.asked OBVIOUS
  <2> HIDE DEF rest, sent
  <2> QED BY <1>3, <2>1, HalfFewer
<1>8. Sound(L, V, mine, w, F) BY <1>3, <1>5, <1>7 DEF Sound
<1>9. Placed(a.id, V.out, P.asked, mine, sent) BY <1>2, <1>3 DEF Half
<1> HIDE DEF sent
<1>10. /\ a.id \in Open(V.out) /\ V.out[a.id].req = a.req /\ a.req.code = "SEND_FILE"
       /\ \A b \in P.asked : b.id = a.id => b = a
       /\ \A k \in 1 .. Len(sent) : Replying(sent[k], a.id) => sent[k].status = Pending
  BY <1>9 DEF Placed, Awaits
<1>11. \A i \in 1 .. Len(mine) : ~Asking(mine[i], a.id) BY <1>9 DEF Placed, Underway
<1>12. \A k \in 1 .. Len(sent) : ~Sending(sent[k], a.id) BY <1>9, <1>10 DEF Placed, Answering, Fetches
<1>13. \A b \in L.asked : b.id # a.id BY <1>5, <1>10
<1>14. Fresh(a.id, a.req, L, V, mine, w) BY <1>5, <1>10, <1>11, <1>12, <1>13 DEF Fresh, sent
<1> QED BY <1>6, <1>8, <1>14

-----------------------------------------------------------------------------
\* The invariant, as long as nothing has gone wrong: between the two peers every
\* request is in one place, the slots and the open requests of a peer add up, and
\* the one RECEIVE_FILE a peer has open is that of the call it is in.

Unread(p)   == Left(batch[p], done[p], wire[p])
Fetching(p) == IF call[p].call = "receive_file" /\ call[p].phase = "waiting" THEN {call[p].id} ELSE {}

Paired(p) ==
  /\ Sound(peer[p], peer[Other(p)], Unread(p), Unread(Other(p)), Fetching(p))
  /\ done[p] = 0 => batch[p] = <<>>

Accounted == events = {} => \A p \in Peers : Paired(p)

\* What comes for a peer has its type.
LEMMA Contexts ==
  ASSUME NEW s, Types(s), NEW p \in Peers
  PROVE  /\ Typed(peer[p], Mine(s, p)) /\ peer[p].written = <<>> /\ peer[p].thrown = "nothing"
         /\ Context(peer[Other(p)], Unread(p), Unread(Other(p)))
         /\ Unread(p) \in Seq(OnWire) /\ wire[p] \in Seq(OnWire) /\ batch[p] \in Seq(OnWire)
         /\ done[p] \in Nat
<1>1. Other(p) \in Peers BY Two
<1>2. \A o \in Peers : wire[o] \in Seq(OnWire) /\ batch[o] \in Seq(OnWire) /\ done[o] \in Nat
  BY DEF Types, Carries
<1>3. \A o \in Peers : Unread(o) \in Seq(OnWire) BY <1>2, LeftType DEF Unread
<1>4. Typed(peer[p], Mine(s, p)) /\ peer[Other(p)] \in PeerTypes
      /\ peer[p].written = <<>> /\ peer[p].thrown = "nothing"
  BY <1>1 DEF Types, PeersTyped
<1> QED BY <1>1, <1>2, <1>3, <1>4 DEF Context

LEMMA AccountedInit == Init => Accounted
<1> SUFFICES ASSUME Init, NEW p \in Peers PROVE Paired(p) BY DEF Accounted
<1> DEFINE out == NewPeer.out
<1>1. /\ peer[p] = NewPeer /\ peer[Other(p)] = NewPeer /\ Unread(p) = <<>> /\ Unread(Other(p)) = <<>>
      /\ batch[p] = <<>>
  BY Two DEF Init, Unread, Left
<1>2. /\ NewPeer.out = [id \in Ids |-> NoMessage] /\ NewPeer.asked = {} /\ NewPeer.written = <<>>
      /\ NewPeer.slots = MaxId /\ ~NewPeer.hung
  BY DEF NewPeer
<1>3. Open(NewPeer.out) = {}
  <2>1. \A id \in Ids : NewPeer.out[id].status = Absent BY <1>2 DEF NoMessage
  <2> QED BY <2>1 DEF Open, Unanswered, None, Pending, Absent
<1>4. <<>> \o <<>> = <<>> /\ Len(<<>>) = 0 OBVIOUS
<1>5. \A o : Half(o, {}, <<>>, <<>>)
  BY <1>4 DEF Half, Placed, Underway, Awaits, Returning, Answering
<1>6. Cardinality(Open(NewPeer.out)) = 0 BY <1>3, FS_EmptySet
<1>7. Fetches(NewPeer.out) = {} BY <1>3 DEF Fetches
<1>8. MaxId + 0 = MaxId OBVIOUS
<1>9. Sound(NewPeer, NewPeer, <<>>, <<>>, Fetching(p)) BY <1>2, <1>4, <1>5, <1>6, <1>7, <1>8 DEF Sound
<1> QED BY <1>1, <1>9 DEF Paired

\* The other half of what P has done: what it wrote is on its way.
LEMMA SoundWritten ==
  ASSUME NEW Q, NEW N, NEW V, NEW mine \in Seq(OnWire), NEW w \in Seq(OnWire), NEW F, NEW R,
         NEW P, NEW theirs, Sound(Q, V, mine, w, F), Sound(V, P, w, theirs, R), V.written = <<>>,
          N.written = <<>>, Q.written \in Seq(OnWire),
         N.out = Q.out, N.asked = Q.asked, N.slots = Q.slots, N.hung = Q.hung
  PROVE  Sound(N, V, mine, w \o Q.written, F) /\ Sound(V, N, w \o Q.written, mine, R)
<1> DEFINE sent == w \o Q.written
<1>1. sent \in Seq(OnWire) OBVIOUS
<1>2. Half(Q.out, V.asked, sent, mine) /\ Half(V.out, Q.asked, mine, sent) BY DEF Sound
<1>3. Fetches(V.out) \subseteq R /\ V.slots + Cardinality(Open(V.out)) = MaxId /\ ~V.hung
  BY DEF Sound
<1> HIDE DEF sent
<1>4. sent \o <<>> = sent /\ mine \o <<>> = mine BY <1>1, ConcatEmptySeq
<1>5. Sound(N, V, mine, sent, F) BY <1>2, <1>4 DEF Sound
<1>6. Sound(V, N, sent, mine, R) BY <1>2, <1>3, <1>4 DEF Sound
<1> QED BY <1>5, <1>6 DEF sent

\* What is written to q comes after what q has not read.
LEMMA UnreadGrows ==
  ASSUME NEW s, Types(s), NEW q \in Peers, NEW x \in Seq(OnWire),
         wire'[q] = wire[q] \o x, batch'[q] = batch[q], done'[q] = done[q]
  PROVE  Unread(q)' = Unread(q) \o x
<1>1. PICK b, v, d : b = batch[q] /\ v = wire[q] /\ d = done[q] OBVIOUS
<1>2. PICK y : y = wire'[q] OBVIOUS
<1>3. v \in Seq(OnWire) /\ b \in Seq(OnWire) /\ d \in Nat BY <1>1, Contexts
<1>4. y = v \o x BY <1>1, <1>2
<1>5. Left(b, d, y) = Left(b, d, v) \o x
  <2>1. CASE d = 0 BY <1>4, <2>1 DEF Left
  <2>2. CASE d # 0
    <3>1. PICK rest : rest = SubSeq(b, d, Len(b)) OBVIOUS
    <3>2. Len(b) \in Nat /\ d \in Int /\ \A i \in d .. Len(b) : b[i] \in OnWire BY <1>3, <2>2
    <3>3. rest \in Seq(OnWire) BY <3>1, <3>2, SubSeqProperties
    <3>4. Left(b, d, y) = rest \o y /\ Left(b, d, v) = rest \o v BY <2>2, <3>1, Zenon DEF Left
    <3>5. (rest \o v) \o x = rest \o (v \o x) BY ONLY <1>3, <3>3, x \in Seq(OnWire), ConcatAssociative
    <3> QED BY <1>4, <3>4, <3>5, Zenon
  <2> QED BY <2>1, <2>2
<1>6. Unread(q) = Left(b, d, v) BY <1>1 DEF Unread
<1>7. Unread(q)' = Left(b, d, y) BY <1>1, <1>2 DEF Unread
<1> QED BY <1>5, <1>6, <1>7

\* The next of the batch is the first of what p has not read.
LEMMA UnreadNext ==
  ASSUME NEW s, Types(s), NEW p \in Peers, done[p] \in 1 .. Len(batch[p])
  PROVE  /\ Unread(p) # <<>> /\ Unread(p)[1] = batch[p][done[p]]
         /\ Tail(Unread(p)) = Left(batch[p], done[p] + 1, wire[p])
<1>1. PICK b, v, d : b = batch[p] /\ v = wire[p] /\ d = done[p] OBVIOUS
<1>2. v \in Seq(OnWire) /\ b \in Seq(OnWire) /\ d \in 1 .. Len(b) BY <1>1, Contexts
<1>3. /\ Left(b, d, v) # <<>> /\ Left(b, d, v)[1] = b[d]
      /\ Tail(Left(b, d, v)) = Left(b, d + 1, v)
  BY ONLY <1>2, LeftHandled
<1>4. Unread(p) = Left(b, d, v) BY <1>1 DEF Unread
<1> QED BY <1>1, <1>3, <1>4

\* A step in which p becomes Q leaves both peers paired if Q was.
LEMMA BecomesPaired ==
  ASSUME NEW s, Types(s), NEW p \in Peers, NEW Q, Typed(Q, Mine(s, p)), Becomes(p, Q), Paired(Other(p)),
         NEW mine \in Seq(OnWire), mine = Unread(p)', NEW F, F = Fetching(p)',
         Sound(Q, peer[Other(p)], mine, Unread(Other(p)), F),
         done'[p] = 0 => batch'[p] = <<>>,
         batch'[Other(p)] = batch[Other(p)], done'[Other(p)] = done[Other(p)],
         call'[Other(p)] = call[Other(p)]
  PROVE  \A o \in Peers : Paired(o)'
<1>1. PICK q \in Peers : q = Other(p) /\ q # p /\ Other(q) = p /\ \A o \in Peers : o = p \/ o = q BY Two
<1>2. PICK V : V = peer[q] OBVIOUS
<1>3. PICK w : w = Unread(q) OBVIOUS
<1>4. PICK R : R = Fetching(q) OBVIOUS
<1> DEFINE N == [Q EXCEPT !.written = <<>>, !.thrown = "nothing"]
<1>5. Q \in PeerTypes /\ Q.written \in Seq(OnWire) BY DEF Typed, PeerTypes
<1>6. /\ N.out = Q.out /\ N.asked = Q.asked /\ N.slots = Q.slots /\ N.hung = Q.hung /\ N.written = <<>>
  BY <1>5 DEF PeerTypes
<1>7. peer' = [peer EXCEPT ![p] = N] /\ wire' = [wire EXCEPT ![q] = @ \o Q.written] BY <1>1 DEF Becomes
<1> HIDE DEF N
<1>8. peer'[p] = N /\ peer'[q] = V /\ wire'[q] = wire[q] \o Q.written
  BY <1>1, <1>2, <1>7 DEF Types, PeersTyped, Carries
<1>9. Unread(q)' = w \o Q.written
  <2>1. batch'[q] = batch[q] /\ done'[q] = done[q] BY <1>1
  <2>2. PICK x : x = Q.written OBVIOUS
  <2>3. x \in Seq(OnWire) /\ wire'[q] = wire[q] \o x BY <1>5, <1>8, <2>2
  <2> QED BY <1>3, <2>1, <2>2, <2>3, UnreadGrows
<1>10. Fetching(q)' = R BY <1>1, <1>4 DEF Fetching
<1>11. Sound(Q, V, mine, w, F) BY <1>1, <1>2, <1>3
<1>12. /\ V.written = <<>> /\ w \in Seq(OnWire) /\ (done[q] = 0 => batch[q] = <<>>)
       /\ Sound(V, peer[p], w, Unread(p), R)
  BY <1>1, <1>2, <1>3, <1>4, Contexts DEF Paired
<1>13. PICK sent : sent = w \o Q.written OBVIOUS
<1>14. Sound(N, V, mine, sent, F) /\ Sound(V, N, sent, mine, R)
  BY <1>5, <1>6, <1>11, <1>12, <1>13, SoundWritten
<1>15. Paired(p)' BY <1>1, <1>8, <1>9, <1>13, <1>14 DEF Paired
<1>16. Paired(q)' BY <1>1, <1>8, <1>9, <1>10, <1>12, <1>13, <1>14 DEF Paired
<1> QED BY <1>1, <1>15, <1>16

LEMMA PollUnread ==
  ASSUME NEW s, Types(s), NEW p \in Peers, Poll(p) \/ PollEnds(p), done[p] = 0 => batch[p] = <<>>
  PROVE  /\ peer' = peer /\ call' = call /\ (done'[p] = 0 => batch'[p] = <<>>)
         /\ \A o \in Peers : o # p => wire'[o] = wire[o] /\ batch'[o] = batch[o] /\ done'[o] = done[o]
         /\ \A o \in Peers : Unread(o)' = Unread(o)
<1>1. wire[p] \in Seq(OnWire) /\ batch[p] \in Seq(OnWire) BY Contexts
<1>2. peer' = peer /\ call' = call BY DEF Poll, PollEnds
<1>3. \A o \in Peers : o # p => wire'[o] = wire[o] /\ batch'[o] = batch[o] /\ done'[o] = done[o]
  BY DEF Poll, PollEnds, Types, Carries
<1>4. Unread(p)' = Unread(p) /\ (done'[p] = 0 => batch'[p] = <<>>)
  <2>1. CASE Poll(p)
    <3>1. PICK n \in 1 .. MaxBatch :
             /\ n <= Len(wire[p])
             /\ batch' = [batch EXCEPT ![p] = @ \o SubSeq(wire[p], 1, n)]
             /\ wire' = [wire EXCEPT ![p] = SubSeq(@, n + 1, Len(@))]
      BY <2>1 DEF Poll
    <3>2. n \in 1 .. Len(wire[p])
      <4>1. MaxBatch \in Nat BY Assumed, Zenon
      <4>2. Len(wire[p]) \in Nat BY <1>1
      <4> QED BY <3>1, <4>1, <4>2
    <3>3. done[p] = 0 /\ batch[p] = <<>> /\ done'[p] = 1 BY <2>1 DEF Poll, Types
    <3>4. batch'[p] = <<>> \o SubSeq(wire[p], 1, n) /\ wire'[p] = SubSeq(wire[p], n + 1, Len(wire[p]))
      BY <3>1, <3>3 DEF Types, Carries
    <3>5. Left(<<>> \o SubSeq(wire[p], 1, n), 1, SubSeq(wire[p], n + 1, Len(wire[p]))) = wire[p]
      BY <1>1, <3>2, LeftPolled
    <3>6. Unread(p)' = wire[p] BY <3>3, <3>4, <3>5, Zenon DEF Unread
    <3>7. Unread(p) = wire[p] BY <3>3 DEF Unread, Left
    <3> QED BY <3>3, <3>6, <3>7
  <2>2. CASE PollEnds(p)
    <3>1. done[p] = Len(batch[p]) + 1 BY <2>2 DEF PollEnds
    <3>2. done'[p] = 0 /\ batch'[p] = <<>> /\ wire'[p] = wire[p]
      BY <2>2 DEF PollEnds, Types, Carries
    <3>3. Unread(p)' = wire[p] BY <3>2 DEF Unread, Left
    <3>4. Unread(p) = wire[p] BY <1>1, <3>1, LeftEnded DEF Unread
    <3> QED BY <3>2, <3>3, <3>4
  <2> QED BY <2>1, <2>2
<1>5. \A o \in Peers : Unread(o)' = Unread(o) BY <1>3, <1>4 DEF Unread
<1> QED BY <1>2, <1>3, <1>4, <1>5

LEMMA PollPaired ==
  ASSUME NEW s, Types(s), NEW p \in Peers, Poll(p) \/ PollEnds(p), \A o \in Peers : Paired(o)
  PROVE  \A o \in Peers : Paired(o)'
<1>1. /\ peer' = peer /\ call' = call /\ (done'[p] = 0 => batch'[p] = <<>>)
      /\ \A o \in Peers : o # p => wire'[o] = wire[o] /\ batch'[o] = batch[o] /\ done'[o] = done[o]
      /\ \A o \in Peers : Unread(o)' = Unread(o)
  BY PollUnread DEF Paired
<1>2. \A o \in Peers : Fetching(o)' = Fetching(o) BY <1>1 DEF Fetching
<1> TAKE o \in Peers
<1>3. Other(o) \in Peers BY Two
<1>4. done'[o] = 0 => batch'[o] = <<>> BY <1>1 DEF Paired
<1>5. Sound(peer[o], peer[Other(o)], Unread(o), Unread(Other(o)), Fetching(o)) BY DEF Paired
<1> QED BY <1>1, <1>2, <1>3, <1>4, <1>5 DEF Paired

\* A peer in no call, or in one that goes on, has no RECEIVE_FILE open.
LEMMA SoundMore ==
  ASSUME NEW P, NEW V, NEW mine, NEW w, NEW F, NEW R, Sound(P, V, mine, w, F), Fetches(P.out) \subseteq R
  PROVE  Sound(P, V, mine, w, R)
BY DEF Sound

LEMMA HandlePaired ==
  ASSUME NEW s, Types(s), NEW p \in Peers, Handle(p), \A o \in Peers : Paired(o), events' = {}
  PROVE  \A o \in Peers : Paired(o)'
<1>1. PICK m, Q : Turns(s, p, m, Q) BY HandleTyped
<1>2. PICK q \in Peers : q = Other(p) /\ q # p BY Two
<1>3. PICK P : P = peer[p] OBVIOUS
<1>4. PICK V : V = peer[q] OBVIOUS
<1>5. PICK w : w = Unread(q) OBVIOUS
<1>6. PICK mine : mine = Unread(p) OBVIOUS
<1>7. PICK F : F = Fetching(p) OBVIOUS
<1>8. /\ Typed(P, Mine(s, p)) /\ Context(V, mine, w) /\ Sound(P, V, mine, w, F)
      /\ wire[p] \in Seq(OnWire) /\ batch[p] \in Seq(OnWire) /\ mine \in Seq(OnWire)
  BY <1>2, <1>3, <1>4, <1>5, <1>6, <1>7, Contexts DEF Paired
<1>9. done[p] \in 1 .. Len(batch[p]) /\ batch' = batch BY HandleTyped DEF Handle
<1>10. Q.thrown = "nothing" /\ ~Unasked(p, m, Q)
  <2>1. events' = events \cup ({Q.thrown} \ {"nothing"})
                         \cup (IF Unasked(p, m, Q) THEN {"accepted unasked"} ELSE {})
    BY <1>1 DEF Turns
  <2>2. CASE Q.thrown # "nothing" BY <2>1, <2>2
  <2>3. CASE Unasked(p, m, Q) BY <2>1, <2>3
  <2> QED BY <2>2, <2>3
<1>11. done'[p] = done[p] + 1 /\ done'[q] = done[q] /\ call' = call
  <2>1. done' = [done EXCEPT ![p] = done[p] + 1] /\ call' = call BY <1>1, <1>10 DEF Turns
  <2> QED BY <1>2, <2>1 DEF Types
<1>12. mine # <<>> /\ mine[1] = m /\ Unread(p)' = Tail(mine)
  <2>1. /\ mine # <<>> /\ mine[1] = batch[p][done[p]]
        /\ Tail(mine) = Left(batch[p], done[p] + 1, wire[p])
    BY <1>6, <1>9, UnreadNext
  <2>2. wire'[p] = wire[p] BY <1>1, <1>2 DEF Turns, Becomes, Types, Carries
  <2> QED BY <1>1, <1>9, <1>11, <2>1, <2>2 DEF Unread, Turns
<1>13. Typed(Q, Mine(s, p)) /\ Becomes(p, Q) /\ Q \in Handled(P, mine[1]) BY <1>1, <1>3, <1>12 DEF Turns
<1>14. \A a, b \in F : a = b BY <1>7 DEF Fetching
<1>15. ~(/\ mine[1].type = "REQUEST" /\ mine[1].req.code = "SEND_FILE" /\ mine[1].req.ref = NoRef
         /\ Q.in[mine[1].id].status # Pending)
  BY <1>10, <1>12 DEF Unasked
<1>16. Sound(Q, V, Tail(mine), w, F) BY <1>8, <1>12, <1>13, <1>14, <1>15, MineAllowed, SoundHandled
<1>17. Tail(mine) \in Seq(OnWire) BY <1>8, <1>12, Taking
<1>18. Fetching(p)' = F BY <1>7, <1>11 DEF Fetching
<1>19. done'[p] # 0 BY <1>9, <1>11
<1>20. batch'[q] = batch[q] /\ call'[q] = call[q] BY <1>9, <1>11
<1> QED BY <1>2, <1>4, <1>5, <1>11, <1>12, <1>13, <1>16, <1>17, <1>18, <1>19, <1>20, BecomesPaired

\* A step of p that takes no message.
LEMMA CallPaired ==
  ASSUME NEW s, Types(s), NEW p \in Peers, NEW Q, Typed(Q, Mine(s, p)), Becomes(p, Q),
         \A o \in Peers : Paired(o), UNCHANGED <<batch, done>>,
         NEW F, F = Fetching(p)', Sound(Q, peer[Other(p)], Unread(p), Unread(Other(p)), F),
         call'[Other(p)] = call[Other(p)]
  PROVE  \A o \in Peers : Paired(o)'
<1>1. Other(p) \in Peers /\ Other(p) # p BY Two
<1>2. wire'[p] = wire[p] BY <1>1 DEF Becomes, Types, Carries
<1>3. PICK mine \in Seq(OnWire) : mine = Unread(p) BY Contexts
<1>4. mine = Unread(p)' BY <1>2, <1>3 DEF Unread
<1>5. done'[p] = 0 => batch'[p] = <<>> BY DEF Paired
<1>6. Paired(Other(p)) /\ batch'[Other(p)] = batch[Other(p)] /\ done'[Other(p)] = done[Other(p)]
  BY <1>1
<1>7. Sound(Q, peer[Other(p)], mine, Unread(Other(p)), F) BY <1>3
<1> QED BY <1>3, <1>4, <1>5, <1>6, <1>7, BecomesPaired

LEMMA ResumePaired ==
  ASSUME NEW s, Types(s), NEW p \in Peers, Resume(p), \A o \in Peers : Paired(o)
  PROVE  \A o \in Peers : Paired(o)'
<1>1. PICK Q, c : Advances(p, Q, c) BY ResumeAdvances
<1>2. Ready(p) BY ResumeAdvances
<1>3. PICK P : P = peer[p] OBVIOUS
<1>4. PICK V : V = peer[Other(p)] OBVIOUS
<1>5. PICK w : w = Unread(Other(p)) OBVIOUS
<1>6. PICK mine : mine = Unread(p) OBVIOUS
<1>7. /\ Typed(P, Mine(s, p)) /\ Context(V, mine, w) /\ Sound(P, V, mine, w, Fetching(p))
  BY <1>3, <1>4, <1>5, <1>6, Contexts DEF Paired
<1>8. Fetches(P.out) = {}
  <2> SUFFICES ASSUME NEW id \in Fetches(P.out) PROVE FALSE OBVIOUS
  <2>1. id \in Fetching(p) BY <1>7 DEF Sound
  <2>2. id = call[p].id /\ call[p].phase = "waiting" BY <2>1 DEF Fetching
  <2>3. P.out[id].status \notin Unanswered BY <1>2, <1>3, <2>2 DEF Ready
  <2> QED BY <2>3 DEF Fetches, Open
<1>9. Sound(P, V, mine, w, {}) BY <1>7, <1>8, SoundMore
<1>10. PICK id \in Ids : id = call[p].id BY DEF Types, CallTypes
<1>11. SameQueue(P, Q) \/ (P.uploads[id].left > 0 /\ Q = SendPacket(P, id))
  BY <1>1, <1>3, <1>10 DEF Advances
<1>12. Typed(Q, Mine(s, p)) BY <1>7, <1>11, MineAllowed, SameTyped, SendPacketTyped
<1>13. Sound(Q, V, mine, w, {})
  <2>1. CASE SameQueue(P, Q) BY <1>9, <2>1, SoundSame
  <2>2. CASE P.uploads[id].left > 0 /\ Q = SendPacket(P, id) BY <1>7, <1>9, <2>2, MineAllowed, SoundPacket
  <2> QED BY <1>11, <2>1, <2>2
<1>14. /\ call' = [call EXCEPT ![p] = c] /\ c.phase # "waiting" /\ UNCHANGED <<batch, done>>
       /\ Becomes(p, Q)
  BY <1>1 DEF Advances
<1>15. Fetching(p)' = {} BY <1>14 DEF Fetching, Types
<1>16. Other(p) \in Peers /\ Other(p) # p BY Two
<1>17. call'[Other(p)] = call[Other(p)] BY <1>14, <1>16 DEF Types
<1> QED BY <1>4, <1>5, <1>6, <1>12, <1>13, <1>14, <1>15, <1>17, CallPaired

LEMMA OpeningPaired ==
  ASSUME NEW s, Types(s), NEW p \in Peers, NEW c, Call(p, c), \A o \in Peers : Paired(o)
  PROVE  \A o \in Peers : Paired(o)'
<1>1. PICK Q : Calls(s, p, c, Q) BY CallTyped
<1>2. call[p] = NoCall /\ UNCHANGED <<batch, done>> BY DEF Call
<1>3. PICK P : P = peer[p] OBVIOUS
<1>4. PICK V : V = peer[Other(p)] OBVIOUS
<1>5. PICK w : w = Unread(Other(p)) OBVIOUS
<1>6. PICK mine : mine = Unread(p) OBVIOUS
<1>7. Fetching(p) = {} BY <1>2 DEF Fetching, NoCall
<1>8. /\ Typed(P, Mine(s, p)) /\ Context(V, mine, w) /\ Sound(P, V, mine, w, {})
  BY <1>3, <1>4, <1>5, <1>6, <1>7, Contexts DEF Paired
<1>9. PICK F : F = IF c.call = "receive_file" THEN {NewId(P)} ELSE {} OBVIOUS
<1>10. Sound(P, V, mine, w, F) BY <1>8, SoundMore DEF Sound
<1>11. PICK r \in Mine(s, p) : r = Opening(c) BY <1>1 DEF Calls
<1>12. /\ c.file \in Files /\ Becomes(p, Q)
       /\ \/ c.call = "send_file" /\ Q = CreateUpload(P, c.file, NoRef)
          \/ c.call \in {"receive_file", "list_files"} /\ Q = SendRequest(P, r)
  BY <1>1, <1>3, <1>11 DEF Calls
<1>13. ASSUME c.call = "send_file" /\ Q = CreateUpload(P, c.file, NoRef)
       PROVE  Sound(Q, V, mine, w, F) /\ Typed(Q, Mine(s, p))
  <2>1. r = Req("SEND_FILE", c.file, NoRef, FALSE) BY <1>11, <1>13 DEF Opening
  <2>2. Answerable(r, P, V, mine, w)
    <3>1. r.ref \notin Ids BY <2>1 DEF Req, NoRef, Ids
    <3> QED BY <3>1 DEF Answerable
  <2>3. Sound(Q, V, mine, w, F) /\ Typed(Q, Mine(s, p))
    BY <1>8, <1>10, <1>11, <1>12, <1>13, <2>1, <2>2, MineAllowed, SoundUpload, CreateUploadTyped
  <2> QED BY <2>3
<1>14. ASSUME c.call \in {"receive_file", "list_files"} /\ Q = SendRequest(P, r)
       PROVE  Sound(Q, V, mine, w, F) /\ Typed(Q, Mine(s, p))
  <2>1. /\ r.code # "SEND_FILE" /\ (r.code = "RECEIVE_FILE" => NewId(P) \in F)
    <3>1. CASE c.call = "receive_file"
      <4>1. r = Req("RECEIVE_FILE", c.file, NoRef, FALSE) BY <1>11, <3>1 DEF Opening
      <4> QED BY <1>9, <3>1, <4>1 DEF Req
    <3>2. CASE c.call = "list_files"
      <4>1. r = Req("LIST_FILES", c.file, NoRef, FALSE) BY <1>11, <3>2 DEF Opening
      <4> QED BY <4>1 DEF Req
    <3> QED BY <1>14, <3>1, <3>2
  <2>2. Answerable(r, P, V, mine, w) BY <2>1 DEF Answerable
  <2>3. Sound(Q, V, mine, w, F) BY <1>8, <1>10, <1>14, <2>1, <2>2, MineAllowed, SoundRequest
  <2>4. Typed(Q, Mine(s, p)) BY <1>8, <1>14, MineAllowed, SendRequestTyped
  <2> QED BY <2>3, <2>4
<1> DEFINE n == [NoCall EXCEPT !.call = c.call, !.phase = "waiting", !.file = c.file, !.id = NewId(P)]
<1>15. call' = [call EXCEPT ![p] = n] /\ n.call = c.call /\ n.phase = "waiting" /\ n.id = NewId(P)
  BY <1>1, <1>3 DEF Calls, NoCall
<1> HIDE DEF n
<1>16. Fetching(p)' = F BY <1>9, <1>15 DEF Fetching, Types
<1>17. Other(p) \in Peers /\ Other(p) # p BY Two
<1>18. call'[Other(p)] = call[Other(p)] BY <1>15, <1>17 DEF Types
<1>19. Sound(Q, V, mine, w, F) /\ Typed(Q, Mine(s, p)) BY <1>12, <1>13, <1>14
<1> QED BY <1>2, <1>4, <1>5, <1>6, <1>12, <1>16, <1>18, <1>19, CallPaired

LEMMA AnswerPaired ==
  ASSUME NEW s, Types(s), NEW p \in Peers, Answer(p), \A o \in Peers : Paired(o)
  PROVE  \A o \in Peers : Paired(o)'
<1>1. PICK a, Q : Answers(p, a, Q) BY AnswerTyped
<1>2. UNCHANGED <<batch, done, call>> BY AnswerTyped
<1>3. PICK P : P = peer[p] OBVIOUS
<1>4. PICK V : V = peer[Other(p)] OBVIOUS
<1>5. PICK w : w = Unread(Other(p)) OBVIOUS
<1>6. PICK mine : mine = Unread(p) OBVIOUS
<1>7. PICK F : F = Fetching(p) OBVIOUS
<1>8. /\ Typed(P, Mine(s, p)) /\ Context(V, mine, w) /\ Sound(P, V, mine, w, F)
  BY <1>3, <1>4, <1>5, <1>6, <1>7, Contexts DEF Paired
<1>9. PICK L : L = [P EXCEPT !.asked = @ \ {a}] OBVIOUS
<1>10. /\ a \in P.asked /\ Becomes(p, Q)
       /\ (\E current \in BOOLEAN : Q = Respond(L, a.id, a.req, current)) \/ Q = Refuse(L, a.id, a.req, "FORBIDDEN")
  BY <1>1, <1>3, <1>9, Zenon DEF Answers
<1>11. a.id \in Ids /\ a.req \in Requests BY <1>8, <1>10 DEF Typed, PeerTypes, Asked
<1>12. Typed(L, Mine(s, p)) /\ Sound(L, V, mine, w, F) /\ Fresh(a.id, a.req, L, V, mine, w)
  BY <1>8, <1>9, <1>10, SoundTakenUp
<1>13. Typed(Q, Mine(s, p)) /\ Sound(Q, V, mine, w, F)
  <2>1. ASSUME NEW current \in BOOLEAN, Q = Respond(L, a.id, a.req, current)
        PROVE  Typed(Q, Mine(s, p)) /\ Sound(Q, V, mine, w, F)
    BY <1>8, <1>11, <1>12, <2>1, MineAllowed, RespondTyped, SoundRespond
  <2>2. CASE Q = Refuse(L, a.id, a.req, "FORBIDDEN")
    <3>1. "FORBIDDEN" \in Statuses BY Assumed
    <3> QED BY <1>8, <1>11, <1>12, <2>2, <3>1, RefuseTyped, SoundRefuse
  <2> QED BY <1>10, <2>1, <2>2
<1>14. Fetching(p)' = F BY <1>2, <1>7 DEF Fetching
<1> QED BY <1>2, <1>4, <1>5, <1>6, <1>10, <1>13, <1>14, CallPaired

LEMMA AccountedStep ==
  ASSUME Session, Accounted, [Next]_vars
  PROVE  Accounted'
<1>1. PICK s \in Scripts : Types(s) BY DEF Session
<1> SUFFICES ASSUME events' = {} PROVE \A o \in Peers : Paired(o)' BY DEF Accounted
<1>2. ASSUME events \subseteq events' PROVE \A o \in Peers : Paired(o) BY <1>2 DEF Accounted
<1>3. CASE UNCHANGED vars
  <2>1. \A o \in Peers : Paired(o) BY <1>2, <1>3 DEF vars
  <2>2. UNCHANGED <<peer, wire, batch, done, call>> BY <1>3 DEF vars
  <2>3. \A o : Unread(o)' = Unread(o) /\ Fetching(o)' = Fetching(o) BY <2>2 DEF Unread, Fetching
  <2> QED BY <2>1, <2>2, <2>3 DEF Paired
<1>4. ASSUME NEW p \in Peers, Poll(p) \/ PollEnds(p) PROVE \A o \in Peers : Paired(o)'
  BY <1>1, <1>2, <1>4, PollTyped, PollPaired
<1>5. ASSUME NEW p \in Peers, Handle(p) PROVE \A o \in Peers : Paired(o)'
  <2>1. events \subseteq events' BY <1>5 DEF Handle
  <2> QED BY <1>1, <1>2, <1>5, <2>1, HandlePaired
<1>6. ASSUME NEW p \in Peers, Resume(p) PROVE \A o \in Peers : Paired(o)'
  <2>1. PICK Q, c : Advances(p, Q, c) BY <1>1, <1>6, ResumeAdvances
  <2>2. events \subseteq events' BY <2>1 DEF Advances
  <2> QED BY <1>1, <1>2, <1>6, <2>2, ResumePaired
<1>7. ASSUME NEW p \in Peers, Answer(p) PROVE \A o \in Peers : Paired(o)'
  BY <1>1, <1>2, <1>7, AnswerTyped, AnswerPaired
<1>8. ASSUME NEW p \in Peers, NEW c, Call(p, c) PROVE \A o \in Peers : Paired(o)'
  BY <1>1, <1>2, <1>8, CallTyped, OpeningPaired
<1> QED BY <1>3, <1>4, <1>5, <1>6, <1>7, <1>8, Steps

LEMMA AccountedAlways == Spec => []Accounted
<1>1. Session /\ Accounted /\ [Next]_vars => Accounted' BY AccountedStep
<1> QED BY <1>1, AccountedInit, SessionAlways, PTL DEF Spec

LEMMA Undisturbed == NoException /\ UnaskedOnlyInReply => events = {}
BY DEF NoException, UnaskedOnlyInReply

\* For any calls and answers, any number of ids, files, packets and pages: as long
\* as no handler has thrown and no SEND_FILE was accepted unasked, the slots of a
\* peer are MAX_ID less its unanswered requests. Each request takes one slot
\* (MessageQueue.cpp:17-42), and whatever the batches its final answer comes in
\* gives it back once, although the answer to a RECEIVE_FILE makes the request
\* pending a second time (MessageQueue.cpp:56-78, Peer_private.cpp:84, 131-136).
THEOREM SlotsAlwaysAccounted == Spec => [](NoException /\ UnaskedOnlyInReply => SlotsAccounted)
<1>1. Accounted => (NoException /\ UnaskedOnlyInReply => SlotsAccounted)
  BY Undisturbed DEF Accounted, Paired, Sound, SlotsAccounted
<1> QED BY <1>1, AccountedAlways, PTL

\* When no file is sent to the peer that fetches it, an exception alone can upset
\* the count: it leaves the batch in the buffer, to be handled again
\* (PeerBase.cpp:97).
THEOREM SlotsAccountedOneWay == ASSUME OneWay PROVE Spec => [](NoException => SlotsAccounted)
BY SlotsAlwaysAccounted, NeverUnasked, PTL

\* Under the same conditions the search of send_request for an id that is not in
\* use ends in every call and every handler: a slot that is left stands for an id
\* that is not open (MessageQueue.cpp:17-42).
THEOREM IdAlwaysFound ==
  Spec => [](NoException /\ UnaskedOnlyInReply => \A p \in Peers : ~peer[p].hung)
<1>1. Accounted => (NoException /\ UnaskedOnlyInReply => \A p \in Peers : ~peer[p].hung)
  BY Undisturbed DEF Accounted, Paired, Sound
<1> QED BY <1>1, AccountedAlways, PTL
-----------------------------------------------------------------------------
\* As long as no id is used twice: what the maps of the two peers have to do with
\* each other.

\* So few requests that no id is used again, and a slot is left for each of a burst.
FewRequests == \A p \in Peers : peer[p].next + Burst <= MaxId

\* No peer fetches a file twice.
FetchedOnce ==
  \A s \in Scripts : \A c, d \in s :
    c.call = "receive_file" /\ d.call = "receive_file" /\ c.by = d.by /\ c.file = d.file => c = d

In(s) == {s[i] : i \in 1 .. Len(s)}

Is(m, code) == m.status # Absent /\ m.req.code = code

\* What a peer knows of its own requests: ids are used in order, an unanswered
\* SEND_FILE has its upload, packets belong to an accepted one, and no two
\* RECEIVE_FILE ask for one file.
Book(S) ==
  /\ \A id \in Ids : id >= S.next => S.out[id].status = Absent
  /\ \A id \in Ids : Is(S.out[id], "SEND_FILE") /\ S.out[id].status \in Unanswered => S.uploads[id].live
  /\ \A id \in Ids : Is(S.out[id], "DATA_PACKET")
       => LET sent == S.out[S.out[id].req.ref] IN Is(sent, "SEND_FILE") /\ sent.status = "STATUS_OK"
  /\ \A id, other \in Ids :
       Is(S.out[id], "RECEIVE_FILE") /\ Is(S.out[other], "RECEIVE_FILE")
       /\ S.out[id].req.file = S.out[other].req.file => id = other

\* R has the requests S has sent, but for those in to, on their way.
Noted(S, R, to) ==
  /\ \A m \in to : m.type = "REQUEST" => S.out[m.id] = Message(m.req) /\ R.in[m.id].status = Absent
  /\ \A id \in Ids : R.in[id].status # Absent => S.out[id].status # Absent /\ S.out[id].req = R.in[id].req

\* R lists for a request it has, and asks about no SEND_FILE it fetches.
Granted(R) ==
  /\ \A id \in Ids : R.lists[id].live => R.in[id].status # Absent
  /\ \A a \in R.asked : a.req.ref = NoRef

\* The SEND_FILE id of S is the only answer to the RECEIVE_FILE ref of R, which R
\* accepts and has then settled.
Fulfils(S, R, id, ref) ==
  /\ Is(R.out[ref], "RECEIVE_FILE") /\ R.out[ref].req.file = S.out[id].req.file
  /\ S.in[ref].status # Absent
  /\ \A other \in Ids : Is(S.out[other], "SEND_FILE") /\ S.out[other].req.ref = ref => other = id
  /\ R.in[id].status # Absent => /\ R.in[id].status \in {"STATUS_OK", "UP_TO_DATE"}
                                 /\ R.out[ref].status = "STATUS_OK"

InReply(S, R) ==
  \A id \in Ids : Is(S.out[id], "SEND_FILE") /\ S.out[id].req.ref # NoRef
                    => Fulfils(S, R, id, S.out[id].req.ref)

Tale(S, R, to) == Book(S) /\ Noted(S, R, to) /\ Granted(R) /\ InReply(S, R)

\* Of two peers, of which P is within a call.
Told(P, V, w, mine) == Tale(P, V, In(w) \cup In(P.written)) /\ Tale(V, P, In(mine))
-----------------------------------------------------------------------------
\* A request is sent.

\* Q is P after it has sent r.
Sends(P, Q, r) ==
  /\ r \in Requests /\ P.next \in Ids /\ P.next < MaxId /\ P.out[P.next].status = Absent
  /\ Q.next = P.next + 1 /\ Q.slots = P.slots - 1 /\ Q.out = [P.out EXCEPT ![P.next] = Message(r)]
  /\ Q.written = Append(P.written, [type |-> "REQUEST", id |-> P.next, req |-> r])
  /\ Q.in = P.in /\ Q.downloads = P.downloads /\ Q.listings = P.listings /\ Q.asked = P.asked
  /\ Q.thrown = P.thrown /\ Q.hung = P.hung

\* As long as a slot and an id are left the next id is used.
LEMMA RequestSends ==
  ASSUME NEW P \in PeerTypes, P.slots > 0, P.next < MaxId, P.out[P.next].status = Absent, NEW r \in Requests
  PROVE  /\ NewId(P) = P.next /\ Sends(P, SendRequest(P, r), r)
         /\ SendRequest(P, r).uploads = P.uploads /\ SendRequest(P, r).lists = P.lists
<1> DEFINE Q == SendRequest(P, r)
           m == [type |-> "REQUEST", id |-> P.next, req |-> r]
<1>1. P.next \in Ids /\ P.slots # 0 /\ P.next \notin Open(P.out) /\ P.next < MaxId
  <2>1. P.next \in Ids /\ P.slots # 0 BY DEF PeerTypes, Ids
  <2> QED BY <2>1 DEF Open, Unanswered, None, Pending, Absent
<1>2. Open(P.out) # Ids BY <1>1
<1>3. NewId(P) = P.next
  <2>1. NewId(P) \in Ids /\ Finds(P.out, P.next, NewId(P)) BY <1>2, Found
  <2>2. Distance(P.next, P.next) = 0 BY <1>1 DEF Distance, Ids
  <2>3. NewId(P) # P.next => 0 < Distance(P.next, NewId(P))
    <3>1. NewId(P) # P.next => 0 < Distance(P.next, NewId(P)) BY <1>1, <2>1 DEF Distance, Ids
    <3> QED BY <3>1
  <2> QED BY <1>1, <2>1, <2>2, <2>3 DEF Finds
<1>4. Succ(P.next) = P.next + 1 BY <1>1 DEF Succ, Ids
<1>5. Q = [P EXCEPT !.slots = @ - 1, !.next = P.next + 1, !.out[P.next] = Message(r), !.written = Append(@, m)]
  BY <1>1, <1>2, <1>3, <1>4, Zenon DEF SendRequest
<1> HIDE DEF Q, m
<1>6. /\ Q.next = P.next + 1 /\ Q.slots = P.slots - 1 /\ Q.out = [P.out EXCEPT ![P.next] = Message(r)]
      /\ Q.written = Append(P.written, m) /\ Q.in = P.in /\ Q.downloads = P.downloads /\ Q.listings = P.listings
      /\ Q.asked = P.asked /\ Q.thrown = P.thrown /\ Q.hung = P.hung /\ Q.uploads = P.uploads /\ Q.lists = P.lists
  BY <1>1, <1>5 DEF PeerTypes
<1> QED BY <1>1, <1>3, <1>6 DEF Sends, Q, m

\* What Typed says of the maps.
LEMMA Maps ==
  ASSUME NEW P \in PeerTypes
  PROVE  /\ P.next \in Nat /\ P.next \in Ids /\ P.slots \in Nat /\ P.next <= MaxId
         /\ P.out \in [Ids -> Messages] /\ P.in \in [Ids -> Messages]
         /\ P.uploads \in [Ids -> Transferred] /\ P.downloads \in [Ids -> Transferred]
         /\ P.lists \in [Ids -> Transferred] /\ P.listings \in [Ids -> Transferred]
         /\ P.written \in Seq(OnWire) /\ P.asked \subseteq Asked
BY TransferType DEF PeerTypes, Ids

LEMMA PacketSends ==
  ASSUME NEW G, Allowed(G), NEW P, Typed(P, G), P.slots > 0, P.next < MaxId, P.out[P.next].status = Absent,
         NEW id \in Ids, P.uploads[id].left > 0
  PROVE  \E r \in Requests :
           /\ r.code = "DATA_PACKET" /\ r.ref = id /\ (r.last <=> P.uploads[id].left = 1)
           /\ Sends(P, SendPacket(P, id), r) /\ SendPacket(P, id).lists = P.lists
           /\ SendPacket(P, id).uploads = [P.uploads EXCEPT ![id].left = @ - 1]
<1> DEFINE fewer == [P.uploads EXCEPT ![id].left = @ - 1]
           r == Req("DATA_PACKET", P.uploads[id].file, id, P.uploads[id].left = 1)
           base == [P EXCEPT !.uploads = fewer]
<1>1. r \in G /\ r.code = "DATA_PACKET" /\ fewer \in Transfers BY PacketSent
<1>2. r.ref = id /\ (r.last <=> P.uploads[id].left = 1) /\ r \in Requests BY <1>1 DEF Req, Allowed, Referred
<1>3. SendPacket(P, id) = SendRequest(base, r) BY DEF SendPacket
<1> HIDE DEF fewer, r
<1>4. SameQueue(P, base) /\ base.in = P.in /\ base.downloads = P.downloads /\ base.listings = P.listings
      /\ base.lists = P.lists /\ base.uploads = fewer
  BY <1>1, UpdateSame DEF Typed, PeerTypes
<1> HIDE DEF base
<1>5. base \in PeerTypes /\ base.slots > 0 /\ base.next < MaxId /\ base.out[base.next].status = Absent
  BY <1>4 DEF SameQueue
<1>6. /\ Sends(base, SendRequest(base, r), r) /\ SendRequest(base, r).uploads = fewer
      /\ SendRequest(base, r).lists = P.lists
  BY <1>2, <1>4, <1>5, RequestSends
<1>7. Sends(P, SendRequest(base, r), r) BY <1>4, <1>6 DEF SameQueue, Sends
<1> QED BY <1>1, <1>2, <1>3, <1>6, <1>7 DEF fewer

LEMMA PageSends ==
  ASSUME NEW G, Allowed(G), NEW P, Typed(P, G), P.slots > 0, P.next < MaxId, P.out[P.next].status = Absent,
         NEW id \in Ids, P.lists[id].left > 0
  PROVE  \E r \in Requests :
           /\ r.code = "FILE_LIST" /\ r.ref = id /\ (r.last <=> P.lists[id].left = 1)
           /\ Sends(P, SendPage(P, id), r) /\ SendPage(P, id).uploads = P.uploads
           /\ SendPage(P, id).lists = [P.lists EXCEPT ![id].left = @ - 1]
<1> DEFINE fewer == [P.lists EXCEPT ![id].left = @ - 1]
           r == Req("FILE_LIST", P.lists[id].file, id, P.lists[id].left = 1)
           base == [P EXCEPT !.lists = fewer]
<1>1. r \in G /\ r.code = "FILE_LIST" /\ fewer \in Transfers BY PageSent
<1>2. r.ref = id /\ (r.last <=> P.lists[id].left = 1) /\ r \in Requests BY <1>1 DEF Req, Allowed, Referred
<1>3. SendPage(P, id) = SendRequest(base, r) BY DEF SendPage
<1> HIDE DEF fewer, r
<1>4. SameQueue(P, base) /\ base.in = P.in /\ base.downloads = P.downloads /\ base.listings = P.listings
      /\ base.lists = fewer /\ base.uploads = P.uploads
  BY <1>1, UpdateSame DEF Typed, PeerTypes
<1> HIDE DEF base
<1>5. base \in PeerTypes /\ base.slots > 0 /\ base.next < MaxId /\ base.out[base.next].status = Absent
  BY <1>4 DEF SameQueue
<1>6. /\ Sends(base, SendRequest(base, r), r) /\ SendRequest(base, r).uploads = P.uploads
      /\ SendRequest(base, r).lists = fewer
  BY <1>2, <1>4, <1>5, RequestSends
<1>7. Sends(P, SendRequest(base, r), r) BY <1>4, <1>6 DEF SameQueue, Sends
<1> QED BY <1>1, <1>2, <1>3, <1>6, <1>7 DEF fewer

LEMMA UploadSends ==
  ASSUME NEW G, Allowed(G), NEW P, Typed(P, G), P.slots > 0, P.next < MaxId, P.out[P.next].status = Absent, P.thrown = "nothing",
         ~P.hung, NEW f \in Files, NEW ref \in Ids \cup {NoRef}, NEW r \in G,
         r.code = "SEND_FILE", r.file = f, r.ref = ref, ~r.last, NEW X, X = CreateUpload(P, f, ref)
  PROVE  /\ NewId(P) = P.next /\ Sends(P, X, r) /\ X.lists = P.lists /\ X.uploads[P.next].live
         /\ \A o \in Ids : o # P.next => X.uploads[o] = P.uploads[o]
<1>1. r \in Requests /\ P \in PeerTypes BY DEF Allowed, Referred, Typed
<1>2. PICK Q : Q = SendRequest(P, r) OBVIOUS
<1>11. r = Req("SEND_FILE", f, ref, FALSE) BY <1>1, Assumed DEF Req
<1>3. NewId(P) = P.next /\ Sends(P, Q, r) /\ Q.uploads = P.uploads /\ Q.lists = P.lists BY <1>1, <1>2, RequestSends
<1>4. Q \in PeerTypes
  <2>1. Typed(Q, G) BY <1>1, <1>2, SendRequestTyped
  <2> QED BY <2>1 DEF Typed
<1>5. X = [Q EXCEPT !.uploads[P.next] = Emplaced(@, Transfer(f, Packets))]
  BY <1>2, <1>3, <1>11 DEF CreateUpload, Sends
<1>6. PICK t : t = Emplaced(Q.uploads[P.next], Transfer(f, Packets)) OBVIOUS
<1>7. t.live BY <1>6 DEF Emplaced, Transfer, NoTransfer
<1>8. X = [Q EXCEPT !.uploads[P.next] = t] BY <1>5, <1>6
<1>9. Sends(P, X, r) /\ X.lists = P.lists /\ X.uploads = [P.uploads EXCEPT ![P.next] = t]
  BY <1>3, <1>4, <1>8 DEF Sends, PeerTypes
<1>10. P.uploads \in [Ids -> Transferred] /\ P.next \in Ids BY <1>1, Maps
<1> QED BY <1>3, <1>7, <1>9, <1>10

LEMMA InAppend ==
  ASSUME NEW s \in Seq(OnWire), NEW m \in OnWire
  PROVE  In(Append(s, m)) = In(s) \cup {m}
<1>1. /\ Len(Append(s, m)) = Len(s) + 1 /\ Len(s) \in Nat
      /\ \A i \in 1 .. Len(s) : Append(s, m)[i] = s[i]
      /\ Append(s, m)[Len(s) + 1] = m
      /\ \A i \in 1 .. Len(s) + 1 : i \in 1 .. Len(s) \/ i = Len(s) + 1
  BY Appending
<1>2. \A i \in 1 .. Len(s) : i \in 1 .. Len(s) + 1 BY <1>1
<1>3. Len(s) + 1 \in 1 .. Len(s) + 1 BY <1>1
<1> QED BY <1>1, <1>2, <1>3 DEF In

\* What comes with r in the maps of Q.
Backed(P, Q, V, r) ==
  /\ \A id \in Ids : Q.lists[id].live => P.lists[id].live
  /\ \A id \in Ids : id # P.next => (P.uploads[id].live => Q.uploads[id].live)
  /\ r.code = "DATA_PACKET" => r.ref \in Ids /\ Is(P.out[r.ref], "SEND_FILE") /\ P.out[r.ref].status = "STATUS_OK"
  /\ r.code = "RECEIVE_FILE" => \A id \in Ids : Is(P.out[id], "RECEIVE_FILE") => P.out[id].req.file # r.file
  /\ r.code = "SEND_FILE" =>
       /\ Q.uploads[P.next].live
       /\ r.ref # NoRef => /\ Is(V.out[r.ref], "RECEIVE_FILE") /\ V.out[r.ref].req.file = r.file
                           /\ P.in[r.ref].status # Absent
                           /\ \A id \in Ids : Is(P.out[id], "SEND_FILE") => P.out[id].req.ref # r.ref

\* What P knows of its requests and listings it still knows when it is Q.
Keeps(P, Q) ==
  \A id \in Ids :
    /\ P.out[id].status # Absent =>
         /\ Q.out[id].status # Absent /\ Q.out[id].req = P.out[id].req
         /\ P.out[id].status = "STATUS_OK" => Q.out[id].status = "STATUS_OK"
    /\ Is(Q.out[id], "RECEIVE_FILE") => P.out[id].status # Absent
    /\ P.out[id].status # Absent /\ Q.out[id].req.code = "LIST_FILES" /\ Q.out[id].status = "STATUS_OK"
         => Q.listings[id].live \/ (P.out[id].status = "STATUS_OK" /\ ~P.listings[id].live)

LEMMA KeepsAgain ==
  ASSUME NEW P, NEW Q, NEW X, Keeps(P, Q), Keeps(Q, X)
  PROVE  Keeps(P, X)
BY DEF Keeps, Is

\* The out of a peer after it has sent r.
LEMMA OutSent ==
  ASSUME NEW P \in PeerTypes, NEW Q, NEW r, Sends(P, Q, r)
  PROVE  /\ P.next \in Ids /\ P.out[P.next].status = Absent /\ Q.out[P.next] = Message(r)
         /\ Q.out[P.next].req = r /\ Q.out[P.next].status = None
         /\ None # Absent /\ None # "STATUS_OK" /\ None \in Unanswered /\ Pending # "STATUS_OK" /\ Absent # "STATUS_OK"
         /\ Absent \notin Unanswered /\ "STATUS_OK" \notin Unanswered
         /\ \A id \in Ids : id # P.next => Q.out[id] = P.out[id]
         /\ \A id \in Ids : P.out[id].status # Absent => id # P.next
<1>1. P.out \in [Ids -> Messages] BY Maps
<1> QED BY <1>1 DEF Sends, Message, None, Absent, Pending, Unanswered

LEMMA KeepsSent ==
  ASSUME NEW P \in PeerTypes, NEW Q, NEW r, Sends(P, Q, r), r.code # "RECEIVE_FILE"
  PROVE  Keeps(P, Q)
<1>1. Q.listings = P.listings BY DEF Sends
<1> QED BY <1>1, OutSent DEF Keeps, Is

LEMMA BookSent ==
  ASSUME NEW G, Allowed(G), NEW P, Typed(P, G), Book(P), NEW Q, NEW r, NEW V, Sends(P, Q, r), Backed(P, Q, V, r)
  PROVE  Book(Q)
<1> DEFINE n == P.next
<1>1. P \in PeerTypes BY DEF Typed
<1>2. /\ n \in Ids /\ P.out[n].status = Absent /\ Q.out[n].req = r /\ Q.out[n].status = None
      /\ None # Absent /\ None # "STATUS_OK" /\ Absent \notin Unanswered
      /\ \A id \in Ids : id # n => Q.out[id] = P.out[id]
      /\ \A id \in Ids : P.out[id].status # Absent => id # n
  BY <1>1, OutSent
<1>3. \A id \in Ids : Is(P.out[id], "DATA_PACKET") => P.out[id].req.ref \in Ids
  BY DEF Typed, Allowed, Referred, Is
<1>4. \A id \in Ids : id >= Q.next => Q.out[id].status = Absent
  <2>1. \A id \in Ids : id >= Q.next => id >= n /\ id # n BY <1>2 DEF Sends, Ids
  <2> QED BY <1>2, <2>1 DEF Book
<1>5. ASSUME NEW id \in Ids, Is(Q.out[id], "SEND_FILE"), Q.out[id].status \in Unanswered PROVE Q.uploads[id].live
  <2>1. CASE id = n BY <1>2, <1>5, <2>1 DEF Is, Backed
  <2>2. CASE id # n BY <1>2, <1>5, <2>2 DEF Is, Backed, Book
  <2> QED BY <2>1, <2>2
<1>6. ASSUME NEW id \in Ids, Is(Q.out[id], "DATA_PACKET"), NEW ref, ref = Q.out[id].req.ref
      PROVE  Is(Q.out[ref], "SEND_FILE") /\ Q.out[ref].status = "STATUS_OK"
  <2>1. ref \in Ids /\ Is(P.out[ref], "SEND_FILE") /\ P.out[ref].status = "STATUS_OK"
    <3>1. CASE id = n BY <1>2, <1>6, <3>1 DEF Is, Backed
    <3>2. CASE id # n BY <1>2, <1>3, <1>6, <3>2 DEF Is, Book
    <3> QED BY <3>1, <3>2
  <2> QED BY <1>2, <2>1 DEF Is
<1>7. ASSUME NEW id \in Ids, NEW other \in Ids, Is(Q.out[id], "RECEIVE_FILE"), Is(Q.out[other], "RECEIVE_FILE"),
             Q.out[id].req.file = Q.out[other].req.file
      PROVE  id = other
  <2>1. CASE id = n /\ other # n BY <1>2, <1>7, <2>1 DEF Is, Backed
  <2>2. CASE id # n /\ other = n BY <1>2, <1>7, <2>2 DEF Is, Backed
  <2>3. CASE id # n /\ other # n
    <3>1. Q.out[id] = P.out[id] /\ Q.out[other] = P.out[other] BY <1>2, <2>3
    <3> QED BY <1>7, <3>1 DEF Book
  <2> QED BY <2>1, <2>2, <2>3
<1> QED BY <1>4, <1>5, <1>6, <1>7 DEF Book

LEMMA InReplyOf ==
  ASSUME NEW S, NEW R, InReply(S, R), NEW id \in Ids, Is(S.out[id], "SEND_FILE"), NEW ref, ref = S.out[id].req.ref, ref # NoRef
  PROVE  Fulfils(S, R, id, ref)
BY DEF InReply

LEMMA RefType ==
  ASSUME NEW V \in PeerTypes, NEW id \in Ids
  PROVE  V.out[id].req.ref # NoRef => V.out[id].req.ref \in Ids
<1>1. V.out[id].req \in Requests BY Maps DEF Messages
<1> QED BY <1>1, Assumed

LEMMA ToldSent ==
  ASSUME NEW G, Allowed(G), NEW P, Typed(P, G), NEW V, NEW mine, NEW w, Context(V, mine, w),
         Told(P, V, w, mine),         NEW Q, NEW r, Sends(P, Q, r), Backed(P, Q, V, r)
  PROVE  Told(Q, V, w, mine)
<1> DEFINE n == P.next
           m == [type |-> "REQUEST", id |-> n, req |-> r]
           to == In(w) \cup In(P.written)
<1>1. P \in PeerTypes BY DEF Typed
<1>2. /\ n \in Ids /\ P.out[n].status = Absent /\ Q.out[n] = Message(r) /\ Q.out[n].req = r /\ Q.out[n].status = None
      /\ None # Absent
      /\ \A id \in Ids : id # n => Q.out[id] = P.out[id]
      /\ \A id \in Ids : P.out[id].status # Absent => id # n
  BY <1>1, OutSent
<1>3. m \in OnWire /\ m.type = "REQUEST" /\ m.id = n /\ m.req = r BY <1>2 DEF OnWire, Sends
<1>4. P.written \in Seq(OnWire) /\ Q.written = Append(P.written, m) BY <1>1, Maps DEF Sends
<1> HIDE DEF m
<1>5. In(w) \cup In(Q.written) = to \cup {m} BY <1>3, <1>4, InAppend
<1>6. /\ Book(P) /\ Noted(P, V, to) /\ Granted(V) /\ InReply(P, V)
      /\ Book(V) /\ Noted(V, P, In(mine)) /\ Granted(P) /\ InReply(V, P)
  BY DEF Told, Tale
<1> HIDE DEF to
<1>7. Book(Q) BY <1>6, BookSent
<1>8. Noted(Q, V, to \cup {m})
  <2>1. ASSUME NEW x \in to \cup {m}, x.type = "REQUEST" PROVE Q.out[x.id] = Message(x.req) /\ V.in[x.id].status = Absent
    <3>1. CASE x = m BY <1>2, <1>3, <1>6, <3>1 DEF Noted
    <3>2. CASE x \in to
      <4>1. P.out[x.id] = Message(x.req) /\ V.in[x.id].status = Absent BY <1>6, <2>1, <3>2 DEF Noted
      <4>2. x.id \in Ids
        <5>1. w \in Seq(OnWire) BY DEF Context
        <5>2. x \in OnWire BY <1>4, <3>2, <5>1 DEF In, to
        <5> QED BY <2>1, <5>2 DEF OnWire
      <4>3. P.out[x.id].status = None BY <4>1 DEF Message
      <4> QED BY <1>2, <4>1, <4>2, <4>3
    <3> QED BY <3>1, <3>2
  <2>2. \A id \in Ids : V.in[id].status # Absent => Q.out[id].status # Absent /\ Q.out[id].req = V.in[id].req
    BY <1>2, <1>6 DEF Noted
  <2> QED BY <2>1, <2>2 DEF Noted
<1>9. InReply(Q, V)
  <2> SUFFICES ASSUME NEW id \in Ids, Is(Q.out[id], "SEND_FILE"), NEW ref, ref = Q.out[id].req.ref, ref # NoRef
               PROVE  Fulfils(Q, V, id, ref)
    BY DEF InReply
  <2>1. Q.in = P.in BY DEF Sends
  <2>2. CASE id = n
    <3>1. r.code = "SEND_FILE" /\ r.ref = ref BY <1>2, <2>2 DEF Is
    <3>2. V.in[n].status = Absent BY <1>2, <1>6 DEF Noted
    <3>3. /\ Is(V.out[ref], "RECEIVE_FILE") /\ V.out[ref].req.file = r.file /\ P.in[ref].status # Absent
          /\ \A other \in Ids : Is(P.out[other], "SEND_FILE") => P.out[other].req.ref # ref
      BY <3>1 DEF Backed
    <3>4. ASSUME NEW other \in Ids, other # n, Is(Q.out[other], "SEND_FILE"), Q.out[other].req.ref = ref PROVE FALSE
      BY <1>2, <3>3, <3>4
    <3> QED BY <1>2, <2>1, <2>2, <3>2, <3>3, <3>4, Zenon DEF Fulfils
  <2>3. CASE id # n
    <3>1. Q.out[id] = P.out[id] BY <1>2, <2>3
    <3>2. Fulfils(P, V, id, ref)
      <4>1. Is(P.out[id], "SEND_FILE") /\ ref = P.out[id].req.ref BY <3>1
      <4> QED BY <1>6, <4>1, InReplyOf
    <3>3. ASSUME Is(Q.out[n], "SEND_FILE"), Q.out[n].req.ref = ref PROVE FALSE
      BY <1>2, <2>3, <3>1, <3>3 DEF Backed, Is
    <3> QED BY <1>2, <2>1, <3>1, <3>2, <3>3, Zenon DEF Fulfils
  <2> QED BY <2>2, <2>3, Zenon
<1>10. Noted(V, Q, In(mine)) BY <1>6 DEF Noted, Sends
<1>11. Granted(Q)
  BY <1>6 DEF Granted, Sends, Backed
<1>12. InReply(V, Q)
  <2> SUFFICES ASSUME NEW id \in Ids, Is(V.out[id], "SEND_FILE"), NEW ref, ref = V.out[id].req.ref, ref # NoRef
               PROVE  Fulfils(V, Q, id, ref)
    BY DEF InReply
  <2>1. Q.in = P.in BY DEF Sends
  <2>2. Fulfils(V, P, id, ref) BY <1>6, InReplyOf
  <2>3. ref \in Ids BY RefType DEF Context
  <2>4. Q.out[ref] = P.out[ref] BY <1>2, <2>2, <2>3 DEF Is, Fulfils
  <2> QED BY <2>1, <2>2, <2>4, Zenon DEF Fulfils
<1> QED BY <1>5, <1>6, <1>7, <1>8, <1>9, <1>10, <1>11, <1>12 DEF Told, Tale
-----------------------------------------------------------------------------
\* An answer is recorded.

LEMMA Settles ==
  ASSUME NEW P \in PeerTypes, NEW id \in Ids, NEW status \in Statuses, NEW Q, Q = Settle(P, id, status)
  PROVE  /\ Q.out[id].status = status /\ Q.out[id].req = P.out[id].req
         /\ \A o \in Ids : o # id => Q.out[o] = P.out[o]
         /\ Q.next = P.next /\ Q.in = P.in /\ Q.uploads = P.uploads /\ Q.downloads = P.downloads
         /\ Q.lists = P.lists /\ Q.listings = P.listings /\ Q.asked = P.asked /\ Q.written = P.written
         /\ Q.thrown = P.thrown /\ Q.hung = P.hung
         /\ status # Absent /\ status # None
<1> DEFINE n == SlotsAfterReply(P.slots, P.out[id].status, status)
<1>1. P.out \in [Ids -> Messages] BY Maps
<1>2. P.out[id] \in Messages BY <1>1
<1>3. [P.out[id] EXCEPT !.status = status].status = status /\ [P.out[id] EXCEPT !.status = status].req = P.out[id].req
  BY <1>2 DEF Messages
<1>4. Q = [P EXCEPT !.out[id].status = status, !.slots = n] BY DEF Settle
<1> HIDE DEF n
<1>5. /\ Q.out = [P.out EXCEPT ![id].status = status]
      /\ Q.next = P.next /\ Q.in = P.in /\ Q.uploads = P.uploads /\ Q.downloads = P.downloads
      /\ Q.lists = P.lists /\ Q.listings = P.listings /\ Q.asked = P.asked /\ Q.written = P.written
      /\ Q.thrown = P.thrown /\ Q.hung = P.hung
  BY <1>4 DEF PeerTypes
<1>6. status # Absent /\ status # None BY DEF Statuses, Pending, None, Absent
<1> QED BY <1>1, <1>3, <1>5, <1>6

\* The request id of P is open, or a RECEIVE_FILE whose file comes.
Settling(P, id, status) ==
  /\ P.out[id].status # Absent
  /\ P.out[id].status \in Unanswered \/ (status = "STATUS_OK" /\ P.out[id].req.code = "RECEIVE_FILE")

LEMMA ToldSettled ==
  ASSUME NEW P \in PeerTypes, NEW V, NEW mine, NEW w, Context(V, mine, w), Told(P, V, w, mine),
         NEW id \in Ids, NEW status \in Statuses, NEW Q, Q = Settle(P, id, status), Settling(P, id, status),
         \A m \in In(w) \cup In(P.written) : ~Asking(m, id)
  PROVE  Told(Q, V, w, mine)
<1> DEFINE to == In(w) \cup In(P.written)
<1>1. /\ Q.out[id].status = status /\ Q.out[id].req = P.out[id].req /\ status # Absent /\ status # None
      /\ \A o \in Ids : o # id => Q.out[o] = P.out[o]
      /\ Q.next = P.next /\ Q.in = P.in /\ Q.uploads = P.uploads
      /\ Q.lists = P.lists /\ Q.asked = P.asked /\ Q.written = P.written
  BY Settles
<1>2. /\ P.out[id].status # Absent
      /\ P.out[id].status \in Unanswered \/ (status = "STATUS_OK" /\ P.out[id].req.code = "RECEIVE_FILE")
  BY DEF Settling
<1>3. \A o \in Ids : /\ Q.out[o].status # Absent <=> P.out[o].status # Absent
                     /\ Q.out[o].req = P.out[o].req
                     /\ P.out[o].status = "STATUS_OK" => Q.out[o].status = "STATUS_OK"
                     /\ P.out[o].status \notin Unanswered /\ P.out[o].req.code = "SEND_FILE" => Q.out[o].status \notin Unanswered
  BY <1>1, <1>2 DEF Unanswered, None, Pending
<1>4. /\ Book(P) /\ Noted(P, V, to) /\ Granted(V) /\ InReply(P, V)
      /\ Book(V) /\ Noted(V, P, In(mine)) /\ Granted(P) /\ InReply(V, P)
  BY DEF Told, Tale
<1>5. \A x \in to : x.type = "REQUEST" => x.id \in Ids
  <2>1. w \in Seq(OnWire) /\ P.written \in Seq(OnWire) BY Maps DEF Context
  <2>2. \A x \in to : x \in OnWire BY <2>1 DEF In
  <2> QED BY <2>2 DEF OnWire
<1>6. \A x \in to : ~Asking(x, id) OBVIOUS
<1> HIDE DEF to
<1>7. Book(Q)
  <2>1. \A o \in Ids : o >= Q.next => Q.out[o].status = Absent BY <1>1, <1>3, <1>4 DEF Book
  <2>2. ASSUME NEW o \in Ids, Is(Q.out[o], "SEND_FILE"), Q.out[o].status \in Unanswered PROVE Q.uploads[o].live
    <3>1. Is(P.out[o], "SEND_FILE") /\ P.out[o].status \in Unanswered BY <1>3, <2>2 DEF Is
    <3> QED BY <1>1, <1>4, <3>1 DEF Book
  <2>3. ASSUME NEW o \in Ids, Is(Q.out[o], "DATA_PACKET"), NEW ref, ref = Q.out[o].req.ref
        PROVE  Is(Q.out[ref], "SEND_FILE") /\ Q.out[ref].status = "STATUS_OK"
    <3>1. Is(P.out[o], "DATA_PACKET") /\ ref = P.out[o].req.ref BY <1>3, <2>3 DEF Is
    <3>2. Is(P.out[ref], "SEND_FILE") /\ P.out[ref].status = "STATUS_OK" BY <1>4, <3>1 DEF Book
    <3>3. ref # id BY <1>2, <3>2 DEF Is, Unanswered, None, Pending
    <3>4. Q.out[ref] = P.out[ref]
      <4>1. PICK m : m = [P.out[id] EXCEPT !.status = status] OBVIOUS
      <4>2. Q.out = [P.out EXCEPT ![id] = m] BY <4>1 DEF Settle, PeerTypes
      <4> QED BY <3>3, <4>2, Maps
    <3> QED BY <3>2, <3>4
  <2>4. ASSUME NEW o \in Ids, NEW other \in Ids, Is(Q.out[o], "RECEIVE_FILE"), Is(Q.out[other], "RECEIVE_FILE"),
               Q.out[o].req.file = Q.out[other].req.file
        PROVE  o = other
    BY <1>3, <1>4, <2>4 DEF Book, Is
  <2> QED BY <2>1, <2>2, <2>3, <2>4 DEF Book
<1>8. Noted(Q, V, to)
  <2>1. ASSUME NEW x \in to, x.type = "REQUEST" PROVE Q.out[x.id] = Message(x.req) /\ V.in[x.id].status = Absent
    <3>1. x.id # id /\ x.id \in Ids BY <1>5, <1>6, <2>1 DEF Asking
    <3> QED BY <1>1, <1>4, <2>1, <3>1 DEF Noted
  <2> QED BY <1>3, <1>4, <2>1 DEF Noted
<1>9. InReply(Q, V)
  <2> SUFFICES ASSUME NEW o \in Ids, Is(Q.out[o], "SEND_FILE"), NEW ref, ref = Q.out[o].req.ref, ref # NoRef
               PROVE  Fulfils(Q, V, o, ref)
    BY DEF InReply
  <2>1. \A other \in Ids : Is(Q.out[other], "SEND_FILE") <=> Is(P.out[other], "SEND_FILE") BY <1>3 DEF Is
  <2>2. Is(P.out[o], "SEND_FILE") /\ ref = P.out[o].req.ref /\ Q.out[o].req = P.out[o].req BY <1>3, <2>1
  <2>3. Fulfils(P, V, o, ref) BY <1>4, <2>2, InReplyOf
  <2> QED BY <1>1, <1>3, <2>1, <2>2, <2>3, Zenon DEF Fulfils
<1>10. Noted(V, Q, In(mine)) BY <1>1, <1>4 DEF Noted
<1>11. Granted(Q) BY <1>1, <1>4 DEF Granted
<1>12. InReply(V, Q)
  <2> SUFFICES ASSUME NEW o \in Ids, Is(V.out[o], "SEND_FILE"), NEW ref, ref = V.out[o].req.ref, ref # NoRef
               PROVE  Fulfils(V, Q, o, ref)
    BY DEF InReply
  <2>1. ref \in Ids BY RefType DEF Context
  <2>2. Is(P.out[ref], "RECEIVE_FILE") <=> Is(Q.out[ref], "RECEIVE_FILE") BY <1>3, <2>1, Zenon DEF Is
  <2>3. Fulfils(V, P, o, ref) BY <1>4, InReplyOf
  <2> QED BY <1>1, <1>3, <2>1, <2>2, <2>3, Zenon DEF Fulfils
<1> QED BY <1>1, <1>4, <1>7, <1>8, <1>9, <1>10, <1>11, <1>12 DEF Told, Tale, to

-----------------------------------------------------------------------------
\* A request is answered.

\* Q is P after it has answered request id of V, which is r, with status.
Answered(P, Q, id, r, status) ==
  /\ Q.in = [P.in EXCEPT ![id] = [req |-> r, status |-> status]]
  /\ Q.written = Append(P.written, [type |-> "RESPONSE", id |-> id, status |-> status])
  /\ Q.next = P.next /\ Q.slots = P.slots /\ Q.out = P.out /\ Q.uploads = P.uploads
  /\ \A o \in Ids : P.listings[o].live => Q.listings[o].live
  /\ Q.thrown = P.thrown /\ Q.hung = P.hung

\* That a SEND_FILE for a RECEIVE_FILE is accepted, and only another asked about.
Granting(P, Q, id, r, status) ==
  /\ r.code = "SEND_FILE" /\ r.ref # NoRef
       => status \in {"STATUS_OK", "UP_TO_DATE"} /\ P.out[r.ref].status = "STATUS_OK"
  /\ \A o \in Ids : Q.lists[o].live => P.lists[o].live \/ o = id
  /\ \A a \in Q.asked : a.req.ref = NoRef

LEMMA ToldAnswered ==
  ASSUME NEW P \in PeerTypes, NEW V, NEW mine, NEW w, Context(V, mine, w), Told(P, V, w, mine),
         NEW id \in Ids, NEW r, NEW status \in Statuses, NEW Q, Answered(P, Q, id, r, status),
         Granting(P, Q, id, r, status), V.out[id].status # Absent, V.out[id].req = r,
         \A m \in In(mine) : ~Asking(m, id)
  PROVE  Told(Q, V, w, mine)
<1> DEFINE m == [type |-> "RESPONSE", id |-> id, status |-> status]
           to == In(w) \cup In(P.written)
<1>1. /\ Q.in[id].req = r /\ Q.in[id].status = status /\ status # Absent
      /\ \A o \in Ids : o # id => Q.in[o] = P.in[o]
      /\ Q.out = P.out /\ Q.next = P.next /\ Q.uploads = P.uploads
  <2>1. P.in \in [Ids -> Messages] BY Maps
  <2> QED BY <2>1 DEF Answered, Statuses, Absent, Pending
<1>2. In(w) \cup In(Q.written) = to \cup {m}
  <2>1. P.written \in Seq(OnWire) /\ m \in OnWire /\ Q.written = Append(P.written, m)
    BY Maps DEF OnWire, Answered
  <2> HIDE DEF m
  <2> QED BY <2>1, InAppend
<1>3. m.type # "REQUEST" OBVIOUS
<1> HIDE DEF m
<1>4. /\ Book(P) /\ Noted(P, V, to) /\ Granted(V) /\ InReply(P, V)
      /\ Book(V) /\ Noted(V, P, In(mine)) /\ Granted(P) /\ InReply(V, P)
  BY DEF Told, Tale
<1> HIDE DEF to
<1>5. Book(Q) BY <1>1, <1>4 DEF Book
<1>6. Noted(Q, V, to \cup {m}) BY <1>1, <1>3, <1>4 DEF Noted
<1>7. InReply(Q, V)
  <2> SUFFICES ASSUME NEW o \in Ids, Is(Q.out[o], "SEND_FILE"), NEW ref, ref = Q.out[o].req.ref, ref # NoRef
               PROVE  Fulfils(Q, V, o, ref)
    BY DEF InReply
  <2>1. Is(P.out[o], "SEND_FILE") /\ ref = P.out[o].req.ref BY <1>1
  <2>2. Fulfils(P, V, o, ref) BY <1>4, <2>1, InReplyOf
  <2>3. ref \in Ids BY <2>1, RefType, Zenon
  <2>4. Q.in[ref].status # Absent BY <1>1, <2>2, <2>3 DEF Fulfils
  <2> QED BY <1>1, <2>2, <2>4, Zenon DEF Fulfils
<1>8. Noted(V, Q, In(mine))
  <2>1. ASSUME NEW x \in In(mine), x.type = "REQUEST" PROVE V.out[x.id] = Message(x.req) /\ Q.in[x.id].status = Absent
    <3>1. x.id # id BY <2>1 DEF Asking
    <3>2. x.id \in Ids
      <4>1. x \in OnWire BY DEF Context, In
      <4> QED BY <2>1, <4>1 DEF OnWire
    <3> QED BY <1>1, <1>4, <2>1, <3>1, <3>2 DEF Noted
  <2> QED BY <1>1, <1>4, <2>1 DEF Noted
<1>9. Granted(Q) BY <1>1, <1>4 DEF Granted, Granting
<1>10. InReply(V, Q)
  <2> SUFFICES ASSUME NEW o \in Ids, Is(V.out[o], "SEND_FILE"), NEW ref, ref = V.out[o].req.ref, ref # NoRef
               PROVE  Fulfils(V, Q, o, ref)
    BY DEF InReply
  <2>3. Fulfils(V, P, o, ref) BY <1>4, InReplyOf
  <2>1. CASE o = id
    <3>1. r.code = "SEND_FILE" /\ r.ref = ref BY <2>1 DEF Is
    <3> QED BY <1>1, <2>1, <2>3, <3>1, Zenon DEF Granting, Fulfils
  <2>2. CASE o # id BY <1>1, <2>2, <2>3, Zenon DEF Fulfils
  <2> QED BY <2>1, <2>2, Zenon
<1> QED BY <1>2, <1>4, <1>5, <1>6, <1>7, <1>8, <1>9, <1>10 DEF Told, Tale
-----------------------------------------------------------------------------
\* P handles a reply.

LEMMA InTail ==
  ASSUME NEW s \in Seq(OnWire), s # <<>>
  PROVE  In(Tail(s)) \subseteq In(s) /\ s[1] \in In(s) /\ s[1] \in OnWire /\ Tail(s) \in Seq(OnWire)
<1>1. /\ Tail(s) \in Seq(OnWire) /\ Len(Tail(s)) = Len(s) - 1
      /\ \A i \in 1 .. Len(s) - 1 : i + 1 \in 1 .. Len(s) /\ Tail(s)[i] = s[i + 1]
      /\ 1 \in 1 .. Len(s) /\ s[1] \in OnWire
  BY Taking
<1> QED BY <1>1 DEF In

LEMMA ToldTaken ==
  ASSUME NEW P, NEW V, NEW mine, NEW w, Context(V, mine, w), Told(P, V, w, mine), mine # <<>>
  PROVE  Told(P, V, w, Tail(mine))
<1>1. In(Tail(mine)) \subseteq In(mine) BY InTail DEF Context
<1> QED BY <1>1 DEF Told, Tale, Noted

LEMMA InReplySame ==
  ASSUME NEW P, NEW Q, Q.out = P.out, Q.in = P.in, NEW V
  PROVE  (InReply(P, V) => InReply(Q, V)) /\ (InReply(V, P) => InReply(V, Q))
<1>1. \A id, ref : (Fulfils(P, V, id, ref) <=> Fulfils(Q, V, id, ref)) /\ (Fulfils(V, P, id, ref) <=> Fulfils(V, Q, id, ref))
  BY DEF Fulfils
<1> QED BY <1>1 DEF InReply

\* Q is P but for transfers that are over.
LEMMA ToldElse ==
  ASSUME NEW P, NEW V, NEW w, NEW mine, Told(P, V, w, mine), NEW Q,
         Q.next = P.next, Q.out = P.out, Q.in = P.in, Q.written = P.written, Q.asked \subseteq P.asked,
         \A id \in Ids : Q.lists[id].live => P.lists[id].live,
         \A id \in Ids : P.uploads[id].live /\ P.out[id].status \in Unanswered => Q.uploads[id].live
  PROVE  Told(Q, V, w, mine)
<1>1. /\ Book(P) /\ Noted(P, V, In(w) \cup In(P.written)) /\ Granted(V) /\ InReply(P, V)
      /\ Book(V) /\ Noted(V, P, In(mine)) /\ Granted(P) /\ InReply(V, P)
  BY DEF Told, Tale
<1>2. Book(Q) BY <1>1 DEF Book
<1>3. Noted(Q, V, In(w) \cup In(Q.written)) /\ Noted(V, Q, In(mine)) BY <1>1 DEF Noted
<1>4. InReply(Q, V) /\ InReply(V, Q) BY <1>1, InReplySame
<1>5. Granted(Q) BY <1>1 DEF Granted
<1> QED BY <1>1, <1>2, <1>3, <1>4, <1>5 DEF Told, Tale

\* What is left alone by replies and the packets they are answered with.
Unmoved(P, X) ==
  /\ Keeps(P, X) /\ X.in = P.in /\ X.downloads = P.downloads /\ X.thrown = P.thrown
  /\ \A id \in Ids : Is(X.out[id], "RECEIVE_FILE") /\ X.out[id].status = "STATUS_OK" => P.out[id].status = "STATUS_OK"

LEMMA UnmovedAgain ==
  ASSUME NEW P, NEW Q, NEW X, Unmoved(P, Q), Unmoved(Q, X)
  PROVE  Unmoved(P, X)
<1>1. Keeps(P, X) BY KeepsAgain DEF Unmoved
<1>2. ASSUME NEW id \in Ids, Is(X.out[id], "RECEIVE_FILE"), X.out[id].status = "STATUS_OK"
      PROVE  P.out[id].status = "STATUS_OK"
  <2>1. Q.out[id].status = "STATUS_OK" BY <1>2 DEF Unmoved
  <2>2. Q.out[id].status # Absent BY <2>1 DEF Absent
  <2>3. Is(Q.out[id], "RECEIVE_FILE") BY <1>2, <2>2 DEF Unmoved, Keeps, Is
  <2> QED BY <2>1, <2>3 DEF Unmoved
<1> QED BY <1>1, <1>2 DEF Unmoved

LEMMA UnmovedSent ==
  ASSUME NEW P \in PeerTypes, NEW Q, NEW r, Sends(P, Q, r), r.code # "RECEIVE_FILE"
  PROVE  Unmoved(P, Q)
<1>1. Keeps(P, Q) BY KeepsSent
<1>2. ASSUME NEW id \in Ids, Is(Q.out[id], "RECEIVE_FILE"), Q.out[id].status = "STATUS_OK"
      PROVE  P.out[id].status = "STATUS_OK"
  BY <1>2, OutSent DEF Is
<1> QED BY <1>1, <1>2 DEF Unmoved, Sends

LEMMA ToldPacket ==
  ASSUME NEW G, Allowed(G), NEW P, Typed(P, G), NEW V, NEW mine, NEW w, Context(V, mine, w), Told(P, V, w, mine),
         P.slots > 0, P.next < MaxId, NEW id \in Ids, P.uploads[id].left > 0,
         Is(P.out[id], "SEND_FILE"), P.out[id].status = "STATUS_OK"
  PROVE  /\ Told(SendPacket(P, id), V, w, mine) /\ Unmoved(P, SendPacket(P, id))
         /\ SendPacket(P, id).next = P.next + 1 /\ SendPacket(P, id).slots = P.slots - 1
         /\ SendPacket(P, id).out[id] = P.out[id]
<1>1. P \in PeerTypes BY DEF Typed
<1>2. P.out[P.next].status = Absent /\ P.uploads \in [Ids -> Transferred] /\ P.next \in Ids
  <2>1. P.next \in Ids /\ P.next >= P.next /\ P.uploads \in [Ids -> Transferred] BY <1>1, Maps
  <2> QED BY <2>1 DEF Told, Tale, Book
<1>3. PICK X : X = SendPacket(P, id) OBVIOUS
<1>4. PICK r \in Requests :
           /\ r.code = "DATA_PACKET" /\ r.ref = id
           /\ Sends(P, X, r) /\ X.lists = P.lists /\ X.uploads = [P.uploads EXCEPT ![id].left = @ - 1]
  BY <1>2, <1>3, PacketSends
<1>5. \A o \in Ids : X.uploads[o].live = P.uploads[o].live BY <1>2, <1>4 DEF Transferred
<1>6. Backed(P, X, V, r) BY <1>4, <1>5 DEF Backed
<1>7. Told(X, V, w, mine) BY <1>4, <1>6, ToldSent
<1>8. Unmoved(P, X) BY <1>1, <1>4, UnmovedSent
<1>9. X.out[id] = P.out[id] BY <1>1, <1>4, OutSent DEF Is
<1> QED BY <1>3, <1>4, <1>7, <1>8, <1>9 DEF Sends

LEMMA ToldPackets ==
  ASSUME NEW G, Allowed(G), NEW P, Typed(P, G), NEW V, NEW mine, NEW w, Context(V, mine, w), Told(P, V, w, mine),
         NEW id \in Ids, NEW n \in Nat, n <= P.uploads[id].left, n <= P.slots, P.next + n <= MaxId,
         Is(P.out[id], "SEND_FILE"), P.out[id].status = "STATUS_OK"
  PROVE  Told(SendPackets(P, id, n), V, w, mine) /\ Unmoved(P, SendPackets(P, id, n))
<1>0. PICK g : Sent(g, P, id, n) BY Bursts, Zenon
<1>1. g[0] = P /\ g[n] = SendPackets(P, id, n) /\ \A i \in 1 .. n : g[i] = SendPacket(g[i - 1], id)
  BY <1>0 DEF Sent
<1> DEFINE good(i) == /\ Typed(g[i], G) /\ g[i].uploads[id].left = P.uploads[id].left - i
                      /\ g[i].next = P.next + i /\ g[i].slots = P.slots - i /\ g[i].out[id] = P.out[id]
                      /\ Told(g[i], V, w, mine) /\ Unmoved(P, g[i])
           bad == {i \in 0 .. n : ~good(i)}
<1>2. P.uploads[id].left \in Nat /\ P.slots \in Nat /\ P.next \in Nat
  <2>1. P.uploads \in [Ids -> Transferred] /\ P.slots \in Nat /\ P.next \in Nat BY Maps DEF Typed
  <2>2. P.uploads[id].left \in 0 .. Packets + Pages /\ Packets \in Nat /\ Pages \in Nat
    BY <2>1, Assumed DEF Transferred
  <2> QED BY <2>1, <2>2
<1>3. bad = {}
  <2> SUFFICES ASSUME bad # {} PROVE FALSE OBVIOUS
  <2>1. PICK i \in bad : \A j \in bad : i <= j
    <3>1. bad \subseteq Nat OBVIOUS
    <3> HIDE DEF bad
    <3> QED BY <3>1, LeastNumber
  <2>2. good(0)
    <3>1. Unmoved(P, P) BY Zenon DEF Unmoved, Keeps, Is
    <3>2. PICK Y : Y = g[0] OBVIOUS
    <3>3. Y = P BY <1>1, <3>2
    <3>4. /\ Typed(Y, G) /\ Y.uploads[id].left = P.uploads[id].left - 0 /\ Y.next = P.next + 0
          /\ Y.slots = P.slots - 0 /\ Y.out[id] = P.out[id] /\ Told(Y, V, w, mine) /\ Unmoved(P, Y)
      BY <1>2, <3>1, <3>3
    <3> QED BY <3>2, <3>4
  <2>3. i # 0 /\ i \in 1 .. n BY <2>1, <2>2
  <2>4. good(i - 1) /\ i - 1 \in Nat BY <2>1, <2>3
  <2>5. PICK Y : Y = g[i - 1] OBVIOUS
  <2>6. /\ Typed(Y, G) /\ Y.uploads[id].left = P.uploads[id].left - (i - 1) /\ Y.next = P.next + (i - 1)
        /\ Y.slots = P.slots - (i - 1) /\ Y.out[id] = P.out[id] /\ Told(Y, V, w, mine) /\ Unmoved(P, Y)
    BY <2>4, <2>5
  <2>7. Y.uploads[id].left > 0 /\ Y.slots > 0 /\ Y.next < MaxId BY <1>2, <2>3, <2>6
  <2>8. g[i] = SendPacket(Y, id) BY <1>1, <2>3, <2>5
  <2>9. Typed(g[i], G) /\ g[i].uploads[id].left = Y.uploads[id].left - 1
    BY <2>6, <2>7, <2>8, SendPacketTyped
  <2>10. /\ Told(g[i], V, w, mine) /\ Unmoved(Y, g[i])
         /\ g[i].next = Y.next + 1 /\ g[i].slots = Y.slots - 1 /\ g[i].out[id] = P.out[id]
    BY <2>6, <2>7, <2>8, ToldPacket
  <2>11. Unmoved(P, g[i]) BY <2>6, <2>10, UnmovedAgain
  <2>12. /\ g[i].uploads[id].left = P.uploads[id].left - i /\ g[i].next = P.next + i /\ g[i].slots = P.slots - i
    BY <1>2, <2>3, <2>6, <2>9, <2>10
  <2>13. good(i) BY <2>9, <2>10, <2>11, <2>12
  <2> QED BY <2>1, <2>13
<1>4. n \in 0 .. n OBVIOUS
<1>5. good(n) BY <1>3, <1>4
<1> QED BY <1>1, <1>5

\* The ids of the open requests are below the next one, so the slots that are left
\* are at least the ids that are.
LEMMA Room ==
  ASSUME NEW P \in PeerTypes, Book(P), P.slots + Cardinality(Open(P.out)) = MaxId
  PROVE  P.slots >= MaxId - P.next
<1> DEFINE used == 0 .. P.next - 1
<1>1. P.next \in Nat /\ P.slots \in Nat BY Maps
<1>2. Open(P.out) \subseteq used
  <2>1. \A id \in Ids : P.out[id].status \in Unanswered => ~(id >= P.next)
    BY DEF Book, Unanswered, None, Pending, Absent
  <2> QED BY <1>1, <2>1 DEF Open, Ids
<1>3. IsFiniteSet(used) /\ Cardinality(used) = P.next
  <2>1. 0 \in Int /\ P.next - 1 \in Int BY <1>1
  <2>2. IsFiniteSet(used) /\ Cardinality(used) = IF 0 > P.next - 1 THEN 0 ELSE (P.next - 1) - 0 + 1
    BY <2>1, FS_Interval
  <2> HIDE DEF used
  <2> QED BY <1>1, <2>2
<1> HIDE DEF used
<1>4. Cardinality(Open(P.out)) <= P.next BY <1>2, <1>3, FS_Subset
<1>5. Cardinality(Open(P.out)) \in Nat BY IdsFinite
<1> QED BY <1>1, <1>4, <1>5

LEMMA ToldPage ==
  ASSUME NEW G, Allowed(G), NEW P, Typed(P, G), NEW V, NEW mine, NEW w, Context(V, mine, w), Told(P, V, w, mine),
         P.slots > 0, P.next < MaxId, NEW id \in Ids, P.lists[id].left > 0
  PROVE  Told(SendPage(P, id), V, w, mine) /\ Unmoved(P, SendPage(P, id))
<1>1. P \in PeerTypes BY DEF Typed
<1>2. P.out[P.next].status = Absent /\ P.lists \in [Ids -> Transferred] /\ P.next \in Ids
  <2>1. P.next \in Ids /\ P.next >= P.next /\ P.lists \in [Ids -> Transferred] BY <1>1, Maps
  <2> QED BY <2>1 DEF Told, Tale, Book
<1>3. PICK X : X = SendPage(P, id) OBVIOUS
<1>4. PICK r \in Requests :
           /\ r.code = "FILE_LIST" /\ r.ref = id
           /\ Sends(P, X, r) /\ X.uploads = P.uploads /\ X.lists = [P.lists EXCEPT ![id].left = @ - 1]
  BY <1>2, <1>3, PageSends
<1>5. \A o \in Ids : X.lists[o].live = P.lists[o].live BY <1>2, <1>4 DEF Transferred
<1>6. Backed(P, X, V, r) BY <1>4, <1>5 DEF Backed
<1>7. Told(X, V, w, mine) BY <1>4, <1>6, ToldSent
<1>8. Unmoved(P, X) BY <1>1, <1>4, UnmovedSent
<1> QED BY <1>3, <1>7, <1>8

LEMMA InBoth ==
  ASSUME NEW s \in Seq(OnWire), NEW t \in Seq(OnWire), NEW u, u = s \o t
  PROVE  In(u) = In(s) \cup In(t)
<1>1. /\ Len(s) \in Nat /\ Len(t) \in Nat /\ Len(u) = Len(s) + Len(t)
      /\ \A i \in 1 .. Len(s) : u[i] = s[i]
      /\ \A i \in 1 .. Len(t) : u[Len(s) + i] = t[i]
  BY ConcatProperties
<1>2. \A i \in 1 .. Len(u) : i \in 1 .. Len(s) \/ (i - Len(s) \in 1 .. Len(t) /\ i = Len(s) + (i - Len(s)))
  BY <1>1
<1>3. \A i \in 1 .. Len(s) : i \in 1 .. Len(u) BY <1>1
<1>4. \A i \in 1 .. Len(t) : Len(s) + i \in 1 .. Len(u) BY <1>1
<1>5. In(s) \subseteq In(u) BY <1>1, <1>3 DEF In
<1>6. In(t) \subseteq In(u)
  <2>1. ASSUME NEW i \in 1 .. Len(t) PROVE t[i] \in In(u)
    <3>1. Len(s) + i \in 1 .. Len(u) /\ u[Len(s) + i] = t[i] BY <1>1, <1>4
    <3> QED BY <3>1 DEF In
  <2> QED BY <2>1 DEF In
<1>7. In(u) \subseteq In(s) \cup In(t)
  <2>1. ASSUME NEW i \in 1 .. Len(u) PROVE u[i] \in In(s) \cup In(t)
    <3>1. CASE i \in 1 .. Len(s) BY <1>1, <3>1 DEF In
    <3>2. CASE i - Len(s) \in 1 .. Len(t) /\ i = Len(s) + (i - Len(s))
      <4>1. u[i] = t[i - Len(s)] BY <1>1, <3>2
      <4> QED BY <3>2, <4>1 DEF In
    <3> QED BY <1>2, <3>1, <3>2
  <2> QED BY <2>1 DEF In
<1> QED BY <1>5, <1>6, <1>7

\* An answer leaves the requests that have one alone.
LEMMA SettleUnmoved ==
  ASSUME NEW P \in PeerTypes, NEW id \in Ids, NEW status \in Statuses, NEW Q, Q = Settle(P, id, status),
         P.out[id].status \in Unanswered, P.out[id].req.code = "RECEIVE_FILE" => status # "STATUS_OK",
         ~(P.out[id].req.code = "LIST_FILES" /\ status = "STATUS_OK")
  PROVE  Unmoved(P, Q)
<1>1. /\ Q.out[id].status = status /\ Q.out[id].req = P.out[id].req
      /\ \A o \in Ids : o # id => Q.out[o] = P.out[o]
      /\ Q.in = P.in /\ Q.downloads = P.downloads /\ Q.listings = P.listings /\ Q.thrown = P.thrown
      /\ status # Absent
  BY Settles
<1>2. P.out[id].status # "STATUS_OK" /\ P.out[id].status # Absent BY DEF Unanswered, None, Pending, Absent
<1>3. Keeps(P, Q)
  <2> SUFFICES ASSUME NEW o \in Ids
               PROVE  /\ P.out[o].status # Absent =>
                           /\ Q.out[o].status # Absent /\ Q.out[o].req = P.out[o].req
                           /\ P.out[o].status = "STATUS_OK" => Q.out[o].status = "STATUS_OK"
                      /\ Is(Q.out[o], "RECEIVE_FILE") => P.out[o].status # Absent
                      /\ P.out[o].status # Absent /\ Q.out[o].req.code = "LIST_FILES" /\ Q.out[o].status = "STATUS_OK"
                           => Q.listings[o].live \/ (P.out[o].status = "STATUS_OK" /\ ~P.listings[o].live)
    BY DEF Keeps
  <2>1. CASE o = id BY <1>1, <1>2, <2>1
  <2>2. CASE o # id
    <3>1. Q.out[o] = P.out[o] BY <1>1, <2>2
    <3> QED BY <1>1, <3>1 DEF Is
  <2> QED BY <2>1, <2>2
<1>4. ASSUME NEW o \in Ids, Is(Q.out[o], "RECEIVE_FILE"), Q.out[o].status = "STATUS_OK"
      PROVE  P.out[o].status = "STATUS_OK"
  <2>1. CASE o = id BY <1>1, <1>4, <2>1 DEF Is
  <2>2. CASE o # id BY <1>1, <1>4, <2>2
  <2> QED BY <2>1, <2>2
<1> QED BY <1>1, <1>3, <1>4 DEF Unmoved

\* Q, a peer that has recorded STATUS_OK for request id, becomes X.
Follows(X, Q, id, r) ==
  \/ X = Q /\ r.code # "LIST_FILES"
  \/ r.code = "DATA_PACKET" /\ Q.uploads[r.ref].live /\ Q.uploads[r.ref].left > 0 /\ X = SendPacket(Q, r.ref)
  \/ r.code = "DATA_PACKET" /\ X = [Q EXCEPT !.uploads[r.ref] = NoTransfer]
  \/ r.code = "SEND_FILE" /\ X = SendPackets(Q, id, BurstOf(Q, id))
  \/ r.code = "LIST_FILES" /\ X = [Q EXCEPT !.listings[id] = Emplaced(@, Transfer(r.file, 1))]
  \/ r.code = "FILE_LIST" /\ Q.lists[r.ref].live /\ Q.lists[r.ref].left > 0 /\ X = SendPage(Q, r.ref)
  \/ r.code = "FILE_LIST" /\ X = [Q EXCEPT !.uploads[id] = NoTransfer]

LEMMA ToldFollowed ==
  ASSUME NEW G, Allowed(G), NEW Q, Typed(Q, G), NEW V, NEW mine, NEW w, Context(V, mine, w), Told(Q, V, w, mine),
         Q.slots + Cardinality(Open(Q.out)) = MaxId, Q.next + Burst <= MaxId,
         NEW id \in Ids, NEW r \in G, Q.out[id].req = r, Q.out[id].status = "STATUS_OK",
         NEW X, Follows(X, Q, id, r)
  PROVE  /\ Told(X, V, w, mine)
         /\ r.code # "LIST_FILES" => Unmoved(Q, X)
         /\ r.code = "LIST_FILES" =>
              /\ X.out = Q.out /\ X.in = Q.in /\ X.downloads = Q.downloads /\ X.thrown = Q.thrown
              /\ X.listings[id].live /\ \A o \in Ids : o # id => X.listings[o] = Q.listings[o]
<1>1. /\ r \in Requests /\ r.file \in Files /\ (r.code \in {"DATA_PACKET", "FILE_LIST"} => r.ref \in Ids)
      /\ r.code \in RequestCodes
  BY Assumed DEF Allowed, Referred
<1>2. Q \in PeerTypes BY DEF Typed
<1>3. Book(Q) BY DEF Told, Tale
<1>4. Burst \in Nat \ {0} /\ Q.next \in Nat /\ Q.slots \in Nat /\ MaxId \in Nat BY <1>2, Assumed, Maps
<1>5. Q.slots >= MaxId - Q.next BY <1>2, <1>3, Room
<1>6. Q.slots > 0 /\ Q.next < MaxId BY <1>4, <1>5
<1>7. Is(Q.out[id], r.code) BY DEF Is, Absent
<1>8. /\ Q.uploads \in [Ids -> Transferred] /\ Q.lists \in [Ids -> Transferred]
      /\ Q.listings \in [Ids -> Transferred]
  BY <1>2, Maps
<1>9. r.code = "DATA_PACKET" => Is(Q.out[r.ref], "SEND_FILE") /\ Q.out[r.ref].status = "STATUS_OK"
  BY <1>3, <1>7 DEF Book
<1>10. CASE X = Q /\ r.code # "LIST_FILES"
  <2>1. Unmoved(Q, Q) BY DEF Unmoved, Keeps, Is
  <2> QED BY <1>10, <2>1
<1>11. CASE r.code = "DATA_PACKET" /\ Q.uploads[r.ref].live /\ Q.uploads[r.ref].left > 0 /\ X = SendPacket(Q, r.ref)
  BY <1>1, <1>6, <1>9, <1>11, ToldPacket
<1>12. ASSUME NEW o \in Ids, X = [Q EXCEPT !.uploads[o] = NoTransfer], Q.out[o].status = "STATUS_OK",
              r.code # "LIST_FILES"
       PROVE  Told(X, V, w, mine) /\ Unmoved(Q, X)
  <2>1. /\ X.next = Q.next /\ X.out = Q.out /\ X.in = Q.in /\ X.written = Q.written /\ X.asked = Q.asked
        /\ X.lists = Q.lists /\ X.listings = Q.listings /\ X.downloads = Q.downloads /\ X.thrown = Q.thrown
        /\ X.uploads = [Q.uploads EXCEPT ![o] = NoTransfer]
    BY <1>2, <1>12 DEF PeerTypes
  <2>2. \A i \in Ids : Q.uploads[i].live /\ Q.out[i].status \in Unanswered => X.uploads[i].live
    <3>1. "STATUS_OK" \notin Unanswered BY DEF Unanswered, None, Pending
    <3> QED BY <1>8, <1>12, <2>1, <3>1
  <2>3. Told(X, V, w, mine) BY <2>1, <2>2, ToldElse
  <2>4. Unmoved(Q, X) BY <2>1 DEF Unmoved, Keeps, Is
  <2> QED BY <2>3, <2>4
<1>13. CASE r.code = "DATA_PACKET" /\ X = [Q EXCEPT !.uploads[r.ref] = NoTransfer]
  BY <1>1, <1>9, <1>12, <1>13
<1>14. CASE r.code = "SEND_FILE" /\ X = SendPackets(Q, id, BurstOf(Q, id))
  <2>1. BurstOf(Q, id) \in Nat /\ BurstOf(Q, id) <= Q.uploads[id].left /\ BurstOf(Q, id) <= Q.slots
    BY BurstBounds
  <2>2. BurstOf(Q, id) <= Burst
    <3>1. Q.uploads[id].left \in Nat
      <4>1. Q.uploads[id].left \in 0 .. Packets + Pages /\ Packets \in Nat /\ Pages \in Nat
        BY <1>8, Assumed DEF Transferred
      <4> QED BY <4>1
    <3> QED BY <1>4, <3>1, LeastOfThree DEF BurstOf
  <2>3. PICK n \in Nat : n = BurstOf(Q, id) BY <2>1
  <2>4. n <= Q.uploads[id].left /\ n <= Q.slots /\ Q.next + n <= MaxId BY <1>4, <2>1, <2>2, <2>3
  <2>5. Is(Q.out[id], "SEND_FILE") BY <1>7, <1>14
  <2>6. Told(SendPackets(Q, id, n), V, w, mine) /\ Unmoved(Q, SendPackets(Q, id, n))
    BY <2>4, <2>5, ToldPackets
  <2> QED BY <1>14, <2>3, <2>6
<1>15. CASE r.code = "LIST_FILES" /\ X = [Q EXCEPT !.listings[id] = Emplaced(@, Transfer(r.file, 1))]
  <2>1. PICK t : t = Emplaced(Q.listings[id], Transfer(r.file, 1)) OBVIOUS
  <2>2. t.live BY <2>1 DEF Emplaced, Transfer, NoTransfer
  <2>3. /\ X.next = Q.next /\ X.out = Q.out /\ X.in = Q.in /\ X.written = Q.written /\ X.asked = Q.asked
        /\ X.lists = Q.lists /\ X.uploads = Q.uploads /\ X.downloads = Q.downloads /\ X.thrown = Q.thrown
        /\ X.listings = [Q.listings EXCEPT ![id] = t]
    BY <1>2, <1>15, <2>1 DEF PeerTypes
  <2>4. Told(X, V, w, mine) BY <2>3, ToldElse
  <2> QED BY <1>8, <1>15, <2>2, <2>3, <2>4
<1>16. CASE r.code = "FILE_LIST" /\ Q.lists[r.ref].live /\ Q.lists[r.ref].left > 0 /\ X = SendPage(Q, r.ref)
  BY <1>1, <1>6, <1>16, ToldPage
<1>17. CASE r.code = "FILE_LIST" /\ X = [Q EXCEPT !.uploads[id] = NoTransfer]
  BY <1>12, <1>17
<1> QED BY <1>10, <1>11, <1>13, <1>14, <1>15, <1>16, <1>17 DEF Follows

LEMMA NoneAsking ==
  ASSUME NEW s \in Seq(OnWire), NEW t \in Seq(OnWire), NEW u, u = s \o t, NEW id,
         \A i \in 1 .. Len(u) : ~Asking(u[i], id)
  PROVE  \A m \in In(s) \cup In(t) : ~Asking(m, id)
<1>1. \A m \in In(u) : ~Asking(m, id) BY DEF In
<1> QED BY <1>1, InBoth

\* P handles a reply.
LEMMA ToldReceived ==
  ASSUME NEW G, Allowed(G), NEW P, Typed(P, G), NEW V, NEW mine, NEW w, Context(V, mine, w), NEW F,
         Sound(P, V, mine, w, F), Told(P, V, w, mine), mine # <<>>, mine[1].type = "RESPONSE",
         P.next + Burst <= MaxId, NEW X \in Handled(P, mine[1])
  PROVE  Told(X, V, w, Tail(mine)) /\ Unmoved(P, X)
<1> DEFINE sent == w \o P.written
<1>1. P \in PeerTypes /\ mine \in Seq(OnWire) /\ w \in Seq(OnWire) BY DEF Typed, Context
<1>2. PICK m \in OnWire : m = mine[1] BY <1>1, Taking
<1>3. PICK id \in Ids, reply \in Statuses : id = m.id /\ reply = m.status BY <1>2 DEF OnWire
<1>4. Sound(P, V, Tail(mine), w, F) /\ Context(V, Tail(mine), w) BY <1>1, SoundTaken
<1>5. Half(P.out, V.asked, sent, mine) BY DEF Sound
<1>6. Replying(mine[1], id) BY <1>2, <1>3 DEF Replying
<1>7. PICK r : r = P.out[id].req OBVIOUS
<1>8. PICK status \in Statuses : status = Recorded(r, reply) BY RecordedType
<1> HIDE DEF sent
<1>9. id \in Open(P.out) /\ MaySettle(id, P.out, V.asked, sent, Tail(mine), status)
  BY <1>1, <1>2, <1>3, <1>5, <1>6, <1>7, <1>8, FirstReply
<1>10. P.out[id].status # Absent /\ P.out[id].status \in Unanswered
  BY <1>9 DEF Open, Unanswered, None, Absent, Pending
<1>11. X = ReceiveReply(P, id, reply) BY <1>2, <1>3, <1>10 DEF Handled
<1>12. PICK Q : Q = Settle(P, id, status) OBVIOUS
<1>13. Typed(Q, G) BY <1>10, <1>12, SettleTyped
<1>14. Sound(Q, V, Tail(mine), w, F) BY <1>1, <1>4, <1>9, <1>12, SoundSettle DEF sent
<1>15. r \in G /\ (r.code = "RECEIVE_FILE" => status # "STATUS_OK")
  <2>1. r \in G BY <1>7, <1>10 DEF Typed
  <2> QED BY <1>8, <2>1 DEF Recorded, Pending
<1>16. Told(P, V, w, Tail(mine)) BY ToldTaken
<1>17. \A x \in In(w) \cup In(P.written) : ~Asking(x, id)
  <2>1. P.written \in Seq(OnWire) BY <1>1, Maps
  <2>2. \A i \in 1 .. Len(sent) : ~Asking(sent[i], id) BY <1>9 DEF MaySettle
  <2> QED BY <1>1, <2>1, <2>2, NoneAsking DEF sent
<1>18. Settling(P, id, status) BY <1>10 DEF Settling
<1>19. Told(Q, V, w, Tail(mine)) BY <1>1, <1>4, <1>12, <1>16, <1>17, <1>18, ToldSettled
<1>20. /\ Q.out[id].status = status /\ Q.out[id].req = r /\ \A o \in Ids : o # id => Q.out[o] = P.out[o]
       /\ Q.next = P.next /\ Q.in = P.in /\ Q.uploads = P.uploads /\ Q.downloads = P.downloads
       /\ Q.listings = P.listings /\ Q.thrown = P.thrown
  BY <1>1, <1>7, <1>12, Settles
<1>21. r.code # "LIST_FILES" \/ status # "STATUS_OK" => Unmoved(P, Q)
  BY <1>1, <1>7, <1>10, <1>12, <1>15, SettleUnmoved
<1>22. CASE status # "STATUS_OK"
  <2>1. X = Q BY <1>7, <1>8, <1>11, <1>12, <1>22, Zenon DEF ReceiveReply
  <2> QED BY <1>19, <1>21, <1>22, <2>1
<1>23. CASE status = "STATUS_OK"
  <2>1. r.code = "SEND_FILE" => Q.uploads[id].live
    BY <1>7, <1>10, <1>16, <1>20, Zenon DEF Told, Tale, Book, Is
  <2>2. Follows(X, Q, id, r)
    <3>1. X = CASE r.code = "DATA_PACKET" ->
                     IF ~Q.uploads[r.ref].live THEN Q
                     ELSE IF Q.uploads[r.ref].left > 0 THEN SendPacket(Q, r.ref)
                     ELSE [Q EXCEPT !.uploads[r.ref] = NoTransfer]
                [] r.code = "SEND_FILE" -> SendPackets(Q, id, BurstOf(Q, id))
                [] r.code = "LIST_FILES" -> [Q EXCEPT !.listings[id] = Emplaced(@, Transfer(r.file, 1))]
                [] r.code = "FILE_LIST" ->
                     IF ~Q.lists[r.ref].live THEN Q
                     ELSE IF Q.lists[r.ref].left > 0 THEN SendPage(Q, r.ref)
                     ELSE [Q EXCEPT !.uploads[id] = NoTransfer]
                [] OTHER -> Q
      BY <1>7, <1>8, <1>11, <1>12, <1>23, <2>1, Zenon DEF ReceiveReply, BurstOf
    <3> QED BY <3>1 DEF Follows
  <2>3. Q.slots + Cardinality(Open(Q.out)) = MaxId BY <1>14 DEF Sound
  <2>4. /\ Told(X, V, w, Tail(mine))
        /\ r.code # "LIST_FILES" => Unmoved(Q, X)
        /\ r.code = "LIST_FILES" =>
             /\ X.out = Q.out /\ X.in = Q.in /\ X.downloads = Q.downloads /\ X.thrown = Q.thrown
             /\ X.listings[id].live /\ \A o \in Ids : o # id => X.listings[o] = Q.listings[o]
    BY <1>4, <1>13, <1>15, <1>19, <1>20, <1>23, <2>2, <2>3, ToldFollowed
  <2>5. CASE r.code # "LIST_FILES" BY <1>21, <2>4, <2>5, UnmovedAgain
  <2>6. CASE r.code = "LIST_FILES"
    <3>1. /\ X.out[id].status = "STATUS_OK" /\ X.out[id].req = r /\ X.listings[id].live
          /\ \A o \in Ids : o # id => X.out[o] = P.out[o] /\ X.listings[o] = P.listings[o]
          /\ X.in = P.in /\ X.downloads = P.downloads /\ X.thrown = P.thrown
      BY <1>20, <1>23, <2>4, <2>6
    <3>2. Keeps(P, X)
      <4> SUFFICES ASSUME NEW o \in Ids
                   PROVE  /\ P.out[o].status # Absent =>
                               /\ X.out[o].status # Absent /\ X.out[o].req = P.out[o].req
                               /\ P.out[o].status = "STATUS_OK" => X.out[o].status = "STATUS_OK"
                          /\ Is(X.out[o], "RECEIVE_FILE") => P.out[o].status # Absent
                          /\ P.out[o].status # Absent /\ X.out[o].req.code = "LIST_FILES" /\ X.out[o].status = "STATUS_OK"
                               => X.listings[o].live \/ (P.out[o].status = "STATUS_OK" /\ ~P.listings[o].live)
        BY DEF Keeps
      <4>1. CASE o = id BY <1>7, <1>10, <3>1, <4>1 DEF Absent
      <4>2. CASE o # id
        <5>1. X.out[o] = P.out[o] /\ X.listings[o] = P.listings[o] BY <3>1, <4>2
        <5> QED BY <5>1 DEF Is
      <4> QED BY <4>1, <4>2
    <3>3. ASSUME NEW o \in Ids, Is(X.out[o], "RECEIVE_FILE"), X.out[o].status = "STATUS_OK"
          PROVE  P.out[o].status = "STATUS_OK"
      <4>1. o # id BY <2>6, <3>1, <3>3 DEF Is
      <4> QED BY <3>1, <3>3, <4>1
    <3>4. Unmoved(P, X) BY <3>1, <3>2, <3>3 DEF Unmoved
    <3> QED BY <2>4, <3>4
  <2> QED BY <2>5, <2>6
<1> QED BY <1>22, <1>23
-----------------------------------------------------------------------------
\* P handles a request.

\* X is P after it has handled request id of the other peer, which is r.
Takes(P, X, id, r) ==
  /\ X.thrown = P.thrown /\ Keeps(P, X)
  /\ X.in[id].req = r /\ X.in[id].status # Absent
  /\ \A k \in Ids : k # id =>
       /\ X.in[k] = P.in[k]
       /\ P.downloads[k].live => X.downloads[k].live \/ (r.code = "DATA_PACKET" /\ r.ref = k)
  /\ r.code = "SEND_FILE" /\ X.in[id].status = "STATUS_OK" => X.downloads[id].live
  /\ \A o \in Ids : Is(X.out[o], "RECEIVE_FILE") /\ X.out[o].status = "STATUS_OK" /\ P.out[o].status # "STATUS_OK"
       => r.code = "SEND_FILE" /\ r.ref = o

\* What is sent after the answer changes none of that.
LEMMA TakesMore ==
  ASSUME NEW P, NEW L, NEW X, NEW id \in Ids, NEW r, Takes(P, L, id, r), Unmoved(L, X)
  PROVE  Takes(P, X, id, r)
<1>1. Keeps(P, X) BY KeepsAgain DEF Takes, Unmoved
<1>2. ASSUME NEW o \in Ids, Is(X.out[o], "RECEIVE_FILE"), X.out[o].status = "STATUS_OK", P.out[o].status # "STATUS_OK"
      PROVE  r.code = "SEND_FILE" /\ r.ref = o
  <2>1. L.out[o].status = "STATUS_OK" BY <1>2 DEF Unmoved
  <2>2. L.out[o].status # Absent BY <2>1 DEF Absent
  <2>3. L.out[o].req = X.out[o].req BY <2>2 DEF Unmoved, Keeps
  <2>4. Is(L.out[o], "RECEIVE_FILE") BY <1>2, <2>2, <2>3 DEF Is
  <2> QED BY <1>2, <2>1, <2>4 DEF Takes
<1>3. X.in = L.in /\ X.downloads = L.downloads /\ X.thrown = L.thrown BY DEF Unmoved
<1> QED BY <1>1, <1>2, <1>3 DEF Takes

\* What P answers once it has put the request in its map, and set its downloads,
\* listings and lists to others.
LEMMA ReplyAnswers ==
  ASSUME NEW P \in PeerTypes, NEW id \in Ids, NEW r \in Requests, NEW status \in Statuses,
         NEW D, SameQueue(P, D), D.in = [P.in EXCEPT ![id] = Message(r)], D.uploads = P.uploads,
         \A o \in Ids : P.listings[o].live => D.listings[o].live,
         NEW X, X = SendReply(D, id, status)
  PROVE  /\ Answered(P, X, id, r, status) /\ X.downloads = D.downloads /\ X.lists = D.lists
         /\ X.listings = D.listings /\ X.asked = P.asked
<1>1. D \in PeerTypes BY DEF SameQueue
<1> DEFINE m == [type |-> "RESPONSE", id |-> id, status |-> status]
<1>2. X = [D EXCEPT !.in[id].status = status, !.written = Append(@, m)] BY DEF SendReply
<1> HIDE DEF m
<1>3. /\ X.in = [D.in EXCEPT ![id].status = status] /\ X.written = Append(D.written, m)
      /\ X.next = D.next /\ X.slots = D.slots /\ X.out = D.out /\ X.uploads = D.uploads
      /\ X.downloads = D.downloads /\ X.lists = D.lists /\ X.listings = D.listings /\ X.asked = D.asked
      /\ X.thrown = D.thrown /\ X.hung = D.hung
  BY <1>1, <1>2 DEF PeerTypes
<1>4. P.in \in [Ids -> Messages] BY Maps
<1>5. [Message(r) EXCEPT !.status = status] = [req |-> r, status |-> status] BY DEF Message
<1>6. D.in[id] = Message(r) BY <1>4
<1>7. X.in = [P.in EXCEPT ![id] = [req |-> r, status |-> status]]
  <2>1. X.in = [D.in EXCEPT ![id] = [Message(r) EXCEPT !.status = status]] BY <1>3, <1>6
  <2> QED BY <1>4, <1>5, <2>1
<1> QED BY <1>3, <1>7 DEF Answered, SameQueue, m

\* P is told the same after the answer, and keeps what it had.
LEMMA ToldReply ==
  ASSUME NEW P \in PeerTypes, NEW V, NEW mine, NEW w, Context(V, mine, w), Told(P, V, w, mine),
         NEW id \in Ids, NEW r, Fresh(id, r, P, V, mine, w), NEW status \in Statuses,
         NEW X, Answered(P, X, id, r, status), \A a \in X.asked : a \in P.asked \/ a.req.ref = NoRef,
         r.code = "SEND_FILE" /\ r.ref # NoRef
           => status \in {"STATUS_OK", "UP_TO_DATE"} /\ P.out[r.ref].status = "STATUS_OK",
         \A o \in Ids : X.lists[o].live => P.lists[o].live \/ o = id,
         \A k \in Ids : k # id /\ P.downloads[k].live => X.downloads[k].live \/ (r.code = "DATA_PACKET" /\ r.ref = k),
         r.code = "SEND_FILE" /\ status = "STATUS_OK" => X.downloads[id].live
  PROVE  Told(X, V, w, mine) /\ Takes(P, X, id, r)
<1>1. /\ X.in[id].req = r /\ X.in[id].status = status /\ status # Absent
      /\ \A o \in Ids : o # id => X.in[o] = P.in[o]
      /\ X.out = P.out /\ X.thrown = P.thrown
  <2>1. P.in \in [Ids -> Messages] BY Maps
  <2> QED BY <2>1 DEF Answered, Statuses, Absent, Pending
<1>2. Granting(P, X, id, r, status) BY DEF Granting, Told, Tale, Granted
<1>3. V.out[id].status # Absent /\ V.out[id].req = r
  BY DEF Fresh, Open, Unanswered, None, Pending, Absent
<1>4. \A m \in In(mine) : ~Asking(m, id) BY DEF Fresh, In
<1>5. Told(X, V, w, mine) BY <1>2, <1>3, <1>4, ToldAnswered
<1>6. Keeps(P, X)
  <2>1. \A o \in Ids : P.listings[o].live => X.listings[o].live BY DEF Answered
  <2> QED BY <1>1, <2>1 DEF Keeps, Is
<1> QED BY <1>1, <1>5, <1>6 DEF Takes

LEMMA ToldBase ==
  ASSUME NEW P \in PeerTypes, NEW V, NEW mine, NEW w, Context(V, mine, w), Told(P, V, w, mine),
         NEW id \in Ids, NEW r \in Requests, Fresh(id, r, P, V, mine, w), NEW status \in Statuses,
         r.code = "SEND_FILE" /\ r.ref # NoRef
           => status \in {"STATUS_OK", "UP_TO_DATE"} /\ P.out[r.ref].status = "STATUS_OK",
         NEW D, SameQueue(P, D), D.in = [P.in EXCEPT ![id] = Message(r)], D.uploads = P.uploads,
         \A o \in Ids : P.listings[o].live => D.listings[o].live,
         \A o \in Ids : D.lists[o].live => P.lists[o].live \/ o = id,
         \A k \in Ids : k # id /\ P.downloads[k].live => D.downloads[k].live \/ (r.code = "DATA_PACKET" /\ r.ref = k),
         r.code = "SEND_FILE" /\ status = "STATUS_OK" => D.downloads[id].live,
         NEW X, X = SendReply(D, id, status)
  PROVE  /\ Told(X, V, w, mine) /\ Takes(P, X, id, r) /\ Answered(P, X, id, r, status)
         /\ X.lists = D.lists
<1>1. /\ Answered(P, X, id, r, status) /\ X.downloads = D.downloads /\ X.lists = D.lists
      /\ X.asked = P.asked
  BY ReplyAnswers
<1>2. /\ \A o \in Ids : X.lists[o].live => P.lists[o].live \/ o = id
      /\ \A k \in Ids : k # id /\ P.downloads[k].live => X.downloads[k].live \/ (r.code = "DATA_PACKET" /\ r.ref = k)
      /\ r.code = "SEND_FILE" /\ status = "STATUS_OK" => X.downloads[id].live
      /\ \A a \in X.asked : a \in P.asked \/ a.req.ref = NoRef
  BY <1>1
<1>3. Told(X, V, w, mine) /\ Takes(P, X, id, r) BY <1>1, <1>2, ToldReply
<1> QED BY <1>1, <1>3

\* The SEND_FILE that follows the answer to a RECEIVE_FILE is the first for it.
LEMMA ToldUpload ==
  ASSUME NEW G, Allowed(G), NEW P \in PeerTypes, NEW L, Typed(L, G), NEW V, NEW mine, NEW w, Context(V, mine, w),
         Told(P, V, w, mine), Told(L, V, w, mine), NEW id \in Ids, NEW r \in Requests, r.code = "RECEIVE_FILE",
         Fresh(id, r, P, V, mine, w), P.in[id].status = Absent, NEW status, Answered(P, L, id, r, status),
         L.in[id].status # Absent, L.thrown = "nothing", ~L.hung, L.slots > 0, L.next < MaxId,
         NEW X, X = CreateUpload(L, r.file, id)
  PROVE  Told(X, V, w, mine) /\ Unmoved(L, X)
<1>1. L \in PeerTypes BY DEF Typed
<1>2. L.out[L.next].status = Absent /\ L.next \in Ids /\ L.uploads \in [Ids -> Transferred]
  <2>1. L.next \in Ids /\ L.next >= L.next /\ L.uploads \in [Ids -> Transferred] BY <1>1, Maps
  <2> QED BY <2>1 DEF Told, Tale, Book
<1>3. PICK s \in G : s = Req("SEND_FILE", r.file, id, FALSE)
  <2>1. r.file \in Files BY Assumed
  <2>2. Req("SEND_FILE", r.file, id, FALSE) \in Requests BY <2>1, RequestType DEF RequestCodes
  <2> QED BY <2>2 DEF Allowed, Plain, Req
<1>4. s.code = "SEND_FILE" /\ s.ref = id /\ s.file = r.file /\ r.file \in Files BY <1>3, Assumed DEF Req
<1>5. PICK f \in Files : f = r.file BY <1>4
<1>6. /\ Sends(L, X, s) /\ X.lists = L.lists /\ X.uploads[L.next].live
      /\ \A o \in Ids : o # L.next => X.uploads[o] = L.uploads[o]
  <2>1. /\ X = CreateUpload(L, f, id) /\ id \in Ids \cup {NoRef}
        /\ s.code = "SEND_FILE" /\ s.file = f /\ s.ref = id /\ ~s.last
    BY <1>3, <1>5 DEF Req
  <2> QED BY <1>2, <2>1, UploadSends
<1>7. Is(V.out[id], "RECEIVE_FILE") /\ V.out[id].req.file = s.file
  BY <1>4 DEF Fresh, Is, Open, Unanswered, None, Pending, Absent
<1>8. ASSUME NEW o \in Ids, Is(L.out[o], "SEND_FILE"), L.out[o].req.ref = id PROVE FALSE
  <2>1. L.out = P.out BY DEF Answered
  <2>2. InReply(P, V) BY DEF Told, Tale
  <2>3. id # NoRef BY DEF NoRef, Ids
  <2>4. P.in[id].status # Absent BY <1>8, <2>1, <2>2, <2>3 DEF InReply, Fulfils
  <2> QED BY <2>4
<1>9. Backed(L, X, V, s) BY <1>4, <1>6, <1>7, <1>8 DEF Backed
<1>10. Told(X, V, w, mine) BY <1>6, <1>9, ToldSent
<1>11. Unmoved(L, X) BY <1>1, <1>4, <1>6, UnmovedSent
<1> QED BY <1>10, <1>11

LEMMA ToldRespond ==
  ASSUME NEW G, Allowed(G), NEW P, Typed(P, G), NEW V, NEW mine, NEW w, Context(V, mine, w), Told(P, V, w, mine),
         P.slots + Cardinality(Open(P.out)) = MaxId, P.next + Burst <= MaxId, P.thrown = "nothing", ~P.hung,
         NEW id \in Ids, NEW r \in Requests, NEW current \in BOOLEAN, Fresh(id, r, P, V, mine, w),
         r.code # "SEND_FILE" => P.in[id].status = Absent,
         r.code = "SEND_FILE" /\ r.ref # NoRef => P.out[r.ref].status = "STATUS_OK",
         NEW X, X = Respond(P, id, r, current)
  PROVE  Told(X, V, w, mine) /\ Takes(P, X, id, r)
<1>1. PICK Q : Q = [P EXCEPT !.in[id] = Message(r)] OBVIOUS
<1>2. P \in PeerTypes BY DEF Typed
<1>3. /\ SameQueue(P, Q) /\ Q \in PeerTypes /\ Q.in = [P.in EXCEPT ![id] = Message(r)] /\ Q.uploads = P.uploads
      /\ Q.downloads = P.downloads /\ Q.lists = P.lists /\ Q.listings = P.listings
  <2>1. SameQueue(P, Q) /\ Q.in = [P.in EXCEPT ![id] = Message(r)] BY <1>1, <1>2, ReceivedSame
  <2>2. /\ Q.uploads = P.uploads /\ Q.downloads = P.downloads /\ Q.lists = P.lists /\ Q.listings = P.listings
    BY <1>1, <1>2 DEF PeerTypes
  <2> QED BY <2>1, <2>2 DEF SameQueue
<1>4. /\ "STATUS_OK" \in Statuses /\ "UP_TO_DATE" \in Statuses /\ "FILE_NOT_FOUND" \in Statuses
      /\ "INVALID_REQUEST_ID" \in Statuses /\ "STATUS_OK" # "UP_TO_DATE"
  BY Assumed
<1>15. PICK ok \in Statuses : ok = "STATUS_OK" BY <1>4
<1>5. /\ P.downloads \in [Ids -> Transferred] /\ P.lists \in [Ids -> Transferred]
      /\ P.listings \in [Ids -> Transferred] /\ r.file \in Files
      /\ r.code \in {"SEND_FILE", "RECEIVE_FILE", "LIST_FILES", "DATA_PACKET", "FILE_LIST"}
      /\ r.ref # NoRef => r.ref \in Ids
  BY <1>2, Maps, Assumed DEF RequestCodes
<1>6. ASSUME NEW status \in Statuses, X = SendReply(Q, id, status),
             r.code = "SEND_FILE" => status = "UP_TO_DATE"
      PROVE  Told(X, V, w, mine) /\ Takes(P, X, id, r)
  BY <1>2, <1>3, <1>4, <1>6, ToldBase
<1>7. ASSUME NEW t \in Transfers, X = SendReply([Q EXCEPT !.downloads = t], id, "STATUS_OK"),
             \A k \in Ids : k # id /\ P.downloads[k].live => t[k].live \/ (r.code = "DATA_PACKET" /\ r.ref = k),
             r.code = "SEND_FILE" => t[id].live
      PROVE  Told(X, V, w, mine) /\ Takes(P, X, id, r)
  <2>1. PICK D : D = [Q EXCEPT !.downloads = t] OBVIOUS
  <2>2. SameQueue(P, D) BY <1>3, <1>7, <2>1, UpdateSame, SameAgain
  <2>3. D.in = Q.in /\ D.uploads = Q.uploads /\ D.lists = Q.lists /\ D.listings = Q.listings /\ D.downloads = t
    BY <1>3, <2>1 DEF PeerTypes
  <2>4. X = SendReply(D, id, ok) BY <1>7, <1>15, <2>1
  <2>5. /\ \A o \in Ids : P.listings[o].live => D.listings[o].live
        /\ \A o \in Ids : D.lists[o].live => P.lists[o].live \/ o = id
        /\ \A k \in Ids : k # id /\ P.downloads[k].live => D.downloads[k].live \/ (r.code = "DATA_PACKET" /\ r.ref = k)
        /\ r.code = "SEND_FILE" /\ ok = "STATUS_OK" => D.downloads[id].live
    BY <1>3, <1>7, <2>3
  <2> QED BY <1>2, <1>3, <1>15, <2>2, <2>3, <2>4, <2>5, ToldBase
<1>8. CASE r.code = "DATA_PACKET"
  <2> DEFINE down == Taken(Q.downloads[r.ref], r)
             kept == IF down.left = 0 /\ ~down.keep THEN NoTransfer ELSE down
             t == [Q.downloads EXCEPT ![r.ref] = kept]
  <2>1. X = IF ~Q.downloads[r.ref].live THEN SendReply(Q, id, "INVALID_REQUEST_ID")
            ELSE SendReply([Q EXCEPT !.downloads = t], id, "STATUS_OK")
    BY <1>1, <1>8 DEF Respond
  <2>2. t \in Transfers
    <3>1. r.ref \in Ids => kept \in Transferred BY <1>3, <1>5, TransferType
    <3> HIDE DEF kept
    <3> QED BY <1>3, <1>5, <3>1, TransferType
  <2>3. \A k \in Ids : k # id /\ P.downloads[k].live => t[k].live \/ r.ref = k
    <3> HIDE DEF kept
    <3> QED BY <1>3, <1>5
  <2> HIDE DEF t
  <2>4. CASE X = SendReply(Q, id, "INVALID_REQUEST_ID") BY <1>4, <1>6, <1>8, <2>4
  <2>5. CASE X = SendReply([Q EXCEPT !.downloads = t], id, "STATUS_OK") BY <1>7, <1>8, <2>2, <2>3, <2>5
  <2>6. X = SendReply(Q, id, "INVALID_REQUEST_ID") \/ X = SendReply([Q EXCEPT !.downloads = t], id, "STATUS_OK")
    BY <2>1, Zenon
  <2> QED BY <2>4, <2>5, <2>6
<1>9. CASE r.code = "SEND_FILE"
  <2> DEFINE t == [Q.downloads EXCEPT ![id] = Emplaced(@, Transfer(r.file, 1))]
  <2>1. X = IF current THEN SendReply(Q, id, "UP_TO_DATE")
            ELSE SendReply([Q EXCEPT !.downloads = t], id, "STATUS_OK")
    BY <1>1, <1>9 DEF Respond
  <2>2. t \in Transfers
    <3>1. Transfer(r.file, 1) \in Transferred BY <1>5, TransferType
    <3> QED BY <1>3, <1>5, <3>1, TransferType
  <2>3. t[id].live /\ \A k \in Ids : k # id /\ P.downloads[k].live => t[k].live
    BY <1>3, <1>5 DEF Emplaced, Transfer, NoTransfer
  <2> HIDE DEF t
  <2>4. CASE X = SendReply(Q, id, "UP_TO_DATE") BY <1>4, <1>6, <2>4
  <2>5. CASE X = SendReply([Q EXCEPT !.downloads = t], id, "STATUS_OK") BY <1>7, <1>9, <2>2, <2>3, <2>5
  <2>6. X = SendReply(Q, id, "UP_TO_DATE") \/ X = SendReply([Q EXCEPT !.downloads = t], id, "STATUS_OK")
    BY <2>1, Zenon
  <2> QED BY <2>4, <2>5, <2>6
<1>10. ASSUME NEW L, Told(L, V, w, mine), Answered(P, L, id, r, "STATUS_OK"), Typed(L, G)
       PROVE  /\ L.slots > 0 /\ L.next < MaxId /\ L.thrown = "nothing" /\ ~L.hung
  <2>1. /\ L.next = P.next /\ L.slots = P.slots /\ L.out = P.out /\ L.thrown = P.thrown /\ L.hung = P.hung
    BY <1>10 DEF Answered
  <2>2. Book(P) BY DEF Told, Tale
  <2>3. P.slots >= MaxId - P.next BY <1>2, <2>2, Room
  <2>4. Burst \in Nat \ {0} /\ P.next \in Nat /\ P.slots \in Nat /\ MaxId \in Nat BY <1>2, Assumed, Maps
  <2>5. P.slots > 0 /\ P.next < MaxId BY <2>3, <2>4
  <2> QED BY <2>1, <2>5
<1>11. Typed(Q, G) BY <1>3, SameTyped
<1>12. CASE r.code = "RECEIVE_FILE"
  <2>1. PICK L : L = SendReply(Q, id, "STATUS_OK") OBVIOUS
  <2>2. \/ X = SendReply(Q, id, "FILE_NOT_FOUND") \/ X = CreateUpload(L, r.file, id)
    BY <1>1, <1>12, <2>1 DEF Respond
  <2>3. CASE X = SendReply(Q, id, "FILE_NOT_FOUND") BY <1>4, <1>6, <1>12, <2>3
  <2>4. CASE X = CreateUpload(L, r.file, id)
    <3>1. Told(L, V, w, mine) /\ Takes(P, L, id, r) /\ Answered(P, L, id, r, "STATUS_OK")
      <4>1. L = SendReply(Q, id, ok) BY <1>15, <2>1
      <4>2. Told(L, V, w, mine) /\ Takes(P, L, id, r) /\ Answered(P, L, id, r, ok)
        BY <1>2, <1>3, <1>12, <4>1, ToldBase
      <4> QED BY <1>15, <4>2
    <3>2. Typed(L, G) BY <1>4, <1>11, <2>1, SendReplyTyped
    <3>3. L.in[id].status # Absent BY <3>1 DEF Takes
    <3>4. /\ L.slots > 0 /\ L.next < MaxId /\ L.thrown = "nothing" /\ ~L.hung BY <1>10, <3>1, <3>2
    <3>5. Told(X, V, w, mine) /\ Unmoved(L, X)
      BY <1>2, <1>12, <2>4, <3>1, <3>2, <3>3, <3>4, ToldUpload
    <3> QED BY <3>1, <3>5, TakesMore
  <2> QED BY <2>2, <2>3, <2>4
<1>13. CASE r.code = "LIST_FILES"
  <2>14. PICK t, D : t = [Q.lists EXCEPT ![id] = Emplaced(@, Transfer(r.file, Pages))] /\ D = [Q EXCEPT !.lists = t]
    OBVIOUS
  <2>16. PICK L : L = SendReply(D, id, "STATUS_OK") OBVIOUS
  <2>17. Respond(P, id, r, current)
           = IF L.lists[id].left = 0 THEN [L EXCEPT !.thrown = "no page"] ELSE SendPage(L, id)
    BY ONLY <1>1, <1>13, <2>14, <2>16 DEF Respond
  <2>1. /\ t = [Q.lists EXCEPT ![id] = Emplaced(@, Transfer(r.file, Pages))]
        /\ D = [Q EXCEPT !.lists = t] /\ L = SendReply(D, id, "STATUS_OK")
        /\ X = IF L.lists[id].left = 0 THEN [L EXCEPT !.thrown = "no page"] ELSE SendPage(L, id)
    BY <2>14, <2>16, <2>17, Zenon
  <2>3. t \in Transfers
    <3>1. Transfer(r.file, Pages) \in Transferred BY <1>5, TransferType
    <3> QED BY <1>3, <1>5, <2>1, <3>1, TransferType
  <2>2. t[id].left = Pages /\ \A o \in Ids : o # id => t[o] = P.lists[o]
    <3>1. ~P.lists[id].live BY <1>13 DEF Told, Tale, Granted
    <3> QED BY <1>3, <1>5, <2>1, <3>1 DEF Emplaced, Transfer, NoTransfer
  <2>15. L = SendReply(D, id, ok) BY <1>15, <2>1
  <2>6. SameQueue(P, D) /\ Typed(D, G)
    <3>1. SameQueue(P, D) BY <1>3, <2>1, <2>3, UpdateSame, SameAgain
    <3> QED BY <3>1, SameTyped
  <2>7. D.in = Q.in /\ D.uploads = Q.uploads /\ D.lists = t /\ D.listings = Q.listings /\ D.downloads = Q.downloads
    BY <1>3, <2>1, <2>3 DEF PeerTypes
  <2>8. /\ Told(L, V, w, mine) /\ Takes(P, L, id, r) /\ Answered(P, L, id, r, "STATUS_OK") /\ L.lists = t
    <3>1. /\ Told(L, V, w, mine) /\ Takes(P, L, id, r) /\ Answered(P, L, id, r, ok) /\ L.lists = D.lists
      BY <1>2, <1>3, <1>13, <2>2, <2>6, <2>7, <2>15, ToldBase
    <3> QED BY <1>15, <2>7, <3>1
  <2>9. Typed(L, G) BY <2>6, <2>15, SendReplyTyped
  <2>10. L.slots > 0 /\ L.next < MaxId BY <1>10, <2>8, <2>9
  <2>11. L.lists[id].left > 0 /\ L.lists[id].left # 0
    <3>1. Pages \in Nat \ {0} BY Assumed
    <3> QED BY <2>2, <2>8, <3>1
  <2>12. X = SendPage(L, id) BY <2>1, <2>11
  <2>13. Told(X, V, w, mine) /\ Unmoved(L, X) BY <2>8, <2>9, <2>10, <2>11, <2>12, ToldPage
  <2> QED BY <2>8, <2>13, TakesMore
<1>14. CASE r.code = "FILE_LIST"
  <2> DEFINE t == [Q.listings EXCEPT ![r.ref] = Taken(@, r)]
  <2>1. X = IF ~Q.listings[r.ref].live THEN SendReply(Q, id, "INVALID_REQUEST_ID")
            ELSE SendReply([Q EXCEPT !.listings = t], id, "STATUS_OK")
    BY <1>1, <1>14 DEF Respond
  <2>2. t \in Transfers BY <1>3, <1>5, TransferType
  <2>3. \A o \in Ids : P.listings[o].live => t[o].live
    <3>1. \A x \in Transferred : x.live => Taken(x, r).live BY DEF Taken, Transferred
    <3> QED BY <1>3, <1>5, <3>1
  <2> HIDE DEF t
  <2>4. CASE X = SendReply(Q, id, "INVALID_REQUEST_ID") BY <1>4, <1>6, <1>14, <2>4
  <2>5. CASE X = SendReply([Q EXCEPT !.listings = t], id, "STATUS_OK")
    <3>1. PICK D : D = [Q EXCEPT !.listings = t] OBVIOUS
    <3>2. SameQueue(P, D) BY <1>3, <2>2, <3>1, UpdateSame, SameAgain
    <3>3. D.in = Q.in /\ D.uploads = Q.uploads /\ D.lists = Q.lists /\ D.listings = t /\ D.downloads = Q.downloads
      BY <1>3, <3>1 DEF PeerTypes
    <3>4. X = SendReply(D, id, ok) BY <1>15, <2>5, <3>1
    <3> QED BY <1>2, <1>3, <1>14, <2>3, <3>2, <3>3, <3>4, ToldBase
  <2>6. X = SendReply(Q, id, "INVALID_REQUEST_ID") \/ X = SendReply([Q EXCEPT !.listings = t], id, "STATUS_OK")
    BY <2>1, Zenon
  <2> QED BY <2>4, <2>5, <2>6
<1> QED BY <1>5, <1>8, <1>9, <1>12, <1>13, <1>14

\* A SEND_FILE in reply to a RECEIVE_FILE settles that one.
LEMMA ToldAccepted ==
  ASSUME NEW G, Allowed(G), NEW P, Typed(P, G), NEW V, NEW mine, NEW w, Context(V, mine, w), NEW F,
         Sound(P, V, mine, w, F), Told(P, V, w, mine), P.next + Burst <= MaxId, P.thrown = "nothing",
         NEW id \in Ids, NEW r \in Requests, NEW current \in BOOLEAN, Fresh(id, r, P, V, mine, w),
         P.in[id].status = Absent, NEW match \in Ids, r.code = "SEND_FILE", r.ref = match,
         P.out[match].status # Absent, P.out[match].req.code = "RECEIVE_FILE",
         MaySettle(match, P.out, V.asked, w \o P.written, mine, "STATUS_OK"),
         NEW S, S = Settle(P, match, "STATUS_OK"), NEW X, X = Respond(S, id, r, current)
  PROVE  Told(X, V, w, mine) /\ Takes(P, X, id, r)
<1>1. P \in PeerTypes /\ w \in Seq(OnWire) BY DEF Typed, Context
<1>2. PICK ok \in Statuses : ok = "STATUS_OK" BY Assumed
<1>3. S = Settle(P, match, ok) BY <1>2
<1>4. /\ S.out[match].status = ok /\ S.out[match].req = P.out[match].req
      /\ \A o \in Ids : o # match => S.out[o] = P.out[o]
      /\ S.next = P.next /\ S.in = P.in /\ S.downloads = P.downloads /\ S.listings = P.listings
      /\ S.asked = P.asked /\ S.written = P.written /\ S.thrown = P.thrown /\ S.hung = P.hung
  BY <1>1, <1>3, Settles
<1>5. Typed(S, G) BY <1>3, SettleTyped
<1>6. Sound(S, V, mine, w, F)
  <2>1. MaySettle(match, P.out, V.asked, w \o P.written, mine, ok) BY <1>2
  <2> QED BY <1>1, <1>3, <2>1, SoundSettle
<1>7. \A x \in In(w) \cup In(P.written) : ~Asking(x, match)
  <2>1. P.written \in Seq(OnWire) BY <1>1, Maps
  <2>2. PICK sent : sent = w \o P.written OBVIOUS
  <2>3. \A i \in 1 .. Len(sent) : ~Asking(sent[i], match) BY <2>2 DEF MaySettle
  <2> QED BY <1>1, <2>1, <2>2, <2>3, NoneAsking
<1>8. Settling(P, match, ok) BY <1>2 DEF Settling
<1>9. Told(S, V, w, mine) BY <1>1, <1>3, <1>7, <1>8, ToldSettled
<1>10. Fresh(id, r, S, V, mine, w) BY <1>4 DEF Fresh
<1>11. /\ S.slots + Cardinality(Open(S.out)) = MaxId /\ ~S.hung /\ S.next + Burst <= MaxId /\ S.thrown = "nothing"
  BY <1>4, <1>6 DEF Sound
<1>12. S.in[id].status = Absent /\ S.out[r.ref].status = "STATUS_OK" BY <1>2, <1>4
<1>13. Told(X, V, w, mine) /\ Takes(S, X, id, r)
  BY <1>5, <1>9, <1>10, <1>11, <1>12, ToldRespond
<1>14. Keeps(P, S)
  <2> SUFFICES ASSUME NEW o \in Ids
               PROVE  /\ P.out[o].status # Absent =>
                           /\ S.out[o].status # Absent /\ S.out[o].req = P.out[o].req
                           /\ P.out[o].status = "STATUS_OK" => S.out[o].status = "STATUS_OK"
                      /\ Is(S.out[o], "RECEIVE_FILE") => P.out[o].status # Absent
                      /\ P.out[o].status # Absent /\ S.out[o].req.code = "LIST_FILES" /\ S.out[o].status = "STATUS_OK"
                           => S.listings[o].live \/ (P.out[o].status = "STATUS_OK" /\ ~P.listings[o].live)
    BY DEF Keeps
  <2>1. CASE o = match BY <1>2, <1>4, <2>1 DEF Absent
  <2>2. CASE o # match
    <3>1. S.out[o] = P.out[o] BY <1>4, <2>2
    <3> QED BY <1>4, <3>1 DEF Is
  <2> QED BY <2>1, <2>2
<1>15. Keeps(P, X) BY <1>13, <1>14, KeepsAgain DEF Takes
<1>16. ASSUME NEW o \in Ids, Is(X.out[o], "RECEIVE_FILE"), X.out[o].status = "STATUS_OK", P.out[o].status # "STATUS_OK"
       PROVE  r.code = "SEND_FILE" /\ r.ref = o
  <2>1. CASE o = match BY <2>1
  <2>2. CASE o # match BY <1>4, <1>13, <1>16, <2>2 DEF Takes
  <2> QED BY <2>1, <2>2
<1> QED BY <1>4, <1>13, <1>15, <1>16 DEF Takes

\* The application is asked about a SEND_FILE nobody waits for.
LEMMA ToldAsked ==
  ASSUME NEW G, NEW P \in PeerTypes, Typed(P, G), NEW V, NEW mine, NEW w, Context(V, mine, w), Told(P, V, w, mine),
         NEW id \in Ids, NEW r \in Requests, Fresh(id, r, P, V, mine, w), r.code = "SEND_FILE", r.ref = NoRef,
         NEW X, X = Asks(P, id, r)
  PROVE  Told(X, V, w, mine) /\ Takes(P, X, id, r)
<1>1. PICK Q : Q = [P EXCEPT !.in[id] = Message(r)] OBVIOUS
<1>2. SameQueue(P, Q) /\ Q.in = [P.in EXCEPT ![id] = Message(r)] BY <1>1, ReceivedSame
<1>3. Q.uploads = P.uploads /\ Q.downloads = P.downloads /\ Q.lists = P.lists /\ Q.listings = P.listings
  BY <1>1 DEF PeerTypes
<1>4. PICK L : L = SendReply(Q, id, Pending) OBVIOUS
<1>5. PICK status \in Statuses : status = Pending BY DEF Statuses
<1>6. /\ Answered(P, L, id, r, status) /\ L.downloads = Q.downloads /\ L.lists = Q.lists
      /\ L.listings = Q.listings /\ L.asked = P.asked
  <2>1. \A o \in Ids : P.listings[o].live => Q.listings[o].live BY <1>3
  <2> QED BY <1>2, <1>3, <1>4, <1>5, <2>1, ReplyAnswers
<1>7. X = [L EXCEPT !.asked = L.asked \cup {[id |-> id, req |-> r]}] BY <1>1, <1>4 DEF Asks, Refuse
<1>8. L \in PeerTypes
  <2>1. Pending \in Statuses BY DEF Statuses
  <2>2. Typed(Q, G) BY <1>2, SameTyped
  <2>3. Typed(L, G) BY <1>4, <2>1, <2>2, SendReplyTyped
  <2> QED BY <2>3 DEF Typed
<1> DEFINE some == L.asked \cup {[id |-> id, req |-> r]}
<1>9. \A a \in some : a \in P.asked \/ a.req.ref = NoRef BY <1>6
<1> HIDE DEF some
<1>10. /\ X.in = L.in /\ X.written = L.written /\ X.next = L.next /\ X.slots = L.slots /\ X.out = L.out
       /\ X.uploads = L.uploads /\ X.downloads = L.downloads /\ X.lists = L.lists /\ X.listings = L.listings
       /\ X.thrown = L.thrown /\ X.hung = L.hung /\ X.asked = some
  BY <1>7, <1>8 DEF PeerTypes, some
<1>11. Answered(P, X, id, r, status) BY <1>6, <1>10 DEF Answered
<1>12. /\ \A o \in Ids : X.lists[o].live => P.lists[o].live \/ o = id
       /\ \A k \in Ids : k # id /\ P.downloads[k].live => X.downloads[k].live \/ (r.code = "DATA_PACKET" /\ r.ref = k)
       /\ ~(r.code = "SEND_FILE" /\ status = "STATUS_OK")
       /\ ~(r.code = "SEND_FILE" /\ r.ref # NoRef)
       /\ \A a \in X.asked : a \in P.asked \/ a.req.ref = NoRef
  BY <1>3, <1>5, <1>6, <1>9, <1>10 DEF Pending
<1> QED BY <1>11, <1>12, ToldReply

\* P handles a request.
LEMMA ToldRequested ==
  ASSUME NEW G, Allowed(G), NEW P, Typed(P, G), NEW V, NEW mine, NEW w, Context(V, mine, w), NEW F,
         Sound(P, V, mine, w, F), Told(P, V, w, mine), mine # <<>>, NEW m \in OnWire, m = mine[1], m.type = "REQUEST",
         P.next + Burst <= MaxId, P.thrown = "nothing",
         m.req.code = "SEND_FILE" /\ m.req.ref = NoRef => Matches(P, m.req) = {},
         NEW X \in Handled(P, m)
  PROVE  /\ Told(X, V, w, Tail(mine)) /\ Takes(P, X, m.id, m.req)
         /\ \A x \in In(Tail(mine)) :
              ~(x.type = "REQUEST" /\ x.req.code = "DATA_PACKET" /\ x.req.ref = m.id /\ m.req.code = "SEND_FILE")
<1> DEFINE sent == w \o P.written
           rest == Tail(mine)
<1>1. P \in PeerTypes /\ mine \in Seq(OnWire) /\ V \in PeerTypes BY DEF Typed, Context
<1>2. PICK id \in Ids, r \in Requests : id = m.id /\ r = m.req BY DEF OnWire
<1>3. X \in Authorized(P, id, r) BY <1>2 DEF Handled
<1>4. Sound(P, V, rest, w, F) /\ Context(V, rest, w) BY <1>1, SoundTaken
<1>5. Half(P.out, V.asked, sent, mine) /\ Half(V.out, P.asked, mine, sent) /\ Half(P.out, V.asked, sent, rest)
      /\ P.slots + Cardinality(Open(P.out)) = MaxId /\ ~P.hung
  BY <1>4 DEF Sound
<1>6. Asking(mine[1], id) /\ mine[1].req = r BY <1>2 DEF Asking
<1>7. Fresh(id, r, P, V, rest, w) BY <1>1, <1>5, <1>6, FirstRequest
<1>8. Told(P, V, w, rest) BY ToldTaken
<1>9. In(rest) \subseteq In(mine) /\ m \in In(mine) BY <1>1, InTail
<1> HIDE DEF sent, rest
<1>10. V.out[id] = Message(r) /\ P.in[id].status = Absent /\ V.out[id].req = r /\ V.out[id].status = None
       /\ Is(V.out[id], r.code)
  <2>1. V.out[id] = Message(r) /\ P.in[id].status = Absent BY <1>2, <1>9 DEF Told, Tale, Noted
  <2> QED BY <2>1 DEF Message, Is, None, Absent
<1>11. ASSUME NEW x \in In(rest), x.type = "REQUEST", x.req.code = "DATA_PACKET", x.req.ref = id PROVE FALSE
  <2>1. x \in OnWire
    <3>1. rest \in Seq(OnWire) BY <1>4 DEF Context
    <3> QED BY <3>1 DEF In
  <2>2. x.id \in Ids /\ V.out[x.id] = Message(x.req) BY <1>9, <1>11, <2>1 DEF OnWire, Told, Tale, Noted
  <2>3. Is(V.out[x.id], "DATA_PACKET") /\ V.out[x.id].req.ref = id BY <1>11, <2>2 DEF Is, Message, None, Absent
  <2>4. V.out[id].status = "STATUS_OK" BY <2>2, <2>3 DEF Told, Tale, Book
  <2> QED BY <1>10, <2>4 DEF None
<1>12. r.ref # NoRef /\ r.code = "SEND_FILE" =>
         /\ r.ref \in Ids /\ Is(P.out[r.ref], "RECEIVE_FILE") /\ P.out[r.ref].req.file = r.file
  <2>1. InReply(V, P) BY <1>8 DEF Told, Tale
  <2> SUFFICES ASSUME r.ref # NoRef, r.code = "SEND_FILE"
               PROVE  r.ref \in Ids /\ Is(P.out[r.ref], "RECEIVE_FILE") /\ P.out[r.ref].req.file = r.file
    OBVIOUS
  <2>2. Is(V.out[id], "SEND_FILE") /\ r.ref = V.out[id].req.ref BY <1>10
  <2>3. Is(P.out[r.ref], "RECEIVE_FILE") /\ P.out[r.ref].req.file = V.out[id].req.file
    BY <2>1, <2>2, InReplyOf DEF Fulfils
  <2>4. r.ref \in Ids BY Assumed
  <2> QED BY <1>10, <2>3, <2>4
<1>13. CASE /\ r.code = "SEND_FILE"
            /\ \E match \in Matches(P, r), current \in BOOLEAN :
                 X = Respond(Settle(P, match, "STATUS_OK"), id, r, current)
  <2>1. PICK match \in Matches(P, r), current \in BOOLEAN :
               X = Respond(Settle(P, match, "STATUS_OK"), id, r, current)
    BY <1>13
  <2>2. /\ match \in Ids /\ P.out[match].status # Absent /\ P.out[match].req.file = r.file
        /\ P.out[match].req.code = "RECEIVE_FILE" /\ "STATUS_OK" # Pending
    BY DEF Matches, Pending
  <2>3. r.ref # NoRef BY <1>2, <1>13, <2>1
  <2>4. r.ref = match
    <3>1. Book(P) BY DEF Told, Tale
    <3>2. Is(P.out[match], "RECEIVE_FILE") BY <2>2 DEF Is
    <3> QED BY <1>12, <1>13, <2>2, <2>3, <3>1, <3>2 DEF Book
  <2>5. MaySettle(match, P.out, V.asked, sent, rest, "STATUS_OK")
    <3>1. CASE match \notin Open(P.out) BY <1>5, <2>2, <3>1, ClosedSettles
    <3>2. CASE match \in Open(P.out)
      <4>1. Sending(mine[1], match) BY <1>2, <1>13, <2>4 DEF Sending
      <4> QED BY <1>1, <1>5, <2>2, <4>1, FirstAnswer DEF rest
    <3> QED BY <3>1, <3>2
  <2>6. PICK S : S = Settle(P, match, "STATUS_OK") OBVIOUS
  <2>7. X = Respond(S, id, r, current) BY <2>1, <2>6
  <2>8. Told(X, V, w, rest) /\ Takes(P, X, id, r)
    BY <1>4, <1>7, <1>8, <1>10, <1>13, <2>2, <2>4, <2>5, <2>6, <2>7, ToldAccepted DEF sent
  <2> QED BY <1>2, <1>11, <2>8 DEF rest
<1>14. CASE r.code = "SEND_FILE" /\ Matches(P, r) = {} /\ X = Asks(P, id, r)
  <2>1. r.ref = NoRef
    <3>1. r.ref # NoRef => r.ref \in Matches(P, r) BY <1>12, <1>14 DEF Matches, Is
    <3> QED BY <1>14, <3>1
  <2>2. Told(X, V, w, rest) /\ Takes(P, X, id, r) BY <1>1, <1>4, <1>7, <1>8, <1>14, <2>1, ToldAsked
  <2> QED BY <1>2, <1>11, <2>2 DEF rest
<1>15. CASE r.code = "LIST_FILES" /\ X = Refuse(P, id, r, "FILE_NOT_FOUND")
  <2>1. PICK Q : Q = [P EXCEPT !.in[id] = Message(r)] OBVIOUS
  <2>2. SameQueue(P, Q) /\ Q.in = [P.in EXCEPT ![id] = Message(r)] BY <1>1, <2>1, ReceivedSame
  <2>3. Q.uploads = P.uploads /\ Q.downloads = P.downloads /\ Q.lists = P.lists /\ Q.listings = P.listings
    BY <1>1, <2>1 DEF PeerTypes
  <2>4. PICK status \in Statuses : status = "FILE_NOT_FOUND"
    <3>1. "FILE_NOT_FOUND" \in Statuses BY Assumed
    <3> QED BY <3>1, Zenon
  <2>5. X = SendReply(Q, id, status) BY <1>15, <2>1, <2>4 DEF Refuse
  <2>6. /\ \A o \in Ids : P.listings[o].live => Q.listings[o].live
        /\ \A o \in Ids : Q.lists[o].live => P.lists[o].live \/ o = id
        /\ \A k \in Ids : k # id /\ P.downloads[k].live => Q.downloads[k].live \/ (r.code = "DATA_PACKET" /\ r.ref = k)
        /\ r.code = "SEND_FILE" /\ r.ref # NoRef
             => status \in {"STATUS_OK", "UP_TO_DATE"} /\ P.out[r.ref].status = "STATUS_OK"
        /\ r.code = "SEND_FILE" /\ status = "STATUS_OK" => Q.downloads[id].live
    BY <1>15, <2>3
  <2>7. Told(X, V, w, rest) /\ Takes(P, X, id, r)
    <3>1. /\ Told(X, V, w, rest) /\ Takes(P, X, id, r) /\ Answered(P, X, id, r, status)
          /\ X.lists = Q.lists
      BY ONLY <1>1, <1>4, <1>7, <1>8, <2>2, <2>3, <2>5, <2>6, ToldBase, SMTT(30)
    <3> QED BY <3>1
  <2> QED BY <1>2, <1>11, <2>7 DEF rest
<1>16. CASE r.code # "SEND_FILE" /\ X = Respond(P, id, r, FALSE)
  <2>1. PICK current \in BOOLEAN : current = FALSE OBVIOUS
  <2>2. X = Respond(P, id, r, current) BY <1>16, <2>1
  <2>3. Told(X, V, w, rest) /\ Takes(P, X, id, r)
    BY <1>4, <1>5, <1>7, <1>8, <1>10, <1>16, <2>2, ToldRespond
  <2> QED BY <1>2, <1>11, <2>3 DEF rest
<1> QED BY <1>3, <1>13, <1>14, <1>15, <1>16, Authorizes
-----------------------------------------------------------------------------
\* Between the steps: what the calls rely on.

\* What P has sent for its call c.
Called(P, c) ==
  /\ c.call = "send_file" /\ c.phase \in {"waiting", "pushing"} => Is(P.out[c.id], "SEND_FILE")
  /\ c.call = "send_file" /\ c.phase = "pushing" => P.out[c.id].status = "STATUS_OK"
  /\ c.call = "receive_file" /\ c.phase = "waiting"
       => Is(P.out[c.id], "RECEIVE_FILE") /\ P.out[c.id].req.file = c.file
  /\ c.call = "list_files" /\ c.phase = "waiting"
       => Is(P.out[c.id], "LIST_FILES") /\ (P.out[c.id].status = "STATUS_OK" => P.listings[c.id].live)

Packet(m, k) == m.type = "REQUEST" /\ m.req.code = "DATA_PACKET" /\ m.req.ref = k

\* The receive_file that is answered has its download, which nothing P still
\* handles before the call goes on is a packet of.
Held(P, c, to) ==
  c.call = "receive_file" /\ c.phase = "waiting" /\ P.out[c.id].status = "STATUS_OK" =>
    \E k \in Ids : /\ Is(P.in[k], "SEND_FILE") /\ P.in[k].req.ref = c.id
                   /\ P.in[k].status = "STATUS_OK" => P.downloads[k].live
                   /\ \A m \in to : ~Packet(m, k)

\* The rest of the batch p handles.
Rest(p) == {batch[p][i] : i \in {j \in 1 .. Len(batch[p]) : 0 < done[p] /\ done[p] <= j}}

\* The files p is to fetch in the calls ahead it has not asked for.
Unfetched(p, P, ahead) ==
  \A d \in ahead : d.by = p /\ d.call = "receive_file" =>
    \A id \in Ids : Is(P.out[id], "RECEIVE_FILE") => P.out[id].req.file # d.file

Bound(p) ==
  /\ Tale(peer[p], peer[Other(p)], In(Unread(Other(p))))
  /\ Called(peer[p], call[p]) /\ Held(peer[p], call[p], Rest(p))
  /\ Unfetched(p, peer[p], todo)

LEMMA CalledKept ==
  ASSUME NEW P, NEW X, Keeps(P, X), NEW c \in CallTypes, Called(P, c)
  PROVE  Called(X, c)
<1>1. PICK id \in Ids : id = c.id BY DEF CallTypes
<1>2. /\ P.out[id].status # Absent =>
           /\ X.out[id].status # Absent /\ X.out[id].req = P.out[id].req
           /\ P.out[id].status = "STATUS_OK" => X.out[id].status = "STATUS_OK"
      /\ P.out[id].status # Absent /\ X.out[id].req.code = "LIST_FILES" /\ X.out[id].status = "STATUS_OK"
           => X.listings[id].live \/ (P.out[id].status = "STATUS_OK" /\ ~P.listings[id].live)
  BY DEF Keeps
<1> QED BY <1>1, <1>2 DEF Called, Is

LEMMA HeldKept ==
  ASSUME NEW P, NEW X, Unmoved(P, X), NEW c \in CallTypes, Called(P, c), NEW to, Held(P, c, to),
         NEW some, some \subseteq to
  PROVE  Held(X, c, some)
<1> SUFFICES ASSUME c.call = "receive_file", c.phase = "waiting", X.out[c.id].status = "STATUS_OK"
             PROVE  \E k \in Ids : /\ Is(X.in[k], "SEND_FILE") /\ X.in[k].req.ref = c.id
                                   /\ X.in[k].status = "STATUS_OK" => X.downloads[k].live
                                   /\ \A m \in some : ~Packet(m, k)
  BY DEF Held
<1>1. Called(X, c) BY CalledKept DEF Unmoved
<1>2. c.id \in Ids /\ Is(X.out[c.id], "RECEIVE_FILE") BY <1>1 DEF Called, CallTypes
<1>3. P.out[c.id].status = "STATUS_OK" /\ X.in = P.in /\ X.downloads = P.downloads BY <1>2 DEF Unmoved
<1> QED BY <1>3 DEF Held

\* The request r under id is handled, with those in some left.
LEMMA HeldTaken ==
  ASSUME NEW P, NEW X, NEW id \in Ids, NEW r, Takes(P, X, id, r), P.in[id].status = Absent,
         NEW c \in CallTypes, Called(P, c), NEW to, Held(P, c, to),
         NEW m \in to, m.type = "REQUEST", m.req = r,
         NEW some, some \subseteq to, \A x \in some : ~(Packet(x, id) /\ r.code = "SEND_FILE")
  PROVE  Held(X, c, some)
<1> SUFFICES ASSUME c.call = "receive_file", c.phase = "waiting", X.out[c.id].status = "STATUS_OK"
             PROVE  \E k \in Ids : /\ Is(X.in[k], "SEND_FILE") /\ X.in[k].req.ref = c.id
                                   /\ X.in[k].status = "STATUS_OK" => X.downloads[k].live
                                   /\ \A x \in some : ~Packet(x, k)
  BY DEF Held
<1>1. Called(X, c) BY CalledKept DEF Takes
<1>2. c.id \in Ids /\ Is(X.out[c.id], "RECEIVE_FILE") BY <1>1 DEF Called, CallTypes
<1>3. CASE P.out[c.id].status = "STATUS_OK"
  <2>1. PICK k \in Ids : /\ Is(P.in[k], "SEND_FILE") /\ P.in[k].req.ref = c.id
                         /\ P.in[k].status = "STATUS_OK" => P.downloads[k].live
                         /\ \A x \in to : ~Packet(x, k)
    BY <1>3 DEF Held
  <2>2. k # id BY <2>1 DEF Is
  <2>3. ~(r.code = "DATA_PACKET" /\ r.ref = k) BY <2>1 DEF Packet
  <2>4. X.in[k] = P.in[k] /\ (P.downloads[k].live => X.downloads[k].live) BY <2>2, <2>3 DEF Takes
  <2> QED BY <2>1, <2>4
<1>4. CASE P.out[c.id].status # "STATUS_OK"
  <2>1. r.code = "SEND_FILE" /\ r.ref = c.id BY <1>2, <1>4 DEF Takes
  <2>2. X.in[id].req = r /\ X.in[id].status # Absent /\ (X.in[id].status = "STATUS_OK" => X.downloads[id].live)
    BY <2>1 DEF Takes
  <2> QED BY <2>1, <2>2 DEF Is
<1> QED BY <1>3, <1>4

\* What the maps of N and V have to do with each other is all in the maps.
LEMMA TaleSame ==
  ASSUME NEW Q, NEW N, N.out = Q.out, N.in = Q.in, N.next = Q.next, N.asked = Q.asked, N.uploads = Q.uploads,
         N.lists = Q.lists, NEW V, NEW to
  PROVE  (Tale(Q, V, to) => Tale(N, V, to)) /\ (Tale(V, Q, to) => Tale(V, N, to))
<1>1. Book(Q) => Book(N) BY DEF Book
<1>2. Granted(Q) => Granted(N) BY DEF Granted
<1>3. (Noted(Q, V, to) => Noted(N, V, to)) /\ (Noted(V, Q, to) => Noted(V, N, to)) BY DEF Noted
<1>4. (InReply(Q, V) => InReply(N, V)) /\ (InReply(V, Q) => InReply(V, N)) BY InReplySame
<1> QED BY <1>1, <1>2, <1>3, <1>4 DEF Tale

\* p becomes Q, which has yet to be seen to by the other.
LEMMA BecomesBound ==
  ASSUME NEW s, Types(s), NEW p \in Peers, NEW Q, Typed(Q, Mine(s, p)), Becomes(p, Q), Bound(Other(p)),
         NEW mine \in Seq(OnWire), mine = Unread(p)',
         Told(Q, peer[Other(p)], Unread(Other(p)), mine),
         NEW c, c = call'[p], NEW some, some = Rest(p)', Called(Q, c), Held(Q, c, some),
         NEW ahead, ahead = todo', ahead \subseteq todo, Unfetched(p, Q, ahead),
         batch'[Other(p)] = batch[Other(p)], done'[Other(p)] = done[Other(p)],
         call'[Other(p)] = call[Other(p)]
  PROVE  \A o \in Peers : Bound(o)'
<1>1. PICK q \in Peers : q = Other(p) /\ q # p /\ Other(q) = p /\ \A o \in Peers : o = p \/ o = q BY Two
<1>2. PICK V : V = peer[q] OBVIOUS
<1>3. PICK w : w = Unread(q) OBVIOUS
<1> DEFINE N == [Q EXCEPT !.written = <<>>, !.thrown = "nothing"]
<1>4. Q \in PeerTypes /\ Q.written \in Seq(OnWire) BY DEF Typed, PeerTypes
<1>5. /\ N.out = Q.out /\ N.in = Q.in /\ N.next = Q.next /\ N.asked = Q.asked /\ N.uploads = Q.uploads
      /\ N.downloads = Q.downloads /\ N.lists = Q.lists /\ N.listings = Q.listings
  BY <1>4 DEF PeerTypes
<1>6. peer' = [peer EXCEPT ![p] = N] /\ wire' = [wire EXCEPT ![q] = @ \o Q.written] BY <1>1 DEF Becomes
<1> HIDE DEF N
<1>7. peer'[p] = N /\ peer'[q] = V /\ wire'[q] = wire[q] \o Q.written
  BY <1>1, <1>2, <1>6 DEF Types, PeersTyped, Carries
<1>8. Unread(q)' = w \o Q.written /\ w \in Seq(OnWire)
  <2>1. batch'[q] = batch[q] /\ done'[q] = done[q] BY <1>1
  <2>2. PICK x : x = Q.written OBVIOUS
  <2>3. x \in Seq(OnWire) /\ wire'[q] = wire[q] \o x BY <1>4, <1>7, <2>2
  <2>4. w \in Seq(OnWire) BY <1>3, Contexts
  <2> QED BY <1>3, <2>1, <2>2, <2>3, <2>4, UnreadGrows
<1>9. In(Unread(q)') = In(w) \cup In(Q.written) BY <1>4, <1>8, InBoth
<1>10. Tale(Q, V, In(w) \cup In(Q.written)) /\ Tale(V, Q, In(mine)) BY <1>1, <1>2, <1>3 DEF Told
<1>11. Tale(N, V, In(w) \cup In(Q.written)) /\ Tale(V, N, In(mine)) BY <1>5, <1>10, TaleSame
<1>12. Bound(p)'
  <2>1. Tale(peer'[p], peer'[Other(p)], In(Unread(Other(p))')) BY <1>1, <1>7, <1>9, <1>11
  <2>2. Called(peer'[p], call'[p]) /\ Held(peer'[p], call'[p], Rest(p)') BY <1>5, <1>7 DEF Called, Held
  <2>3. Unfetched(p, peer'[p], todo') BY <1>5, <1>7 DEF Unfetched
  <2> QED BY <2>1, <2>2, <2>3 DEF Bound
<1>13. Bound(q)'
  <2>1. Tale(peer'[q], peer'[Other(q)], In(Unread(Other(q))')) BY <1>1, <1>7, <1>11
  <2>2. Rest(q)' = Rest(q) BY <1>1 DEF Rest
  <2>3. Called(peer'[q], call'[q]) /\ Held(peer'[q], call'[q], Rest(q)') BY <1>1, <1>2, <1>7, <2>2 DEF Bound
  <2>4. Unfetched(q, peer'[q], todo') BY <1>1, <1>2, <1>7 DEF Bound, Unfetched
  <2> QED BY <2>1, <2>3, <2>4 DEF Bound
<1> QED BY <1>1, <1>12, <1>13
LEMMA InLeft ==
  ASSUME NEW b \in Seq(OnWire), NEW w \in Seq(OnWire), NEW d \in Nat, d # 0, NEW i \in 1 .. Len(b), d <= i
  PROVE  b[i] \in In(Left(b, d, w))
<1>1. Len(b) \in Nat /\ \A j \in d .. Len(b) : b[j] \in OnWire OBVIOUS
<1>2. PICK rest : rest = SubSeq(b, d, Len(b)) OBVIOUS
<1>3. rest \in Seq(OnWire) /\ Len(rest) = Len(b) - d + 1 /\ \A j \in 1 .. Len(b) - d + 1 : rest[j] = b[d + j - 1]
  BY <1>1, <1>2, SubSeqProperties
<1>4. PICK u : u = rest \o w OBVIOUS
<1>5. In(u) = In(rest) \cup In(w) BY <1>3, <1>4, InBoth
<1>6. PICK j \in 1 .. Len(rest) : rest[j] = b[i]
  <2>1. i - d + 1 \in 1 .. Len(rest) /\ i - d + 1 \in 1 .. Len(b) - d + 1 BY <1>1, <1>3
  <2>2. d + (i - d + 1) - 1 = i OBVIOUS
  <2>3. rest[i - d + 1] = b[d + (i - d + 1) - 1] BY <1>3, <2>1
  <2> QED BY <2>1, <2>2, <2>3
<1>7. Left(b, d, w) = u BY <1>2, <1>4 DEF Left
<1> QED BY <1>5, <1>6, <1>7 DEF In

LEMMA BoundTold ==
  ASSUME NEW s, Types(s), NEW p \in Peers, \A o \in Peers : Bound(o)
  PROVE  Told(peer[p], peer[Other(p)], Unread(Other(p)), Unread(p))
<1>1. Other(p) \in Peers /\ Other(Other(p)) = p BY Two
<1>2. peer[p].written = <<>> BY Contexts
<1>3. In(peer[p].written) = {} BY <1>2 DEF In
<1> QED BY <1>1, <1>3 DEF Bound, Told

\* p handles a message.
LEMMA HandleBound ==
  ASSUME OneWay, NEW s, Types(s), NEW p \in Peers, Handle(p), FewRequests,
         \A o \in Peers : Paired(o) /\ Bound(o), events = {}
  PROVE  events' = {} /\ \A o \in Peers : Bound(o)'
<1>1. PICK m, Q : Turns(s, p, m, Q) BY HandleTyped
<1>2. PICK q \in Peers : q = Other(p) /\ q # p BY Two
<1>3. PICK P : P = peer[p] OBVIOUS
<1>4. PICK V : V = peer[q] OBVIOUS
<1>5. PICK w : w = Unread(q) OBVIOUS
<1>6. PICK mine : mine = Unread(p) OBVIOUS
<1>7. PICK F : F = Fetching(p) OBVIOUS
<1>8. /\ Typed(P, Mine(s, p)) /\ Context(V, mine, w) /\ Sound(P, V, mine, w, F)
      /\ wire[p] \in Seq(OnWire) /\ batch[p] \in Seq(OnWire) /\ mine \in Seq(OnWire)
      /\ done[p] \in Nat /\ P.thrown = "nothing"
  BY <1>2, <1>3, <1>4, <1>5, <1>6, <1>7, Contexts DEF Paired
<1>9. Told(P, V, w, mine) BY <1>2, <1>3, <1>4, <1>5, <1>6, BoundTold
<1>10. done[p] \in 1 .. Len(batch[p]) /\ batch' = batch /\ todo' = todo BY HandleTyped DEF Handle
<1>11. /\ mine # <<>> /\ mine[1] = m /\ m \in OnWire
       /\ Tail(mine) = Left(batch[p], done[p] + 1, wire[p])
  <2>1. /\ mine # <<>> /\ mine[1] = batch[p][done[p]]
        /\ Tail(mine) = Left(batch[p], done[p] + 1, wire[p])
    BY <1>6, <1>10, UnreadNext
  <2>2. m \in OnWire BY <1>1, MineAllowed DEF Turns
  <2> QED BY <1>1, <2>1, <2>2 DEF Turns
<1>12. Typed(Q, Mine(s, p)) /\ Becomes(p, Q) /\ Q \in Handled(P, m) BY <1>1, <1>3, <1>11 DEF Turns
<1>13. P.next + Burst <= MaxId BY <1>3 DEF FewRequests
<1> DEFINE rest == {batch[p][i] : i \in {j \in 1 .. Len(batch[p]) : done[p] + 1 <= j}}
<1>14. /\ rest \subseteq Rest(p) /\ rest \subseteq In(Tail(mine)) /\ m \in Rest(p)
  <2>1. rest \subseteq Rest(p) /\ batch[p][done[p]] \in Rest(p) BY <1>8, <1>10 DEF Rest
  <2>2. ASSUME NEW i \in 1 .. Len(batch[p]), done[p] + 1 <= i PROVE batch[p][i] \in In(Tail(mine))
    <3>1. done[p] + 1 \in Nat /\ done[p] + 1 # 0 BY <1>8
    <3>2. batch[p][i] \in In(Left(batch[p], done[p] + 1, wire[p])) BY <1>8, <2>2, <3>1, InLeft
    <3> QED BY <1>11, <3>2
  <2>3. m = batch[p][done[p]] BY <1>1 DEF Turns
  <2> QED BY <2>1, <2>2, <2>3
<1> HIDE DEF rest
<1>15. PICK c \in CallTypes : c = call[p] BY DEF Types
<1>16. Called(P, c) /\ Held(P, c, Rest(p)) BY <1>3, <1>15 DEF Bound
<1>17. Told(Q, V, w, Tail(mine)) /\ Q.thrown = "nothing" /\ Keeps(P, Q) /\ Held(Q, c, rest)
  <2>1. CASE m.type = "RESPONSE"
    <3>1. Told(Q, V, w, Tail(mine)) /\ Unmoved(P, Q)
      BY <1>8, <1>9, <1>11, <1>12, <1>13, <2>1, MineAllowed, ToldReceived
    <3>2. Held(Q, c, rest) BY <1>14, <1>16, <3>1, HeldKept
    <3> QED BY <1>8, <3>1, <3>2 DEF Unmoved
  <2>2. CASE m.type = "REQUEST"
    <3>1. m.req.code = "SEND_FILE" /\ m.req.ref = NoRef => Matches(P, m.req) = {}
      <4>1. m.req \in Mine(s, Other(p)) BY <1>1, <2>2 DEF Turns, Wired
      <4> QED BY <1>3, <4>1, NoneMatches
    <3>2. /\ Told(Q, V, w, Tail(mine)) /\ Takes(P, Q, m.id, m.req)
          /\ \A x \in In(Tail(mine)) :
               ~(x.type = "REQUEST" /\ x.req.code = "DATA_PACKET" /\ x.req.ref = m.id /\ m.req.code = "SEND_FILE")
      BY <1>8, <1>9, <1>11, <1>12, <1>13, <2>2, <3>1, MineAllowed, ToldRequested
    <3>3. P.in[m.id].status = Absent /\ m.id \in Ids
      <4>1. m \in In(mine) BY <1>8, <1>11, InTail
      <4> QED BY <1>9, <1>11, <2>2, <4>1 DEF Told, Tale, Noted, OnWire
    <3>4. \A x \in rest : ~(Packet(x, m.id) /\ m.req.code = "SEND_FILE") BY <1>14, <3>2 DEF Packet
    <3>5. Held(Q, c, rest) BY <1>14, <1>16, <2>2, <3>2, <3>3, <3>4, HeldTaken
    <3> QED BY <1>8, <3>2, <3>5 DEF Takes
  <2> QED BY <1>11, <2>1, <2>2 DEF OnWire
<1>18. events' = {}
  <2>1. ~Unasked(p, m, Q) BY <1>1, HandledUnasked
  <2> QED BY <1>1, <1>17, <2>1 DEF Turns
<1>19. done'[p] = done[p] + 1 /\ done'[q] = done[q] /\ call' = call
  <2>1. done' = [done EXCEPT ![p] = done[p] + 1] /\ call' = call BY <1>1, <1>17 DEF Turns
  <2> QED BY <1>2, <2>1 DEF Types
<1>20. Unread(p)' = Tail(mine)
  <2>1. wire'[p] = wire[p] BY <1>2, <1>12 DEF Becomes, Types, Carries
  <2> QED BY <1>10, <1>11, <1>19, <2>1 DEF Unread
<1>21. Rest(p)' = rest
  <2>1. \A j \in 1 .. Len(batch[p]) : 0 < done[p] + 1 BY <1>8
  <2> QED BY <1>10, <1>19, <2>1 DEF Rest, rest
<1>22. Called(Q, c) BY <1>16, <1>17, CalledKept
<1>23. Unfetched(p, Q, todo)
  BY <1>3, <1>10, <1>17 DEF Bound, Unfetched, Keeps, Is
<1>24. Tail(mine) \in Seq(OnWire) BY <1>8, <1>11, Taking
<1>25. batch'[q] = batch[q] /\ call'[q] = call[q] /\ call'[p] = c BY <1>10, <1>15, <1>19
<1>26. \A o \in Peers : Bound(o)'
  <2>1. /\ Called(Q, c) /\ Held(Q, c, rest) /\ c = call'[p] /\ rest = Rest(p)' /\ todo = todo'
        /\ todo \subseteq todo /\ batch'[Other(p)] = batch[Other(p)] /\ done'[Other(p)] = done[Other(p)]
        /\ call'[Other(p)] = call[Other(p)] /\ Bound(Other(p))
        /\ Told(Q, peer[Other(p)], Unread(Other(p)), Tail(mine)) /\ Tail(mine) = Unread(p)'
    BY <1>2, <1>4, <1>5, <1>10, <1>17, <1>19, <1>20, <1>21, <1>22, <1>25
  <2> QED BY <1>12, <1>23, <1>24, <2>1, BecomesBound
<1> QED BY <1>18, <1>26
LEMMA PollBound ==
  ASSUME NEW s, Types(s), NEW p \in Peers, Poll(p) \/ PollEnds(p), \A o \in Peers : Paired(o) /\ Bound(o)
  PROVE  \A o \in Peers : Bound(o)'
<1>1. /\ peer' = peer /\ call' = call /\ todo' = todo
      /\ \A o \in Peers : o # p => wire'[o] = wire[o] /\ batch'[o] = batch[o] /\ done'[o] = done[o]
      /\ \A o \in Peers : Unread(o)' = Unread(o)
  <2>1. todo' = todo BY DEF Poll, PollEnds
  <2> QED BY <2>1, PollUnread DEF Paired
<1> TAKE o \in Peers
<1>2. PICK c \in CallTypes : c = call[o] BY DEF Types
<1>3. Held(peer[o], c, Rest(o)')
  <2>1. CASE o # p
    <3>1. Rest(o)' = Rest(o) BY <1>1, <2>1 DEF Rest
    <3> QED BY <1>2, <3>1 DEF Bound
  <2>2. CASE o = p /\ Poll(p)
    <3>1. c.phase = "waiting" => peer[p].out[c.id].status \in Unanswered BY <1>2, <2>2 DEF Poll, Ready
    <3>2. "STATUS_OK" \notin Unanswered BY DEF Unanswered, None, Pending
    <3> QED BY <2>2, <3>1, <3>2 DEF Held
  <2>3. CASE o = p /\ PollEnds(p)
    <3>1. done'[p] = 0 BY <2>3 DEF PollEnds, Types
    <3>2. Rest(p)' = {} BY <3>1 DEF Rest
    <3>3. Held(peer[o], c, Rest(o)) BY <1>2 DEF Bound
    <3> QED BY <2>3, <3>2, <3>3 DEF Held
  <2> QED BY <2>1, <2>2, <2>3
<1>4. Other(o) \in Peers BY Two
<1>5. Tale(peer[o], peer[Other(o)], In(Unread(Other(o)))) /\ Called(peer[o], c) /\ Unfetched(o, peer[o], todo)
  BY <1>2 DEF Bound
<1>6. Tale(peer'[o], peer'[Other(o)], In(Unread(Other(o))')) BY <1>1, <1>4, <1>5
<1>7. Called(peer'[o], call'[o]) /\ Held(peer'[o], call'[o], Rest(o)') /\ Unfetched(o, peer'[o], todo')
  BY <1>1, <1>2, <1>3, <1>5
<1> QED BY <1>6, <1>7 DEF Bound

\* A step of p that takes no message.
LEMMA StaysBound ==
  ASSUME NEW s, Types(s), NEW p \in Peers, NEW Q, Typed(Q, Mine(s, p)), Becomes(p, Q), Bound(Other(p)),
         UNCHANGED <<batch, done>>, Told(Q, peer[Other(p)], Unread(Other(p)), Unread(p)),
         NEW c, call' = [call EXCEPT ![p] = c], Called(Q, c), Held(Q, c, Rest(p)),
         NEW ahead, ahead = todo', ahead \subseteq todo, Unfetched(p, Q, ahead)
  PROVE  \A o \in Peers : Bound(o)'
<1>1. Other(p) \in Peers /\ Other(p) # p BY Two
<1>2. wire'[p] = wire[p] BY <1>1 DEF Becomes, Types, Carries
<1>3. PICK mine \in Seq(OnWire) : mine = Unread(p) BY Contexts
<1>4. mine = Unread(p)' BY <1>2, <1>3 DEF Unread
<1>5. PICK some : some = Rest(p) OBVIOUS
<1>6. some = Rest(p)' BY <1>5 DEF Rest
<1>7. /\ batch'[Other(p)] = batch[Other(p)] /\ done'[Other(p)] = done[Other(p)] /\ c = call'[p]
      /\ call'[Other(p)] = call[Other(p)] /\ Told(Q, peer[Other(p)], Unread(Other(p)), mine)
      /\ Held(Q, c, some)
  BY <1>1, <1>3, <1>5 DEF Types
<1> QED BY <1>3, <1>4, <1>6, <1>7, BecomesBound
\* What p becomes when its call goes on as d, with no exception.
Proceeds(s, p, Q, d) ==
  /\ Typed(Q, Mine(s, p)) /\ Becomes(p, Q) /\ call' = [call EXCEPT ![p] = d] /\ events' = events
  /\ Told(Q, peer[Other(p)], Unread(Other(p)), Unread(p))
  /\ Called(Q, d) /\ Held(Q, d, Rest(p)) /\ Unfetched(p, Q, todo)

LEMMA GoesOn ==
  ASSUME NEW s, NEW p, NEW V, V = peer[Other(p)], NEW w, w = Unread(Other(p)), NEW mine, mine = Unread(p),
         NEW Q, Typed(Q, Mine(s, p)), Told(Q, V, w, mine), Unfetched(p, Q, todo),
         NEW c, Called(Q, c), Held(Q, c, Rest(p)), Continue(p, Q, c)
  PROVE  \E X, d : Proceeds(s, p, X, d)
<1>1. Proceeds(s, p, Q, c) BY DEF Proceeds, Continue
<1> QED BY <1>1

LEMMA GoesBack ==
  ASSUME NEW s, NEW p, NEW V, V = peer[Other(p)], NEW w, w = Unread(Other(p)), NEW mine, mine = Unread(p),
         NEW Q, Typed(Q, Mine(s, p)), Told(Q, V, w, mine), Unfetched(p, Q, todo),
         NEW error, error = "nothing", Return(p, Q, error)
  PROVE  \E X, d : Proceeds(s, p, X, d)
<1>1. Called(Q, NoCall) /\ Held(Q, NoCall, Rest(p)) BY DEF Called, Held, NoCall
<1>2. Becomes(p, Q) /\ call' = [call EXCEPT ![p] = NoCall] /\ events' = events BY DEF Return
<1>3. Proceeds(s, p, Q, NoCall) BY <1>1, <1>2 DEF Proceeds
<1> QED BY <1>3

LEMMA SameTold ==
  ASSUME NEW G, NEW P, Typed(P, G), NEW V, NEW w, NEW mine, Told(P, V, w, mine),
         NEW Q, SameQueue(P, Q), Q.in = P.in, Q.lists = P.lists,
         \A id \in Ids : P.uploads[id].live /\ P.out[id].status \in Unanswered => Q.uploads[id].live
  PROVE  Typed(Q, G) /\ Told(Q, V, w, mine)
<1>1. /\ Q.next = P.next /\ Q.out = P.out /\ Q.written = P.written /\ Q.asked \subseteq P.asked
      /\ \A id \in Ids : Q.lists[id].live => P.lists[id].live
  BY DEF SameQueue
<1> QED BY <1>1, SameTyped, ToldElse

\* The request k is all that receive_file finds, and the download is with it.
Finding(P, c, k) ==
  /\ \A id \in Ids :
       /\ P.in[id].status # Absent /\ P.in[id].req.code = "SEND_FILE" /\ P.in[id].req.file = c.file
       <=> id = k
  /\ P.in[k].status # "UP_TO_DATE" => P.downloads[k].live

LEMMA FoundOne ==
  ASSUME OneWay, NEW s, Types(s), NEW p \in Peers, NEW P, P = peer[p], NEW V, V = peer[Other(p)],
         NEW w, NEW mine, Told(P, V, w, mine), NEW c \in CallTypes, Called(P, c), NEW to, Held(P, c, to),
         c.call = "receive_file", c.phase = "waiting", P.out[c.id].status = "STATUS_OK"
  PROVE  \E k \in Ids : Finding(P, c, k)
<1>1. c.id \in Ids /\ Is(P.out[c.id], "RECEIVE_FILE") /\ P.out[c.id].req.file = c.file BY DEF Called, CallTypes
<1>2. PICK k \in Ids : /\ Is(P.in[k], "SEND_FILE") /\ P.in[k].req.ref = c.id
                       /\ P.in[k].status = "STATUS_OK" => P.downloads[k].live
  BY DEF Held
<1>3. Book(P) /\ InReply(V, P) /\ Noted(V, P, In(mine)) BY DEF Told, Tale
<1>4. ASSUME NEW id \in Ids, Is(P.in[id], "SEND_FILE") PROVE Is(V.out[id], "SEND_FILE") /\ V.out[id].req = P.in[id].req
  BY <1>3, <1>4 DEF Noted, Is
<1>5. ASSUME NEW id \in Ids, NEW ref, Is(P.in[id], "SEND_FILE"), P.in[id].req.ref = ref, ref # NoRef
      PROVE  /\ Is(P.out[ref], "RECEIVE_FILE") /\ P.out[ref].req.file = P.in[id].req.file
             /\ \A other \in Ids : Is(P.in[other], "SEND_FILE") /\ P.in[other].req.ref = ref => other = id
             /\ P.in[id].status \in {"STATUS_OK", "UP_TO_DATE"}
  <2>1. Is(V.out[id], "SEND_FILE") /\ V.out[id].req = P.in[id].req /\ P.in[id].status # Absent BY <1>4, <1>5 DEF Is
  <2>2. InReply(V, P) /\ ref = V.out[id].req.ref BY <1>3, <1>5, <2>1
  <2>3. /\ Is(P.out[ref], "RECEIVE_FILE") /\ P.out[ref].req.file = V.out[id].req.file
        /\ \A other \in Ids : Is(V.out[other], "SEND_FILE") /\ V.out[other].req.ref = ref => other = id
        /\ P.in[id].status # Absent => /\ P.in[id].status \in {"STATUS_OK", "UP_TO_DATE"}
                                        /\ P.out[ref].status = "STATUS_OK"
    BY ONLY <2>1, <2>2, id \in Ids, ref # NoRef, InReplyOf DEF Fulfils
  <2>4. ASSUME NEW other \in Ids, Is(P.in[other], "SEND_FILE"), P.in[other].req.ref = ref PROVE other = id
    <3>1. Is(V.out[other], "SEND_FILE") /\ V.out[other].req.ref = ref BY <1>4, <2>4
    <3> QED BY <2>3, <3>1
  <2> QED BY <2>1, <2>3, <2>4
<1>6. /\ P.in[k].req.file = c.file /\ P.in[k].status \in {"STATUS_OK", "UP_TO_DATE"}
      /\ \A other \in Ids : Is(P.in[other], "SEND_FILE") /\ P.in[other].req.ref = c.id => other = k
  <2>1. c.id # NoRef BY <1>1 DEF NoRef, Ids
  <2> QED BY <1>1, <1>2, <1>5, <2>1
<1>7. ASSUME NEW id \in Ids, Is(P.in[id], "SEND_FILE"), P.in[id].req.file = c.file PROVE id = k
  <2>1. PICK r : r = P.in[id].req OBVIOUS
  <2>2. Is(V.out[id], "SEND_FILE") /\ V.out[id].req = r BY <1>4, <1>7, <2>1
  <2>3. r \in Mine(s, Other(p))
    <3>1. Other(p) \in Peers BY Two
    <3>2. Typed(V, Mine(s, Other(p))) BY <3>1 DEF Types, PeersTyped
    <3> QED BY <2>2, <3>2 DEF Typed, Is
  <2>4. r.code = "SEND_FILE" /\ r.file = c.file BY <1>7, <2>1 DEF Is
  <2>5. r.ref # NoRef
    <3>1. c.id \in Matches(P, r) BY <1>1, <2>4 DEF Matches, Is
    <3> QED BY <2>3, <2>4, <3>1, NoneMatches
  <2>6. r.ref \in Ids BY <2>3, <2>5, Assumed DEF Mine, Referred
  <2>7. Is(P.out[r.ref], "RECEIVE_FILE") /\ P.out[r.ref].req.file = c.file
    <3>1. PICK ref : ref = r.ref OBVIOUS
    <3>2. P.in[id].req.ref = ref /\ ref # NoRef BY <2>1, <2>5, <3>1
    <3>3. Is(P.out[ref], "RECEIVE_FILE") /\ P.out[ref].req.file = P.in[id].req.file
      BY ONLY <1>5, <1>7, <3>2, id \in Ids, Is(P.in[id], "SEND_FILE")
    <3> QED BY <1>7, <3>1, <3>3
  <2>8. r.ref = c.id
    <3>1. \A o, other \in Ids :
            Is(P.out[o], "RECEIVE_FILE") /\ Is(P.out[other], "RECEIVE_FILE")
            /\ P.out[o].req.file = P.out[other].req.file => o = other
      BY <1>3 DEF Book
    <3> QED BY <1>1, <2>6, <2>7, <3>1
  <2> QED BY <1>6, <1>7, <2>1, <2>8
<1>9. \A id \in Ids :
        /\ P.in[id].status # Absent /\ P.in[id].req.code = "SEND_FILE" /\ P.in[id].req.file = c.file
        <=> id = k
  BY <1>2, <1>6, <1>7 DEF Is
<1>10. Finding(P, c, k) BY <1>2, <1>6, <1>9 DEF Finding
<1> QED BY <1>10
\* No call goes on with an exception.
LEMMA ResumeProceeds ==
  ASSUME OneWay, NEW s, Types(s), NEW p \in Peers, Resume(p), FewRequests,
         \A o \in Peers : Paired(o) /\ Bound(o)
  PROVE  \E Q, d : Proceeds(s, p, Q, d)
<1>1. PICK P \in PeerTypes : P = peer[p] BY DEF Types, PeersTyped
<1>2. PICK c \in CallTypes : c = call[p] BY DEF Types
<1>3. PICK V : V = peer[Other(p)] OBVIOUS
<1>4. PICK w : w = Unread(Other(p)) OBVIOUS
<1>5. PICK mine : mine = Unread(p) OBVIOUS
<1>6. PICK to : to = Rest(p) OBVIOUS
<1>7. PICK G : G = Mine(s, p) OBVIOUS
<1>8. /\ Typed(P, G) /\ Allowed(G) /\ Context(V, mine, w) /\ Told(P, V, w, mine)
      /\ P.slots + Cardinality(Open(P.out)) = MaxId /\ P.next + Burst <= MaxId
      /\ Called(P, c) /\ Held(P, c, to) /\ Unfetched(p, P, todo)
  <2>1. Typed(P, G) /\ Allowed(G) /\ Context(V, mine, w)
    BY <1>1, <1>3, <1>4, <1>5, <1>7, Contexts, MineAllowed
  <2>2. Told(P, V, w, mine) BY <1>1, <1>3, <1>4, <1>5, BoundTold
  <2>3. P.slots + Cardinality(Open(P.out)) = MaxId BY <1>1 DEF Paired, Sound
  <2>4. P.next + Burst <= MaxId BY <1>1 DEF FewRequests
  <2>5. Called(P, c) /\ Held(P, c, to) /\ Unfetched(p, P, todo) BY <1>1, <1>2, <1>6 DEF Bound
  <2> QED BY <2>1, <2>2, <2>3, <2>4, <2>5
<1>9. /\ P.uploads \in [Ids -> Transferred] /\ P.downloads \in [Ids -> Transferred]
      /\ P.listings \in [Ids -> Transferred] /\ SameQueue(P, P) /\ c.id \in Ids /\ c.key \in Ids
  BY <1>1, <1>2, Maps DEF SameQueue, CallTypes
<1>10. ASSUME NEW Q, Typed(Q, G), Told(Q, V, w, mine), Unfetched(p, Q, todo),
              NEW d, Called(Q, d), Held(Q, d, to), Continue(p, Q, d)
       PROVE  \E X, e : Proceeds(s, p, X, e)
  BY <1>3, <1>4, <1>5, <1>6, <1>7, <1>10, GoesOn
<1>11. ASSUME NEW Q, SameQueue(P, Q), Q.in = P.in, Q.lists = P.lists,
              \A id \in Ids : P.uploads[id].live /\ P.out[id].status \in Unanswered => Q.uploads[id].live,
              NEW error, error = "nothing", Return(p, Q, error)
       PROVE  \E X, e : Proceeds(s, p, X, e)
  <2>1. Typed(Q, G) /\ Told(Q, V, w, mine) BY <1>8, <1>11, SameTold
  <2>2. Unfetched(p, Q, todo) BY <1>8, <1>11 DEF SameQueue, Unfetched
  <2> QED BY <1>3, <1>4, <1>5, <1>7, <1>11, <2>1, <2>2, GoesBack
<1>12. PICK none : none = "nothing" OBVIOUS
<1>13. ASSUME Return(p, P, none) PROVE \E X, e : Proceeds(s, p, X, e) BY <1>9, <1>11, <1>12, <1>13
<1>14. CASE SendFileAnswered(p)
  <2>1. c.call = "send_file" /\ c.phase = "waiting" /\ P.out[c.id].status \notin Unanswered
    BY <1>1, <1>2, <1>14 DEF SendFileAnswered, Resumes, Ready
  <2>2. CASE P.out[c.id].status = "STATUS_OK"
    <3>1. PICK d : d = [c EXCEPT !.phase = "pushing"] OBVIOUS
    <3>2. d.call = "send_file" /\ d.phase = "pushing" /\ d.id = c.id BY <2>1, <3>1 DEF CallTypes
    <3>3. Continue(p, P, d) BY <1>1, <1>2, <1>14, <2>2, <3>1 DEF SendFileAnswered
    <3>4. Called(P, d) /\ Held(P, d, to) BY <1>8, <2>1, <2>2, <3>2 DEF Called, Held
    <3> QED BY <1>8, <1>10, <3>3, <3>4
  <2>3. CASE P.out[c.id].status # "STATUS_OK"
    <3>1. PICK t : t = [P.uploads EXCEPT ![c.id] = NoTransfer] OBVIOUS
    <3>2. t \in Transfers BY <1>9, <3>1, TransferType
    <3>3. PICK Q : Q = [P EXCEPT !.uploads = t] OBVIOUS
    <3>4. SameQueue(P, Q) /\ Q.in = P.in /\ Q.lists = P.lists /\ Q.uploads = t
      BY <3>2, <3>3, UpdateSame DEF PeerTypes
    <3>5. \A id \in Ids : P.uploads[id].live /\ P.out[id].status \in Unanswered => Q.uploads[id].live
      BY <1>9, <2>1, <3>1, <3>4
    <3>6. Return(p, Q, none) BY <1>1, <1>2, <1>12, <1>14, <2>3, <3>1, <3>3 DEF SendFileAnswered
    <3> QED BY <1>11, <1>12, <3>4, <3>5, <3>6
  <2> QED BY <2>2, <2>3
<1>15. CASE SendFileLoop(p)
  <2>1. c.call = "send_file" /\ c.phase = "pushing" /\ (P.uploads[c.id].left = 0 \/ P.slots > 0)
    BY <1>1, <1>2, <1>15 DEF SendFileLoop, Resumes, Ready
  <2>2. CASE P.uploads[c.id].left > 0
    <3>1. PICK Q : Q = SendPacket(P, c.id) OBVIOUS
    <3>2. P.slots > 0 /\ P.next < MaxId
      <4>1. P.slots > 0 BY <2>1, <2>2
      <4>2. Burst \in Nat /\ Burst # 0 /\ P.next \in Nat BY Assumed, Maps
      <4> QED BY <1>8, <4>1, <4>2
    <3>3. Told(Q, V, w, mine) /\ Unmoved(P, Q)
      <4>1. Is(P.out[c.id], "SEND_FILE") /\ P.out[c.id].status = "STATUS_OK" BY <1>8, <2>1 DEF Called
      <4> QED BY <1>8, <1>9, <2>2, <3>1, <3>2, <4>1, ToldPacket
    <3>4. Typed(Q, G) BY <1>8, <1>9, <2>2, <3>1, SendPacketTyped
    <3>5. Called(Q, c) /\ Held(Q, c, to) BY <1>8, <3>3, CalledKept, HeldKept DEF Unmoved
    <3>6. Unfetched(p, Q, todo) BY <1>8, <3>3 DEF Unfetched, Unmoved, Keeps, Is
    <3>7. Continue(p, Q, c) BY <1>1, <1>2, <1>15, <2>2, <3>1 DEF SendFileLoop
    <3> QED BY <1>10, <3>3, <3>4, <3>5, <3>6, <3>7
  <2>3. CASE ~(P.uploads[c.id].left > 0)
    <3>1. Return(p, P, none) BY <1>1, <1>2, <1>12, <1>15, <2>3 DEF SendFileLoop
    <3> QED BY <1>13, <3>1
  <2> QED BY <2>2, <2>3
<1>16. CASE ReceiveFileAnswered(p)
  <2>1. c.call = "receive_file" /\ c.phase = "waiting" BY <1>2, <1>16, Zenon DEF ReceiveFileAnswered, Resumes
  <2>2. CASE P.out[c.id].status # "STATUS_OK"
    <3>1. Return(p, P, none) BY <1>1, <1>2, <1>12, <1>16, <2>2, Zenon DEF ReceiveFileAnswered
    <3> QED BY <1>13, <3>1
  <2>3. CASE P.out[c.id].status = "STATUS_OK"
    <3>1. PICK k \in Ids : Finding(P, c, k) BY <1>1, <1>3, <1>8, <2>1, <2>3, FoundOne
    <3>2. {id \in Ids : /\ P.in[id].status # Absent
                        /\ P.in[id].req.code = "SEND_FILE" /\ P.in[id].req.file = c.file} = {k}
      BY <3>1 DEF Finding
    <3>3. \/ P.in[k].status = "UP_TO_DATE" /\ Return(p, P, none)
          \/ /\ P.in[k].status # "UP_TO_DATE" /\ P.downloads[k].live
             /\ Continue(p, [P EXCEPT !.downloads[k].keep = TRUE], [c EXCEPT !.phase = "looping", !.key = k])
      BY <1>1, <1>2, <1>12, <1>16, <2>3, <3>1, <3>2, Zenon DEF ReceiveFileAnswered, Finding
    <3>4. CASE Continue(p, [P EXCEPT !.downloads[k].keep = TRUE], [c EXCEPT !.phase = "looping", !.key = k])
      <4> DEFINE t == [P.downloads EXCEPT ![k].keep = TRUE]
      <4>1. t \in Transfers
        <5>1. PICK u \in Transferred : u = P.downloads[k] BY <1>9
        <5>2. [u EXCEPT !.keep = TRUE] \in Transferred BY DEF Transferred
        <5>3. t = [P.downloads EXCEPT ![k] = [u EXCEPT !.keep = TRUE]] BY <5>1
        <5> QED BY <1>9, <5>2, <5>3, TransferType
      <4>2. PICK d : d = [c EXCEPT !.phase = "looping", !.key = k] OBVIOUS
      <4>3. d.phase = "looping" BY <4>2 DEF CallTypes
      <4>4. PICK Q : Q = [P EXCEPT !.downloads = t] OBVIOUS
      <4>5. Continue(p, Q, d) BY <3>4, <4>2, <4>4
      <4> HIDE DEF t
      <4>6. SameQueue(P, Q) /\ Q.in = P.in /\ Q.lists = P.lists /\ Q.uploads = P.uploads
        BY <4>1, <4>4, UpdateSame DEF PeerTypes
      <4>7. Typed(Q, G) /\ Told(Q, V, w, mine) BY <1>8, <4>6, SameTold
      <4>8. Unfetched(p, Q, todo) BY <1>8, <4>6 DEF SameQueue, Unfetched
      <4>9. Called(Q, d) /\ Held(Q, d, to) BY <4>3 DEF Called, Held
      <4> QED BY <1>10, <4>5, <4>7, <4>8, <4>9
    <3> QED BY <1>13, <3>3, <3>4
  <2> QED BY <2>2, <2>3
<1>17. CASE ReceiveFileLoop(p)
  <2>1. PICK t : t = [P.downloads EXCEPT ![c.key] = NoTransfer] OBVIOUS
  <2>2. t \in Transfers BY <1>9, <2>1, TransferType
  <2>3. PICK Q : Q = [P EXCEPT !.downloads = t] OBVIOUS
  <2>4. SameQueue(P, Q) /\ Q.in = P.in /\ Q.lists = P.lists /\ Q.uploads = P.uploads
    BY <2>2, <2>3, UpdateSame DEF PeerTypes
  <2>5. Return(p, Q, none) BY <1>1, <1>2, <1>12, <1>17, <2>1, <2>3 DEF ReceiveFileLoop
  <2> QED BY <1>11, <1>12, <2>4, <2>5
<1>18. CASE ListFilesAnswered(p)
  <2>1. c.call = "list_files" /\ c.phase = "waiting" BY <1>2, <1>18 DEF ListFilesAnswered, Resumes
  <2>2. CASE P.out[c.id].status # "STATUS_OK"
    <3>1. Return(p, P, none) BY <1>1, <1>2, <1>12, <1>18, <2>2 DEF ListFilesAnswered
    <3> QED BY <1>13, <3>1
  <2>3. CASE P.out[c.id].status = "STATUS_OK"
    <3>1. P.listings[c.id].live BY <1>8, <2>1, <2>3 DEF Called
    <3>2. PICK d : d = [c EXCEPT !.phase = "looping"] OBVIOUS
    <3>3. d.call = "list_files" /\ d.phase = "looping" BY <2>1, <3>2 DEF CallTypes
    <3>4. Continue(p, P, d) BY <1>1, <1>2, <1>18, <2>3, <3>1, <3>2 DEF ListFilesAnswered
    <3>5. Called(P, d) /\ Held(P, d, to) BY <3>3 DEF Called, Held
    <3> QED BY <1>8, <1>10, <3>4, <3>5
  <2> QED BY <2>2, <2>3
<1>19. CASE ListFilesLoop(p)
  <2>1. PICK t : t = [P.listings EXCEPT ![c.id] = NoTransfer] OBVIOUS
  <2>2. t \in Transfers BY <1>9, <2>1, TransferType
  <2>3. PICK Q : Q = [P EXCEPT !.listings = t] OBVIOUS
  <2>4. SameQueue(P, Q) /\ Q.in = P.in /\ Q.lists = P.lists /\ Q.uploads = P.uploads
    BY <2>2, <2>3, UpdateSame DEF PeerTypes
  <2>5. Return(p, Q, none) BY <1>1, <1>2, <1>12, <1>19, <2>1, <2>3 DEF ListFilesLoop
  <2> QED BY <1>11, <1>12, <2>4, <2>5
<1> QED BY <1>14, <1>15, <1>16, <1>17, <1>18, <1>19 DEF Resume

LEMMA ResumeBound ==
  ASSUME OneWay, NEW s, Types(s), NEW p \in Peers, Resume(p), FewRequests,
         \A o \in Peers : Paired(o) /\ Bound(o)
  PROVE  events' = events /\ \A o \in Peers : Bound(o)'
<1>1. PICK Q, d : Proceeds(s, p, Q, d) BY ResumeProceeds
<1>2. UNCHANGED <<batch, done, todo>> BY ResumeAdvances DEF Advances
<1>3. PICK ahead : ahead = todo OBVIOUS
<1>4. /\ Typed(Q, Mine(s, p)) /\ Becomes(p, Q) /\ call' = [call EXCEPT ![p] = d] /\ events' = events
      /\ Told(Q, peer[Other(p)], Unread(Other(p)), Unread(p))
      /\ Called(Q, d) /\ Held(Q, d, Rest(p)) /\ Unfetched(p, Q, ahead)
      /\ ahead = todo' /\ ahead \subseteq todo
  BY <1>1, <1>2, <1>3 DEF Proceeds
<1>5. Bound(Other(p)) BY Two
<1> QED BY <1>2, <1>4, <1>5, StaysBound
LEMMA CallBound ==
  ASSUME FetchedOnce, NEW s \in Scripts, Types(s), NEW p \in Peers, NEW c, Call(p, c), FewRequests,
         \A o \in Peers : Paired(o) /\ Bound(o)
  PROVE  events' = events /\ \A o \in Peers : Bound(o)'
<1>1. PICK Q : Calls(s, p, c, Q) BY CallTyped
<1>2. PICK P \in PeerTypes : P = peer[p] BY DEF Types, PeersTyped
<1>3. PICK V : V = peer[Other(p)] OBVIOUS
<1>4. PICK w : w = Unread(Other(p)) OBVIOUS
<1>5. PICK mine : mine = Unread(p) OBVIOUS
<1>6. PICK G : G = Mine(s, p) OBVIOUS
<1>7. /\ Typed(P, G) /\ Allowed(G) /\ Context(V, mine, w) /\ Told(P, V, w, mine)
      /\ P.thrown = "nothing" /\ ~P.hung /\ Unfetched(p, P, todo) /\ P.slots > 0
  <2>1. Typed(P, G) /\ Allowed(G) /\ Context(V, mine, w) /\ P.thrown = "nothing"
    BY <1>2, <1>3, <1>4, <1>5, <1>6, Contexts, MineAllowed
  <2>2. Told(P, V, w, mine) BY <1>2, <1>3, <1>4, <1>5, BoundTold
  <2>3. ~P.hung /\ P.slots > 0 BY <1>2 DEF Call
  <2>4. Unfetched(p, P, todo) BY <1>2 DEF Bound
  <2> QED BY <2>1, <2>2, <2>3, <2>4
<1>8. P.next \in Ids /\ P.next < MaxId /\ P.out[P.next].status = Absent
  <2>1. P.next \in Ids /\ P.next \in Nat BY Maps
  <2>2. P.next + Burst <= MaxId BY <1>2 DEF FewRequests
  <2>3. Burst \in Nat /\ Burst # 0 BY Assumed
  <2>4. P.out[P.next].status = Absent
    <3>1. P.next >= P.next BY <2>1
    <3> QED BY <1>7, <2>1, <3>1 DEF Told, Tale, Book
  <2> QED BY <2>1, <2>2, <2>3, <2>4
<1>9. PICK r \in G : r = Opening(c) BY <1>1, <1>6 DEF Calls
<1>10. /\ c \in todo /\ c.by = p /\ c.file \in Files /\ Becomes(p, Q)
       /\ c.call \in {"send_file", "receive_file", "list_files"}
       /\ c.call = "send_file" => Q = CreateUpload(P, c.file, NoRef)
       /\ c.call # "send_file" => Q = SendRequest(P, r)
  BY <1>1, <1>2, <1>9 DEF Calls
<1>11. /\ r \in Requests /\ r.file = c.file /\ r.ref = NoRef /\ ~r.last
       /\ c.call = "send_file" => r.code = "SEND_FILE"
       /\ c.call = "receive_file" => r.code = "RECEIVE_FILE"
       /\ c.call = "list_files" => r.code = "LIST_FILES"
  <2>1. r \in Requests BY <1>7 DEF Allowed, Referred
  <2>2. CASE c.call = "send_file"
    <3>1. r = Req("SEND_FILE", c.file, NoRef, FALSE) BY <1>9, <2>2 DEF Opening
    <3> QED BY <2>1, <2>2, <3>1 DEF Req
  <2>3. CASE c.call = "receive_file"
    <3>1. r = Req("RECEIVE_FILE", c.file, NoRef, FALSE) BY <1>9, <2>3 DEF Opening
    <3> QED BY <2>1, <2>3, <3>1 DEF Req
  <2>4. CASE c.call = "list_files"
    <3>1. r = Req("LIST_FILES", c.file, NoRef, FALSE) BY <1>9, <2>4 DEF Opening
    <3> QED BY <2>1, <2>4, <3>1 DEF Req
  <2> QED BY <1>10, <2>2, <2>3, <2>4
<1>12. /\ NewId(P) = P.next /\ Sends(P, Q, r) /\ Q.lists = P.lists
       /\ \A o \in Ids : o # P.next => Q.uploads[o] = P.uploads[o]
       /\ r.code = "SEND_FILE" => Q.uploads[P.next].live
  <2>1. CASE c.call = "send_file"
    <3>1. PICK ref \in Ids \cup {NoRef} : ref = NoRef OBVIOUS
    <3>2. PICK f \in Files : f = c.file BY <1>10
    <3>3. Q = CreateUpload(P, f, ref) /\ r.code = "SEND_FILE" /\ r.file = f /\ r.ref = ref
      BY <1>10, <1>11, <2>1, <3>1, <3>2
    <3> QED BY <1>7, <1>8, <1>11, <3>3, UploadSends
  <2>2. CASE c.call # "send_file"
    <3>1. Q = SendRequest(P, r) /\ r.code # "SEND_FILE" BY <1>10, <1>11, <2>2
    <3> QED BY <1>7, <1>8, <1>11, <3>1, RequestSends
  <2> QED BY <2>1, <2>2
<1>13. Told(Q, V, w, mine)
  <2>1. r.code = "RECEIVE_FILE" => \A id \in Ids : Is(P.out[id], "RECEIVE_FILE") => P.out[id].req.file # r.file
    BY <1>7, <1>10, <1>11 DEF Unfetched
  <2>2. r.code # "DATA_PACKET" BY <1>10, <1>11
  <2>3. Backed(P, Q, V, r) BY <1>11, <1>12, <2>1, <2>2 DEF Backed
  <2> QED BY <1>7, <1>12, <2>3, ToldSent
<1>14. /\ Q.out[P.next].req = r /\ Q.out[P.next].status = None /\ None # Absent /\ None # "STATUS_OK"
       /\ \A id \in Ids : id # P.next => Q.out[id] = P.out[id]
  BY <1>12, OutSent
<1>15. PICK n : n = [NoCall EXCEPT !.call = c.call, !.phase = "waiting", !.file = c.file, !.id = NewId(P)]
  OBVIOUS
<1>16. call' = [call EXCEPT ![p] = n] BY <1>1, <1>2, <1>15 DEF Calls
<1>17. n.call = c.call /\ n.phase = "waiting" /\ n.file = c.file /\ n.id = P.next BY <1>12, <1>15 DEF NoCall
<1>18. Called(Q, n) /\ Held(Q, n, Rest(p))
  <2>1. Called(Q, n) BY <1>11, <1>14, <1>17 DEF Called, Is
  <2>2. Held(Q, n, Rest(p)) BY <1>14, <1>17 DEF Held
  <2> QED BY <2>1, <2>2
<1>19. UNCHANGED <<batch, done, events>> /\ todo' = todo \ {c} BY CallTyped DEF Call
<1>20. PICK ahead : ahead = todo \ {c} OBVIOUS
<1>21. Unfetched(p, Q, ahead)
  <2> SUFFICES ASSUME NEW d \in ahead, d.by = p, d.call = "receive_file", NEW id \in Ids, Is(Q.out[id], "RECEIVE_FILE")
               PROVE  Q.out[id].req.file # d.file
    BY DEF Unfetched
  <2>1. CASE id # P.next BY <1>7, <1>14, <1>20, <2>1 DEF Unfetched
  <2>2. CASE id = P.next
    <3>1. r.code = "RECEIVE_FILE" BY <1>14, <2>2 DEF Is
    <3>2. c.call = "receive_file" BY <1>10, <1>11, <3>1
    <3>3. c \in s /\ d \in s /\ d # c BY <1>10, <1>20 DEF Types
    <3>4. d.file # c.file BY <1>10, <3>2, <3>3 DEF FetchedOnce
    <3> QED BY <1>11, <1>14, <2>2, <3>4
  <2> QED BY <2>1, <2>2
<1>22. Typed(Q, Mine(s, p))
  <2>1. CASE c.call = "send_file"
    <3>1. r = Req("SEND_FILE", c.file, NoRef, FALSE) BY <1>9, <2>1 DEF Opening
    <3>2. PICK f \in Files, ref \in Ids \cup {NoRef} : f = c.file /\ ref = NoRef BY <1>10
    <3>3. Req("SEND_FILE", f, ref, FALSE) \in G BY <3>1, <3>2
    <3>4. Q = CreateUpload(P, f, ref) BY <1>10, <2>1, <3>2
    <3>5. Typed(Q, G) BY <1>7, <3>3, <3>4, CreateUploadTyped
    <3> QED BY <1>6, <3>5
  <2>2. CASE c.call # "send_file" BY <1>6, <1>7, <1>10, <2>2, SendRequestTyped
  <2> QED BY <2>1, <2>2
<1>23. /\ Bound(Other(p)) /\ ahead = todo' /\ ahead \subseteq todo
       /\ Told(Q, peer[Other(p)], Unread(Other(p)), Unread(p))
  BY <1>3, <1>4, <1>5, <1>13, <1>19, <1>20, Two
<1> QED BY <1>10, <1>16, <1>18, <1>19, <1>21, <1>22, <1>23, StaysBound

LEMMA AnswerBound ==
  ASSUME NEW s, Types(s), NEW p \in Peers, Answer(p), FewRequests, \A o \in Peers : Paired(o) /\ Bound(o)
  PROVE  events' = events /\ \A o \in Peers : Bound(o)'
<1>1. PICK a, Q : Answers(p, a, Q) BY AnswerTyped
<1>2. UNCHANGED <<batch, done, call, todo, events>> BY AnswerTyped
<1>3. PICK P \in PeerTypes : P = peer[p] BY DEF Types, PeersTyped
<1>4. PICK V : V = peer[Other(p)] OBVIOUS
<1>5. PICK w : w = Unread(Other(p)) OBVIOUS
<1>6. PICK mine : mine = Unread(p) OBVIOUS
<1>7. PICK F : F = Fetching(p) OBVIOUS
<1>8. PICK G : G = Mine(s, p) OBVIOUS
<1>9. /\ Typed(P, G) /\ Allowed(G) /\ Context(V, mine, w) /\ Sound(P, V, mine, w, F) /\ Told(P, V, w, mine)
      /\ P.thrown = "nothing" /\ P.next + Burst <= MaxId
  <2>1. Typed(P, G) /\ Allowed(G) /\ Context(V, mine, w) /\ P.thrown = "nothing" /\ Sound(P, V, mine, w, F)
    BY <1>3, <1>4, <1>5, <1>6, <1>7, <1>8, Contexts, MineAllowed DEF Paired
  <2>2. Told(P, V, w, mine) BY <1>3, <1>4, <1>5, <1>6, BoundTold
  <2>3. P.next + Burst <= MaxId BY <1>3 DEF FewRequests
  <2> QED BY <2>1, <2>2, <2>3
<1>10. PICK L : L = [P EXCEPT !.asked = @ \ {a}] OBVIOUS
<1>11. /\ a \in P.asked /\ Becomes(p, Q)
       /\ (\E current \in BOOLEAN : Q = Respond(L, a.id, a.req, current)) \/ Q = Refuse(L, a.id, a.req, "FORBIDDEN")
  BY <1>1, <1>3, <1>10, Zenon DEF Answers
<1>12. PICK id \in Ids, r \in Requests : id = a.id /\ r = a.req BY <1>9, <1>11 DEF Typed, PeerTypes, Asked
<1>13. /\ r.ref = NoRef /\ r.code = "SEND_FILE"
  <2>1. r.ref = NoRef BY <1>9, <1>11, <1>12 DEF Told, Tale, Granted
  <2>2. Awaits(id, V.out, P.asked, w \o P.written) BY <1>9 DEF Sound, Half, Placed
  <2> QED BY <1>11, <1>12, <2>1, <2>2 DEF Awaits
<1>14. Typed(L, G) /\ Sound(L, V, mine, w, F) /\ Fresh(id, r, L, V, mine, w)
  BY <1>9, <1>10, <1>11, <1>12, SoundTakenUp
<1>15. /\ L.next = P.next /\ L.out = P.out /\ L.in = P.in /\ L.written = P.written /\ L.asked \subseteq P.asked
       /\ L.lists = P.lists /\ L.uploads = P.uploads /\ L.thrown = "nothing"
  BY <1>9, <1>10 DEF PeerTypes
<1>16. Told(L, V, w, mine) BY <1>9, <1>15, ToldElse
<1>17. L \in PeerTypes BY <1>14 DEF Typed
<1>18. Typed(Q, G) /\ Told(Q, V, w, mine) /\ Keeps(L, Q)
  <2>1. ASSUME NEW current \in BOOLEAN, Q = Respond(L, id, r, current)
        PROVE  Typed(Q, G) /\ Told(Q, V, w, mine) /\ Keeps(L, Q)
    <3>1. Typed(Q, G) BY <1>9, <1>14, <2>1, RespondTyped
    <3>2. /\ L.slots + Cardinality(Open(L.out)) = MaxId /\ ~L.hung BY <1>14 DEF Sound
    <3>3. L.next + Burst <= MaxId BY <1>9, <1>15
    <3>4. /\ r.code # "SEND_FILE" => L.in[id].status = Absent
          /\ r.code = "SEND_FILE" /\ r.ref # NoRef => L.out[r.ref].status = "STATUS_OK"
      BY <1>13
    <3>5. Told(Q, V, w, mine) /\ Takes(L, Q, id, r)
      BY <1>9, <1>14, <1>15, <1>16, <2>1, <3>2, <3>3, <3>4, ToldRespond
    <3> QED BY <3>1, <3>5 DEF Takes
  <2>2. CASE Q = Refuse(L, id, r, "FORBIDDEN")
    <3>1. PICK D : D = [L EXCEPT !.in[id] = Message(r)] OBVIOUS
    <3>2. SameQueue(L, D) /\ D.in = [L.in EXCEPT ![id] = Message(r)] BY <1>17, <3>1, ReceivedSame
    <3>3. D.uploads = L.uploads /\ D.downloads = L.downloads /\ D.lists = L.lists /\ D.listings = L.listings
      BY <1>17, <3>1 DEF PeerTypes
    <3>4. PICK status \in Statuses : status = "FORBIDDEN" BY Assumed
    <3>5. Q = SendReply(D, id, status) BY <2>2, <3>1, <3>4 DEF Refuse
    <3>6. /\ \A o \in Ids : L.listings[o].live => D.listings[o].live
          /\ \A o \in Ids : D.lists[o].live => L.lists[o].live \/ o = id
          /\ \A k \in Ids : k # id /\ L.downloads[k].live => D.downloads[k].live \/ (r.code = "DATA_PACKET" /\ r.ref = k)
          /\ r.code = "SEND_FILE" /\ r.ref # NoRef
               => status \in {"STATUS_OK", "UP_TO_DATE"} /\ L.out[r.ref].status = "STATUS_OK"
          /\ r.code = "SEND_FILE" /\ status = "STATUS_OK" => D.downloads[id].live
      BY <1>13, <3>3, <3>4
    <3>7. Told(Q, V, w, mine) /\ Takes(L, Q, id, r)
      <4>1. /\ Told(Q, V, w, mine) /\ Takes(L, Q, id, r) /\ Answered(L, Q, id, r, status)
            /\ Q.lists = D.lists
        BY ONLY <1>9, <1>14, <1>16, <1>17, <3>2, <3>3, <3>5, <3>6, ToldBase
      <4> QED BY <4>1
    <3>8. Typed(Q, G)
      <4>1. "FORBIDDEN" \in Statuses BY Assumed
      <4> QED BY <1>14, <2>2, <4>1, RefuseTyped
    <3> QED BY <3>7, <3>8 DEF Takes
  <2> QED BY <1>11, <1>12, <2>1, <2>2
<1>19. call[p] = NoCall BY DEF Answer
<1>20. PICK c : c = NoCall OBVIOUS
<1>21. /\ Called(Q, c) /\ Held(Q, c, Rest(p)) /\ call' = [call EXCEPT ![p] = c]
  BY <1>2, <1>19, <1>20 DEF Called, Held, NoCall, Types
<1>22. PICK ahead : ahead = todo OBVIOUS
<1>23. /\ Unfetched(p, Q, ahead) /\ ahead = todo' /\ ahead \subseteq todo
  <2>1. Unfetched(p, P, todo) BY <1>3 DEF Bound
  <2> QED BY <1>2, <1>15, <1>18, <1>22, <2>1 DEF Unfetched, Keeps, Is
<1>24. Bound(Other(p)) /\ Told(Q, peer[Other(p)], Unread(Other(p)), Unread(p)) /\ Typed(Q, Mine(s, p))
  BY <1>4, <1>5, <1>6, <1>8, <1>18, Two
<1> QED BY <1>2, <1>11, <1>21, <1>23, <1>24, StaysBound

-----------------------------------------------------------------------------
\* Nothing has happened that should not, and each peer is where its call wants it.
Orderly == events = {} /\ \A p \in Peers : Bound(p)

LEMMA OrderlyInit == Init => Orderly
<1> SUFFICES ASSUME Init PROVE Orderly OBVIOUS
<1>1. events = {} BY DEF Init
<1>2. ASSUME NEW p \in Peers PROVE Bound(p)
  <2>1. PICK q \in Peers : q = Other(p) BY Two
  <2>2. PICK N : N = NewPeer OBVIOUS
  <2>3. peer[p] = N /\ peer[q] = N /\ call[p] = NoCall BY <2>1, <2>2 DEF Init
  <2>4. /\ \A id \in Ids : N.out[id] = NoMessage /\ N.in[id] = NoMessage /\ ~N.lists[id].live
        /\ N.asked = {}
    BY <2>2 DEF NewPeer, NoTransfer
  <2>5. \A id \in Ids : N.out[id].status = Absent /\ N.in[id].status = Absent
    <3>1. NoMessage.status = Absent BY DEF NoMessage
    <3> QED BY <2>4, <3>1
  <2>6. In(Unread(q)) = {}
    <3>1. Unread(q) = <<>> BY <2>1 DEF Init, Unread, Left
    <3> QED BY <3>1 DEF In
  <2>7. Tale(N, N, {})
    <3>1. Book(N) BY <2>5 DEF Book, Is
    <3>2. Noted(N, N, {}) /\ Granted(N) /\ InReply(N, N) BY <2>4, <2>5 DEF Noted, Granted, InReply, Is
    <3> QED BY <3>1, <3>2 DEF Tale
  <2>8. Called(N, NoCall) /\ Held(N, NoCall, Rest(p)) BY DEF Called, Held, NoCall
  <2>9. Unfetched(p, N, todo) BY <2>5 DEF Unfetched, Is
  <2> QED BY <2>1, <2>3, <2>6, <2>7, <2>8, <2>9 DEF Bound
<1> QED BY <1>1, <1>2 DEF Orderly

LEMMA OrderlyStep ==
  ASSUME OneWay, FetchedOnce, Session, Accounted, Orderly, FewRequests, [Next]_vars
  PROVE  Orderly'
<1>1. PICK s \in Scripts : Types(s) BY DEF Session
<1>2. \A o \in Peers : Paired(o) /\ Bound(o) BY DEF Orderly, Accounted
<1>3. events = {} BY DEF Orderly
<1>4. CASE UNCHANGED vars
  <2>1. UNCHANGED <<peer, wire, batch, done, call, todo, events>> BY <1>4 DEF vars
  <2>2. \A o : Unread(o)' = Unread(o) /\ Rest(o)' = Rest(o) BY <2>1 DEF Unread, Rest
  <2>3. \A o \in Peers : Bound(o)' BY <1>2, <2>1, <2>2 DEF Bound
  <2> QED BY <1>3, <2>1, <2>3 DEF Orderly
<1>5. ASSUME NEW p \in Peers, Poll(p) \/ PollEnds(p) PROVE Orderly'
  <2>1. events' = events BY <1>1, <1>5, PollTyped
  <2>2. \A o \in Peers : Bound(o)' BY <1>1, <1>2, <1>5, PollBound
  <2> QED BY <1>3, <2>1, <2>2 DEF Orderly
<1>6. ASSUME NEW p \in Peers, Handle(p) PROVE Orderly'
  <2>1. events' = {} /\ \A o \in Peers : Bound(o)' BY <1>1, <1>2, <1>3, <1>6, HandleBound
  <2> QED BY <2>1 DEF Orderly
<1>7. ASSUME NEW p \in Peers, Resume(p) PROVE Orderly'
  <2>1. events' = events /\ \A o \in Peers : Bound(o)' BY <1>1, <1>2, <1>7, ResumeBound
  <2> QED BY <1>3, <2>1 DEF Orderly
<1>8. ASSUME NEW p \in Peers, Answer(p) PROVE Orderly'
  <2>1. events' = events /\ \A o \in Peers : Bound(o)' BY <1>1, <1>2, <1>8, AnswerBound
  <2> QED BY <1>3, <2>1 DEF Orderly
<1>9. ASSUME NEW p \in Peers, NEW c, Call(p, c) PROVE Orderly'
  <2>1. events' = events /\ \A o \in Peers : Bound(o)' BY <1>1, <1>2, <1>9, CallBound
  <2> QED BY <1>3, <2>1 DEF Orderly
<1> QED BY <1>4, <1>5, <1>6, <1>7, <1>8, <1>9, Steps

LEMMA OrderlyAlways ==
  ASSUME OneWay, FetchedOnce
  PROVE  Spec /\ []FewRequests => [](Session /\ Accounted /\ Orderly)
<1>1. Session /\ Accounted /\ Orderly /\ FewRequests /\ [Next]_vars => Orderly' BY OrderlyStep
<1> QED BY <1>1, OrderlyInit, SessionAlways, AccountedAlways, PTL DEF Spec

\* For any calls, files, packets, pages and batches, as long as the requests are so
\* few that no id is used again: no handler and no call ends with an exception. A
\* slot and an id are left for every packet of a burst, the answer to a SEND_FILE
\* finds its upload (Peer_private.cpp:37, 159), receive_file finds its download and
\* list_files its listing whatever else the batches held before the call went on
\* (Peer.cpp:174, 199). No peer sends a file the other fetches, or fetches one twice.
THEOREM NothingThrown ==
  ASSUME OneWay, FetchedOnce
  PROVE  Spec /\ []FewRequests => []NoException
<1>1. Orderly => NoException BY DEF Orderly, NoException
<1> QED BY <1>1, OrderlyAlways, PTL

\* Under the same conditions a SEND_FILE that is accepted in reply to a RECEIVE_FILE
\* has settled that request and no other of the same path (Peer_private.cpp:82-86).
THEOREM OwnRequestAlwaysSettled ==
  ASSUME OneWay, FetchedOnce
  PROVE  Spec /\ []FewRequests => []OwnRequestSettled
<1>1. ASSUME Session, Orderly PROVE OwnRequestSettled
  <2> SUFFICES ASSUME NEW p \in Peers, NEW id \in Ids,
                      NEW m, m = peer[p].in[id], m.req.code = "SEND_FILE", m.req.ref # NoRef, m.status \in Final
               PROVE  peer[p].out[m.req.ref].status \in Final
    BY DEF OwnRequestSettled
  <2>1. PICK q \in Peers : q = Other(p) /\ Other(q) = p BY Two
  <2>2. PICK P : P = peer[p] OBVIOUS
  <2>3. PICK V : V = peer[q] OBVIOUS
  <2>4. Noted(V, P, In(Unread(p))) /\ InReply(V, P) BY <1>1, <2>1, <2>2, <2>3 DEF Orderly, Bound, Tale
  <2>5. m.status # Absent BY FinalAssumption DEF FinalAssumption
  <2>6. Is(V.out[id], "SEND_FILE") /\ V.out[id].req = m.req BY <2>2, <2>4, <2>5 DEF Noted, Is
  <2>7. P.out[V.out[id].req.ref].status = "STATUS_OK" BY <2>2, <2>4, <2>5, <2>6, InReplyOf DEF Fulfils
  <2>8. "STATUS_OK" \in Final BY SessionAssumption DEF SessionAssumption
  <2>9. peer[p].out[m.req.ref].status = "STATUS_OK" BY ONLY <2>2, <2>6, <2>7, Zenon
  <2> QED BY ONLY <2>8, <2>9, Zenon
<1> QED BY <1>1, OrderlyAlways, PTL

\* Under the same conditions nothing upsets the count of the slots
\* (MessageQueue.cpp:17-42, 56-78).
THEOREM SlotsAccountedFew ==
  ASSUME OneWay, FetchedOnce
  PROVE  Spec /\ []FewRequests => []SlotsAccounted
BY NothingThrown, SlotsAccountedOneWay, PTL
-----------------------------------------------------------------------------
\* Every open request is on its way, waits for the application, or has its answer
\* on its way.

\* A reply that is the end of the request id, which is r.
Closes(m, id, r) == Replying(m, id) /\ Recorded(r, m.status) \notin Unanswered

\* The request id, which is r, waits for the application, or its answer is among
\* what is sent back.
Served(id, r, asked, back) ==
  \/ \E a \in asked : a.id = id
  \/ \E m \in back : Closes(m, id, r) \/ Sending(m, id)

\* Every open request of S is on its way to R, waits for the application of R, or
\* has its answer on its way.
Located(S, R, to, from) ==
  \A id \in Open(S.out) : (\E m \in to : Asking(m, id)) \/ Served(id, S.out[id].req, R.asked, from)

\* The request id is not open, but for one just sent.
Shut(Q, id) == id \in Open(Q.out) => \E m \in In(Q.written) : Asking(m, id)

\* Q is P after it has written more: what is open is open already or just sent.
Adds(P, Q) ==
  /\ In(P.written) \subseteq In(Q.written) /\ P.asked \subseteq Q.asked
  /\ \A id \in Open(Q.out) : \/ id \in Open(P.out) /\ Q.out[id].req = P.out[id].req
                             \/ \E m \in In(Q.written) : Asking(m, id)

LEMMA AddsAgain ==
  ASSUME NEW P, NEW Q, NEW X, Adds(P, Q), Adds(Q, X)
  PROVE  Adds(P, X)
<1>1. ASSUME NEW id \in Open(X.out), ~\E m \in In(X.written) : Asking(m, id)
      PROVE  id \in Open(P.out) /\ X.out[id].req = P.out[id].req
  <2>1. id \in Open(Q.out) /\ X.out[id].req = Q.out[id].req BY <1>1 DEF Adds
  <2>2. ~\E m \in In(Q.written) : Asking(m, id) BY <1>1 DEF Adds
  <2> QED BY <2>1, <2>2 DEF Adds
<1> QED BY <1>1 DEF Adds

LEMMA AddsSame ==
  ASSUME NEW P, NEW Q, SameQueue(P, Q)
  PROVE  Adds(P, Q)
BY DEF SameQueue, Adds

LEMMA StaysShut ==
  ASSUME NEW Q, NEW X, NEW id, Shut(Q, id), Adds(Q, X)
  PROVE  Shut(X, id)
BY DEF Shut, Adds

LEMMA StaysServed ==
  ASSUME NEW Q, NEW X, NEW id, NEW r, Served(id, r, Q.asked, In(Q.written)), Adds(Q, X)
  PROVE  Served(id, r, X.asked, In(X.written))
BY DEF Served, Adds

\* X has written the request r.
Carried(X, r) == \E m \in In(X.written) : m.type = "REQUEST" /\ m.req = r

LEMMA AddsRequest ==
  ASSUME NEW G, Allowed(G), NEW P, Typed(P, G), NEW r \in G, NEW X, X = SendRequest(P, r)
  PROVE  /\ Adds(P, X)
         /\ X.thrown = "nothing" /\ ~X.hung => Carried(X, r)
<1>1. P \in PeerTypes /\ r \in Requests BY DEF Typed, Allowed, Referred
<1>2. PICK id : id = NewId(P) OBVIOUS
<1>3. id \in Ids BY <1>1, <1>2, Found
<1>7. P.slots \in Nat /\ (P.slots > 0 <=> P.slots # 0) BY <1>1, Maps
<1>4. CASE P.slots = 0
  <2>1. X = [P EXCEPT !.thrown = "no slot"] BY <1>4, <1>7 DEF SendRequest
  <2>2. /\ X.out = P.out /\ X.written = P.written /\ X.asked = P.asked /\ X.thrown = "no slot"
    BY <1>1, <2>1 DEF PeerTypes
  <2> QED BY <2>2 DEF Adds
<1>5. CASE P.slots # 0 /\ Open(P.out) = Ids
  <2>1. P.slots > 0 BY <1>1, <1>5, Maps
  <2>2. X = [P EXCEPT !.slots = @ - 1, !.hung = TRUE] BY <1>5, <1>7 DEF SendRequest
  <2>3. /\ X.out = P.out /\ X.written = P.written /\ X.asked = P.asked /\ X.hung
    BY <1>1, <2>2 DEF PeerTypes
  <2> QED BY <2>3 DEF Adds
<1>6. CASE P.slots # 0 /\ Open(P.out) # Ids
  <2>1. PICK m : m = [type |-> "REQUEST", id |-> id, req |-> r] OBVIOUS
  <2>2. m \in OnWire /\ m.type = "REQUEST" /\ m.req = r /\ Asking(m, id) BY <1>1, <1>3, <2>1 DEF OnWire, Asking
  <2>3. X = [P EXCEPT !.slots = @ - 1, !.next = Succ(id), !.out[id] = Message(r), !.written = Append(@, m)]
    BY <1>2, <1>6, <1>7, <2>1, Zenon DEF SendRequest
  <2>4. /\ X.out = [P.out EXCEPT ![id] = Message(r)] /\ X.written = Append(P.written, m) /\ X.asked = P.asked
    BY <1>1, <2>3 DEF PeerTypes
  <2>5. In(X.written) = In(P.written) \cup {m}
    <3>1. P.written \in Seq(OnWire) BY <1>1, Maps
    <3> QED BY <2>2, <2>4, <3>1, InAppend
  <2>6. \A o \in Ids : o # id => X.out[o] = P.out[o]
    <3>1. P.out \in [Ids -> Messages] BY <1>1, Maps
    <3> QED BY <2>4, <3>1
  <2>7. ASSUME NEW o \in Open(X.out), o # id PROVE o \in Open(P.out) /\ X.out[o].req = P.out[o].req
    BY <2>6, <2>7 DEF Open
  <2>8. Adds(P, X) BY <2>2, <2>4, <2>5, <2>7 DEF Adds
  <2> QED BY <2>2, <2>5, <2>8 DEF Carried
<1> QED BY <1>4, <1>5, <1>6

LEMMA AddsPacket ==
  ASSUME NEW G, Allowed(G), NEW P, Typed(P, G), NEW id \in Ids, P.uploads[id].left > 0
  PROVE  Adds(P, SendPacket(P, id))
<1> DEFINE fewer == [P.uploads EXCEPT ![id].left = @ - 1]
           r == Req("DATA_PACKET", P.uploads[id].file, id, P.uploads[id].left = 1)
           base == [P EXCEPT !.uploads = fewer]
<1>1. r \in G /\ fewer \in Transfers BY PacketSent
<1> HIDE DEF fewer
<1>2. SameQueue(P, base) BY <1>1, UpdateSame DEF Typed
<1>3. SendPacket(P, id) = SendRequest(base, r) BY DEF SendPacket, fewer
<1> HIDE DEF r, base
<1>4. Typed(base, G) /\ Adds(P, base) BY <1>2, SameTyped, AddsSame
<1>5. Adds(base, SendRequest(base, r)) BY <1>1, <1>4, AddsRequest
<1> QED BY <1>3, <1>4, <1>5, AddsAgain

LEMMA AddsPage ==
  ASSUME NEW G, Allowed(G), NEW P, Typed(P, G), NEW id \in Ids, P.lists[id].left > 0
  PROVE  Adds(P, SendPage(P, id))
<1> DEFINE fewer == [P.lists EXCEPT ![id].left = @ - 1]
           r == Req("FILE_LIST", P.lists[id].file, id, P.lists[id].left = 1)
           base == [P EXCEPT !.lists = fewer]
<1>1. r \in G /\ fewer \in Transfers BY PageSent
<1> HIDE DEF fewer
<1>2. SameQueue(P, base) BY <1>1, UpdateSame DEF Typed
<1>3. SendPage(P, id) = SendRequest(base, r) BY DEF SendPage, fewer
<1> HIDE DEF r, base
<1>4. Typed(base, G) /\ Adds(P, base) BY <1>2, SameTyped, AddsSame
<1>5. Adds(base, SendRequest(base, r)) BY <1>1, <1>4, AddsRequest
<1> QED BY <1>3, <1>4, <1>5, AddsAgain

LEMMA AddsPackets ==
  ASSUME NEW G, Allowed(G), NEW P, Typed(P, G), NEW id \in Ids, NEW n \in Nat, n <= P.uploads[id].left
  PROVE  Adds(P, SendPackets(P, id, n))
<1>0. PICK g : Sent(g, P, id, n) BY Bursts, Zenon
<1>1. g[0] = P /\ g[n] = SendPackets(P, id, n) /\ \A i \in 1 .. n : g[i] = SendPacket(g[i - 1], id)
  BY <1>0 DEF Sent
<1> DEFINE good(i) == Typed(g[i], G) /\ g[i].uploads[id].left = P.uploads[id].left - i /\ Adds(P, g[i])
           bad == {i \in 0 .. n : ~good(i)}
<1>2. P.uploads[id].left \in Nat
  <2>1. P.uploads[id] \in Transferred BY TransferType DEF Typed, PeerTypes
  <2>2. P.uploads[id].left \in 0 .. Packets + Pages /\ Packets \in Nat /\ Pages \in Nat
    BY <2>1, Assumed DEF Transferred
  <2> QED BY <2>2
<1>3. bad = {}
  <2> SUFFICES ASSUME bad # {} PROVE FALSE OBVIOUS
  <2>1. PICK i \in bad : \A j \in bad : i <= j
    <3>1. bad \subseteq Nat OBVIOUS
    <3> HIDE DEF bad
    <3> QED BY <3>1, LeastNumber
  <2>2. good(0)
    <3>1. Adds(P, P) BY DEF Adds
    <3> QED BY <1>1, <1>2, <3>1
  <2>3. i # 0 /\ i \in 1 .. n BY <2>1, <2>2
  <2>4. good(i - 1) /\ i - 1 \in Nat BY <2>1, <2>3
  <2>5. g[i - 1].uploads[id].left > 0 BY <1>2, <2>3, <2>4
  <2>6. Typed(g[i], G) /\ g[i].uploads[id].left = g[i - 1].uploads[id].left - 1
    BY <1>1, <2>3, <2>4, <2>5, SendPacketTyped
  <2>7. Adds(g[i - 1], g[i]) BY <1>1, <2>3, <2>4, <2>5, AddsPacket
  <2>8. Adds(P, g[i]) BY <2>4, <2>7, AddsAgain
  <2>9. good(i) BY <1>2, <2>3, <2>4, <2>6, <2>8
  <2> QED BY <2>1, <2>9
<1>4. n \in 0 .. n OBVIOUS
<1>5. good(n) BY <1>3, <1>4
<1> QED BY <1>1, <1>5

LEMMA AddsUpload ==
  ASSUME NEW G, Allowed(G), NEW P, Typed(P, G), NEW f \in Files, NEW ref \in Ids \cup {NoRef},
         NEW r \in G, r = Req("SEND_FILE", f, ref, FALSE), NEW X, X = CreateUpload(P, f, ref)
  PROVE  /\ Adds(P, X)
         /\ X.thrown = "nothing" /\ ~X.hung => Carried(X, r)
<1>1. PICK Q : Q = SendRequest(P, r) OBVIOUS
<1>2. Typed(Q, G) BY <1>1, SendRequestTyped
<1>3. Adds(P, Q) /\ (Q.thrown = "nothing" /\ ~Q.hung => Carried(Q, r))
  BY <1>1, AddsRequest
<1>4. PICK t : t = [Q.uploads EXCEPT ![NewId(P)] = Emplaced(@, Transfer(f, Packets))] OBVIOUS
<1>5. t \in Transfers
  <2>1. Q.uploads \in [Ids -> Transferred] /\ Transfer(f, Packets) \in Transferred /\ NewId(P) \in Ids
    BY <1>2, TransferType, Found DEF Typed, PeerTypes
  <2> QED BY <1>4, <2>1, TransferType
<1>6. X = Q \/ X = [Q EXCEPT !.uploads = t]
  BY <1>1, <1>4 DEF CreateUpload
<1>7. SameQueue(Q, X) BY <1>2, <1>5, <1>6, UpdateSame DEF Typed
<1>8. Adds(P, X) BY <1>3, <1>7, AddsSame, AddsAgain
<1> QED BY <1>3, <1>7, <1>8 DEF SameQueue, Carried

LEMMA FinalClosed == \A status \in Final : status \in Statuses /\ status \notin Unanswered
BY FinalAssumption DEF FinalAssumption, Statuses, Unanswered

\* X has written the reply status to request id.
Tells(X, id, status) == \E m \in In(X.written) : Replying(m, id) /\ m.status = status

LEMMA AddsReply ==
  ASSUME NEW P \in PeerTypes, NEW id \in Ids, NEW status \in Statuses, NEW X, X = SendReply(P, id, status)
  PROVE  Adds(P, X) /\ Tells(X, id, status)
<1>1. PICK m : m = [type |-> "RESPONSE", id |-> id, status |-> status] OBVIOUS
<1>2. m \in OnWire /\ Replying(m, id) /\ m.status = status BY <1>1 DEF OnWire, Replying
<1>3. X.out = P.out /\ X.asked = P.asked /\ X.written = Append(P.written, m) BY <1>1 DEF SendReply, PeerTypes
<1>4. In(X.written) = In(P.written) \cup {m}
  <2>1. P.written \in Seq(OnWire) BY Maps
  <2> QED BY <1>2, <1>3, <2>1, InAppend
<1> QED BY <1>2, <1>3, <1>4 DEF Adds, Tells

LEMMA AddsSettle ==
  ASSUME NEW P \in PeerTypes, NEW id \in Ids, NEW status \in Statuses, NEW Q, Q = Settle(P, id, status),
         id \in Open(P.out) \/ status \notin Unanswered
  PROVE  Adds(P, Q) /\ (status \notin Unanswered => Shut(Q, id))
<1>1. /\ Q.out[id].status = status /\ Q.out[id].req = P.out[id].req
      /\ \A o \in Ids : o # id => Q.out[o] = P.out[o]
      /\ Q.asked = P.asked /\ Q.written = P.written
  BY Settles
<1>2. ASSUME NEW o \in Open(Q.out) PROVE o \in Open(P.out) /\ Q.out[o].req = P.out[o].req
  <2>1. CASE o = id BY <1>1, <1>2, <2>1 DEF Open
  <2>2. CASE o # id BY <1>1, <1>2, <2>2 DEF Open
  <2> QED BY <2>1, <2>2
<1> QED BY <1>1, <1>2 DEF Adds, Shut, Open

LEMMA AddsFollowed ==
  ASSUME NEW G, Allowed(G), NEW Q, Typed(Q, G), NEW id \in Ids, NEW r \in G, NEW X, Follows(X, Q, id, r)
  PROVE  Adds(Q, X)
<1>1. /\ r \in Requests /\ r.file \in Files /\ (r.code \in {"DATA_PACKET", "FILE_LIST"} => r.ref \in Ids)
  BY Assumed DEF Allowed, Referred
<1>2. Q \in PeerTypes BY DEF Typed
<1>3. Q.uploads \in [Ids -> Transferred] /\ Q.listings \in [Ids -> Transferred] BY <1>2, Maps
<1>4. CASE X = Q /\ r.code # "LIST_FILES" BY <1>4 DEF Adds
<1>5. CASE r.code = "DATA_PACKET" /\ Q.uploads[r.ref].live /\ Q.uploads[r.ref].left > 0 /\ X = SendPacket(Q, r.ref)
  BY <1>1, <1>5, AddsPacket
<1>6. ASSUME NEW o \in Ids, X = [Q EXCEPT !.uploads[o] = NoTransfer] PROVE Adds(Q, X)
  <2>1. PICK t : t = [Q.uploads EXCEPT ![o] = NoTransfer] OBVIOUS
  <2>2. t \in Transfers BY <1>3, <2>1, TransferType
  <2>3. X = [Q EXCEPT !.uploads = t] BY <1>6, <2>1
  <2>4. SameQueue(Q, X) BY <1>2, <2>2, <2>3, UpdateSame
  <2> QED BY <2>4, AddsSame
<1>7. CASE r.code = "DATA_PACKET" /\ X = [Q EXCEPT !.uploads[r.ref] = NoTransfer] BY <1>1, <1>6, <1>7
<1>8. CASE r.code = "SEND_FILE" /\ X = SendPackets(Q, id, BurstOf(Q, id))
  <2>1. BurstOf(Q, id) \in Nat /\ BurstOf(Q, id) <= Q.uploads[id].left BY BurstBounds
  <2>2. PICK n \in Nat : n = BurstOf(Q, id) BY <2>1
  <2>3. Adds(Q, SendPackets(Q, id, n)) BY <2>1, <2>2, AddsPackets
  <2> QED BY <1>8, <2>2, <2>3
<1>9. CASE r.code = "LIST_FILES" /\ X = [Q EXCEPT !.listings[id] = Emplaced(@, Transfer(r.file, 1))]
  <2>1. PICK t : t = [Q.listings EXCEPT ![id] = Emplaced(@, Transfer(r.file, 1))] OBVIOUS
  <2>2. t \in Transfers
    <3>1. Transfer(r.file, 1) \in Transferred BY <1>1, TransferType
    <3> QED BY <1>3, <2>1, <3>1, TransferType
  <2>3. X = [Q EXCEPT !.listings = t] BY <1>9, <2>1
  <2>4. SameQueue(Q, X) BY <1>2, <2>2, <2>3, UpdateSame
  <2> QED BY <2>4, AddsSame
<1>10. CASE r.code = "FILE_LIST" /\ Q.lists[r.ref].live /\ Q.lists[r.ref].left > 0 /\ X = SendPage(Q, r.ref)
  BY <1>1, <1>10, AddsPage
<1>11. CASE r.code = "FILE_LIST" /\ X = [Q EXCEPT !.uploads[id] = NoTransfer] BY <1>6, <1>11
<1> QED BY <1>4, <1>5, <1>7, <1>8, <1>9, <1>10, <1>11 DEF Follows

\* A reply is recorded.
LEMMA AddsReceived ==
  ASSUME NEW G, Allowed(G), NEW P, Typed(P, G), NEW id \in Ids, id \in Open(P.out), NEW reply \in Statuses,
         NEW r, r = P.out[id].req, NEW X, X = ReceiveReply(P, id, reply)
  PROVE  Adds(P, X) /\ (Recorded(r, reply) \notin Unanswered => Shut(X, id))
<1>1. P \in PeerTypes BY DEF Typed
<1>2. P.out[id].status # Absent BY DEF Open, Unanswered, None, Absent, Pending
<1>3. PICK status \in Statuses : status = Recorded(r, reply) BY RecordedType
<1>4. PICK Q : Q = Settle(P, id, status) OBVIOUS
<1>5. Typed(Q, G) BY <1>2, <1>4, SettleTyped
<1>6. r \in G BY <1>2 DEF Typed
<1>7. Adds(P, Q) /\ (status \notin Unanswered => Shut(Q, id)) BY <1>1, <1>4, AddsSettle, Zenon
<1>8. X = Q \/ Follows(X, Q, id, r) \/ X = [Q EXCEPT !.thrown = "no upload"]
  <2>1. X = CASE status # "STATUS_OK" -> Q
              [] status = "STATUS_OK" /\ r.code = "DATA_PACKET" ->
                   IF ~Q.uploads[r.ref].live THEN Q
                   ELSE IF Q.uploads[r.ref].left > 0 THEN SendPacket(Q, r.ref)
                   ELSE [Q EXCEPT !.uploads[r.ref] = NoTransfer]
              [] status = "STATUS_OK" /\ r.code = "SEND_FILE" ->
                   IF ~Q.uploads[id].live THEN [Q EXCEPT !.thrown = "no upload"]
                   ELSE SendPackets(Q, id, BurstOf(Q, id))
              [] status = "STATUS_OK" /\ r.code = "LIST_FILES" ->
                   [Q EXCEPT !.listings[id] = Emplaced(@, Transfer(r.file, 1))]
              [] status = "STATUS_OK" /\ r.code = "FILE_LIST" ->
                   IF ~Q.lists[r.ref].live THEN Q
                   ELSE IF Q.lists[r.ref].left > 0 THEN SendPage(Q, r.ref)
                   ELSE [Q EXCEPT !.uploads[id] = NoTransfer]
              [] OTHER -> Q
    BY <1>3, <1>4, Zenon DEF ReceiveReply, BurstOf
  <2> QED BY <2>1, Zenon DEF Follows
<1>9. CASE X = [Q EXCEPT !.thrown = "no upload"]
  <2>1. X.out = Q.out /\ X.written = Q.written /\ X.asked = Q.asked BY <1>5, <1>9 DEF Typed, PeerTypes
  <2>2. Adds(Q, X) BY <2>1 DEF Adds
  <2> QED BY <1>3, <1>7, <2>2, AddsAgain, StaysShut
<1>10. CASE Follows(X, Q, id, r)
  <2>1. Adds(Q, X) BY <1>5, <1>6, <1>10, AddsFollowed
  <2> QED BY <1>3, <1>7, <2>1, AddsAgain, StaysShut
<1> QED BY <1>3, <1>7, <1>8, <1>9, <1>10

\* A final reply is all the answer a request needs, but for that to a RECEIVE_FILE.
LEMMA ServedReply ==
  ASSUME NEW X, NEW id, NEW status \in Final, Tells(X, id, status), NEW r,
         r.code = "RECEIVE_FILE" => status # "STATUS_OK"
  PROVE  Served(id, r, X.asked, In(X.written))
<1>1. Recorded(r, status) \notin Unanswered
  <2>1. Recorded(r, status) = status BY DEF Recorded
  <2> QED BY <2>1, FinalClosed
<1> QED BY <1>1 DEF Tells, Served, Closes

LEMMA AddsResponded ==
  ASSUME NEW G, Allowed(G), NEW P, Typed(P, G), NEW id \in Ids, NEW r \in Requests, NEW current \in BOOLEAN,
         NEW X, X = Respond(P, id, r, current),
         r.code = "SEND_FILE" \/ (X.thrown = "nothing" /\ ~X.hung)
  PROVE  Adds(P, X) /\ Served(id, r, X.asked, In(X.written))
<1>1. P \in PeerTypes BY DEF Typed
<1>2. PICK ok \in Final : ok = "STATUS_OK" BY SessionAssumption DEF SessionAssumption
<1>3. ok \in Statuses BY FinalClosed
<1>4. ASSUME NEW Q, SameQueue(P, Q), NEW status \in Final, NEW Y, Y = SendReply(Q, id, status)
      PROVE  Typed(Y, G) /\ Adds(P, Y) /\ Tells(Y, id, status)
  <2>1. Q \in PeerTypes /\ Typed(Q, G) /\ Adds(P, Q) /\ status \in Statuses
    BY <1>4, SameTyped, AddsSame, FinalClosed DEF SameQueue
  <2>2. Adds(Q, Y) /\ Tells(Y, id, status) BY <1>4, <2>1, AddsReply
  <2>3. Typed(Y, G) BY <1>4, <2>1, SendReplyTyped
  <2> QED BY <2>1, <2>2, <2>3, AddsAgain
<1>5. CASE r.code = "RECEIVE_FILE"
  <2>1. PICK Q : Q = [P EXCEPT !.in[id] = Message(r)] OBVIOUS
  <2>2. SameQueue(P, Q) BY <1>1, <2>1, ReceivedSame
  <2>3. PICK none \in Final : none = "FILE_NOT_FOUND" /\ none # "STATUS_OK"
    BY SessionAssumption DEF SessionAssumption
  <2>4. PICK Y : Y = SendReply(Q, id, ok) OBVIOUS
  <2>5. X = SendReply(Q, id, none) \/ X = CreateUpload(Y, r.file, id)
    BY <1>2, <1>5, <2>1, <2>3, <2>4 DEF Respond
  <2>6. CASE X = SendReply(Q, id, none)
    <3>1. Adds(P, X) /\ Tells(X, id, none) BY <1>4, <2>2, <2>6
    <3> QED BY <2>3, <3>1, ServedReply
  <2>7. CASE X = CreateUpload(Y, r.file, id)
    <3>1. Typed(Y, G) /\ Adds(P, Y) BY <1>4, <2>2, <2>4
    <3>2. PICK f \in Files : f = r.file BY Assumed
    <3>3. PICK q : q = Req("SEND_FILE", f, id, FALSE) OBVIOUS
    <3>4. q \in Requests BY <3>3, RequestType DEF RequestCodes
    <3>5. q \in G /\ q.code = "SEND_FILE" /\ q.ref = id BY <3>3, <3>4 DEF Allowed, Plain, Req
    <3>6. Adds(Y, X) /\ Carried(X, q)
      <4>1. X = CreateUpload(Y, f, id) /\ q = Req("SEND_FILE", f, id, FALSE) BY <2>7, <3>2, <3>3
      <4>2. X.thrown = "nothing" /\ ~X.hung BY <1>5
      <4>3. id \in Ids \cup {NoRef} /\ q \in G BY <3>5
      <4>4. Adds(Y, X) /\ (X.thrown = "nothing" /\ ~X.hung => Carried(X, q)) BY <3>1, <4>1, <4>3, AddsUpload
      <4> QED BY <4>2, <4>4
    <3>7. Served(id, r, X.asked, In(X.written)) BY <3>5, <3>6 DEF Carried, Served, Sending
    <3> QED BY <3>1, <3>6, <3>7, AddsAgain
  <2> QED BY <2>5, <2>6, <2>7
<1>6. CASE r.code = "SEND_FILE"
  <2>1. PICK Q : Q = [P EXCEPT !.in[id] = Message(r)] OBVIOUS
  <2>2. SameQueue(P, Q) /\ Q \in PeerTypes
    <3>1. SameQueue(P, Q) BY <1>1, <2>1, ReceivedSame
    <3> QED BY <3>1 DEF SameQueue
  <2>3. PICK t : t = [Q.downloads EXCEPT ![id] = Emplaced(@, Transfer(r.file, 1))] OBVIOUS
  <2>4. t \in Transfers
    <3>1. r.file \in Files BY Assumed
    <3>2. Transfer(r.file, 1) \in Transferred BY <3>1, TransferType
    <3>3. Q.downloads \in [Ids -> Transferred] BY <2>2, Maps
    <3> QED BY <2>3, <3>2, <3>3, TransferType
  <2>5. PICK D : D = [Q EXCEPT !.downloads = t] OBVIOUS
  <2>6. SameQueue(P, D) BY <2>2, <2>4, <2>5, UpdateSame, SameAgain
  <2>7. PICK same \in Final : same = "UP_TO_DATE" BY SessionAssumption DEF SessionAssumption
  <2>8. X = SendReply(Q, id, same) \/ X = SendReply(D, id, ok)
    BY <1>2, <1>6, <2>1, <2>3, <2>5, <2>7 DEF Respond
  <2>9. \E status \in Final : Adds(P, X) /\ Tells(X, id, status) BY <1>4, <2>2, <2>6, <2>8
  <2> QED BY <1>6, <2>9, ServedReply
<1>7. CASE r.code \notin {"RECEIVE_FILE", "SEND_FILE"}
  <2>1. PICK Q : SameQueue(P, Q) /\ Responds(Q, X, id, r) BY <1>1, Responses
  <2>2. PICK Y : Y = SendReply(Q, id, ok) OBVIOUS
  <2>3. Typed(Y, G) /\ Adds(P, Y) /\ Tells(Y, id, ok) BY <1>4, <2>1, <2>2
  <2>4. \/ \E status \in Final : X = SendReply(Q, id, status)
        \/ X = [Y EXCEPT !.thrown = "no page"]
        \/ Y.lists[id].left > 0 /\ X = SendPage(Y, id)
    BY <1>2, <1>7, <2>1, <2>2 DEF Responds
  <2>5. ASSUME NEW status \in Final, X = SendReply(Q, id, status) PROVE Adds(P, X) /\ Served(id, r, X.asked, In(X.written))
    <3>1. Adds(P, X) /\ Tells(X, id, status) BY <1>4, <2>1, <2>5
    <3> QED BY <1>7, <3>1, ServedReply
  <2>6. X # [Y EXCEPT !.thrown = "no page"]
    <3>1. ASSUME X = [Y EXCEPT !.thrown = "no page"] PROVE X.thrown = "no page"
      BY <2>3, <3>1 DEF Typed, PeerTypes
    <3>2. X.thrown = "nothing" BY <1>7
    <3> QED BY <3>1, <3>2
  <2>7. CASE Y.lists[id].left > 0 /\ X = SendPage(Y, id)
    <3>1. Adds(Y, X) BY <2>3, <2>7, AddsPage
    <3>2. Served(id, r, Y.asked, In(Y.written)) BY <1>7, <2>3, ServedReply
    <3> QED BY <2>3, <3>1, <3>2, AddsAgain, StaysServed
  <2> QED BY <2>4, <2>5, <2>6, <2>7
<1> QED BY <1>5, <1>6, <1>7

\* P, which has become Q, has done what m asks for.
Dealt(m, P, Q, V) ==
  \A id \in Ids :
    /\ Asking(m, id) => Served(id, V.out[id].req, Q.asked, In(Q.written))
    /\ Closes(m, id, P.out[id].req) \/ Sending(m, id) => Shut(Q, id)

\* P becomes Q and goes on with what is left of the messages for it, mine.
Fares(P, Q, V, mine, left) ==
  /\ \A id \in Open(Q.out) : \/ id \in Open(P.out) /\ Q.out[id].req = P.out[id].req
                             \/ \E m \in In(Q.written) : Asking(m, id)
  /\ \A a \in P.asked : a \in Q.asked \/ Served(a.id, V.out[a.id].req, Q.asked, In(Q.written))
  /\ \A m \in mine : m \in left \/ Dealt(m, P, Q, V)

LEMMA AddsFares ==
  ASSUME NEW P, NEW Q, Adds(P, Q), NEW V, NEW mine
  PROVE  Fares(P, Q, V, mine, mine)
BY DEF Adds, Fares

LEMMA FaresLocated ==
  ASSUME NEW P, NEW Q, NEW V, NEW mine, NEW left, Fares(P, Q, V, mine, left), NEW w,
         Located(P, V, w, mine), Located(V, P, mine, w)
  PROVE  Located(Q, V, w \cup In(Q.written), left) /\ Located(V, Q, left, w \cup In(Q.written))
<1>1. ASSUME NEW id \in Open(Q.out), ~\E m \in w \cup In(Q.written) : Asking(m, id)
      PROVE  Served(id, Q.out[id].req, V.asked, left)
  <2>1. id \in Ids BY DEF Open
  <2>2. id \in Open(P.out) /\ Q.out[id].req = P.out[id].req BY <1>1 DEF Fares
  <2>3. Served(id, P.out[id].req, V.asked, mine) BY <1>1, <2>2 DEF Located
  <2>4. ASSUME NEW m \in mine, Closes(m, id, P.out[id].req) \/ Sending(m, id) PROVE m \in left
    <3>1. ~Shut(Q, id) BY <1>1 DEF Shut
    <3> QED BY <2>1, <2>4, <3>1 DEF Fares, Dealt
  <2> QED BY <2>2, <2>3, <2>4 DEF Served
<1>2. ASSUME NEW id \in Open(V.out), ~\E m \in left : Asking(m, id)
      PROVE  Served(id, V.out[id].req, Q.asked, w \cup In(Q.written))
  <2>1. id \in Ids BY DEF Open
  <2> SUFFICES ASSUME ~Served(id, V.out[id].req, Q.asked, In(Q.written))
               PROVE  Served(id, V.out[id].req, Q.asked, w \cup In(Q.written))
    BY DEF Served
  <2>2. ~\E m \in mine : Asking(m, id) BY <1>2, <2>1 DEF Fares, Dealt
  <2>3. Served(id, V.out[id].req, P.asked, w) BY <2>2 DEF Located
  <2>4. ASSUME NEW a \in P.asked, a.id = id PROVE a \in Q.asked BY <2>4 DEF Fares
  <2> QED BY <2>3, <2>4 DEF Served
<1> QED BY <1>1, <1>2 DEF Located

Lodged(p) == Located(peer[p], peer[Other(p)], In(Unread(Other(p))), In(Unread(p)))

LEMMA BecomesLodged ==
  ASSUME NEW s, Types(s), NEW p \in Peers, NEW Q, Typed(Q, Mine(s, p)), Becomes(p, Q),
         NEW mine \in Seq(OnWire), mine = Unread(p)',
         Fares(peer[p], Q, peer[Other(p)], In(Unread(p)), In(mine)),
         \A o \in Peers : Lodged(o),
         batch'[Other(p)] = batch[Other(p)], done'[Other(p)] = done[Other(p)]
  PROVE  \A o \in Peers : Lodged(o)'
<1>1. PICK q \in Peers : q = Other(p) /\ q # p /\ Other(q) = p /\ \A o \in Peers : o = p \/ o = q BY Two
<1>2. PICK V : V = peer[q] OBVIOUS
<1>3. PICK w : w = Unread(q) OBVIOUS
<1>4. PICK P : P = peer[p] OBVIOUS
<1> DEFINE N == [Q EXCEPT !.written = <<>>, !.thrown = "nothing"]
<1>5. Q \in PeerTypes /\ Q.written \in Seq(OnWire) BY DEF Typed, PeerTypes
<1>6. N.out = Q.out /\ N.asked = Q.asked BY <1>5 DEF PeerTypes
<1>7. peer' = [peer EXCEPT ![p] = N] /\ wire' = [wire EXCEPT ![q] = @ \o Q.written] BY <1>1 DEF Becomes
<1> HIDE DEF N
<1>8. peer'[p] = N /\ peer'[q] = V /\ wire'[q] = wire[q] \o Q.written
  BY <1>1, <1>2, <1>7 DEF Types, PeersTyped, Carries
<1>9. Unread(q)' = w \o Q.written /\ w \in Seq(OnWire)
  <2>1. batch'[q] = batch[q] /\ done'[q] = done[q] BY <1>1
  <2>2. PICK x : x = Q.written OBVIOUS
  <2>3. x \in Seq(OnWire) /\ wire'[q] = wire[q] \o x BY <1>5, <1>8, <2>2
  <2>4. w \in Seq(OnWire) BY <1>3, Contexts
  <2> QED BY <1>3, <2>1, <2>2, <2>3, <2>4, UnreadGrows
<1>10. In(Unread(q)') = In(w) \cup In(Q.written) BY <1>5, <1>9, InBoth
<1>11. Located(P, V, In(w), In(Unread(p))) /\ Located(V, P, In(Unread(p)), In(w))
  BY <1>1, <1>2, <1>3, <1>4 DEF Lodged
<1>12. Fares(P, Q, V, In(Unread(p)), In(mine)) BY <1>1, <1>2, <1>4
<1>13. Located(Q, V, In(w) \cup In(Q.written), In(mine)) /\ Located(V, Q, In(mine), In(w) \cup In(Q.written))
  BY <1>11, <1>12, FaresLocated
<1>14. Located(N, V, In(w) \cup In(Q.written), In(mine)) /\ Located(V, N, In(mine), In(w) \cup In(Q.written))
  BY <1>6, <1>13 DEF Located
<1>15. Lodged(p)'
  <2>1. Located(peer'[p], peer'[Other(p)], In(Unread(Other(p))'), In(Unread(p)'))
    BY <1>1, <1>8, <1>10, <1>14
  <2> QED BY <2>1 DEF Lodged
<1>16. Lodged(q)'
  <2>1. Located(peer'[q], peer'[Other(q)], In(Unread(Other(q))'), In(Unread(q)'))
    BY <1>1, <1>8, <1>10, <1>14
  <2> QED BY <2>1 DEF Lodged
<1> QED BY <1>1, <1>15, <1>16

\* A step of p that takes no message.
LEMMA StaysLodged ==
  ASSUME NEW s, Types(s), NEW p \in Peers, NEW Q, Typed(Q, Mine(s, p)), Becomes(p, Q),
         Fares(peer[p], Q, peer[Other(p)], In(Unread(p)), In(Unread(p))),
         \A o \in Peers : Lodged(o), UNCHANGED <<batch, done>>
  PROVE  \A o \in Peers : Lodged(o)'
<1>1. Other(p) \in Peers /\ Other(p) # p BY Two
<1>2. wire'[p] = wire[p] BY <1>1 DEF Becomes, Types, Carries
<1>3. PICK mine \in Seq(OnWire) : mine = Unread(p) BY Contexts
<1>4. mine = Unread(p)' BY <1>2, <1>3 DEF Unread
<1>5. batch'[Other(p)] = batch[Other(p)] /\ done'[Other(p)] = done[Other(p)] OBVIOUS
<1> QED BY <1>3, <1>4, <1>5, BecomesLodged

\* P has handled the first message.
LEMMA FaresFirst ==
  ASSUME NEW P, NEW Q, Adds(P, Q), NEW V, NEW mine \in Seq(OnWire), mine # <<>>, NEW m, m = mine[1], Dealt(m, P, Q, V)
  PROVE  Fares(P, Q, V, In(mine), In(Tail(mine)))
<1>1. In(mine) \subseteq In(Tail(mine)) \cup {m} 
  <2>1. /\ Len(mine) \in Nat /\ Len(Tail(mine)) = Len(mine) - 1
        /\ \A i \in 1 .. Len(mine) - 1 : Tail(mine)[i] = mine[i + 1]
    BY Taking
  <2>2. ASSUME NEW i \in 1 .. Len(mine), i # 1 PROVE mine[i] \in In(Tail(mine))
    <3>1. PICK j \in 1 .. Len(mine) - 1 : j = i - 1 BY <2>1, <2>2
    <3>2. Tail(mine)[j] = mine[i] BY <2>1, <3>1
    <3> QED BY <2>1, <3>2 DEF In
  <2> QED BY <2>2 DEF In
<1>2. \A x \in In(mine) : x \in In(Tail(mine)) \/ Dealt(x, P, Q, V) BY <1>1
<1> QED BY <1>2 DEF Adds, Fares

\* P handles a reply.
LEMMA FaresReply ==
  ASSUME NEW G, Allowed(G), NEW P, Typed(P, G), NEW V, NEW mine, NEW w, Context(V, mine, w), NEW F,
         Sound(P, V, mine, w, F), mine # <<>>, NEW m \in OnWire, m = mine[1], m.type = "RESPONSE",
         NEW X \in Handled(P, m)
  PROVE  Fares(P, X, V, In(mine), In(Tail(mine)))
<1> DEFINE sent == w \o P.written
<1>1. mine \in Seq(OnWire) BY DEF Context
<1>2. PICK id \in Ids, reply \in Statuses : id = m.id /\ reply = m.status BY DEF OnWire
<1>3. Half(P.out, V.asked, sent, mine) BY DEF Sound
<1>4. Replying(mine[1], id) BY <1>2 DEF Replying
<1> HIDE DEF sent
<1>5. id \in Open(P.out) BY <1>1, <1>3, <1>4, FirstReply
<1>6. PICK r : r = P.out[id].req OBVIOUS
<1>7. X = ReceiveReply(P, id, reply)
  <2>1. P.out[id].status # Absent BY <1>5 DEF Open, Unanswered, None, Absent, Pending
  <2> QED BY <1>2, <2>1 DEF Handled
<1>8. Adds(P, X) /\ (Recorded(r, reply) \notin Unanswered => Shut(X, id)) BY <1>5, <1>6, <1>7, AddsReceived
<1>9. Dealt(m, P, X, V)
  <2> SUFFICES ASSUME NEW o \in Ids PROVE /\ ~Asking(m, o) /\ ~Sending(m, o)
                                          /\ Closes(m, o, P.out[o].req) => Shut(X, o)
    BY DEF Dealt
  <2>1. ~Asking(m, o) /\ ~Sending(m, o) BY DEF Asking, Sending
  <2>2. Closes(m, o, P.out[o].req) => o = id /\ Recorded(r, reply) \notin Unanswered
    BY <1>2, <1>6 DEF Closes, Replying
  <2> QED BY <1>8, <2>1, <2>2
<1> QED BY <1>1, <1>8, <1>9, FaresFirst

\* P handles a request.
LEMMA FaresRequest ==
  ASSUME NEW G, Allowed(G), NEW P, Typed(P, G), NEW V, NEW mine, NEW w, Context(V, mine, w),
         Told(P, V, w, mine), mine # <<>>, NEW m \in OnWire, m = mine[1], m.type = "REQUEST",
         m.req.code = "SEND_FILE" /\ m.req.ref = NoRef => Matches(P, m.req) = {},
         NEW X \in Handled(P, m), X.thrown = "nothing", ~X.hung
  PROVE  Fares(P, X, V, In(mine), In(Tail(mine)))
<1>1. P \in PeerTypes /\ mine \in Seq(OnWire) /\ V \in PeerTypes BY DEF Typed, Context
<1>2. PICK id \in Ids, r \in Requests : id = m.id /\ r = m.req BY DEF OnWire
<1>3. X \in Authorized(P, id, r) BY <1>2 DEF Handled
<1>4. V.out[id].req = r /\ Is(V.out[id], r.code)
  <2>1. m \in In(mine) BY <1>1, InTail
  <2>2. V.out[id] = Message(r) BY <1>2, <2>1 DEF Told, Tale, Noted
  <2> QED BY <2>2 DEF Message, Is, None, Absent
<1>5. r.code = "SEND_FILE" /\ r.ref # NoRef =>
         r.ref \in Ids /\ Is(P.out[r.ref], "RECEIVE_FILE") /\ P.out[r.ref].req.file = r.file
  <2> SUFFICES ASSUME r.ref # NoRef, r.code = "SEND_FILE"
               PROVE  r.ref \in Ids /\ Is(P.out[r.ref], "RECEIVE_FILE") /\ P.out[r.ref].req.file = r.file
    OBVIOUS
  <2>1. InReply(V, P) BY DEF Told, Tale
  <2>2. Is(V.out[id], "SEND_FILE") /\ r.ref = V.out[id].req.ref BY <1>4
  <2>3. Is(P.out[r.ref], "RECEIVE_FILE") /\ P.out[r.ref].req.file = V.out[id].req.file
    BY <2>1, <2>2, InReplyOf DEF Fulfils
  <2>4. r.ref \in Ids BY Assumed
  <2> QED BY <1>4, <2>3, <2>4
<1>6. ASSUME Adds(P, X), Served(id, r, X.asked, In(X.written)),
             r.code = "SEND_FILE" /\ r.ref # NoRef => Shut(X, r.ref)
      PROVE  Fares(P, X, V, In(mine), In(Tail(mine)))
  <2> SUFFICES Dealt(m, P, X, V) BY <1>1, <1>6, FaresFirst
  <2> SUFFICES ASSUME NEW o \in Ids
               PROVE  /\ Asking(m, o) => Served(o, V.out[o].req, X.asked, In(X.written))
                      /\ ~Closes(m, o, P.out[o].req) /\ (Sending(m, o) => Shut(X, o))
    BY DEF Dealt
  <2>1. ~Closes(m, o, P.out[o].req) BY DEF Closes, Replying
  <2>2. Asking(m, o) => o = id BY <1>2 DEF Asking
  <2>3. Sending(m, o) => r.code = "SEND_FILE" /\ r.ref = o /\ o # NoRef
    <3>1. o # NoRef BY MaxIdAssumption DEF Ids, NoRef
    <3> QED BY <1>2, <3>1 DEF Sending
  <2> QED BY <1>4, <1>6, <2>1, <2>2, <2>3
<1>7. CASE /\ r.code = "SEND_FILE"
           /\ \E match \in Matches(P, r), current \in BOOLEAN :
                X = Respond(Settle(P, match, "STATUS_OK"), id, r, current)
  <2>1. PICK match \in Matches(P, r), current \in BOOLEAN :
               X = Respond(Settle(P, match, "STATUS_OK"), id, r, current)
    BY <1>7
  <2>2. /\ match \in Ids /\ P.out[match].status # Absent /\ P.out[match].req.file = r.file
        /\ P.out[match].req.code = "RECEIVE_FILE"
    BY DEF Matches
  <2>3. r.ref # NoRef BY <1>2, <1>7, <2>1
  <2>4. r.ref = match
    <3>1. Book(P) BY DEF Told, Tale
    <3>2. Is(P.out[match], "RECEIVE_FILE") BY <2>2 DEF Is
    <3> QED BY <1>5, <1>7, <2>2, <2>3, <3>1, <3>2 DEF Book
  <2>5. PICK ok \in Statuses : ok = "STATUS_OK" /\ ok \notin Unanswered
    <3>1. PICK ok \in Final : ok = "STATUS_OK" BY SessionAssumption DEF SessionAssumption
    <3> QED BY <3>1, FinalClosed
  <2>6. PICK S : S = Settle(P, match, ok) OBVIOUS
  <2>7. Typed(S, G) BY <2>2, <2>6, SettleTyped
  <2>8. Adds(P, S) /\ Shut(S, match) BY <1>1, <2>2, <2>5, <2>6, AddsSettle
  <2>9. X = Respond(S, id, r, current) BY <2>1, <2>5, <2>6
  <2>10. Adds(S, X) /\ Served(id, r, X.asked, In(X.written)) BY <1>7, <2>7, <2>9, AddsResponded
  <2>11. Adds(P, X) /\ Shut(X, match) BY <2>8, <2>10, AddsAgain, StaysShut
  <2> QED BY <1>6, <2>4, <2>10, <2>11
<1>8. CASE r.code = "SEND_FILE" /\ Matches(P, r) = {} /\ X = Asks(P, id, r)
  <2>1. r.ref = NoRef
    <3>1. r.ref # NoRef => r.ref \in Matches(P, r) BY <1>5, <1>8 DEF Matches, Is
    <3> QED BY <1>8, <3>1
  <2>2. PICK Q : Q = [P EXCEPT !.in[id] = Message(r)] OBVIOUS
  <2>3. SameQueue(P, Q) /\ Q \in PeerTypes
    <3>1. SameQueue(P, Q) BY <1>1, <2>2, ReceivedSame
    <3> QED BY <3>1 DEF SameQueue
  <2>4. PICK pending \in Statuses : pending = Pending BY DEF Statuses, Unanswered
  <2>5. PICK Y : Y = SendReply(Q, id, pending) OBVIOUS
  <2>6. Adds(P, Y)
    <3>1. Adds(P, Q) BY <2>3, AddsSame
    <3>2. Adds(Q, Y) BY <2>3, <2>5, AddsReply
    <3> QED BY <3>1, <3>2, AddsAgain
  <2>7. PICK a : a = [id |-> id, req |-> r] OBVIOUS
  <2>8. X = [Y EXCEPT !.asked = @ \cup {a}] BY <1>8, <2>2, <2>4, <2>5, <2>7 DEF Asks, Refuse
  <2>9. Y \in PeerTypes
    <3>1. Typed(Q, G) BY <2>3, SameTyped
    <3>2. Typed(Y, G) BY <2>5, <3>1, SendReplyTyped
    <3> QED BY <3>2 DEF Typed
  <2>10. X.out = Y.out /\ X.written = Y.written /\ X.asked = Y.asked \cup {a} BY <2>8, <2>9 DEF PeerTypes
  <2>11. Adds(Y, X) BY <2>10 DEF Adds
  <2>12. Served(id, r, X.asked, In(X.written)) BY <2>7, <2>10 DEF Served
  <2>13. Adds(P, X) BY <2>6, <2>11, AddsAgain
  <2> QED BY <1>6, <2>1, <2>12, <2>13
<1>9. CASE r.code = "LIST_FILES" /\ X = Refuse(P, id, r, "FILE_NOT_FOUND")
  <2>1. PICK Q : Q = [P EXCEPT !.in[id] = Message(r)] OBVIOUS
  <2>2. SameQueue(P, Q) /\ Q \in PeerTypes
    <3>1. SameQueue(P, Q) BY <1>1, <2>1, ReceivedSame
    <3> QED BY <3>1 DEF SameQueue
  <2>3. PICK status \in Final : status = "FILE_NOT_FOUND" BY SessionAssumption DEF SessionAssumption
  <2>4. X = SendReply(Q, id, status) /\ status \in Statuses BY <1>9, <2>1, <2>3, FinalClosed DEF Refuse
  <2>5. Adds(P, Q) BY <2>2, AddsSame
  <2>6. Adds(Q, X) /\ Tells(X, id, status) BY <2>2, <2>4, AddsReply
  <2>7. Served(id, r, X.asked, In(X.written)) BY <1>9, <2>6, ServedReply
  <2>8. Adds(P, X) BY <2>5, <2>6, AddsAgain
  <2> QED BY <1>6, <1>9, <2>7, <2>8
<1>10. CASE r.code # "SEND_FILE" /\ X = Respond(P, id, r, FALSE)
  <2>1. PICK current \in BOOLEAN : current = FALSE OBVIOUS
  <2>2. X = Respond(P, id, r, current) BY <1>10, <2>1
  <2>3. Adds(P, X) /\ Served(id, r, X.asked, In(X.written)) BY <2>2, AddsResponded
  <2> QED BY <1>6, <1>10, <2>3
<1> QED BY <1>3, <1>7, <1>8, <1>9, <1>10, Authorizes

LEMMA HandleLodged ==
  ASSUME OneWay, NEW s, Types(s), NEW p \in Peers, Handle(p), \A o \in Peers : Paired(o) /\ Bound(o),
         events' = {}, Paired(p)', \A o \in Peers : Lodged(o)
  PROVE  \A o \in Peers : Lodged(o)'
<1>1. PICK m, Q : Turns(s, p, m, Q) BY HandleTyped
<1>2. PICK q \in Peers : q = Other(p) /\ q # p BY Two
<1>3. PICK P : P = peer[p] OBVIOUS
<1>4. PICK V : V = peer[q] OBVIOUS
<1>5. PICK w : w = Unread(q) OBVIOUS
<1>6. PICK mine : mine = Unread(p) OBVIOUS
<1>7. PICK F : F = Fetching(p) OBVIOUS
<1>8. /\ Typed(P, Mine(s, p)) /\ Context(V, mine, w) /\ Sound(P, V, mine, w, F)
      /\ wire[p] \in Seq(OnWire) /\ batch[p] \in Seq(OnWire) /\ mine \in Seq(OnWire) /\ done[p] \in Nat
  BY <1>2, <1>3, <1>4, <1>5, <1>6, <1>7, Contexts DEF Paired
<1>9. Told(P, V, w, mine) BY <1>2, <1>3, <1>4, <1>5, <1>6, BoundTold
<1>10. done[p] \in 1 .. Len(batch[p]) /\ batch' = batch BY HandleTyped DEF Handle
<1>11. /\ mine # <<>> /\ mine[1] = m /\ m \in OnWire
       /\ Tail(mine) = Left(batch[p], done[p] + 1, wire[p])
  <2>1. /\ mine # <<>> /\ mine[1] = batch[p][done[p]]
        /\ Tail(mine) = Left(batch[p], done[p] + 1, wire[p])
    BY <1>6, <1>10, UnreadNext
  <2>2. m \in OnWire BY <1>1, MineAllowed DEF Turns
  <2> QED BY <1>1, <2>1, <2>2 DEF Turns
<1>12. Typed(Q, Mine(s, p)) /\ Becomes(p, Q) /\ Q \in Handled(P, m) BY <1>1, <1>3, <1>11 DEF Turns
<1>13. Q.thrown = "nothing" BY <1>1 DEF Turns
<1>14. ~Q.hung
  <2>1. ~peer'[p].hung BY DEF Paired, Sound
  <2>2. peer'[p] = [Q EXCEPT !.written = <<>>, !.thrown = "nothing"] BY <1>12 DEF Becomes, Types, PeersTyped
  <2>3. Q \in PeerTypes BY <1>12 DEF Typed
  <2>4. [Q EXCEPT !.written = <<>>, !.thrown = "nothing"].hung = Q.hung BY <2>3 DEF PeerTypes
  <2> QED BY <2>1, <2>2, <2>4
<1>15. Fares(P, Q, V, In(mine), In(Tail(mine)))
  <2>1. CASE m.type = "RESPONSE" BY <1>8, <1>11, <1>12, <2>1, MineAllowed, FaresReply
  <2>2. CASE m.type = "REQUEST"
    <3>1. m.req.code = "SEND_FILE" /\ m.req.ref = NoRef => Matches(P, m.req) = {}
      <4>1. m.req \in Mine(s, Other(p)) BY <1>1, <2>2 DEF Turns, Wired
      <4> QED BY <1>3, <4>1, NoneMatches
    <3> QED BY <1>8, <1>9, <1>11, <1>12, <1>13, <1>14, <2>2, <3>1, MineAllowed, FaresRequest
  <2> QED BY <1>11, <2>1, <2>2 DEF OnWire
<1>16. done'[p] = done[p] + 1 /\ done'[q] = done[q]
  <2>1. done' = [done EXCEPT ![p] = done[p] + 1] BY <1>1, <1>13 DEF Turns
  <2> QED BY <1>2, <2>1 DEF Types
<1>17. Unread(p)' = Tail(mine)
  <2>1. wire'[p] = wire[p] BY <1>2, <1>12 DEF Becomes, Types, Carries
  <2> QED BY <1>10, <1>11, <1>16, <2>1 DEF Unread
<1>18. Tail(mine) \in Seq(OnWire) BY <1>8, <1>11, Taking
<1>19. /\ batch'[Other(p)] = batch[Other(p)] /\ done'[Other(p)] = done[Other(p)]
       /\ Fares(peer[p], Q, peer[Other(p)], In(Unread(p)), In(Tail(mine))) /\ Tail(mine) = Unread(p)'
  BY <1>2, <1>3, <1>4, <1>6, <1>10, <1>15, <1>16, <1>17
<1> QED BY <1>12, <1>18, <1>19, BecomesLodged

\* p goes on with its call, or makes one.
LEMMA ResumeLodged ==
  ASSUME NEW s, Types(s), NEW p \in Peers, Resume(p), \A o \in Peers : Lodged(o)
  PROVE  \A o \in Peers : Lodged(o)'
<1>1. PICK Q, c : Advances(p, Q, c) BY ResumeAdvances
<1>2. PICK P : P = peer[p] OBVIOUS
<1>3. Typed(P, Mine(s, p)) BY <1>2 DEF Types, PeersTyped
<1>4. PICK id \in Ids : id = call[p].id BY DEF Types, CallTypes
<1>5. SameQueue(P, Q) \/ (P.uploads[id].left > 0 /\ Q = SendPacket(P, id))
  BY <1>1, <1>2, <1>4 DEF Advances
<1>6. Typed(Q, Mine(s, p)) BY <1>3, <1>5, MineAllowed, SameTyped, SendPacketTyped
<1>7. Adds(P, Q) BY <1>3, <1>5, MineAllowed, AddsSame, AddsPacket
<1>8. Fares(peer[p], Q, peer[Other(p)], In(Unread(p)), In(Unread(p))) BY <1>2, <1>7, AddsFares
<1>9. Becomes(p, Q) /\ UNCHANGED <<batch, done>> BY <1>1 DEF Advances
<1> QED BY <1>6, <1>8, <1>9, StaysLodged

LEMMA CallLodged ==
  ASSUME NEW s, Types(s), NEW p \in Peers, NEW c, Call(p, c), \A o \in Peers : Lodged(o)
  PROVE  \A o \in Peers : Lodged(o)'
<1>1. PICK Q : Calls(s, p, c, Q) BY CallTyped
<1>2. UNCHANGED <<batch, done>> BY CallTyped
<1>3. PICK P : P = peer[p] OBVIOUS
<1>4. PICK G : G = Mine(s, p) OBVIOUS
<1>5. Typed(P, G) /\ Allowed(G) BY <1>3, <1>4, MineAllowed DEF Types, PeersTyped
<1>6. PICK r \in G : r = Opening(c) BY <1>1, <1>4 DEF Calls
<1>7. PICK f \in Files, ref \in Ids \cup {NoRef} : f = c.file /\ ref = NoRef BY <1>1 DEF Calls
<1>8. Typed(Q, G) /\ Adds(P, Q)
  <2>1. CASE c.call = "send_file" /\ Q = CreateUpload(P, f, ref)
    <3>1. r = Req("SEND_FILE", f, ref, FALSE) BY <1>6, <1>7, <2>1 DEF Opening
    <3>2. Req("SEND_FILE", f, ref, FALSE) \in G BY <3>1
    <3>3. Typed(Q, G) BY <1>5, <2>1, <3>2, CreateUploadTyped
    <3>4. Adds(P, Q) BY <1>5, <2>1, <3>1, AddsUpload
    <3> QED BY <3>3, <3>4
  <2>2. CASE Q = SendRequest(P, r)
    <3>1. Typed(Q, G) BY <1>5, <2>2, SendRequestTyped
    <3>2. Adds(P, Q) BY <1>5, <2>2, AddsRequest
    <3> QED BY <3>1, <3>2
  <2> QED BY <1>1, <1>3, <1>6, <1>7, <2>1, <2>2 DEF Calls
<1>9. Fares(peer[p], Q, peer[Other(p)], In(Unread(p)), In(Unread(p))) BY <1>3, <1>8, AddsFares
<1>10. Becomes(p, Q) /\ Typed(Q, Mine(s, p)) BY <1>1, <1>4, <1>8 DEF Calls
<1> QED BY <1>2, <1>9, <1>10, StaysLodged

\* The application of p answers.
LEMMA AnswerLodged ==
  ASSUME NEW s, Types(s), NEW p \in Peers, Answer(p), \A o \in Peers : Paired(o), \A o \in Peers : Lodged(o)
  PROVE  \A o \in Peers : Lodged(o)'
<1>1. PICK a, Q : Answers(p, a, Q) BY AnswerTyped
<1>2. UNCHANGED <<batch, done>> BY AnswerTyped
<1>3. PICK P \in PeerTypes : P = peer[p] BY DEF Types, PeersTyped
<1>4. PICK V : V = peer[Other(p)] OBVIOUS
<1>5. PICK w : w = Unread(Other(p)) OBVIOUS
<1>6. PICK mine : mine = Unread(p) OBVIOUS
<1>7. PICK F : F = Fetching(p) OBVIOUS
<1>8. PICK G : G = Mine(s, p) OBVIOUS
<1>9. Typed(P, G) /\ Allowed(G) /\ Context(V, mine, w) /\ Sound(P, V, mine, w, F)
  BY <1>3, <1>4, <1>5, <1>6, <1>7, <1>8, Contexts, MineAllowed DEF Paired
<1>10. PICK L : L = [P EXCEPT !.asked = @ \ {a}] OBVIOUS
<1>11. /\ a \in P.asked /\ Becomes(p, Q)
       /\ (\E current \in BOOLEAN : Q = Respond(L, a.id, a.req, current)) \/ Q = Refuse(L, a.id, a.req, "FORBIDDEN")
  BY <1>1, <1>3, <1>10, Zenon DEF Answers
<1>12. PICK id \in Ids, r \in Requests : id = a.id /\ r = a.req BY <1>9, <1>11 DEF Typed, PeerTypes, Asked
<1>13. r.code = "SEND_FILE" /\ V.out[id].req = r
  <2>1. Awaits(id, V.out, P.asked, w \o P.written) BY <1>9 DEF Sound, Half, Placed
  <2> QED BY <1>11, <1>12, <2>1 DEF Awaits
<1>14. Typed(L, G) BY <1>9, <1>10, <1>11, SoundTakenUp
<1>15. L.out = P.out /\ L.written = P.written /\ L.asked = P.asked \ {a} /\ L \in PeerTypes
  BY <1>10, <1>14 DEF PeerTypes, Typed
<1>16. Typed(Q, G) /\ Adds(L, Q) /\ Served(id, r, Q.asked, In(Q.written))
  <2>1. ASSUME NEW current \in BOOLEAN, Q = Respond(L, id, r, current)
        PROVE  Typed(Q, G) /\ Adds(L, Q) /\ Served(id, r, Q.asked, In(Q.written))
    <3>1. Typed(Q, G) BY <1>9, <1>14, <2>1, RespondTyped
    <3>2. Adds(L, Q) /\ Served(id, r, Q.asked, In(Q.written)) BY <1>9, <1>13, <1>14, <2>1, AddsResponded
    <3> QED BY <3>1, <3>2
  <2>2. CASE Q = Refuse(L, id, r, "FORBIDDEN")
    <3>1. PICK status \in Final : status = "FORBIDDEN" BY SessionAssumption DEF SessionAssumption
    <3>2. PICK D : D = [L EXCEPT !.in[id] = Message(r)] OBVIOUS
    <3>3. SameQueue(L, D) BY <1>15, <3>2, ReceivedSame
    <3>4. D \in PeerTypes BY <3>3 DEF SameQueue
    <3>5. Q = SendReply(D, id, status) /\ status \in Statuses BY <2>2, <3>1, <3>2, FinalClosed DEF Refuse
    <3>6. Adds(L, D) BY <3>3, AddsSame
    <3>7. Adds(D, Q) /\ Tells(Q, id, status) BY <3>4, <3>5, AddsReply
    <3>8. Typed(D, G) BY <1>14, <3>3, SameTyped
    <3>9. Typed(Q, G) BY <3>5, <3>8, SendReplyTyped
    <3>10. Served(id, r, Q.asked, In(Q.written)) BY <1>13, <3>7, ServedReply
    <3> QED BY <3>6, <3>7, <3>9, <3>10, AddsAgain
  <2> QED BY <1>11, <1>12, <2>1, <2>2
<1>17. Fares(P, Q, V, In(mine), In(mine))
  <2>1. \A id2 \in Open(Q.out) : \/ id2 \in Open(P.out) /\ Q.out[id2].req = P.out[id2].req
                                 \/ \E m \in In(Q.written) : Asking(m, id2)
    BY <1>15, <1>16 DEF Adds
  <2>2. ASSUME NEW b \in P.asked PROVE b \in Q.asked \/ Served(b.id, V.out[b.id].req, Q.asked, In(Q.written))
    <3>1. CASE b = a BY <1>12, <1>13, <1>16, <3>1
    <3>2. CASE b # a BY <1>15, <1>16, <3>2 DEF Adds
    <3> QED BY <3>1, <3>2
  <2> QED BY <2>1, <2>2 DEF Fares
<1>18. /\ Fares(peer[p], Q, peer[Other(p)], In(Unread(p)), In(Unread(p))) /\ Becomes(p, Q)
       /\ Typed(Q, Mine(s, p))
  BY <1>3, <1>4, <1>6, <1>8, <1>11, <1>16, <1>17
<1> QED BY <1>2, <1>18, StaysLodged

LEMMA PollLodged ==
  ASSUME NEW s, Types(s), NEW p \in Peers, Poll(p) \/ PollEnds(p), \A o \in Peers : Paired(o),
         \A o \in Peers : Lodged(o)
  PROVE  \A o \in Peers : Lodged(o)'
<1>1. peer' = peer /\ \A o \in Peers : Unread(o)' = Unread(o) BY PollUnread DEF Paired
<1> TAKE o \in Peers
<1>2. Other(o) \in Peers BY Two
<1>3. Located(peer'[o], peer'[Other(o)], In(Unread(Other(o))'), In(Unread(o)')) BY <1>1, <1>2 DEF Lodged
<1> QED BY <1>3 DEF Lodged
-----------------------------------------------------------------------------
\* Every open request is somewhere.
Pursued == \A p \in Peers : Lodged(p)

LEMMA PursuedInit == Init => Pursued
<1> SUFFICES ASSUME Init, NEW p \in Peers PROVE Lodged(p) BY DEF Pursued
<1>1. peer[p] = NewPeer BY DEF Init
<1>2. Open(peer[p].out) = {}
  <2>1. \A id \in Ids : peer[p].out[id] = NoMessage BY <1>1 DEF NewPeer
  <2>2. NoMessage.status = Absent BY DEF NoMessage
  <2>3. Absent \notin Unanswered BY DEF Unanswered, None, Absent, Pending
  <2> QED BY <2>1, <2>2, <2>3 DEF Open
<1> QED BY <1>2 DEF Lodged, Located

LEMMA PursuedStep ==
  ASSUME OneWay, Session, Accounted, Orderly, Accounted', Orderly', Pursued, [Next]_vars
  PROVE  Pursued'
<1>1. PICK s \in Scripts : Types(s) BY DEF Session
<1>2. \A o \in Peers : Paired(o) /\ Bound(o) /\ Lodged(o) BY DEF Orderly, Accounted, Pursued
<1>3. events' = {} /\ \A o \in Peers : Paired(o)' BY DEF Orderly, Accounted
<1> SUFFICES \A o \in Peers : Lodged(o)' BY DEF Pursued
<1>4. CASE UNCHANGED vars
  <2>1. UNCHANGED <<peer, wire, batch, done, call, todo, events>> BY <1>4 DEF vars
  <2>2. \A o : Unread(o)' = Unread(o) BY <2>1 DEF Unread
  <2> QED BY <1>2, <2>1, <2>2 DEF Lodged
<1>5. ASSUME NEW p \in Peers, Poll(p) \/ PollEnds(p) PROVE \A o \in Peers : Lodged(o)'
  BY <1>1, <1>2, <1>5, PollLodged
<1>6. ASSUME NEW p \in Peers, Handle(p) PROVE \A o \in Peers : Lodged(o)'
  BY <1>1, <1>2, <1>3, <1>6, HandleLodged
<1>7. ASSUME NEW p \in Peers, Resume(p) PROVE \A o \in Peers : Lodged(o)' BY <1>1, <1>2, <1>7, ResumeLodged
<1>8. ASSUME NEW p \in Peers, Answer(p) PROVE \A o \in Peers : Lodged(o)' BY <1>1, <1>2, <1>8, AnswerLodged
<1>9. ASSUME NEW p \in Peers, NEW c, Call(p, c) PROVE \A o \in Peers : Lodged(o)'
  BY <1>1, <1>2, <1>9, CallLodged
<1> QED BY <1>4, <1>5, <1>6, <1>7, <1>8, <1>9, Steps

LEMMA PursuedAlways ==
  ASSUME OneWay, FetchedOnce
  PROVE  Spec /\ []FewRequests => [](Session /\ Accounted /\ Orderly /\ Pursued)
<1>1. Session /\ Accounted /\ Orderly /\ Accounted' /\ Orderly' /\ Pursued /\ [Next]_vars => Pursued'
  BY PursuedStep
<1> QED BY <1>1, PursuedInit, OrderlyAlways, PTL DEF Spec

\* All requests are answered, and no call waits for an answer or for a slot.
AllAnswered == \A p \in Peers : Open(peer[p].out) = {} /\ call[p].phase \notin {"waiting", "pushing"}

\* Under the same conditions no request is forgotten: while one is open it is on its
\* way, before the application of the other peer, or its answer is on its way.
\* When nothing moves any more every request is answered, all slots are back, and
\* no call waits for an answer or a slot (Peer_private.cpp:276-285, Peer.cpp:127-141).
THEOREM EveryRequestAnswered ==
  ASSUME OneWay, FetchedOnce
  PROVE  Spec /\ []FewRequests => [](Quiet => AllAnswered)
<1>1. ASSUME Session, Accounted, Orderly, Pursued, Quiet PROVE AllAnswered
  <2> SUFFICES ASSUME NEW p \in Peers PROVE Open(peer[p].out) = {} /\ call[p].phase \notin {"waiting", "pushing"}
    BY DEF AllAnswered
  <2>1. PICK s \in Scripts : Types(s) BY <1>1 DEF Session
  <2>2. Other(p) \in Peers BY Two
  <2>3. \A o \in Peers : In(Unread(o)) = {}
    <3> SUFFICES ASSUME NEW o \in Peers PROVE Unread(o) = <<>> BY DEF In
    <3>1. wire[o] = <<>> /\ done[o] = 0 BY <1>1 DEF Quiet
    <3> QED BY <3>1 DEF Unread, Left
  <2>4. peer[Other(p)].asked = {} BY <1>1, <2>2 DEF Quiet
  <2>5. Located(peer[p], peer[Other(p)], {}, {}) BY <1>1, <2>2, <2>3 DEF Pursued, Lodged
  <2>6. Open(peer[p].out) = {} BY <2>4, <2>5 DEF Located, Served
  <2>7. PICK P \in PeerTypes : P = peer[p] BY <2>1 DEF Types, PeersTyped
  <2>8. PICK c \in CallTypes : c = call[p] BY <2>1 DEF Types
  <2>9. P.slots > 0
    <3>1. Sound(P, peer[Other(p)], Unread(p), Unread(Other(p)), Fetching(p)) BY <1>1, <2>7 DEF Orderly, Accounted, Paired
    <3>2. P.slots + Cardinality({}) = MaxId BY <2>6, <2>7, <3>1 DEF Sound
    <3>3. Cardinality({}) = 0 BY FS_EmptySet
    <3>4. P.slots \in Nat BY Maps
    <3> QED BY <3>2, <3>3, <3>4, MaxIdAssumption
  <2>10. c.id \in Ids BY <2>8 DEF CallTypes
  <2>11. ~Ready(p) BY <1>1 DEF Quiet
  <2>12. c.phase # "pushing" BY <2>7, <2>8, <2>9, <2>11 DEF Ready
  <2>13. c.phase # "waiting"
    <3>1. c.phase = "waiting" => P.out[c.id].status \in Unanswered BY <2>7, <2>8, <2>11 DEF Ready
    <3>2. P.out[c.id].status \notin Unanswered BY <2>6, <2>7, <2>10 DEF Open
    <3> QED BY <3>1, <3>2
  <2> QED BY <2>6, <2>8, <2>12, <2>13
<1> QED BY <1>1, PursuedAlways, PTL
=============================================================================
