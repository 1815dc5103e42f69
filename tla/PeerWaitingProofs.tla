-------------------------- MODULE PeerWaitingProofs --------------------------
(***************************************************************************)
(* Two peers whose calls all come to an end: as long as a download or a    *)
(* listing is not complete, its next packet or page is on the way or the   *)
(* other peer goes on with it, for any calls, ids, files, packets and      *)
(* pages.                                                                  *)
(***************************************************************************)
EXTENDS PeerSessionProofs

USE MaxIdAssumption, FinalAssumption, RequestsAssumption
DEF MaxIdAssumption, FinalAssumption, RequestsAssumption

-----------------------------------------------------------------------------

\* A page of the listing k.
Page(m, k) == m.type = "REQUEST" /\ m.req.code = "FILE_LIST" /\ m.req.ref = k

\* A packet of the upload k is on its way and others are left, or P has sent the last.
Feeding(P, k) ==
  \/ P.uploads[k].left > 0 /\ \E o \in Open(P.out) : P.out[o].req.code = "DATA_PACKET" /\ P.out[o].req.ref = k
  \/ \E m \in In(P.written) : Packet(m, k) /\ m.req.last

\* The same for a page of what P lists for the request k.
Turning(P, k) ==
  \/ P.lists[k].left > 0 /\ \E o \in Open(P.out) : P.out[o].req.code = "FILE_LIST" /\ P.out[o].req.ref = k
  \/ \E m \in In(P.written) : Page(m, k) /\ m.req.last

\* Only what P serves has something left, and a SEND_FILE that is not answered has.
Stocked(P) ==
  \A k \in Ids : /\ P.uploads[k].left > 0 => P.uploads[k].live
                 /\ P.uploads[k].live => Is(P.out[k], "SEND_FILE")
                 /\ Is(P.out[k], "SEND_FILE") /\ P.out[k].status \in Unanswered => P.uploads[k].left > 0
                 /\ P.lists[k].left > 0 => P.lists[k].live

\* The requests of Q are those of P and new ones.
Widens(P, Q) ==
  \A k \in Ids : /\ P.out[k].status # Absent => Q.out[k] = P.out[k]
                 /\ P.out[k].status = Absent => Q.out[k].status \in {Absent, None}

\* An upload is left alone, or goes on.
Feeds(P, Q) == \A k \in Ids : Is(P.out[k], "SEND_FILE") => Q.uploads[k].left = P.uploads[k].left \/ Feeding(Q, k)

Lends(P, Q) ==
  \A k \in Ids : /\ Q.lists[k].left = P.lists[k].left \/ Turning(Q, k)
                 /\ Q.lists[k].left > 0 => P.lists[k].left > 0
                 /\ Q.lists[k].live = P.lists[k].live

\* What Q has written more are requests, and pages of what P lists.
Writes(P, Q) ==
  /\ Len(P.written) <= Len(Q.written)
  /\ \A i \in 1 .. Len(P.written) : Q.written[i] = P.written[i]
  /\ \A i \in 1 .. Len(Q.written) : i > Len(P.written) =>
       Q.written[i].type = "REQUEST" /\ \A k \in Ids : Page(Q.written[i], k) => P.lists[k].left > 0

\* P sends requests and is Q.
Goes(P, Q) ==
  /\ Q.in = P.in /\ Q.downloads = P.downloads
  /\ Widens(P, Q) /\ Feeds(P, Q) /\ Lends(P, Q) /\ Writes(P, Q)
  /\ Stocked(P) => Stocked(Q)

LEMMA StaysOpen ==
  ASSUME NEW P, NEW Q, Widens(P, Q), NEW o \in Open(P.out)
  PROVE  o \in Open(Q.out) /\ Q.out[o] = P.out[o]
<1>1. o \in Ids /\ P.out[o].status # Absent BY DEF Open, Unanswered, None, Pending, Absent
<1> QED BY <1>1 DEF Widens, Open

LEMMA StaysWritten ==
  ASSUME NEW P \in PeerTypes, NEW Q \in PeerTypes, Writes(P, Q)
  PROVE  In(P.written) \subseteq In(Q.written)
<1>1. Len(P.written) \in Nat /\ Len(Q.written) \in Nat BY Maps
<1> QED BY <1>1 DEF Writes, In

LEMMA StaysFeeding ==
  ASSUME NEW P \in PeerTypes, NEW Q \in PeerTypes, Goes(P, Q), NEW k \in Ids, Is(P.out[k], "SEND_FILE"), Feeding(P, k)
  PROVE  Feeding(Q, k)
<1>1. Widens(P, Q) /\ In(P.written) \subseteq In(Q.written) BY StaysWritten DEF Goes
<1>2. \A o \in Open(P.out) : o \in Open(Q.out) /\ Q.out[o] = P.out[o] BY <1>1, StaysOpen
<1>3. Q.uploads[k].left = P.uploads[k].left \/ Feeding(Q, k) BY DEF Goes, Feeds
<1> QED BY <1>1, <1>2, <1>3 DEF Feeding

LEMMA StaysTurning ==
  ASSUME NEW P \in PeerTypes, NEW Q \in PeerTypes, Goes(P, Q), NEW k \in Ids, Turning(P, k)
  PROVE  Turning(Q, k)
<1>1. Widens(P, Q) /\ In(P.written) \subseteq In(Q.written) BY StaysWritten DEF Goes
<1>2. \A o \in Open(P.out) : o \in Open(Q.out) /\ Q.out[o] = P.out[o] BY <1>1, StaysOpen
<1>3. Q.lists[k].left = P.lists[k].left \/ Turning(Q, k) BY DEF Goes, Lends
<1> QED BY <1>1, <1>2, <1>3 DEF Turning

LEMMA GoesSame ==
  ASSUME NEW P \in PeerTypes
  PROVE  Goes(P, P)
<1>1. Len(P.written) \in Nat BY Maps
<1> QED BY <1>1 DEF Goes, Widens, Feeds, Lends, Writes

LEMMA GoesAgain ==
  ASSUME NEW P \in PeerTypes, NEW Q \in PeerTypes, NEW X \in PeerTypes, Goes(P, Q), Goes(Q, X)
  PROVE  Goes(P, X)
<1>1. Widens(P, X)
  <2> SUFFICES ASSUME NEW k \in Ids
               PROVE  /\ P.out[k].status # Absent => X.out[k] = P.out[k]
                      /\ P.out[k].status = Absent => X.out[k].status \in {Absent, None}
    BY DEF Widens
  <2>1. /\ P.out[k].status # Absent => Q.out[k] = P.out[k]
        /\ P.out[k].status = Absent => Q.out[k].status \in {Absent, None}
        /\ Q.out[k].status # Absent => X.out[k] = Q.out[k]
        /\ Q.out[k].status = Absent => X.out[k].status \in {Absent, None}
    BY DEF Goes, Widens
  <2> QED BY <2>1
<1>2. Feeds(P, X)
  <2> SUFFICES ASSUME NEW k \in Ids, Is(P.out[k], "SEND_FILE")
               PROVE  X.uploads[k].left = P.uploads[k].left \/ Feeding(X, k)
    BY DEF Feeds
  <2>1. Q.out[k] = P.out[k] BY DEF Goes, Widens, Is
  <2>2. Is(Q.out[k], "SEND_FILE") BY <2>1
  <2>3. Q.uploads[k].left = P.uploads[k].left \/ Feeding(Q, k) BY DEF Goes, Feeds
  <2>4. X.uploads[k].left = Q.uploads[k].left \/ Feeding(X, k) BY <2>2 DEF Goes, Feeds
  <2>5. Feeding(Q, k) => Feeding(X, k) BY <2>2, StaysFeeding
  <2> QED BY <2>3, <2>4, <2>5
<1>3. Lends(P, X)
  <2> SUFFICES ASSUME NEW k \in Ids
               PROVE  /\ X.lists[k].left = P.lists[k].left \/ Turning(X, k)
                      /\ X.lists[k].left > 0 => P.lists[k].left > 0
                      /\ X.lists[k].live = P.lists[k].live
    BY DEF Lends
  <2>1. /\ Q.lists[k].left = P.lists[k].left \/ Turning(Q, k)
        /\ X.lists[k].left = Q.lists[k].left \/ Turning(X, k)
        /\ Q.lists[k].left > 0 => P.lists[k].left > 0
        /\ X.lists[k].left > 0 => Q.lists[k].left > 0
        /\ Q.lists[k].live = P.lists[k].live
        /\ X.lists[k].live = Q.lists[k].live
    BY DEF Goes, Lends
  <2>2. Turning(Q, k) => Turning(X, k) BY StaysTurning
  <2> QED BY <2>1, <2>2
<1>4. Writes(P, X)
  <2>1. Len(P.written) \in Nat /\ Len(Q.written) \in Nat /\ Len(X.written) \in Nat BY Maps
  <2>2. Writes(P, Q) /\ Writes(Q, X) BY DEF Goes
  <2>3. \A k \in Ids : Q.lists[k].left > 0 => P.lists[k].left > 0 BY DEF Goes, Lends
  <2>4. Len(P.written) <= Len(X.written) BY <2>1, <2>2 DEF Writes
  <2>5. ASSUME NEW i \in 1 .. Len(P.written) PROVE X.written[i] = P.written[i]
    <3>1. i \in 1 .. Len(Q.written) BY <2>1, <2>2 DEF Writes
    <3> QED BY <2>2, <3>1 DEF Writes
  <2>6. ASSUME NEW i \in 1 .. Len(X.written), i > Len(P.written)
        PROVE  X.written[i].type = "REQUEST" /\ \A k \in Ids : Page(X.written[i], k) => P.lists[k].left > 0
    <3>1. CASE i > Len(Q.written) BY <2>2, <2>3, <2>6, <3>1 DEF Writes
    <3>2. CASE ~(i > Len(Q.written))
      <4>1. i \in 1 .. Len(Q.written) BY <2>1, <2>6, <3>2
      <4>2. X.written[i] = Q.written[i] BY <2>2, <4>1 DEF Writes
      <4>3. Q.written[i].type = "REQUEST" /\ \A k \in Ids : Page(Q.written[i], k) => P.lists[k].left > 0
        BY <2>2, <2>6, <4>1 DEF Writes
      <4> QED BY <4>2, <4>3
    <3> QED BY <3>1, <3>2
  <2> QED BY <2>4, <2>5, <2>6 DEF Writes
<1> QED BY <1>1, <1>2, <1>3, <1>4 DEF Goes
-----------------------------------------------------------------------------
\* A request is sent.

\* A packet or a page r is taken from a transfer.
Drawn(old, new, r) == old.left > 0 /\ new = [old EXCEPT !.left = @ - 1] /\ (r.last <=> old.left = 1)

\* What the request r does to the transfers.
DrawnFor(P, Q, r) ==
  /\ \A k \in Ids : k # P.next =>
       \/ Q.uploads[k] = P.uploads[k]
       \/ r.code = "DATA_PACKET" /\ r.ref = k /\ Drawn(P.uploads[k], Q.uploads[k], r) /\ P.out[k].status = "STATUS_OK"
  /\ \A k \in Ids : \/ Q.lists[k] = P.lists[k]
                    \/ r.code = "FILE_LIST" /\ r.ref = k /\ Drawn(P.lists[k], Q.lists[k], r)
  /\ r.code = "SEND_FILE" => Q.uploads[P.next].left > 0 /\ Q.uploads[P.next].live
  /\ r.code # "SEND_FILE" => Q.uploads[P.next] = P.uploads[P.next]
  /\ r.code = "FILE_LIST" => r.ref \in Ids /\ P.lists[r.ref].left > 0

LEMMA DrawnLeft ==
  ASSUME NEW old \in Transferred, NEW new, NEW r, Drawn(old, new, r)
  PROVE  /\ new.live = old.live /\ old.left > 0
         /\ new.left > 0 \/ r.last
<1>1. old.left \in Nat
  <2>1. Packets \in Nat /\ Pages \in Nat BY Assumed
  <2> QED BY <2>1 DEF Transferred
<1>2. new.live = old.live /\ new.left = old.left - 1 BY DEF Drawn, Transferred
<1> QED BY <1>1, <1>2 DEF Drawn

LEMMA GoesSent ==
  ASSUME NEW P \in PeerTypes, NEW Q \in PeerTypes, NEW r, Sends(P, Q, r), DrawnFor(P, Q, r)
  PROVE  /\ Goes(P, Q)
         /\ \A k \in Ids : r.code = "DATA_PACKET" /\ r.ref = k /\ Drawn(P.uploads[k], Q.uploads[k], r) => Feeding(Q, k)
         /\ \A k \in Ids : r.code = "FILE_LIST" /\ r.ref = k /\ Drawn(P.lists[k], Q.lists[k], r) => Turning(Q, k)
<1> DEFINE m == [type |-> "REQUEST", id |-> P.next, req |-> r]
<1>1. /\ P.next \in Ids /\ P.out[P.next].status = Absent /\ Q.out[P.next].req = r /\ Q.out[P.next].status = None
      /\ None \in Unanswered /\ "STATUS_OK" \notin Unanswered /\ Absent \notin Unanswered
      /\ None # Absent /\ Absent # "STATUS_OK"
      /\ \A k \in Ids : k # P.next => Q.out[k] = P.out[k]
      /\ \A k \in Ids : P.out[k].status # Absent => k # P.next
  BY OutSent
<1>2. P.next \in Open(Q.out) BY <1>1 DEF Open
<1>3. /\ P.uploads \in [Ids -> Transferred] /\ P.lists \in [Ids -> Transferred] /\ P.written \in Seq(OnWire)
  BY Maps
<1>4. Q.written = Append(P.written, m) BY DEF Sends
<1>5. /\ Len(P.written) \in Nat /\ Len(Q.written) = Len(P.written) + 1
      /\ \A i \in 1 .. Len(P.written) : Q.written[i] = P.written[i]
      /\ Q.written[Len(P.written) + 1] = m
  <2>1. m \in OnWire BY <1>1 DEF OnWire, Sends
  <2> HIDE DEF m
  <2> QED BY <1>3, <1>4, <2>1, Appending
<1>6. m \in In(Q.written)
  <2>1. Len(P.written) + 1 \in 1 .. Len(Q.written) BY <1>5
  <2> QED BY <1>5, <2>1 DEF In
<1>7. m.type = "REQUEST" /\ m.req = r OBVIOUS
<1> HIDE DEF m
<1>8. ASSUME NEW k \in Ids, r.code = "DATA_PACKET", r.ref = k, Drawn(P.uploads[k], Q.uploads[k], r)
      PROVE  Feeding(Q, k)
  <2>1. Q.uploads[k].left > 0 \/ r.last BY <1>3, <1>8, DrawnLeft
  <2> QED BY <1>1, <1>2, <1>6, <1>7, <1>8, <2>1 DEF Feeding, Packet
<1>9. ASSUME NEW k \in Ids, r.code = "FILE_LIST", r.ref = k, Drawn(P.lists[k], Q.lists[k], r)
      PROVE  Turning(Q, k)
  <2>1. Q.lists[k].left > 0 \/ r.last BY <1>3, <1>9, DrawnLeft
  <2> QED BY <1>1, <1>2, <1>6, <1>7, <1>9, <2>1 DEF Turning, Page
<1>10. Widens(P, Q)
  <2> SUFFICES ASSUME NEW k \in Ids
               PROVE  /\ P.out[k].status # Absent => Q.out[k] = P.out[k]
                      /\ P.out[k].status = Absent => Q.out[k].status \in {Absent, None}
    BY DEF Widens
  <2>1. k = P.next \/ Q.out[k] = P.out[k] BY <1>1
  <2> QED BY <1>1, <2>1
<1>11. Feeds(P, Q)
  <2> SUFFICES ASSUME NEW k \in Ids, Is(P.out[k], "SEND_FILE")
               PROVE  Q.uploads[k].left = P.uploads[k].left \/ Feeding(Q, k)
    BY DEF Feeds
  <2>1. k # P.next BY <1>1 DEF Is
  <2>2. \/ Q.uploads[k] = P.uploads[k]
        \/ r.code = "DATA_PACKET" /\ r.ref = k /\ Drawn(P.uploads[k], Q.uploads[k], r)
    BY <2>1 DEF DrawnFor
  <2> QED BY <1>8, <2>2
<1>12. Lends(P, Q)
  <2> SUFFICES ASSUME NEW k \in Ids
               PROVE  /\ Q.lists[k].left = P.lists[k].left \/ Turning(Q, k)
                      /\ Q.lists[k].left > 0 => P.lists[k].left > 0
                      /\ Q.lists[k].live = P.lists[k].live
    BY DEF Lends
  <2>1. CASE Q.lists[k] = P.lists[k] BY <2>1
  <2>2. CASE r.code = "FILE_LIST" /\ r.ref = k /\ Drawn(P.lists[k], Q.lists[k], r)
    BY <1>3, <1>9, <2>2, DrawnLeft
  <2> QED BY <2>1, <2>2 DEF DrawnFor
<1>13. Writes(P, Q)
  <2>1. ASSUME NEW i \in 1 .. Len(Q.written), i > Len(P.written)
        PROVE  Q.written[i].type = "REQUEST" /\ \A k \in Ids : Page(Q.written[i], k) => P.lists[k].left > 0
    <3>1. i = Len(P.written) + 1 BY <1>5, <2>1
    <3>2. Q.written[i] = m BY <1>5, <3>1
    <3> QED BY <1>7, <3>2 DEF Page, DrawnFor
  <2> QED BY <1>5, <2>1 DEF Writes
<1>14. ASSUME Stocked(P), NEW k \in Ids
       PROVE  /\ Q.uploads[k].left > 0 => Q.uploads[k].live
              /\ Q.uploads[k].live => Is(Q.out[k], "SEND_FILE")
              /\ Is(Q.out[k], "SEND_FILE") /\ Q.out[k].status \in Unanswered => Q.uploads[k].left > 0
              /\ Q.lists[k].left > 0 => Q.lists[k].live
  <2>1. /\ P.uploads[k].left > 0 => P.uploads[k].live
        /\ P.uploads[k].live => Is(P.out[k], "SEND_FILE")
        /\ Is(P.out[k], "SEND_FILE") /\ P.out[k].status \in Unanswered => P.uploads[k].left > 0
        /\ P.lists[k].left > 0 => P.lists[k].live
    BY <1>14 DEF Stocked
  <2>2. Q.lists[k].left > 0 => Q.lists[k].live BY <1>12, <2>1 DEF Lends
  <2>3. CASE k = P.next
    <3>1. ~P.uploads[k].live /\ ~(P.uploads[k].left > 0) BY <1>1, <2>1, <2>3 DEF Is
    <3>2. CASE r.code = "SEND_FILE"
      <4>1. Q.uploads[k].left > 0 /\ Q.uploads[k].live BY <2>3, <3>2 DEF DrawnFor
      <4> QED BY <1>1, <2>2, <2>3, <3>2, <4>1 DEF Is
    <3>3. CASE r.code # "SEND_FILE"
      <4>1. Q.uploads[k] = P.uploads[k] BY <2>3, <3>3 DEF DrawnFor
      <4> QED BY <1>1, <2>2, <2>3, <3>1, <3>3, <4>1 DEF Is
    <3> QED BY <3>2, <3>3
  <2>4. CASE k # P.next
    <3>1. Q.out[k] = P.out[k] BY <1>1, <2>4
    <3>2. CASE Q.uploads[k] = P.uploads[k] BY <2>1, <2>2, <3>1, <3>2
    <3>3. CASE Drawn(P.uploads[k], Q.uploads[k], r) /\ P.out[k].status = "STATUS_OK"
      <4>1. Q.uploads[k].live = P.uploads[k].live /\ P.uploads[k].left > 0 BY <1>3, <3>3, DrawnLeft
      <4> QED BY <1>1, <2>1, <2>2, <3>1, <3>3, <4>1
    <3> QED BY <2>4, <3>2, <3>3 DEF DrawnFor
  <2> QED BY <2>3, <2>4
<1>15. Stocked(P) => Stocked(Q) BY <1>14 DEF Stocked
<1>16. Q.in = P.in /\ Q.downloads = P.downloads BY DEF Sends
<1> QED BY <1>8, <1>9, <1>10, <1>11, <1>12, <1>13, <1>15, <1>16 DEF Goes

\* P has slots and ids left for n requests.
Fits(P, n) ==
  /\ P.slots >= n /\ P.next + n <= MaxId
  /\ \A k \in Ids : k >= P.next => P.out[k].status = Absent

LEMMA FitsOne ==
  ASSUME NEW P \in PeerTypes, NEW n \in Nat \ {0}, Fits(P, n)
  PROVE  P.slots > 0 /\ P.next < MaxId /\ P.out[P.next].status = Absent
<1>1. P.next \in Ids /\ P.next \in Nat /\ P.slots \in Nat /\ MaxId \in Nat BY Maps, MaxIdAssumption
<1>2. P.next >= P.next BY <1>1
<1> QED BY <1>1, <1>2 DEF Fits

LEMMA FitsLess ==
  ASSUME NEW P \in PeerTypes, NEW n \in Nat \ {0}, Fits(P, n), NEW Q, NEW r, Sends(P, Q, r)
  PROVE  Fits(Q, n - 1)
<1>1. P.next \in Nat /\ P.slots \in Nat /\ MaxId \in Nat BY Maps, MaxIdAssumption
<1>2. Q.next = P.next + 1 /\ Q.slots = P.slots - 1 BY DEF Sends
<1>3. ASSUME NEW k \in Ids, k >= Q.next PROVE Q.out[k].status = Absent
  <2>1. k # P.next /\ k >= P.next BY <1>1, <1>2, <1>3 DEF Ids
  <2>2. Q.out[k] = P.out[k] BY <2>1, OutSent
  <2> QED BY <2>1, <2>2 DEF Fits
<1> QED BY <1>1, <1>2, <1>3 DEF Fits

LEMMA FitsBurst ==
  ASSUME NEW P \in PeerTypes, Book(P), P.slots + Cardinality(Open(P.out)) = MaxId, P.next + Burst <= MaxId
  PROVE  Fits(P, Burst)
<1>1. P.slots >= MaxId - P.next BY Room
<1>2. P.next \in Nat /\ P.slots \in Nat /\ MaxId \in Nat /\ Burst \in Nat BY Maps, Assumed, MaxIdAssumption
<1> QED BY <1>1, <1>2 DEF Fits, Book

LEMMA FitsFewer ==
  ASSUME NEW P \in PeerTypes, NEW m \in Nat, Fits(P, m), NEW n \in Nat, n <= m
  PROVE  Fits(P, n)
<1>1. P.next \in Nat /\ P.slots \in Nat /\ MaxId \in Nat BY Maps, MaxIdAssumption
<1> QED BY <1>1 DEF Fits

LEMMA GoesPacket ==
  ASSUME NEW G, Allowed(G), NEW P, Typed(P, G), NEW n \in Nat \ {0}, Fits(P, n), NEW id \in Ids, P.uploads[id].left > 0,
         P.out[id].status = "STATUS_OK", NEW X, X = SendPacket(P, id)
  PROVE  Goes(P, X) /\ Feeding(X, id) /\ Fits(X, n - 1) /\ X.out[id] = P.out[id] /\ X.listings = P.listings
<1>1. P \in PeerTypes /\ X \in PeerTypes
  <2>1. Typed(X, G) BY SendPacketTyped
  <2> QED BY <2>1 DEF Typed
<1>2. P.slots > 0 /\ P.next < MaxId /\ P.out[P.next].status = Absent BY <1>1, FitsOne
<1>3. PICK r \in Requests : /\ r.code = "DATA_PACKET" /\ r.ref = id /\ (r.last <=> P.uploads[id].left = 1)
                            /\ Sends(P, X, r) /\ X.lists = P.lists
                            /\ X.uploads = [P.uploads EXCEPT ![id].left = @ - 1]
  BY <1>2, PacketSends
<1>4. P.uploads \in [Ids -> Transferred] /\ P.next \in Ids BY <1>1, Maps
<1>5. id # P.next BY <1>2 DEF Absent
<1>6. Drawn(P.uploads[id], X.uploads[id], r) /\ \A k \in Ids : k # id => X.uploads[k] = P.uploads[k]
  BY <1>3, <1>4 DEF Drawn
<1>7. DrawnFor(P, X, r) BY <1>3, <1>4, <1>5, <1>6 DEF DrawnFor
<1>10. /\ Goes(P, X)
       /\ \A k \in Ids : r.code = "DATA_PACKET" /\ r.ref = k /\ Drawn(P.uploads[k], X.uploads[k], r) => Feeding(X, k)
  BY ONLY <1>1, <1>3, <1>7, GoesSent
<1>8. Goes(P, X) /\ Feeding(X, id) BY ONLY <1>3, <1>6, <1>10
<1>9. X.out[id] = P.out[id] BY <1>1, <1>3, <1>5, OutSent
<1> QED BY <1>1, <1>3, <1>8, <1>9, FitsLess DEF Sends

LEMMA GoesPage ==
  ASSUME NEW G, Allowed(G), NEW P, Typed(P, G), NEW n \in Nat \ {0}, Fits(P, n), NEW id \in Ids, P.lists[id].left > 0,
         NEW X, X = SendPage(P, id)
  PROVE  Goes(P, X) /\ Turning(X, id) /\ X.listings = P.listings
<1>1. P \in PeerTypes /\ X \in PeerTypes
  <2>1. Typed(X, G) BY SendPageTyped
  <2> QED BY <2>1 DEF Typed
<1>2. P.slots > 0 /\ P.next < MaxId /\ P.out[P.next].status = Absent BY <1>1, FitsOne
<1>3. PICK r \in Requests : /\ r.code = "FILE_LIST" /\ r.ref = id /\ (r.last <=> P.lists[id].left = 1)
                            /\ Sends(P, X, r) /\ X.uploads = P.uploads
                            /\ X.lists = [P.lists EXCEPT ![id].left = @ - 1]
  BY <1>2, PageSends
<1>4. P.lists \in [Ids -> Transferred] /\ P.next \in Ids BY <1>1, Maps
<1>5. Drawn(P.lists[id], X.lists[id], r) /\ \A k \in Ids : k # id => X.lists[k] = P.lists[k]
  BY <1>3, <1>4 DEF Drawn
<1>6. DrawnFor(P, X, r) BY <1>3, <1>4, <1>5 DEF DrawnFor
<1> QED BY <1>1, <1>3, <1>5, <1>6, GoesSent DEF Sends

Offered(f, ref) == Req("SEND_FILE", f, ref, FALSE)

LEMMA GoesUpload ==
  ASSUME NEW G, Allowed(G), NEW P, Typed(P, G), NEW n \in Nat \ {0}, Fits(P, n), P.thrown = "nothing", ~P.hung, Stocked(P),
         NEW f \in Files, NEW ref \in Ids \cup {NoRef}, NEW m \in G, m = Offered(f, ref),
         NEW X, X = CreateUpload(P, f, ref)
  PROVE  Goes(P, X) /\ X.listings = P.listings /\ X.out = [P.out EXCEPT ![NewId(P)] = Message(m)]
<1>1. P \in PeerTypes /\ X \in PeerTypes
  <2>1. Req("SEND_FILE", f, ref, FALSE) \in G BY DEF Offered
  <2>2. Typed(X, G) BY <2>1, CreateUploadTyped
  <2> QED BY <2>2 DEF Typed
<1>2. P.slots > 0 /\ P.next < MaxId /\ P.out[P.next].status = Absent BY <1>1, FitsOne
<1>3. PICK r : r = Req("SEND_FILE", f, ref, FALSE) /\ r = m BY DEF Offered
<1>4. r \in G /\ r.code = "SEND_FILE" /\ r.file = f /\ r.ref = ref /\ ~r.last
  <2>1. r \in G BY <1>3
  <2> QED BY <1>3, <2>1 DEF Req
<1>5. NewId(P) = P.next /\ Sends(P, X, r) /\ X.lists = P.lists /\ X.uploads[P.next].live
      /\ \A o \in Ids : o # P.next => X.uploads[o] = P.uploads[o]
  BY <1>2, <1>4, UploadSends
<1>6. P.next \in Ids /\ P.uploads \in [Ids -> Transferred] /\ X.uploads \in [Ids -> Transferred] BY <1>1, Maps
<1>7. X.uploads[P.next].left > 0
  <2>1. PICK Q : Q = SendRequest(P, r) OBVIOUS
  <2>2. r \in Requests BY <1>4 DEF Allowed, Referred
  <2>3. Q.uploads = P.uploads /\ Sends(P, Q, r) BY <1>1, <1>2, <2>1, <2>2, RequestSends
  <2>4. Q.thrown = "nothing" /\ ~Q.hung BY <2>3 DEF Sends
  <2>5. X = [Q EXCEPT !.uploads[P.next] = Emplaced(@, Transfer(f, Packets))]
    BY <1>3, <1>5, <2>1, <2>4 DEF CreateUpload
  <2>6. Q \in PeerTypes
    <3>1. Typed(Q, G) BY <1>1, <1>4, <2>1, SendRequestTyped
    <3> QED BY <3>1 DEF Typed
  <2>7. PICK t : t = Emplaced(Q.uploads[P.next], Transfer(f, Packets)) OBVIOUS
  <2>8. ~Q.uploads[P.next].live BY <1>2, <1>6, <2>3 DEF Stocked, Is
  <2>9. t.left = Packets BY <2>7, <2>8 DEF Emplaced, Transfer, NoTransfer
  <2>10. X = [Q EXCEPT !.uploads[P.next] = t] BY <2>5, <2>7
  <2>11. X.uploads = [P.uploads EXCEPT ![P.next] = t] BY <2>3, <2>6, <2>10 DEF PeerTypes
  <2>12. X.uploads[P.next] = t BY <1>6, <2>11
  <2>13. Packets \in Nat /\ Packets # 0 BY Assumed
  <2>14. t.left > 0 BY <2>9, <2>13
  <2> QED BY <2>12, <2>14
<1>8. DrawnFor(P, X, r) BY <1>4, <1>5, <1>7 DEF DrawnFor
<1>9. Goes(P, X) BY <1>1, <1>5, <1>8, GoesSent
<1>10. X.listings = P.listings /\ X.out = [P.out EXCEPT ![P.next] = Message(r)] BY <1>5 DEF Sends
<1> QED BY <1>3, <1>5, <1>9, <1>10

LEMMA GoesRequest ==
  ASSUME NEW P \in PeerTypes, NEW n \in Nat \ {0}, Fits(P, n), NEW r \in Requests, r.code \in {"RECEIVE_FILE", "LIST_FILES"},
         NEW X \in PeerTypes, X = SendRequest(P, r)
  PROVE  Goes(P, X) /\ X.listings = P.listings /\ X.out = [P.out EXCEPT ![NewId(P)] = Message(r)]
<1>1. P.slots > 0 /\ P.next < MaxId /\ P.out[P.next].status = Absent BY FitsOne
<1>2. NewId(P) = P.next /\ Sends(P, X, r) /\ X.uploads = P.uploads /\ X.lists = P.lists BY <1>1, RequestSends
<1>3. DrawnFor(P, X, r) BY <1>2 DEF DrawnFor
<1> QED BY <1>2, <1>3, GoesSent DEF Sends

LEMMA GoesPackets ==
  ASSUME NEW G, Allowed(G), NEW P, Typed(P, G), NEW id \in Ids, NEW n \in Nat, n <= P.uploads[id].left, Fits(P, n),
         P.out[id].status = "STATUS_OK", NEW X, X = SendPackets(P, id, n)
  PROVE  Goes(P, X) /\ X.listings = P.listings /\ (n > 0 => Feeding(X, id))
<1>0. PICK g : Sent(g, P, id, n) BY Bursts, Zenon
<1>1. g[0] = P /\ g[n] = X /\ \A i \in 1 .. n : g[i] = SendPacket(g[i - 1], id)
  BY <1>0 DEF Sent
<1> DEFINE good(i) == /\ Typed(g[i], G) /\ g[i].uploads[id].left = P.uploads[id].left - i
                      /\ Fits(g[i], n - i) /\ g[i].out[id] = P.out[id] /\ g[i].listings = P.listings
                      /\ Goes(P, g[i]) /\ (i > 0 => Feeding(g[i], id))
           bad == {i \in 0 .. n : ~good(i)}
<1>2. P.uploads[id].left \in Nat /\ P \in PeerTypes
  <2>1. P.uploads \in [Ids -> Transferred] BY Maps DEF Typed
  <2>2. P.uploads[id].left \in 0 .. Packets + Pages /\ Packets \in Nat /\ Pages \in Nat
    BY <2>1, Assumed DEF Transferred
  <2> QED BY <2>2 DEF Typed
<1>3. bad = {}
  <2> SUFFICES ASSUME bad # {} PROVE FALSE OBVIOUS
  <2>1. PICK i \in bad : \A j \in bad : i <= j
    <3>1. bad \subseteq Nat OBVIOUS
    <3> HIDE DEF bad
    <3> QED BY <3>1, LeastNumber
  <2>2. good(0)
    <3>1. Goes(P, P) BY <1>2, GoesSame
    <3>2. n - 0 = n /\ P.uploads[id].left - 0 = P.uploads[id].left BY <1>2
    <3> QED BY <1>1, <3>1, <3>2
  <2>3. i # 0 /\ i \in 1 .. n BY <2>1, <2>2
  <2>4. good(i - 1) /\ i - 1 \in Nat BY <2>1, <2>3
  <2>5. PICK Y, k, rest : Y = g[i - 1] /\ k = i - 1 /\ rest = n - k OBVIOUS
  <2>6. /\ Typed(Y, G) /\ Y.uploads[id].left = P.uploads[id].left - k /\ Fits(Y, rest) /\ Y.out[id] = P.out[id]
        /\ Y.listings = P.listings /\ Goes(P, Y)
    BY <2>4, <2>5
  <2>7. Y.uploads[id].left > 0 /\ rest \in Nat \ {0} /\ rest - 1 = n - i /\ i > 0 BY <1>2, <2>3, <2>5, <2>6
  <2>8. PICK Z : Z = g[i] OBVIOUS
  <2>9. Z = SendPacket(Y, id) BY <1>1, <2>3, <2>5, <2>8
  <2>10. Typed(Z, G) /\ Z.uploads[id].left = Y.uploads[id].left - 1 BY <2>6, <2>7, <2>9, SendPacketTyped
  <2>11. Goes(Y, Z) /\ Feeding(Z, id) /\ Fits(Z, rest - 1) /\ Z.out[id] = Y.out[id] /\ Z.listings = Y.listings
    BY <2>6, <2>7, <2>9, GoesPacket
  <2>12. Goes(P, Z) BY <1>2, <2>6, <2>10, <2>11, GoesAgain DEF Typed
  <2>13. Z.uploads[id].left = P.uploads[id].left - i BY <1>2, <2>3, <2>5, <2>6, <2>10
  <2>14. Fits(Z, n - i) BY <2>7, <2>11
  <2>15. good(i) BY <2>6, <2>8, <2>10, <2>11, <2>12, <2>13, <2>14
  <2> QED BY <2>1, <2>15
<1>4. n \in 0 .. n OBVIOUS
<1>5. good(n) BY <1>3, <1>4
<1> QED BY <1>1, <1>5

LEMMA GoesReset ==
  ASSUME NEW Q \in PeerTypes, NEW o \in Ids, Q.uploads[o].left = 0 \/ ~Is(Q.out[o], "SEND_FILE"),
         NEW X, X = [Q EXCEPT !.uploads[o] = NoTransfer]
  PROVE  Goes(Q, X) /\ X.listings = Q.listings /\ X \in PeerTypes
<1>1. /\ X.out = Q.out /\ X.in = Q.in /\ X.written = Q.written /\ X.lists = Q.lists /\ X.listings = Q.listings
      /\ X.downloads = Q.downloads /\ X.uploads = [Q.uploads EXCEPT ![o] = NoTransfer]
  BY DEF PeerTypes
<1>2. X \in PeerTypes
  <2>1. [Q.uploads EXCEPT ![o] = NoTransfer] \in Transfers BY Maps, TransferType
  <2>2. PICK t \in Transfers : t = [Q.uploads EXCEPT ![o] = NoTransfer] BY <2>1
  <2>3. X = [Q EXCEPT !.uploads = t] BY <2>2
  <2> QED BY <2>3, UpdateSame DEF SameQueue
<1>3. Q.uploads \in [Ids -> Transferred] /\ Len(Q.written) \in Nat BY Maps
<1>4. NoTransfer.left = 0 /\ ~NoTransfer.live BY DEF NoTransfer
<1>5. \A k \in Ids : X.uploads[k] = IF k = o THEN NoTransfer ELSE Q.uploads[k] BY <1>1, <1>3
<1>6. Widens(Q, X) BY <1>1 DEF Widens
<1>7. Feeds(Q, X) BY <1>4, <1>5 DEF Feeds
<1>8. Lends(Q, X) BY <1>1 DEF Lends
<1>9. Writes(Q, X) BY <1>1, <1>3 DEF Writes
<1>10. ASSUME Stocked(Q), NEW k \in Ids
       PROVE  /\ X.uploads[k].left > 0 => X.uploads[k].live
              /\ X.uploads[k].live => Is(X.out[k], "SEND_FILE")
              /\ Is(X.out[k], "SEND_FILE") /\ X.out[k].status \in Unanswered => X.uploads[k].left > 0
              /\ X.lists[k].left > 0 => X.lists[k].live
  BY <1>1, <1>4, <1>5, <1>10 DEF Stocked
<1>11. Stocked(Q) => Stocked(X) BY <1>10 DEF Stocked
<1> QED BY <1>1, <1>2, <1>6, <1>7, <1>8, <1>9, <1>11 DEF Goes

LEMMA StockedSettled ==
  ASSUME NEW P \in PeerTypes, Stocked(P), NEW id \in Ids, NEW status \in Statuses, P.out[id].status # Absent,
         status \in Unanswered => P.out[id].status \in Unanswered,
         NEW Q, Q = Settle(P, id, status)
  PROVE  Stocked(Q)
<1>1. /\ Q.out[id].status = status /\ Q.out[id].req = P.out[id].req /\ Q.uploads = P.uploads /\ Q.lists = P.lists
      /\ status # Absent /\ \A o \in Ids : o # id => Q.out[o] = P.out[o]
  BY Settles
<1> QED BY <1>1 DEF Stocked, Is

\* What a peer does about the STATUS_OK for its request id, which is r.
Ensues(X, Q, id, r) ==
  \/ /\ X = Q /\ r.code \notin {"LIST_FILES", "SEND_FILE"}
     /\ r.code = "DATA_PACKET" => ~Q.uploads[r.ref].live
     /\ r.code = "FILE_LIST" => ~Q.lists[r.ref].live
  \/ r.code = "DATA_PACKET" /\ Q.uploads[r.ref].left > 0 /\ X = SendPacket(Q, r.ref)
  \/ r.code = "DATA_PACKET" /\ ~(Q.uploads[r.ref].left > 0) /\ X = [Q EXCEPT !.uploads[r.ref] = NoTransfer]
  \/ r.code = "SEND_FILE" /\ X = SendPackets(Q, id, BurstOf(Q, id))
  \/ r.code = "LIST_FILES" /\ X = [Q EXCEPT !.listings[id] = Emplaced(@, Transfer(r.file, 1))]
  \/ r.code = "FILE_LIST" /\ Q.lists[r.ref].left > 0 /\ X = SendPage(Q, r.ref)
  \/ r.code = "FILE_LIST" /\ ~(Q.lists[r.ref].left > 0) /\ X = [Q EXCEPT !.uploads[id] = NoTransfer]

\* It sends what is next of the upload or the listing r is of.
NextSent(Q, X, id, r) ==
  /\ r.code = "DATA_PACKET" /\ Q.uploads[r.ref].left > 0 => Feeding(X, r.ref)
  /\ r.code = "SEND_FILE" /\ Q.uploads[id].left > 0 => Feeding(X, id)
  /\ r.code = "FILE_LIST" /\ Q.lists[r.ref].left > 0 => Turning(X, r.ref)

\* The listing begins with its first answer.
Begun(Q, X, id, r) ==
  X.listings = IF r.code = "LIST_FILES" THEN [Q.listings EXCEPT ![id] = Emplaced(@, Transfer(r.file, 1))] ELSE Q.listings

LEMMA GoesEnsued ==
  ASSUME NEW G, Allowed(G), NEW Q, Typed(Q, G), Stocked(Q), Book(Q), Fits(Q, Burst),
         NEW id \in Ids, NEW r \in G, Q.out[id].req = r, Q.out[id].status = "STATUS_OK",
         NEW X, Ensues(X, Q, id, r)
  PROVE  Goes(Q, X) /\ NextSent(Q, X, id, r) /\ Begun(Q, X, id, r)
<1>1. /\ r \in Requests /\ r.file \in Files /\ (r.code \in {"DATA_PACKET", "FILE_LIST"} => r.ref \in Ids)
      /\ r.code \in RequestCodes
  BY Assumed DEF Allowed, Referred
<1>2. Q \in PeerTypes BY DEF Typed
<1>3. Burst \in Nat \ {0} BY Assumed
<1>4. Is(Q.out[id], r.code) BY DEF Is, Absent
<1>5. r.code = "DATA_PACKET" => Is(Q.out[r.ref], "SEND_FILE") /\ Q.out[r.ref].status = "STATUS_OK"
  BY <1>4 DEF Book
<1>6. /\ Q.uploads \in [Ids -> Transferred] /\ Q.lists \in [Ids -> Transferred]
      /\ Q.listings \in [Ids -> Transferred]
  BY <1>2, Maps
<1>7. \A t \in Transferred : t.left \in Nat
  <2>1. Packets \in Nat /\ Pages \in Nat BY Assumed
  <2> QED BY <2>1 DEF Transferred
<1>8. CASE /\ X = Q /\ r.code \notin {"LIST_FILES", "SEND_FILE"}
           /\ r.code = "DATA_PACKET" => ~Q.uploads[r.ref].live
           /\ r.code = "FILE_LIST" => ~Q.lists[r.ref].live
  <2>1. Goes(Q, X) BY <1>2, <1>8, GoesSame
  <2>2. NextSent(Q, X, id, r) BY <1>1, <1>8 DEF NextSent, Stocked
  <2> QED BY <1>8, <2>1, <2>2 DEF Begun
<1>9. CASE r.code = "DATA_PACKET" /\ Q.uploads[r.ref].left > 0 /\ X = SendPacket(Q, r.ref)
  <2>1. PICK k \in Ids : k = r.ref BY <1>1, <1>9
  <2>2. Goes(Q, X) /\ Feeding(X, k) /\ X.listings = Q.listings BY <1>3, <1>5, <1>9, <2>1, GoesPacket
  <2> QED BY <1>9, <2>1, <2>2 DEF NextSent, Begun
<1>10. CASE r.code = "DATA_PACKET" /\ ~(Q.uploads[r.ref].left > 0) /\ X = [Q EXCEPT !.uploads[r.ref] = NoTransfer]
  <2>1. PICK k \in Ids : k = r.ref BY <1>1, <1>10
  <2>2. Q.uploads[k].left \in Nat BY <1>6, <1>7
  <2>3. Q.uploads[k].left = 0 BY <1>10, <2>1, <2>2
  <2>4. X = [Q EXCEPT !.uploads[k] = NoTransfer] BY <1>10, <2>1
  <2>5. Goes(Q, X) /\ X.listings = Q.listings BY <1>2, <2>3, <2>4, GoesReset
  <2> QED BY <1>10, <2>5 DEF NextSent, Begun
<1>11. CASE r.code = "SEND_FILE" /\ X = SendPackets(Q, id, BurstOf(Q, id))
  <2>1. BurstOf(Q, id) \in Nat /\ BurstOf(Q, id) <= Q.uploads[id].left /\ BurstOf(Q, id) <= Q.slots
    BY BurstBounds
  <2>2. Q.uploads[id].left \in Nat /\ Q.slots \in Nat BY <1>2, <1>6, <1>7, Maps
  <2>3. PICK n \in Nat : n = BurstOf(Q, id) BY <2>1
  <2>4. n <= Burst /\ n \in {Burst, Q.uploads[id].left, Q.slots} BY <1>3, <2>2, <2>3, LeastOfThree DEF BurstOf
  <2>5. Fits(Q, n) BY <1>2, <1>3, <2>4, FitsFewer
  <2>6. X = SendPackets(Q, id, n) /\ n <= Q.uploads[id].left BY <1>11, <2>1, <2>3
  <2>7. Goes(Q, X) /\ X.listings = Q.listings /\ (n > 0 => Feeding(X, id)) BY <2>5, <2>6, GoesPackets
  <2>8. Q.slots >= Burst BY DEF Fits
  <2>9. Q.uploads[id].left > 0 => n > 0 BY <1>3, <2>2, <2>4, <2>8
  <2> QED BY <1>11, <2>7, <2>9 DEF NextSent, Begun
<1>12. CASE r.code = "LIST_FILES" /\ X = [Q EXCEPT !.listings[id] = Emplaced(@, Transfer(r.file, 1))]
  <2>1. PICK t : t = [Q.listings EXCEPT ![id] = Emplaced(@, Transfer(r.file, 1))] OBVIOUS
  <2>2. /\ X.out = Q.out /\ X.in = Q.in /\ X.written = Q.written /\ X.lists = Q.lists /\ X.uploads = Q.uploads
        /\ X.downloads = Q.downloads /\ X.listings = t
    BY <1>2, <1>12, <2>1 DEF PeerTypes
  <2>3. Len(Q.written) \in Nat BY <1>2, Maps
  <2>4. Goes(Q, X) BY <2>2, <2>3 DEF Goes, Widens, Feeds, Lends, Writes, Stocked
  <2> QED BY <1>12, <2>1, <2>2, <2>4 DEF NextSent, Begun
<1>13. CASE r.code = "FILE_LIST" /\ Q.lists[r.ref].left > 0 /\ X = SendPage(Q, r.ref)
  <2>1. PICK k \in Ids : k = r.ref BY <1>1, <1>13
  <2>2. Goes(Q, X) /\ Turning(X, k) /\ X.listings = Q.listings BY <1>3, <1>13, <2>1, GoesPage
  <2> QED BY <1>13, <2>1, <2>2 DEF NextSent, Begun
<1>14. CASE r.code = "FILE_LIST" /\ ~(Q.lists[r.ref].left > 0) /\ X = [Q EXCEPT !.uploads[id] = NoTransfer]
  <2>1. ~Is(Q.out[id], "SEND_FILE") BY <1>14 DEF Is
  <2>2. Goes(Q, X) /\ X.listings = Q.listings BY <1>2, <1>14, <2>1, GoesReset
  <2> QED BY <1>14, <2>2 DEF NextSent, Begun
<1> QED BY <1>8, <1>9, <1>10, <1>11, <1>12, <1>13, <1>14 DEF Ensues

\* P takes the status as that of its request id, which is Q, and goes on as X.
Receives(P, Q, X, id, status) ==
  /\ Q = Settle(P, id, status) /\ Goes(Q, X)
  /\ status = "STATUS_OK" => NextSent(Q, X, id, P.out[id].req) /\ Begun(Q, X, id, P.out[id].req)
  /\ status # "STATUS_OK" => X = Q

LEMMA ReplyReceived ==
  ASSUME NEW G, Allowed(G), NEW P, Typed(P, G), NEW V, NEW mine, NEW w, Context(V, mine, w), NEW F,
         Sound(P, V, mine, w, F), Told(P, V, w, mine), Stocked(P), mine # <<>>, mine[1].type = "RESPONSE",
         P.next + Burst <= MaxId, NEW X \in Handled(P, mine[1])
  PROVE  \E id \in Ids, reply \in Statuses, status \in Statuses, Q \in PeerTypes :
           /\ mine[1].id = id /\ mine[1].status = reply /\ id \in Open(P.out)
           /\ status = Recorded(P.out[id].req, reply) /\ Receives(P, Q, X, id, status) /\ Typed(Q, G) /\ Stocked(Q)
<1> DEFINE sent == w \o P.written
<1>1. P \in PeerTypes /\ mine \in Seq(OnWire) /\ w \in Seq(OnWire) BY DEF Typed, Context
<1>2. PICK m \in OnWire : m = mine[1] BY <1>1, Taking
<1>3. PICK id \in Ids, reply \in Statuses : id = m.id /\ reply = m.status BY <1>2 DEF OnWire
<1>4. Sound(P, V, Tail(mine), w, F) /\ Context(V, Tail(mine), w) BY <1>1, SoundTaken
<1>5. Half(P.out, V.asked, sent, mine) BY DEF Sound
<1>6. Replying(mine[1], id) BY <1>2, <1>3 DEF Replying
<1>7. PICK r : r = P.out[id].req OBVIOUS
<1>8. PICK status \in Statuses : status = Recorded(r, reply) BY RecordedType
<1> HIDE DEF sent
<1>9. id \in Open(P.out) /\ MaySettle(id, P.out, V.asked, sent, Tail(mine), status)
  BY <1>1, <1>2, <1>3, <1>5, <1>6, <1>7, <1>8, FirstReply
<1>10. P.out[id].status # Absent /\ P.out[id].status \in Unanswered
  BY <1>9 DEF Open, Unanswered, None, Absent, Pending
<1>11. X = ReceiveReply(P, id, reply) BY <1>2, <1>3, <1>10 DEF Handled
<1>12. PICK Q : Q = Settle(P, id, status) OBVIOUS
<1>13. Typed(Q, G) /\ Q \in PeerTypes
  <2>1. Typed(Q, G) BY <1>10, <1>12, SettleTyped
  <2> QED BY <2>1 DEF Typed
<1>14. Sound(Q, V, Tail(mine), w, F) BY <1>1, <1>4, <1>9, <1>12, SoundSettle DEF sent
<1>15. Stocked(Q) BY <1>1, <1>10, <1>12, StockedSettled
<1>16. /\ Q.out[id].status = status /\ Q.out[id].req = r /\ \A o \in Ids : o # id => Q.out[o] = P.out[o]
       /\ Q.next = P.next /\ Q.uploads = P.uploads
  BY <1>1, <1>7, <1>12, Settles
<1>17. CASE status # "STATUS_OK"
  <2>1. X = Q BY <1>7, <1>8, <1>11, <1>12, <1>17, Zenon DEF ReceiveReply
  <2>2. Receives(P, Q, X, id, status) BY <1>12, <1>13, <1>17, <2>1, GoesSame DEF Receives
  <2> QED BY <1>2, <1>3, <1>7, <1>8, <1>9, <1>13, <1>15, <2>2
<1>18. CASE status = "STATUS_OK"
  <2>1. Told(P, V, w, Tail(mine)) BY ToldTaken
  <2>2. r.code = "SEND_FILE" => Q.uploads[id].live
    BY <1>7, <1>10, <1>16, <2>1, Zenon DEF Told, Tale, Book, Is
  <2>3. X = CASE r.code = "DATA_PACKET" ->
                   IF ~Q.uploads[r.ref].live THEN Q
                   ELSE IF Q.uploads[r.ref].left > 0 THEN SendPacket(Q, r.ref)
                   ELSE [Q EXCEPT !.uploads[r.ref] = NoTransfer]
              [] r.code = "SEND_FILE" -> SendPackets(Q, id, BurstOf(Q, id))
              [] r.code = "LIST_FILES" -> [Q EXCEPT !.listings[id] = Emplaced(@, Transfer(r.file, 1))]
              [] r.code = "FILE_LIST" ->
                   IF ~Q.lists[r.ref].live THEN Q
                   ELSE IF Q.lists[r.ref].left > 0 THEN SendPage(Q, r.ref)
                   ELSE [Q EXCEPT !.uploads[id] = NoTransfer]
              [] OTHER -> Q
    BY <1>7, <1>8, <1>11, <1>12, <1>18, <2>2, Zenon DEF ReceiveReply, BurstOf
  <2>4. Ensues(X, Q, id, r) BY <2>3 DEF Ensues
  <2>5. Book(Q)
    <3>1. \A x \in In(w) \cup In(P.written) : ~Asking(x, id)
      <4>1. P.written \in Seq(OnWire) BY <1>1, Maps
      <4>2. \A i \in 1 .. Len(sent) : ~Asking(sent[i], id) BY <1>9 DEF MaySettle
      <4> QED BY <1>1, <4>1, <4>2, NoneAsking DEF sent
    <3>2. Settling(P, id, status) BY <1>10 DEF Settling
    <3>3. Told(Q, V, w, Tail(mine)) BY <1>1, <1>4, <1>12, <2>1, <3>1, <3>2, ToldSettled
    <3> QED BY <3>3 DEF Told, Tale
  <2>6. Fits(Q, Burst)
    <3>1. Q.slots + Cardinality(Open(Q.out)) = MaxId BY <1>14 DEF Sound
    <3>2. Q.next + Burst <= MaxId BY <1>16
    <3> QED BY <1>13, <2>5, <3>1, <3>2, FitsBurst
  <2>7. r \in G BY <1>7, <1>10 DEF Typed
  <2>8. Goes(Q, X) /\ NextSent(Q, X, id, r) /\ Begun(Q, X, id, r)
    BY <1>13, <1>15, <1>16, <1>18, <2>4, <2>5, <2>6, <2>7, GoesEnsued
  <2>9. Receives(P, Q, X, id, status) BY <1>7, <1>12, <1>18, <2>8 DEF Receives
  <2> QED BY <1>2, <1>3, <1>7, <1>8, <1>9, <1>13, <1>15, <2>9
<1> QED BY <1>17, <1>18

\* The second half of a session: what is granted goes on until it ends.

\* The answer that lets the request k begin.
Grants(m, k) == Replying(m, k) /\ m.status = "STATUS_OK"

Pushing(c, k) == c.call = "send_file" /\ c.phase = "pushing" /\ c.id = k

\* The statuses S has recorded are those R has given, and so are those on their way,
\* but for an APPROVAL_PENDING; what R has answered and S has not recorded is.
Echo(S, R, from) ==
  /\ \A k \in Ids : S.out[k].status \in Final /\ S.out[k].req.code # "RECEIVE_FILE" => R.in[k].status = S.out[k].status
  /\ \A m \in from : \A k \in Ids : Replying(m, k) =>
       m.status = R.in[k].status \/ (m.status = Pending /\ Is(S.out[k], "SEND_FILE"))
  /\ \A k \in Ids : R.in[k].status \in Final /\ S.out[k].status \in Unanswered /\ S.out[k].req.code # "RECEIVE_FILE"
       => \E m \in from : Replying(m, k) /\ m.status = R.in[k].status

\* S, in the call c, goes on with the upload k, or has sent its last packet.
Lively(S, c, k, to) ==
  \/ S.out[k].status \in Unanswered
  \/ /\ S.uploads[k].left > 0
     /\ Pushing(c, k) \/ \E o \in Open(S.out) : S.out[o].req.code = "DATA_PACKET" /\ S.out[o].req.ref = k
  \/ \E m \in to : Packet(m, k) /\ m.req.last

\* What R downloads it has accepted, and S, in the call c, goes on with it: so for
\* the downloads in some.
Delivers(S, R, c, to, some) ==
  /\ \A k \in Ids : R.downloads[k].left > 0 => R.downloads[k].live
  /\ \A k \in Ids : R.downloads[k].live => Is(S.out[k], "SEND_FILE") /\ R.in[k].status = "STATUS_OK"
  /\ \A o, k \in Ids : Is(R.in[o], "DATA_PACKET") /\ R.in[o].req.ref = k /\ R.in[o].status # "STATUS_OK"
       => ~R.downloads[k].live
  /\ \A k \in some : R.downloads[k].left > 0 => Lively(S, c, k, to)

\* R goes on with the listing k, or has sent its last page.
Paging(R, k, from) ==
  \/ R.lists[k].left > 0 /\ \E o \in Open(R.out) : R.out[o].req.code = "FILE_LIST" /\ R.out[o].req.ref = k
  \/ \E m \in from : Page(m, k) /\ m.req.last

\* The listing k of S is granted and not complete.
Listing(S, R, k) ==
  /\ Is(S.out[k], "LIST_FILES") /\ R.in[k].status = "STATUS_OK"
  /\ S.out[k].status = "STATUS_OK" => S.listings[k].left > 0

\* S knows that k is granted, or will before it comes to message j of from.
Known(S, k, from, j) ==
  /\ Is(S.out[k], "LIST_FILES")
  /\ S.out[k].status = "STATUS_OK" \/ \E i \in 1 .. Len(from) : i < j /\ Grants(from[i], k)

\* What R lists S has asked for; and R goes on with it: so for the listings in some.
Lists(S, R, from, some) ==
  /\ \A k \in Ids : R.lists[k].live => Known(S, k, from, Len(from) + 1)
  /\ \A k \in Ids, j \in 1 .. Len(from) : Page(from[j], k) => Known(S, k, from, j)
  /\ \A k \in some : Listing(S, R, k) => Paging(R, k, In(from))
  /\ \A o, k \in Ids : Is(S.in[o], "FILE_LIST") /\ S.in[o].req.ref = k /\ S.in[o].status # "STATUS_OK"
       => S.out[k].status = "STATUS_OK" /\ S.listings[k].left = 0
  /\ \A k \in Ids : S.listings[k].left > 0 => S.listings[k].live

\* What a call has got hold of.
Holding(P, c) ==
  /\ \/ c = NoCall
     \/ c.call \in {"send_file", "receive_file", "list_files"} /\ c.phase = "waiting"
     \/ c.call = "send_file" /\ c.phase = "pushing"
     \/ c.call = "receive_file" /\ c.phase = "looping"
     \/ c.call = "list_files" /\ c.phase = "looping" /\ Is(P.out[c.id], "LIST_FILES") /\ P.out[c.id].status = "STATUS_OK"
  /\ \A k \in Ids : P.downloads[k].keep => c.call = "receive_file" /\ c.phase = "looping" /\ c.key = k
  /\ \A k \in Ids : P.downloads[k].live /\ P.downloads[k].left = 0 => P.downloads[k].keep

Busy(p) ==
  LET P == peer[p]
      V == peer[Other(p)]
  IN  /\ Stocked(P) /\ Holding(P, call[p])
      /\ Echo(P, V, In(Unread(p)))
      /\ Delivers(P, V, call[p], In(Unread(Other(p))), Ids)
      /\ Lists(P, V, Unread(p), Ids)

\* t is s and requests, pages among them of what P lists.
Adjoins(P, s, t) ==
  /\ Len(s) \in Nat /\ Len(t) \in Nat /\ Len(s) <= Len(t)
  /\ \A i \in 1 .. Len(s) : t[i] = s[i]
  /\ \A i \in 1 .. Len(t) : i > Len(s) =>
       t[i].type = "REQUEST" /\ \A k \in Ids : Page(t[i], k) => P.lists[k].left > 0

LEMMA AdjoinsIn ==
  ASSUME NEW P, NEW s, NEW t, Adjoins(P, s, t)
  PROVE  /\ In(s) \subseteq In(t)
         /\ \A m \in In(t) : m \in In(s) \/ m.type = "REQUEST"
<1>1. \A i \in 1 .. Len(s) : i \in 1 .. Len(t) /\ t[i] = s[i] BY DEF Adjoins
<1>2. \A i \in 1 .. Len(t) : i \in 1 .. Len(s) \/ t[i].type = "REQUEST" BY DEF Adjoins
<1> QED BY <1>1, <1>2 DEF In

LEMMA WritesAdjoins ==
  ASSUME NEW P \in PeerTypes, NEW X \in PeerTypes, Writes(P, X), NEW w \in Seq(OnWire),
         NEW s, s = w \o P.written, NEW t, t = w \o X.written
  PROVE  Adjoins(P, s, t) /\ In(X.written) \subseteq In(t)
<1>1. P.written \in Seq(OnWire) /\ X.written \in Seq(OnWire) BY Maps
<1>2. PICK p, x, n : p = Len(P.written) /\ x = Len(X.written) /\ n = Len(w) OBVIOUS
<1>3. /\ n \in Nat /\ p \in Nat /\ Len(s) = n + p
      /\ \A i \in 1 .. n : s[i] = w[i]
      /\ \A i \in 1 .. p : s[n + i] = P.written[i]
  BY <1>1, <1>2, ConcatProperties
<1>4. /\ x \in Nat /\ Len(t) = n + x
      /\ \A i \in 1 .. n : t[i] = w[i]
      /\ \A i \in 1 .. x : t[n + i] = X.written[i]
  BY <1>1, <1>2, ConcatProperties
<1>5. p <= x /\ \A i \in 1 .. p : X.written[i] = P.written[i] BY <1>2 DEF Writes
<1>6. ASSUME NEW i \in 1 .. Len(s) PROVE t[i] = s[i]
  <2>1. CASE i \in 1 .. n BY <1>3, <1>4, <2>1
  <2>2. CASE i \notin 1 .. n
    <3>1. PICK j \in 1 .. p : n + j = i
      <4>1. i - n \in 1 .. p /\ n + (i - n) = i BY <1>3, <2>2
      <4> QED BY <4>1
    <3>2. j \in 1 .. x BY <1>3, <1>4, <1>5
    <3>3. s[i] = P.written[j] /\ t[i] = X.written[j] BY <1>3, <1>4, <3>1, <3>2
    <3> QED BY <1>5, <3>3
  <2> QED BY <2>1, <2>2
<1>7. ASSUME NEW i \in 1 .. Len(t), i > Len(s)
      PROVE  t[i].type = "REQUEST" /\ \A k \in Ids : Page(t[i], k) => P.lists[k].left > 0
  <2>1. i - n \in 1 .. x /\ i - n > p /\ n + (i - n) = i BY <1>3, <1>4, <1>7
  <2>2. t[i] = X.written[i - n] BY <1>4, <2>1
  <2>3. PICK j \in 1 .. x : j = i - n BY <2>1
  <2>4. X.written[j].type = "REQUEST" /\ \A k \in Ids : Page(X.written[j], k) => P.lists[k].left > 0
    BY <1>2, <2>1, <2>3 DEF Writes
  <2> QED BY <2>2, <2>3, <2>4
<1>8. Adjoins(P, s, t) BY <1>3, <1>4, <1>5, <1>6, <1>7 DEF Adjoins
<1>9. In(t) = In(w) \cup In(X.written) BY <1>1, InBoth
<1> QED BY <1>8, <1>9

LEMMA FeedingLively ==
  ASSUME NEW X, NEW t, In(X.written) \subseteq In(t), NEW c, NEW k, Feeding(X, k)
  PROVE  Lively(X, c, k, In(t))
BY DEF Feeding, Lively

LEMMA TurningPaging ==
  ASSUME NEW X, NEW t, In(X.written) \subseteq In(t), NEW k, Turning(X, k)
  PROVE  Paging(X, k, In(t))
BY DEF Turning, Paging

\* R has no request S has not sent.
Notes(S, R) ==
  \A id \in Ids : R.in[id].status # Absent => S.out[id].status # Absent /\ S.out[id].req = R.in[id].req

LEMMA GoesEcho ==
  ASSUME NEW P, NEW X, Goes(P, X), NEW V, Notes(P, V)
  PROVE  /\ \A from : Echo(P, V, from) => Echo(X, V, from)
         /\ \A s, t : Adjoins(P, s, t) /\ Echo(V, P, In(s)) => Echo(V, X, In(t))
<1>1. ASSUME NEW k \in Ids, X.out[k].status \in Final PROVE X.out[k] = P.out[k]
  <2>1. Absent \notin Final /\ None \notin Final BY FinalAssumption
  <2>2. X.out[k].status # Absent /\ X.out[k].status # None BY <1>1, <2>1
  <2> QED BY <2>2 DEF Goes, Widens
<1>2. \A k \in Ids : Is(P.out[k], "SEND_FILE") => Is(X.out[k], "SEND_FILE") BY DEF Goes, Widens, Is
<1>5. ASSUME NEW k \in Ids, V.in[k].status \in Final PROVE X.out[k] = P.out[k]
  <2>1. V.in[k].status # Absent BY <1>5, FinalAssumption
  <2> QED BY <2>1 DEF Notes, Goes, Widens
<1>3. ASSUME NEW from, Echo(P, V, from) PROVE Echo(X, V, from)
  <2>1. \A k \in Ids : X.out[k].status \in Final /\ X.out[k].req.code # "RECEIVE_FILE" => V.in[k].status = X.out[k].status
    BY <1>1, <1>3 DEF Echo
  <2>2. \A m \in from : \A k \in Ids : Replying(m, k) =>
          m.status = V.in[k].status \/ (m.status = Pending /\ Is(X.out[k], "SEND_FILE"))
    BY <1>2, <1>3 DEF Echo
  <2>3. ASSUME NEW k \in Ids, V.in[k].status \in Final, X.out[k].status \in Unanswered, X.out[k].req.code # "RECEIVE_FILE"
        PROVE  \E m \in from : Replying(m, k) /\ m.status = V.in[k].status
    <3>1. X.out[k] = P.out[k] BY <1>5, <2>3
    <3> QED BY <1>3, <2>3, <3>1 DEF Echo
  <2> QED BY <2>1, <2>2, <2>3 DEF Echo
<1>4. ASSUME NEW s, NEW t, Adjoins(P, s, t), Echo(V, P, In(s)) PROVE Echo(V, X, In(t))
  <2>1. X.in = P.in BY DEF Goes
  <2>2. \A m \in In(t) : \A k \in Ids : Replying(m, k) => m \in In(s) BY <1>4, AdjoinsIn DEF Replying
  <2>3. In(s) \subseteq In(t) BY <1>4, AdjoinsIn
  <2>4. \A k \in Ids : X.in[k].status \in Final /\ V.out[k].status \in Unanswered /\ V.out[k].req.code # "RECEIVE_FILE"
          => \E m \in In(t) : Replying(m, k) /\ m.status = X.in[k].status
    BY <1>4, <2>1, <2>3 DEF Echo
  <2>5. \A m \in In(t) : \A k \in Ids : Replying(m, k) =>
          m.status = X.in[k].status \/ (m.status = Pending /\ Is(V.out[k], "SEND_FILE"))
    BY <1>4, <2>1, <2>2 DEF Echo
  <2>6. \A k \in Ids : V.out[k].status \in Final /\ V.out[k].req.code # "RECEIVE_FILE" => X.in[k].status = V.out[k].status
    BY <1>4, <2>1 DEF Echo
  <2> QED BY <2>4, <2>5, <2>6 DEF Echo
<1> QED BY <1>3, <1>4

LEMMA GoesDelivers ==
  ASSUME NEW P, NEW X, Goes(P, X), NEW V, NEW c, NEW some, some \subseteq Ids
  PROVE  /\ \A s, t : Adjoins(P, s, t) /\ In(X.written) \subseteq In(t) /\ Delivers(P, V, c, In(s), some)
                        => Delivers(X, V, c, In(t), some)
         /\ \A to : Delivers(V, P, c, to, some) => Delivers(V, X, c, to, some)
<1>1. ASSUME NEW s, NEW t, Adjoins(P, s, t), In(X.written) \subseteq In(t), Delivers(P, V, c, In(s), some)
      PROVE  Delivers(X, V, c, In(t), some)
  <2>1. In(s) \subseteq In(t) BY <1>1, AdjoinsIn
  <2>2. \A k \in Ids : Is(P.out[k], "SEND_FILE") => Is(X.out[k], "SEND_FILE") BY DEF Goes, Widens, Is
  <2>3. ASSUME NEW k \in some, V.downloads[k].left > 0 PROVE Lively(X, c, k, In(t))
    <3>1. k \in Ids /\ Is(P.out[k], "SEND_FILE") BY <1>1, <2>3 DEF Delivers
    <3>2. X.out[k] = P.out[k] BY <3>1 DEF Goes, Widens, Is
    <3>3. X.uploads[k].left = P.uploads[k].left \/ Feeding(X, k) BY <3>1 DEF Goes, Feeds
    <3>4. \A o \in Open(P.out) : o \in Open(X.out) /\ X.out[o] = P.out[o] BY StaysOpen DEF Goes
    <3>5. Lively(P, c, k, In(s)) BY <1>1, <2>3 DEF Delivers
    <3>6. CASE Feeding(X, k) BY <1>1, <3>6, FeedingLively
    <3>7. CASE X.uploads[k].left = P.uploads[k].left BY <2>1, <3>2, <3>4, <3>5, <3>7 DEF Lively
    <3> QED BY <3>3, <3>6, <3>7
  <2> QED BY <1>1, <2>2, <2>3 DEF Delivers
<1>2. ASSUME NEW to, Delivers(V, P, c, to, some) PROVE Delivers(V, X, c, to, some)
  <2>1. X.in = P.in /\ X.downloads = P.downloads BY DEF Goes
  <2> QED BY <1>2, <2>1 DEF Delivers
<1> QED BY <1>1, <1>2

LEMMA GoesLists ==
  ASSUME NEW P, NEW X, Goes(P, X), NEW V, Notes(P, V), NEW some, some \subseteq Ids
  PROVE  /\ \A from : X.listings = P.listings /\ Lists(P, V, from, some) => Lists(X, V, from, some)
         /\ \A s, t : /\ Stocked(P) /\ Adjoins(P, s, t) /\ In(X.written) \subseteq In(t) /\ Lists(V, P, s, some)
                      => Lists(V, X, t, some)
<1>1. ASSUME NEW from, X.listings = P.listings, Lists(P, V, from, some) PROVE Lists(X, V, from, some)
  <2>1. \A k \in Ids : P.out[k].status # Absent => X.out[k] = P.out[k] BY DEF Goes, Widens
  <2>2. ASSUME NEW k \in Ids, NEW j, Known(P, k, from, j) PROVE Known(X, k, from, j)
    <3>1. X.out[k] = P.out[k] BY <2>1, <2>2 DEF Known, Is
    <3> QED BY <2>2, <3>1 DEF Known
  <2>3. ASSUME NEW k \in Ids, Listing(X, V, k) PROVE Listing(P, V, k)
    <3>1. V.in[k].status # Absent BY <2>3 DEF Listing, Absent
    <3>2. X.out[k] = P.out[k] BY <2>1, <3>1 DEF Notes
    <3> QED BY <1>1, <2>3, <3>2 DEF Listing
  <2>4. ASSUME NEW k \in some, Listing(X, V, k) PROVE Paging(V, k, In(from))
    BY <1>1, <2>3, <2>4 DEF Lists
  <2>5. ASSUME NEW o \in Ids, NEW k \in Ids, Is(X.in[o], "FILE_LIST"), X.in[o].req.ref = k, X.in[o].status # "STATUS_OK"
        PROVE  X.out[k].status = "STATUS_OK" /\ X.listings[k].left = 0
    <3>1. X.in = P.in BY DEF Goes
    <3>2. P.out[k].status = "STATUS_OK" /\ P.listings[k].left = 0 BY <1>1, <2>5, <3>1 DEF Lists
    <3>3. X.out[k] = P.out[k] BY <2>1, <3>2 DEF Absent
    <3> QED BY <1>1, <3>2, <3>3
  <2> QED BY <1>1, <2>2, <2>4, <2>5 DEF Lists
<1>2. ASSUME NEW s, NEW t, Stocked(P), Adjoins(P, s, t), In(X.written) \subseteq In(t), Lists(V, P, s, some)
      PROVE  Lists(V, X, t, some)
  <2>1. X.in = P.in BY DEF Goes
  <2>2. /\ Len(s) \in Nat /\ Len(t) \in Nat /\ Len(s) <= Len(t)
        /\ \A i \in 1 .. Len(s) : i \in 1 .. Len(t) /\ t[i] = s[i]
    BY <1>2 DEF Adjoins
  <2>3. ASSUME NEW k \in Ids, NEW i \in Nat, NEW j \in Nat, i <= j, Known(V, k, s, i) PROVE Known(V, k, t, j)
    BY <2>2, <2>3 DEF Known
  <2>4. ASSUME NEW k \in Ids, X.lists[k].live PROVE Known(V, k, t, Len(t) + 1)
    <3>1. P.lists[k].live BY <2>4 DEF Goes, Lends
    <3>2. Known(V, k, s, Len(s) + 1) BY <1>2, <3>1 DEF Lists
    <3>3. Len(s) + 1 \in Nat /\ Len(t) + 1 \in Nat /\ Len(s) + 1 <= Len(t) + 1 BY <2>2
    <3> QED BY <2>3, <3>2, <3>3
  <2>5. ASSUME NEW k \in Ids, NEW j \in 1 .. Len(t), Page(t[j], k) PROVE Known(V, k, t, j)
    <3>1. CASE j \in 1 .. Len(s)
      <4>1. Known(V, k, s, j) BY <1>2, <2>2, <2>5, <3>1 DEF Lists
      <4> QED BY <2>3, <4>1
    <3>2. CASE j \notin 1 .. Len(s)
      <4>1. j > Len(s) /\ Len(s) + 1 \in Nat /\ Len(s) + 1 <= j /\ j \in Nat BY <2>2, <3>2
      <4>2. P.lists[k].left > 0 BY <1>2, <2>5, <4>1 DEF Adjoins
      <4>3. P.lists[k].live BY <1>2, <4>2 DEF Stocked
      <4>4. Known(V, k, s, Len(s) + 1) BY <1>2, <4>3 DEF Lists
      <4> QED BY <2>3, <4>1, <4>4
    <3> QED BY <3>1, <3>2
  <2>6. ASSUME NEW k \in some, Listing(V, X, k) PROVE Paging(X, k, In(t))
    <3>1. Listing(V, P, k) BY <2>1, <2>6 DEF Listing
    <3>2. Paging(P, k, In(s)) BY <1>2, <2>6, <3>1 DEF Lists
    <3>3. \A o \in Open(P.out) : o \in Open(X.out) /\ X.out[o] = P.out[o] BY StaysOpen DEF Goes
    <3>4. X.lists[k].left = P.lists[k].left \/ Turning(X, k) BY DEF Goes, Lends
    <3>5. In(s) \subseteq In(t) BY <1>2, AdjoinsIn
    <3>6. CASE Turning(X, k) BY <1>2, <3>6, TurningPaging
    <3>7. CASE X.lists[k].left = P.lists[k].left BY <3>2, <3>3, <3>5, <3>7 DEF Paging
    <3> QED BY <3>4, <3>6, <3>7
  <2> QED BY <1>2, <2>4, <2>5, <2>6 DEF Lists
<1> QED BY <1>1, <1>2

\* S takes the first message of from and is N.
LEMMA KnownTaken ==
  ASSUME NEW S, NEW N, NEW from \in Seq(OnWire), from # <<>>, NEW k \in Ids,
         Is(S.out[k], "LIST_FILES") => Is(N.out[k], "LIST_FILES"),
         S.out[k].status = "STATUS_OK" \/ (Is(S.out[k], "LIST_FILES") /\ Grants(from[1], k)) => N.out[k].status = "STATUS_OK",
         NEW j \in Nat, Known(S, k, from, j + 1)
  PROVE  Known(N, k, Tail(from), j)
<1>1. PICK n \in Nat : n = Len(from) BY Taking
<1>2. PICK rest : rest = Tail(from) OBVIOUS
<1>3. Len(rest) = n - 1 /\ n # 0 /\ \A i \in 1 .. n - 1 : rest[i] = from[i + 1] BY <1>1, <1>2, Taking
<1>4. Is(N.out[k], "LIST_FILES") /\ Is(S.out[k], "LIST_FILES") BY DEF Known
<1>5. CASE S.out[k].status = "STATUS_OK" BY <1>2, <1>4, <1>5 DEF Known
<1>6. CASE S.out[k].status # "STATUS_OK"
  <2>1. PICK i \in 1 .. n : i < j + 1 /\ Grants(from[i], k) BY <1>1, <1>6 DEF Known
  <2>2. CASE i = 1 BY <1>2, <1>4, <2>1, <2>2 DEF Known
  <2>3. CASE i # 1
    <3>1. PICK l \in 1 .. n - 1 : l + 1 = i
      <4>1. i - 1 \in 1 .. n - 1 /\ (i - 1) + 1 = i BY <2>3
      <4> QED BY <4>1
    <3>2. Grants(rest[l], k) /\ l < j /\ l \in 1 .. Len(rest) BY <1>3, <2>1, <3>1
    <3> QED BY <1>2, <1>4, <3>2 DEF Known
  <2> QED BY <2>2, <2>3
<1> QED BY <1>5, <1>6

LEMMA InTaken ==
  ASSUME NEW s \in Seq(OnWire), s # <<>>, NEW m \in In(s), m # s[1]
  PROVE  m \in In(Tail(s))
<1>1. PICK n \in Nat : n = Len(s) BY Taking
<1>2. PICK rest : rest = Tail(s) OBVIOUS
<1>3. Len(rest) = n - 1 /\ \A i \in 1 .. n - 1 : rest[i] = s[i + 1] BY <1>1, <1>2, Taking
<1>4. PICK i \in 1 .. n : m = s[i] /\ i # 1 BY <1>1 DEF In
<1>5. PICK l \in 1 .. n - 1 : l + 1 = i
  <2>1. i - 1 \in 1 .. n - 1 /\ (i - 1) + 1 = i BY <1>4
  <2> QED BY <2>1
<1>6. m = rest[l] /\ l \in 1 .. Len(rest) BY <1>3, <1>4, <1>5
<1> QED BY <1>2, <1>6 DEF In

\* P takes the first of its messages, the answer to its request id, and is Q.
Lands(P, Q, mine, id, status) ==
  /\ mine # <<>> /\ Replying(mine[1], id) /\ id \in Open(P.out)
  /\ status = Recorded(P.out[id].req, mine[1].status) /\ Q = Settle(P, id, status)

\* What P then has.
Landed(P, Q, mine, id, status) ==
  /\ P.out[id].req.code # "RECEIVE_FILE" => status = mine[1].status
  /\ P.out[id].req.code = "RECEIVE_FILE" => status # "STATUS_OK"
  /\ P.out[id].status \in Unanswered /\ P.out[id].status # Absent /\ P.out[id].status # "STATUS_OK"
  /\ Q.out[id].status = status /\ Q.out[id].req = P.out[id].req
  /\ \A o \in Ids : o # id => Q.out[o] = P.out[o]
  /\ Q.in = P.in /\ Q.uploads = P.uploads /\ Q.downloads = P.downloads
  /\ Q.lists = P.lists /\ Q.listings = P.listings /\ Q.written = P.written
  /\ status # Absent /\ mine[1] \in In(mine) /\ mine[1].type = "RESPONSE"
  /\ \A k \in Ids : \A code : Is(P.out[k], code) <=> Is(Q.out[k], code)

LEMMA LandsStatus ==
  ASSUME NEW P \in PeerTypes, NEW Q, NEW mine \in Seq(OnWire), NEW id \in Ids, NEW status \in Statuses,
         Lands(P, Q, mine, id, status)
  PROVE  Landed(P, Q, mine, id, status)
<1>1. /\ Q.out[id].status = status /\ Q.out[id].req = P.out[id].req
      /\ \A o \in Ids : o # id => Q.out[o] = P.out[o]
      /\ Q.in = P.in /\ Q.uploads = P.uploads /\ Q.downloads = P.downloads
      /\ Q.lists = P.lists /\ Q.listings = P.listings /\ Q.written = P.written
      /\ status # Absent
  BY Settles DEF Lands
<1>2. /\ P.out[id].req.code # "RECEIVE_FILE" => status = mine[1].status
      /\ P.out[id].req.code = "RECEIVE_FILE" => status # "STATUS_OK"
  BY DEF Lands, Recorded, Pending
<1>3. P.out[id].status \in Unanswered /\ P.out[id].status # Absent /\ P.out[id].status # "STATUS_OK"
  <2>1. Absent \notin Unanswered /\ "STATUS_OK" \notin Unanswered BY DEF Unanswered, None, Pending, Absent
  <2>2. P.out[id].status \in Unanswered BY DEF Lands, Open
  <2> QED BY <2>1, <2>2
<1>4. mine[1] \in In(mine) /\ mine[1].type = "RESPONSE" BY InTail DEF Lands, Replying
<1>5. ASSUME NEW k \in Ids, NEW code PROVE Is(P.out[k], code) <=> Is(Q.out[k], code)
  <2>1. CASE k = id BY <1>1, <1>3, <2>1 DEF Is
  <2>2. CASE k # id BY <1>1, <2>2 DEF Is
  <2> QED BY <2>1, <2>2
<1> QED BY <1>1, <1>2, <1>3, <1>4, <1>5 DEF Landed

\* The status is what V says of its request id, which is r.
Agrees(V, id, r, status) ==
  /\ r.code \notin {"RECEIVE_FILE", "SEND_FILE"} => V.in[id].status = status
  /\ r.code = "SEND_FILE" /\ status \notin Unanswered => V.in[id].status = status

LEMMA LandsEcho ==
  ASSUME NEW P \in PeerTypes, NEW Q, NEW mine \in Seq(OnWire), NEW id \in Ids, NEW status \in Statuses,
         Lands(P, Q, mine, id, status), NEW V, Echo(P, V, In(mine))
  PROVE  Echo(Q, V, In(Tail(mine))) /\ Agrees(V, id, P.out[id].req, status)
<1>1. /\ P.out[id].req.code # "RECEIVE_FILE" => status = mine[1].status
      /\ Q.out[id].status = status /\ Q.out[id].req = P.out[id].req
      /\ \A o \in Ids : o # id => Q.out[o] = P.out[o]
      /\ mine[1] \in In(mine) /\ \A k \in Ids : \A code : Is(P.out[k], code) <=> Is(Q.out[k], code)
  <2>1. Landed(P, Q, mine, id, status) BY LandsStatus
  <2> QED BY <2>1 DEF Landed
<1>2. In(Tail(mine)) \subseteq In(mine) /\ Replying(mine[1], id) BY InTail DEF Lands
<1>3. Pending \notin Final BY FinalAssumption
<1>4. Pending \in Unanswered BY DEF Unanswered
<1>5. mine[1].status = V.in[id].status \/ (mine[1].status = Pending /\ Is(P.out[id], "SEND_FILE"))
  BY <1>1, <1>2 DEF Echo
<1>6. ASSUME NEW k \in Ids, Q.out[k].status \in Final, Q.out[k].req.code # "RECEIVE_FILE"
      PROVE  V.in[k].status = Q.out[k].status
  <2>1. CASE k = id BY <1>1, <1>3, <1>5, <1>6, <2>1
  <2>2. CASE k # id BY <1>1, <1>6, <2>2 DEF Echo
  <2> QED BY <2>1, <2>2
<1>9. ASSUME NEW k \in Ids, V.in[k].status \in Final, Q.out[k].status \in Unanswered, Q.out[k].req.code # "RECEIVE_FILE"
      PROVE  \E m \in In(Tail(mine)) : Replying(m, k) /\ m.status = V.in[k].status
  <2>1. P.out[k].status \in Unanswered /\ P.out[k].req.code # "RECEIVE_FILE"
    <3>1. P.out[id].status \in Unanswered
      <4>1. Landed(P, Q, mine, id, status) BY LandsStatus
      <4> QED BY <4>1 DEF Landed
    <3>2. CASE k = id BY <1>1, <1>9, <3>1, <3>2
    <3>3. CASE k # id BY <1>1, <1>9, <3>3
    <3> QED BY <3>2, <3>3
  <2>2. PICK m \in In(mine) : Replying(m, k) /\ m.status = V.in[k].status BY <1>9, <2>1 DEF Echo
  <2>3. m # mine[1]
    <3>1. CASE k # id BY <1>2, <2>2, <3>1 DEF Replying
    <3>2. CASE k = id
      <4>1. status \notin Final
        <5>1. \A final \in Final : final \notin Unanswered BY FinalClosed
        <5>2. status \in Unanswered BY <1>1, <1>9, <3>2
        <5> QED BY <5>1, <5>2
      <4>2. mine[1].status \notin Final BY <1>1, <1>9, <3>2, <4>1
      <4> QED BY <1>9, <2>2, <4>2
    <3> QED BY <3>1, <3>2
  <2>4. mine # <<>> BY DEF Lands
  <2>5. m \in In(Tail(mine)) BY <2>3, <2>4, InTaken
  <2> QED BY <2>2, <2>5
<1>7. Echo(Q, V, In(Tail(mine)))
  <2>1. \A m \in In(Tail(mine)) : \A k \in Ids : Replying(m, k) =>
          m.status = V.in[k].status \/ (m.status = Pending /\ Is(Q.out[k], "SEND_FILE"))
    BY <1>1, <1>2 DEF Echo
  <2> QED BY <1>6, <1>9, <2>1 DEF Echo
<1>8. Agrees(V, id, P.out[id].req, status) BY <1>1, <1>4, <1>5 DEF Agrees, Is
<1> QED BY <1>7, <1>8

\* The answer lets the upload k go on.
Resumed(k, id, r, status) ==
  status = "STATUS_OK" /\ ((r.code = "SEND_FILE" /\ k = id) \/ (r.code = "DATA_PACKET" /\ k = r.ref))

LEMMA LandsDelivers ==
  ASSUME NEW P \in PeerTypes, NEW Q, NEW mine \in Seq(OnWire), NEW id \in Ids, NEW status \in Statuses,
         Lands(P, Q, mine, id, status), NEW V, Echo(P, V, In(mine)), Notes(P, V),
         NEW c, NEW to, Delivers(P, V, c, to, Ids)
  PROVE  Delivers(Q, V, c, to, {k \in Ids : ~Resumed(k, id, P.out[id].req, status)})
<1>1. /\ Q.out[id].status = status /\ Q.out[id].req = P.out[id].req
      /\ \A o \in Ids : o # id => Q.out[o] = P.out[o]
      /\ Q.uploads = P.uploads /\ P.out[id].status # Absent /\ status # Absent
      /\ \A k \in Ids : \A code : Is(P.out[k], code) <=> Is(Q.out[k], code)
  <2>1. Landed(P, Q, mine, id, status) BY LandsStatus
  <2> QED BY <2>1 DEF Landed
<1>2. Agrees(V, id, P.out[id].req, status) BY LandsEcho
<1>3. ASSUME NEW k \in Ids, ~Resumed(k, id, P.out[id].req, status), V.downloads[k].left > 0
      PROVE  Lively(Q, c, k, to)
  <2>1. Lively(P, c, k, to) /\ V.downloads[k].live BY <1>3 DEF Delivers
  <2>2. Is(P.out[k], "SEND_FILE") /\ V.in[k].status = "STATUS_OK" BY <2>1 DEF Delivers
  <2>3. CASE P.out[k].status \in Unanswered
    <3>1. CASE k = id
      <4>1. status \in Unanswered \/ status = "STATUS_OK" BY <1>2, <2>2, <3>1 DEF Is, Agrees
      <4>2. status # "STATUS_OK" BY <1>3, <2>2, <3>1 DEF Resumed, Is
      <4> QED BY <1>1, <3>1, <4>1, <4>2 DEF Lively
    <3>2. CASE k # id BY <1>1, <2>3, <3>2 DEF Lively
    <3> QED BY <3>1, <3>2
  <2>4. CASE P.uploads[k].left > 0 /\ Pushing(c, k) BY <1>1, <2>4 DEF Lively
  <2>5. CASE P.uploads[k].left > 0 /\ \E o \in Open(P.out) : P.out[o].req.code = "DATA_PACKET" /\ P.out[o].req.ref = k
    <3>1. PICK o \in Open(P.out) : P.out[o].req.code = "DATA_PACKET" /\ P.out[o].req.ref = k BY <2>5
    <3>2. o \in Ids BY DEF Open
    <3>3. CASE o = id
      <4>1. V.in[id].status = status BY <1>2, <3>1, <3>3 DEF Agrees
      <4>2. V.in[id].req = P.out[id].req BY <1>1, <4>1 DEF Notes
      <4>3. Is(V.in[id], "DATA_PACKET") /\ V.in[id].req.ref = k BY <1>1, <3>1, <3>3, <4>1, <4>2 DEF Is
      <4>4. status = "STATUS_OK" BY <2>1, <4>1, <4>3 DEF Delivers
      <4> QED BY <1>3, <3>1, <3>3, <4>4 DEF Resumed
    <3>4. CASE o # id
      <4>1. Q.out[o] = P.out[o] BY <1>1, <3>2, <3>4
      <4>2. o \in Open(Q.out) BY <3>2, <4>1 DEF Open
      <4> QED BY <1>1, <2>5, <3>1, <4>1, <4>2 DEF Lively
    <3> QED BY <3>3, <3>4
  <2>6. CASE \E m \in to : Packet(m, k) /\ m.req.last BY <2>6 DEF Lively
  <2> QED BY <2>1, <2>3, <2>4, <2>5, <2>6 DEF Lively
<1> QED BY <1>1, <1>3 DEF Delivers

LEMMA LandsListing ==
  ASSUME NEW P \in PeerTypes, NEW Q, NEW mine \in Seq(OnWire), NEW id \in Ids, NEW status \in Statuses,
         Lands(P, Q, mine, id, status), NEW V, Notes(P, V), Lists(P, V, mine, Ids),
         NEW X, Receives(P, Q, X, id, status)
  PROVE  Lists(X, V, Tail(mine), Ids)
<1>0. Landed(P, Q, mine, id, status) BY LandsStatus
<1>1. /\ P.out[id].status # Absent /\ P.out[id].status # "STATUS_OK"
      /\ Q.out[id].status = status /\ Q.out[id].req = P.out[id].req
      /\ \A o \in Ids : o # id => Q.out[o] = P.out[o]
      /\ Q.in = P.in /\ Q.listings = P.listings /\ status # Absent
      /\ mine[1].type = "RESPONSE"
  BY <1>0 DEF Landed
<1>2. mine # <<>> /\ Replying(mine[1], id) BY DEF Lands
<1>3. PICK rest \in Seq(OnWire) : rest = Tail(mine) BY <1>2, InTail
<1>4. /\ Len(rest) \in Nat /\ Len(rest) + 1 \in Nat /\ Len(mine) + 1 = (Len(rest) + 1) + 1
      /\ \A j \in 1 .. Len(rest) : j \in Nat /\ j + 1 \in 1 .. Len(mine) /\ rest[j] = mine[j + 1]
  <2>1. /\ Len(mine) \in Nat /\ Len(mine) # 0 /\ Len(rest) = Len(mine) - 1
        /\ \A i \in 1 .. Len(mine) - 1 : i + 1 \in 1 .. Len(mine) /\ rest[i] = mine[i + 1]
    BY <1>2, <1>3, Taking
  <2> QED BY <2>1
<1>5. X.out[id].status = status /\ X.out[id].req = P.out[id].req /\ X.in = P.in
      /\ \A k \in Ids : k # id /\ P.out[k].status # Absent => X.out[k] = P.out[k]
  BY <1>1 DEF Receives, Goes, Widens
<1>6. \A k \in Ids : k # id => X.listings[k] = P.listings[k]
  <2>1. P.listings \in [Ids -> Transferred] BY Maps
  <2>2. CASE status = "STATUS_OK" BY <1>1, <2>1, <2>2 DEF Receives, Begun
  <2>3. CASE status # "STATUS_OK" BY <1>1, <2>3 DEF Receives
  <2> QED BY <2>2, <2>3
<1>7. ASSUME NEW k \in Ids, NEW j \in Nat, Known(P, k, mine, j + 1) PROVE Known(X, k, rest, j)
  <2>1. Is(P.out[k], "LIST_FILES") => Is(X.out[k], "LIST_FILES") BY <1>1, <1>5 DEF Is
  <2>2. CASE k = id
    <3>1. P.out[k].status # "STATUS_OK" BY <1>1, <2>2
    <3>2. Is(P.out[k], "LIST_FILES") /\ Grants(mine[1], k) => X.out[k].status = "STATUS_OK"
      BY <1>0, <1>5, <2>2 DEF Is, Grants, Landed
    <3> QED BY <1>2, <1>3, <1>7, <2>1, <3>1, <3>2, KnownTaken
  <2>3. CASE k # id
    <3>1. ~Grants(mine[1], k) BY <1>2, <2>3 DEF Grants, Replying
    <3>2. P.out[k].status = "STATUS_OK" => X.out[k].status = "STATUS_OK" BY <1>5, <2>3 DEF Absent
    <3> QED BY <1>2, <1>3, <1>7, <2>1, <3>1, <3>2, KnownTaken
  <2> QED BY <2>2, <2>3
<1>8. ASSUME NEW k \in Ids, V.lists[k].live PROVE Known(X, k, rest, Len(rest) + 1)
  <2>1. Known(P, k, mine, Len(mine) + 1) BY <1>8 DEF Lists
  <2>2. PICK j \in Nat : j = Len(rest) + 1 BY <1>4
  <2>3. Known(P, k, mine, j + 1) BY <1>4, <2>1, <2>2
  <2> QED BY <1>7, <2>2, <2>3
<1>9. ASSUME NEW k \in Ids, NEW j \in 1 .. Len(rest), Page(rest[j], k) PROVE Known(X, k, rest, j)
  <2>1. Known(P, k, mine, j + 1) BY <1>4, <1>9 DEF Lists
  <2> QED BY <1>4, <1>7, <2>1
<1>10. ASSUME NEW k \in Ids, Listing(X, V, k) PROVE Paging(V, k, In(rest))
  <2>1. P.out[k].status # Absent BY <1>10 DEF Listing, Notes, Absent
  <2>2. Listing(P, V, k)
    <3>1. CASE k = id BY <1>1, <1>5, <1>10, <3>1 DEF Listing, Is
    <3>2. CASE k # id BY <1>5, <1>6, <1>10, <2>1, <3>2 DEF Listing
    <3> QED BY <3>1, <3>2
  <2>3. Paging(V, k, In(mine)) BY <2>2 DEF Lists
  <2>4. \A m \in In(mine) : Page(m, k) => m \in In(rest)
    <3>1. ~Page(mine[1], k) BY <1>1 DEF Page
    <3> QED BY <1>2, <1>3, <3>1, InTaken
  <2> QED BY <2>3, <2>4 DEF Paging
<1>11. ASSUME NEW o \in Ids, NEW k \in Ids, Is(X.in[o], "FILE_LIST"), X.in[o].req.ref = k, X.in[o].status # "STATUS_OK"
       PROVE  X.out[k].status = "STATUS_OK" /\ X.listings[k].left = 0
  <2>1. P.out[k].status = "STATUS_OK" /\ P.listings[k].left = 0 BY <1>5, <1>11 DEF Lists
  <2>2. k # id /\ P.out[k].status # Absent BY <1>1, <2>1 DEF Absent
  <2> QED BY <1>5, <1>6, <2>1, <2>2
<1>12. ASSUME NEW k \in Ids, X.listings[k].left > 0 PROVE X.listings[k].live
  <2>1. P.listings[k].left > 0 => P.listings[k].live BY DEF Lists
  <2>2. CASE k # id BY <1>6, <1>12, <2>1, <2>2
  <2>3. CASE k = id /\ X.listings = P.listings BY <1>12, <2>1, <2>3
  <2>4. CASE k = id /\ X.listings = [P.listings EXCEPT ![id] = Emplaced(@, Transfer(P.out[id].req.file, 1))]
    <3>1. P.listings \in [Ids -> Transferred] BY Maps
    <3>2. X.listings[k] = Emplaced(P.listings[k], Transfer(P.out[id].req.file, 1)) BY <2>4, <3>1
    <3>3. Transfer(P.out[id].req.file, 1).live BY DEF Transfer, NoTransfer
    <3> QED BY <3>2, <3>3 DEF Emplaced
  <2>5. CASE status # "STATUS_OK" BY <1>1, <2>2, <2>3, <2>5 DEF Receives
  <2>6. CASE status = "STATUS_OK" BY <1>1, <2>2, <2>3, <2>4, <2>6 DEF Receives, Begun
  <2> QED BY <2>5, <2>6
<1>13. Lists(X, V, rest, Ids) BY <1>8, <1>9, <1>10, <1>11, <1>12 DEF Lists
<1> QED BY <1>3, <1>13

\* The answer lets the listing k of P go on.
Again(k, r, status) == status = "STATUS_OK" /\ r.code = "FILE_LIST" /\ r.ref = k

LEMMA LandsPages ==
  ASSUME NEW P \in PeerTypes, NEW Q, NEW mine \in Seq(OnWire), NEW id \in Ids, NEW status \in Statuses,
         Lands(P, Q, mine, id, status), NEW V, Notes(P, V), Echo(P, V, In(mine)), NEW s, Lists(V, P, s, Ids)
  PROVE  Lists(V, Q, s, {k \in Ids : ~Again(k, P.out[id].req, status)})
<1>1. /\ Q.out[id].status = status /\ Q.out[id].req = P.out[id].req
      /\ \A o \in Ids : o # id => Q.out[o] = P.out[o]
      /\ Q.lists = P.lists /\ Q.in = P.in /\ P.out[id].status # Absent /\ status # Absent
  <2>1. Landed(P, Q, mine, id, status) BY LandsStatus
  <2> QED BY <2>1 DEF Landed
<1>2. Agrees(V, id, P.out[id].req, status) BY LandsEcho
<1>3. ASSUME NEW k \in Ids, ~Again(k, P.out[id].req, status), Listing(V, Q, k) PROVE Paging(Q, k, In(s))
  <2>1. Listing(V, P, k) BY <1>1, <1>3 DEF Listing
  <2>2. Paging(P, k, In(s)) BY <2>1 DEF Lists
  <2>3. CASE \E m \in In(s) : Page(m, k) /\ m.req.last BY <2>3 DEF Paging
  <2>4. CASE P.lists[k].left > 0 /\ \E o \in Open(P.out) : P.out[o].req.code = "FILE_LIST" /\ P.out[o].req.ref = k
    <3>1. PICK o \in Open(P.out) : P.out[o].req.code = "FILE_LIST" /\ P.out[o].req.ref = k BY <2>4
    <3>2. o \in Ids BY DEF Open
    <3>3. CASE o = id
      <4>1. V.in[id].status = status BY <1>2, <3>1, <3>3 DEF Agrees
      <4>2. V.in[id].req = P.out[id].req BY <1>1, <4>1 DEF Notes
      <4>3. Is(V.in[id], "FILE_LIST") /\ V.in[id].req.ref = k BY <1>1, <3>1, <3>3, <4>1, <4>2 DEF Is
      <4>4. status # "STATUS_OK" BY <1>3, <3>1, <3>3 DEF Again
      <4>5. V.out[k].status = "STATUS_OK" /\ V.listings[k].left = 0 BY <4>1, <4>3, <4>4 DEF Lists
      <4>6. V.listings[k].left > 0 BY <2>1, <4>5 DEF Listing
      <4> QED BY <4>5, <4>6
    <3>4. CASE o # id
      <4>1. Q.out[o] = P.out[o] BY <1>1, <3>2, <3>4
      <4>2. o \in Open(Q.out) BY <3>2, <4>1 DEF Open
      <4> QED BY <1>1, <2>4, <3>1, <4>1, <4>2 DEF Paging
    <3> QED BY <3>3, <3>4
  <2> QED BY <2>2, <2>3, <2>4 DEF Paging
<1> QED BY <1>1, <1>3 DEF Lists

\* What the two know of each other, P in the call c, V in the call d: mine is on
\* its way to P, s to V.
Deals(P, V, c, d, mine, s) ==
  /\ Stocked(P)
  /\ Echo(P, V, In(mine)) /\ Echo(V, P, In(s))
  /\ Delivers(P, V, c, In(s), Ids) /\ Delivers(V, P, d, In(mine), Ids)
  /\ Lists(P, V, mine, Ids) /\ Lists(V, P, s, Ids)

LEMMA ReceiveDeals ==
  ASSUME NEW P \in PeerTypes, NEW Q \in PeerTypes, NEW X \in PeerTypes, NEW mine \in Seq(OnWire),
         NEW w \in Seq(OnWire), NEW id \in Ids, NEW status \in Statuses,
         Lands(P, Q, mine, id, status), Receives(P, Q, X, id, status), Stocked(Q), Book(P),
         NEW V, Notes(P, V), NEW c, NEW d, NEW s, s = w \o P.written, NEW t, t = w \o X.written,
         Deals(P, V, c, d, mine, s)
  PROVE  Deals(X, V, c, d, Tail(mine), t)
<1>0. Landed(P, Q, mine, id, status) BY LandsStatus
<1>1. /\ P.out[id].status \in Unanswered /\ P.out[id].status # Absent
      /\ Q.out[id].status = status /\ Q.out[id].req = P.out[id].req
      /\ \A o \in Ids : o # id => Q.out[o] = P.out[o]
      /\ Q.in = P.in /\ Q.uploads = P.uploads /\ Q.downloads = P.downloads
      /\ Q.lists = P.lists /\ Q.listings = P.listings /\ Q.written = P.written
      /\ status # Absent /\ mine[1].type = "RESPONSE"
  BY <1>0 DEF Landed
<1>2. PICK r : r = P.out[id].req OBVIOUS
<1>3. Goes(Q, X) /\ mine # <<>> BY DEF Receives, Lands
<1>4. Adjoins(Q, s, t) /\ In(X.written) \subseteq In(t)
  <2>1. Writes(Q, X) /\ s = w \o Q.written BY <1>1, <1>3 DEF Goes
  <2> QED BY <2>1, WritesAdjoins
<1>5. In(s) \subseteq In(t) BY <1>4, AdjoinsIn
<1>6. Stocked(X) BY <1>3 DEF Goes
<1>13. Notes(Q, V) BY <1>1 DEF Notes
<1>7. Echo(X, V, In(Tail(mine)))
  <2>1. PICK from : from = In(Tail(mine)) OBVIOUS
  <2>2. Echo(P, V, In(mine)) BY DEF Deals
  <2>3. Echo(Q, V, from) BY <2>1, <2>2, LandsEcho
  <2>4. \A any : Echo(Q, V, any) => Echo(X, V, any) BY <1>3, <1>13, GoesEcho
  <2> QED BY <2>1, <2>3, <2>4
<1>8. Echo(V, X, In(t))
  <2>1. Echo(V, Q, In(s)) BY <1>1 DEF Deals, Echo
  <2>2. \A from, to : Adjoins(Q, from, to) /\ Echo(V, Q, In(from)) => Echo(V, X, In(to)) BY <1>3, <1>13, GoesEcho
  <2> QED BY <1>4, <2>1, <2>2
<1>9. Delivers(X, V, c, In(t), Ids)
  <2>1. PICK some : some = {k \in Ids : ~Resumed(k, id, r, status)} OBVIOUS
  <2>2. some \subseteq Ids BY <2>1
  <2>3. PICK to : to = In(s) OBVIOUS
  <2>4. Echo(P, V, In(mine)) /\ Delivers(P, V, c, to, Ids) BY <2>3 DEF Deals
  <2>5. Delivers(Q, V, c, to, {k \in Ids : ~Resumed(k, id, P.out[id].req, status)}) BY <2>4, LandsDelivers
  <2>6. Delivers(Q, V, c, In(s), some) BY <1>2, <2>1, <2>3, <2>5
  <2>7. Delivers(X, V, c, In(t), some)
    <3>1. \A from, to2 : /\ Adjoins(Q, from, to2) /\ In(X.written) \subseteq In(to2)
                         /\ Delivers(Q, V, c, In(from), some)
                         => Delivers(X, V, c, In(to2), some)
      BY <1>3, <2>2, GoesDelivers
    <3> QED BY <1>4, <2>6, <3>1
  <2>8. ASSUME NEW k \in Ids, Resumed(k, id, r, status), V.downloads[k].left > 0 PROVE Lively(X, c, k, In(t))
    <3>1. NextSent(Q, X, id, r) BY <1>2, <2>8 DEF Receives, Resumed
    <3>2. CASE r.code = "SEND_FILE" /\ k = id
      <4>1. Is(P.out[id], "SEND_FILE") BY <1>1, <1>2, <3>2 DEF Is
      <4>2. Q.uploads[id].left > 0 BY <1>1, <4>1 DEF Deals, Stocked
      <4>3. Feeding(X, k) BY <3>1, <3>2, <4>2 DEF NextSent
      <4> QED BY <1>4, <4>3, FeedingLively
    <3>3. CASE r.code = "DATA_PACKET" /\ k = r.ref /\ Q.uploads[k].left > 0
      <4>1. Feeding(X, k) BY <3>1, <3>3 DEF NextSent
      <4> QED BY <1>4, <4>1, FeedingLively
    <3>4. CASE r.code = "DATA_PACKET" /\ k = r.ref /\ ~(Q.uploads[k].left > 0)
      <4>1. Is(P.out[id], "DATA_PACKET") BY <1>1, <1>2, <3>4 DEF Is
      <4>2. P.out[k].status = "STATUS_OK" BY <1>2, <3>4, <4>1 DEF Book
      <4>3. P.out[k].status \notin Unanswered BY <4>2 DEF Unanswered, None, Pending
      <4>4. Lively(P, c, k, In(s)) BY <2>4, <2>3, <2>8 DEF Delivers
      <4>5. \E m \in In(s) : Packet(m, k) /\ m.req.last BY <1>1, <3>4, <4>3, <4>4 DEF Lively
      <4> QED BY <1>5, <4>5 DEF Lively
    <3> QED BY <2>8, <3>2, <3>3, <3>4 DEF Resumed
  <2>9. \A k \in Ids : k \in some \/ Resumed(k, id, r, status) BY <2>1
  <2> QED BY <2>7, <2>8, <2>9 DEF Delivers
<1>10. Delivers(V, X, d, In(Tail(mine)), Ids)
  <2>1. X.in = P.in /\ X.downloads = P.downloads BY <1>1, <1>3 DEF Goes
  <2>2. Delivers(V, P, d, In(mine), Ids) BY DEF Deals
  <2>3. \A k : \A m \in In(mine) : Packet(m, k) => m \in In(Tail(mine))
    <3>1. \A k : ~Packet(mine[1], k) BY <1>1 DEF Packet
    <3> QED BY <1>3, <3>1, InTaken
  <2>4. PICK to : to = In(Tail(mine)) OBVIOUS
  <2>5. ASSUME NEW k \in Ids, Lively(V, d, k, In(mine)) PROVE Lively(V, d, k, to)
    BY <2>3, <2>4, <2>5 DEF Lively
  <2> QED BY <2>1, <2>2, <2>4, <2>5 DEF Delivers
<1>11. Lists(X, V, Tail(mine), Ids)
  <2>1. Lists(P, V, mine, Ids) BY DEF Deals
  <2> QED BY <2>1, LandsListing
<1>12. Lists(V, X, t, Ids)
  <2>1. PICK some : some = {k \in Ids : ~Again(k, r, status)} OBVIOUS
  <2>2. some \subseteq Ids BY <2>1
  <2>3. Echo(P, V, In(mine)) /\ Lists(V, P, s, Ids) BY DEF Deals
  <2>4. Lists(V, Q, s, {k \in Ids : ~Again(k, P.out[id].req, status)}) BY <2>3, LandsPages
  <2>5. Lists(V, Q, s, some) BY <1>2, <2>1, <2>4
  <2>7. Lists(V, X, t, some) BY <1>3, <1>4, <1>13, <2>2, <2>5, GoesLists
  <2>8. ASSUME NEW k \in Ids, Again(k, r, status), Listing(V, X, k) PROVE Paging(X, k, In(t))
    <3>1. NextSent(Q, X, id, r) BY <1>2, <2>8 DEF Receives, Again
    <3>2. CASE Q.lists[k].left > 0
      <4>1. Turning(X, k) BY <2>8, <3>1, <3>2 DEF NextSent, Again
      <4> QED BY <1>4, <4>1, TurningPaging
    <3>3. CASE ~(Q.lists[k].left > 0)
      <4>1. X.in = P.in BY <1>1, <1>3 DEF Goes
      <4>2. Listing(V, P, k) BY <2>8, <4>1 DEF Listing
      <4>3. Paging(P, k, In(s)) BY <2>3, <4>2 DEF Lists
      <4>4. \E m \in In(s) : Page(m, k) /\ m.req.last BY <1>1, <3>3, <4>3 DEF Paging
      <4> QED BY <1>5, <4>4 DEF Paging
    <3> QED BY <3>2, <3>3
  <2>9. \A k \in Ids : k \in some \/ Again(k, r, status) BY <2>1
  <2> QED BY <2>7, <2>8, <2>9 DEF Lists
<1> QED BY <1>6, <1>7, <1>8, <1>9, <1>10, <1>11, <1>12 DEF Deals

\* r is the last packet of the transfer k, or the last page.
Ending(k, r, code) == r.code = code /\ r.ref = k /\ r.last

\* P takes up the request r, and has yet to answer it.
Owes(P, V, c, d, rest, s, r) ==
  /\ Stocked(P)
  /\ Echo(P, V, In(rest)) /\ Echo(V, P, In(s))
  /\ Delivers(P, V, c, In(s), Ids) /\ Delivers(V, P, d, In(rest), {k \in Ids : ~Ending(k, r, "DATA_PACKET")})
  /\ Lists(P, V, rest, {k \in Ids : ~Ending(k, r, "FILE_LIST")}) /\ Lists(V, P, s, Ids)
  /\ r.code = "FILE_LIST" => P.out[r.ref].status = "STATUS_OK"

LEMMA RequestTaken ==
  ASSUME NEW P \in PeerTypes, NEW mine \in Seq(OnWire), mine # <<>>, NEW m \in OnWire, m = mine[1], m.type = "REQUEST",
         m.req.code = "FILE_LIST" => m.req.ref \in Ids, NEW r, r = m.req,
         NEW V, NEW c, NEW d, NEW s, Deals(P, V, c, d, mine, s)
  PROVE  Owes(P, V, c, d, Tail(mine), s, r)
<1>1. PICK rest \in Seq(OnWire) : rest = Tail(mine) BY InTail
<1>2. In(rest) \subseteq In(mine) BY <1>1, InTail
<1>3. \A x \in In(mine) : x # m => x \in In(rest) BY <1>1, InTaken
<1>4. /\ Len(rest) \in Nat /\ Len(rest) + 1 \in Nat /\ Len(mine) + 1 = (Len(rest) + 1) + 1 /\ 1 \in 1 .. Len(mine)
      /\ \A j \in 1 .. Len(rest) : j \in Nat /\ j + 1 \in 1 .. Len(mine) /\ rest[j] = mine[j + 1]
  <2>1. /\ Len(mine) \in Nat /\ Len(mine) # 0 /\ Len(rest) = Len(mine) - 1
        /\ \A i \in 1 .. Len(mine) - 1 : i + 1 \in 1 .. Len(mine) /\ rest[i] = mine[i + 1]
    BY <1>1, Taking
  <2> QED BY <2>1
<1>5. Echo(P, V, In(rest))
  <2>1. Echo(P, V, In(mine)) BY DEF Deals
  <2>2. \A x \in In(mine) : \A k \in Ids : Replying(x, k) => x \in In(rest) BY <1>3 DEF Replying
  <2>3. \A k \in Ids : V.in[k].status \in Final /\ P.out[k].status \in Unanswered /\ P.out[k].req.code # "RECEIVE_FILE"
          => \E x \in In(rest) : Replying(x, k) /\ x.status = V.in[k].status
    BY <2>1, <2>2 DEF Echo
  <2> QED BY <1>2, <2>1, <2>3 DEF Echo
<1>6. Delivers(V, P, d, In(rest), {k \in Ids : ~Ending(k, r, "DATA_PACKET")})
  <2>1. Delivers(V, P, d, In(mine), Ids) BY DEF Deals
  <2>2. ASSUME NEW k \in Ids, ~Ending(k, r, "DATA_PACKET"), P.downloads[k].left > 0 PROVE Lively(V, d, k, In(rest))
    <3>1. Lively(V, d, k, In(mine)) BY <2>1, <2>2 DEF Delivers
    <3>2. \A x \in In(mine) : Packet(x, k) /\ x.req.last => x \in In(rest) BY <1>3, <2>2 DEF Packet, Ending
    <3> QED BY <3>1, <3>2 DEF Lively
  <2> QED BY <2>1, <2>2 DEF Delivers
<1>7. ASSUME NEW k \in Ids, NEW j \in Nat, Known(P, k, mine, j + 1) PROVE Known(P, k, rest, j)
  <2>1. ~Grants(mine[1], k) BY DEF Grants, Replying
  <2> QED BY <1>1, <1>7, <2>1, KnownTaken
<1>8. Lists(P, V, rest, {k \in Ids : ~Ending(k, r, "FILE_LIST")})
  <2>1. Lists(P, V, mine, Ids) BY DEF Deals
  <2>2. ASSUME NEW k \in Ids, V.lists[k].live PROVE Known(P, k, rest, Len(rest) + 1)
    <3>1. Known(P, k, mine, Len(mine) + 1) BY <2>1, <2>2 DEF Lists
    <3>2. PICK j \in Nat : j = Len(rest) + 1 BY <1>4
    <3>3. Known(P, k, mine, j + 1) BY <1>4, <3>1, <3>2
    <3> QED BY <1>7, <3>2, <3>3
  <2>3. ASSUME NEW k \in Ids, NEW j \in 1 .. Len(rest), Page(rest[j], k) PROVE Known(P, k, rest, j)
    <3>1. Known(P, k, mine, j + 1) BY <1>4, <2>1, <2>3 DEF Lists
    <3> QED BY <1>4, <1>7, <3>1
  <2>4. ASSUME NEW k \in Ids, ~Ending(k, r, "FILE_LIST"), Listing(P, V, k) PROVE Paging(V, k, In(rest))
    <3>1. Paging(V, k, In(mine)) BY <2>1, <2>4 DEF Lists
    <3>2. \A x \in In(mine) : Page(x, k) /\ x.req.last => x \in In(rest) BY <1>3, <2>4 DEF Page, Ending
    <3> QED BY <3>1, <3>2 DEF Paging
  <2> QED BY <2>1, <2>2, <2>3, <2>4 DEF Lists
<1>9. ASSUME r.code = "FILE_LIST" PROVE P.out[r.ref].status = "STATUS_OK"
  <2>1. PICK k \in Ids : k = r.ref BY <1>9
  <2>2. Page(mine[1], k) BY <1>9, <2>1 DEF Page
  <2>3. Known(P, k, mine, 1) BY <1>4, <2>2 DEF Deals, Lists
  <2>4. \A i \in 1 .. Len(mine) : ~(i < 1) OBVIOUS
  <2> QED BY <2>1, <2>3, <2>4 DEF Known
<1>10. Owes(P, V, c, d, rest, s, r) BY <1>5, <1>6, <1>8, <1>9 DEF Owes, Deals
<1> QED BY <1>1, <1>10

\* What the application is asked about is off the wire.
LEMMA RequestKept ==
  ASSUME NEW r, r.code = "SEND_FILE", NEW P, NEW V, NEW c, NEW d, NEW mine, NEW s, Deals(P, V, c, d, mine, s)
  PROVE  Owes(P, V, c, d, mine, s, r)
<1>1. PICK some, more : some = {k \in Ids : ~Ending(k, r, "DATA_PACKET")} /\ more = {k \in Ids : ~Ending(k, r, "FILE_LIST")}
  OBVIOUS
<1>2. some = Ids /\ more = Ids BY <1>1 DEF Ending
<1>3. /\ Delivers(V, P, d, In(mine), {k \in Ids : ~Ending(k, r, "DATA_PACKET")})
      /\ Lists(P, V, mine, {k \in Ids : ~Ending(k, r, "FILE_LIST")})
  <2>1. Delivers(V, P, d, In(mine), Ids) /\ Lists(P, V, mine, Ids) BY DEF Deals
  <2>2. Delivers(V, P, d, In(mine), some) /\ Lists(P, V, mine, more) BY <1>2, <2>1
  <2> QED BY <1>1, <2>2
<1> QED BY <1>3 DEF Deals, Owes

\* The request id of V, which is r, waits for the answer of P.
Due(P, V, id, r, s) ==
  /\ V.out[id].status \in Unanswered /\ V.out[id].req = r /\ Is(V.out[id], r.code)
  /\ P.in[id].status # "STATUS_OK"
  /\ \A m \in In(s) : Replying(m, id) => m.status = Pending /\ r.code = "SEND_FILE"
  /\ \A o \in Ids : Is(P.in[o], "DATA_PACKET") => P.in[o].req.ref # id

LEMMA FreshDue ==
  ASSUME NEW P \in PeerTypes, NEW V, NEW mine, NEW w, Context(V, mine, w), NEW id \in Ids, NEW r,
         Fresh(id, r, P, V, mine, w), r.code # "SEND_FILE" => P.in[id].status = Absent,
         NEW s, s = w \o P.written, Echo(V, P, In(s)), Notes(V, P), Book(V)
  PROVE  Due(P, V, id, r, s)
<1>1. /\ V.out[id].status \in Unanswered /\ V.out[id].req = r
      /\ \A k \in 1 .. Len(s) : Replying(s[k], id) => s[k].status = Pending /\ r.code # "RECEIVE_FILE"
  BY DEF Fresh, Open
<1>2. Absent \notin Unanswered /\ "STATUS_OK" \notin Unanswered BY DEF Unanswered, None, Pending, Absent
<1>3. Is(V.out[id], r.code) BY <1>1, <1>2 DEF Is
<1>4. \A m \in In(s) : Replying(m, id) => m.status = Pending BY <1>1 DEF In
<1>5. ASSUME NEW m \in In(s), Replying(m, id) PROVE r.code = "SEND_FILE"
  <2>1. m.status = Pending BY <1>4, <1>5
  <2>2. m.status = P.in[id].status \/ Is(V.out[id], "SEND_FILE") BY <1>5 DEF Echo
  <2>3. Pending # Absent BY DEF Pending, Absent
  <2>4. CASE Is(V.out[id], "SEND_FILE") BY <1>1, <2>4 DEF Is
  <2> QED BY <2>1, <2>2, <2>3, <2>4
<1>6. P.in[id].status # "STATUS_OK"
  <2> SUFFICES ASSUME P.in[id].status = "STATUS_OK" PROVE FALSE OBVIOUS
  <2>1. P.in[id].status \in Final /\ P.in[id].status # Pending
    <3>1. "STATUS_OK" \in Final BY SessionAssumption DEF SessionAssumption
    <3>2. "STATUS_OK" # Pending BY DEF Pending
    <3> QED BY <3>1, <3>2
  <2>2. P.in[id].status # Absent BY DEF Absent
  <2>3. r.code = "SEND_FILE" BY <2>2
  <2>4. V.out[id].req.code # "RECEIVE_FILE" BY <1>1, <2>3
  <2>5. PICK m \in In(s) : Replying(m, id) /\ m.status = P.in[id].status BY <1>1, <2>1, <2>4 DEF Echo
  <2> QED BY <1>4, <2>1, <2>5
<1>7. ASSUME NEW o \in Ids, Is(P.in[o], "DATA_PACKET") PROVE P.in[o].req.ref # id
  <2>1. P.in[o].status # Absent BY <1>7 DEF Is
  <2>2. V.out[o].status # Absent /\ V.out[o].req = P.in[o].req BY <2>1 DEF Notes
  <2>3. Is(V.out[o], "DATA_PACKET") BY <1>7, <2>2 DEF Is
  <2>4. V.out[V.out[o].req.ref].status = "STATUS_OK" BY <2>3 DEF Book
  <2> QED BY <1>1, <1>2, <2>2, <2>4
<1> QED BY <1>1, <1>3, <1>4, <1>5, <1>6, <1>7 DEF Due

\* What the answer does to the download k.
Gets(old, new, k, id, r, status) ==
  \/ /\ new = old
     /\ r.code = "DATA_PACKET" /\ r.ref = k => ~old.live
     /\ ~(r.code = "SEND_FILE" /\ k = id /\ status = "STATUS_OK")
  \/ /\ r.code = "DATA_PACKET" /\ r.ref = k /\ old.live /\ status = "STATUS_OK"
     /\ new.keep => old.keep
     /\ new.live /\ new.left = 0 => new.keep
     /\ new.left > 0 => new.live /\ old.left > 0 /\ ~r.last
  \/ /\ r.code = "SEND_FILE" /\ k = id /\ status = "STATUS_OK"
     /\ ~old.live => new.live /\ ~new.keep /\ new.left # 0

\* What it does to the listing k.
Shows(old, new, k, r, status) ==
  \/ new = old /\ (r.code = "FILE_LIST" /\ r.ref = k => ~old.live)
  \/ /\ r.code = "FILE_LIST" /\ r.ref = k /\ status = "STATUS_OK" /\ new.live
     /\ new.left > 0 => old.left > 0 /\ ~r.last

\* Whether it begins a listing.
Opens(id, r, status, k) == k = id /\ r.code = "LIST_FILES" /\ status = "STATUS_OK"

\* The request o is the same, or is a RECEIVE_FILE that is settled.
Settled(old, new) ==
  \/ new = old
  \/ old.status # Absent /\ old.req.code = "RECEIVE_FILE" /\ new.req = old.req /\ new.status = "STATUS_OK"

\* P answers the request id, which is r, with the status, and is L.
Serves(P, L, id, r, status) ==
  /\ L.in[id] = [req |-> r, status |-> status] /\ \A o \in Ids : o # id => L.in[o] = P.in[o]
  /\ L.written = Append(P.written, [type |-> "RESPONSE", id |-> id, status |-> status])
  /\ \A o \in Ids : Settled(P.out[o], L.out[o])
  /\ L.uploads = P.uploads
  /\ \A k \in Ids : L.lists[k] = P.lists[k] \/ (Opens(id, r, status, k) /\ L.lists[k].live)
  /\ \A k \in Ids : Gets(P.downloads[k], L.downloads[k], k, id, r, status)
  /\ \A k \in Ids : Shows(P.listings[k], L.listings[k], k, r, status)

LEMMA ServesOut ==
  ASSUME NEW P, NEW L, NEW id, NEW r, NEW status, Serves(P, L, id, r, status)
  PROVE  /\ \A o \in Ids : P.out[o].status # Absent => L.out[o].status # Absent /\ L.out[o].req = P.out[o].req
         /\ \A o \in Ids : P.out[o].req.code # "RECEIVE_FILE" => L.out[o] = P.out[o]
         /\ \A o \in Ids : L.out[o].req.code # "RECEIVE_FILE" => L.out[o] = P.out[o]
         /\ \A o \in Ids : P.out[o].status = "STATUS_OK" => L.out[o].status = "STATUS_OK"
         /\ \A o \in Ids : P.out[o].status = Absent => L.out[o] = P.out[o]
BY DEF Serves, Settled, Absent

LEMMA ServesStocked ==
  ASSUME NEW P, NEW L \in PeerTypes, NEW id, NEW r, NEW status, Serves(P, L, id, r, status), Stocked(P)
  PROVE  Stocked(L)
<1>1. L.uploads = P.uploads BY DEF Serves
<1>2. \A k \in Ids : (Is(L.out[k], "SEND_FILE") => L.out[k] = P.out[k]) /\ (Is(P.out[k], "SEND_FILE") => L.out[k] = P.out[k])
  BY ServesOut DEF Is
<1>3. \A k \in Ids : L.lists[k].left > 0 => L.lists[k].live BY DEF Serves, Stocked
<1> QED BY <1>1, <1>2, <1>3 DEF Stocked

LEMMA ServesIn ==
  ASSUME NEW P, NEW L, NEW id \in Ids, NEW r \in Requests, NEW status \in Statuses, Serves(P, L, id, r, status)
  PROVE  /\ L.in[id].req = r /\ L.in[id].status = status
         /\ \A o \in Ids : o # id => L.in[o] = P.in[o]
         /\ status # Absent
BY FinalAssumption DEF Serves, Statuses, Absent, Pending

LEMMA AppendBoth ==
  ASSUME NEW w \in Seq(OnWire), NEW v \in Seq(OnWire), NEW m \in OnWire
  PROVE  w \o Append(v, m) = Append(w \o v, m)
OBVIOUS

\* t is s and the message m.
Longer(s, t, m) ==
  /\ In(t) = In(s) \cup {m}
  /\ Len(s) \in Nat /\ Len(t) = Len(s) + 1 /\ t[Len(s) + 1] = m
  /\ \A i \in 1 .. Len(s) : t[i] = s[i]

\* What is on the wire for the other peer.
Spans(w, P, s) == s = w \o P.written

LEMMA ServesWritten ==
  ASSUME NEW P \in PeerTypes, NEW L, NEW id \in Ids, NEW r, NEW status \in Statuses, Serves(P, L, id, r, status),
         NEW w \in Seq(OnWire), NEW s, Spans(w, P, s), NEW t, Spans(w, L, t)
  PROVE  \E m \in OnWire : Replying(m, id) /\ m.status = status /\ Longer(s, t, m)
<1>1. PICK m : m = [type |-> "RESPONSE", id |-> id, status |-> status] OBVIOUS
<1>2. m \in OnWire /\ Replying(m, id) /\ m.status = status BY <1>1 DEF OnWire, Replying
<1>3. P.written \in Seq(OnWire) /\ L.written = Append(P.written, m) BY <1>1, Maps DEF Serves
<1>4. s \in Seq(OnWire) BY <1>3 DEF Spans
<1>5. t = Append(s, m)
  <2>1. PICK v \in Seq(OnWire) : v = P.written BY <1>3
  <2>2. w \o Append(v, m) = Append(w \o v, m) BY <1>2, AppendBoth
  <2> QED BY <1>3, <2>1, <2>2 DEF Spans
<1>6. In(t) = In(s) \cup {m} BY <1>2, <1>4, <1>5, InAppend
<1>7. /\ Len(s) \in Nat /\ Len(t) = Len(s) + 1 /\ t[Len(s) + 1] = m
      /\ \A i \in 1 .. Len(s) : t[i] = s[i]
  BY <1>2, <1>4, <1>5, Appending
<1> QED BY <1>2, <1>6, <1>7 DEF Longer

LEMMA ServesEcho ==
  ASSUME NEW P, NEW L, NEW id \in Ids, NEW r \in Requests, NEW status \in Statuses, Serves(P, L, id, r, status),
         NEW V, NEW s, Due(P, V, id, r, s), Echo(V, P, In(s)), NEW from, Echo(P, V, from),
         NEW m, Replying(m, id), m.status = status, NEW to, to = In(s) \cup {m}
  PROVE  Echo(L, V, from) /\ Echo(V, L, to)
<1>1. Echo(L, V, from)
  <2>1. \A k \in Ids : L.out[k].status \in Final /\ L.out[k].req.code # "RECEIVE_FILE" => V.in[k].status = L.out[k].status
    BY ServesOut DEF Echo
  <2>2. \A k \in Ids : Is(P.out[k], "SEND_FILE") => Is(L.out[k], "SEND_FILE") BY ServesOut DEF Is
  <2>3. \A k \in Ids : V.in[k].status \in Final /\ L.out[k].status \in Unanswered /\ L.out[k].req.code # "RECEIVE_FILE"
          => \E x \in from : Replying(x, k) /\ x.status = V.in[k].status
    BY ServesOut DEF Echo
  <2>4. \A x \in from : \A k \in Ids : Replying(x, k) =>
          x.status = V.in[k].status \/ (x.status = Pending /\ Is(L.out[k], "SEND_FILE"))
    BY <2>2 DEF Echo
  <2> QED BY <2>1, <2>3, <2>4 DEF Echo
<1>2. /\ L.in[id].status = status /\ \A o \in Ids : o # id => L.in[o] = P.in[o] BY DEF Serves
<1>3. ASSUME NEW k \in Ids, V.out[k].status \in Final, V.out[k].req.code # "RECEIVE_FILE"
      PROVE  L.in[k].status = V.out[k].status
  <2>1. k # id BY <1>3, FinalClosed DEF Due
  <2> QED BY <1>2, <1>3, <2>1 DEF Echo
<1>4. ASSUME NEW x \in to, NEW k \in Ids, Replying(x, k)
      PROVE  x.status = L.in[k].status \/ (x.status = Pending /\ Is(V.out[k], "SEND_FILE"))
  <2>1. CASE k # id
    <3>1. x \in In(s) BY <1>4, <2>1 DEF Replying
    <3> QED BY <1>2, <1>4, <2>1, <3>1 DEF Echo
  <2>2. CASE k = id /\ x = m BY <1>2, <2>2
  <2>3. CASE k = id /\ x \in In(s)
    <3>1. x.status = Pending /\ r.code = "SEND_FILE" BY <1>4, <2>3 DEF Due
    <3>2. Is(V.out[id], "SEND_FILE") BY <3>1 DEF Due
    <3> QED BY <2>3, <3>1, <3>2
  <2> QED BY <2>1, <2>2, <2>3
<1>5. ASSUME NEW k \in Ids, L.in[k].status \in Final, V.out[k].status \in Unanswered, V.out[k].req.code # "RECEIVE_FILE"
      PROVE  \E x \in to : Replying(x, k) /\ x.status = L.in[k].status
  <2>1. CASE k = id BY <1>2, <2>1
  <2>2. CASE k # id BY <1>2, <1>5, <2>2 DEF Echo
  <2> QED BY <2>1, <2>2
<1>6. Echo(V, L, to) BY <1>3, <1>4, <1>5 DEF Echo
<1> QED BY <1>1, <1>6

LEMMA ServesDelivers ==
  ASSUME NEW P \in PeerTypes, NEW L, NEW id \in Ids, NEW r \in Requests, NEW status \in Statuses,
         Serves(P, L, id, r, status), NEW V, NEW s, Due(P, V, id, r, s),
         NEW c, NEW from, Delivers(V, P, c, from, {k \in Ids : ~Ending(k, r, "DATA_PACKET")})
  PROVE  Delivers(V, L, c, from, Ids)
<1>1. /\ L.in[id].status = status /\ L.in[id].req = r /\ \A o \in Ids : o # id => L.in[o] = P.in[o] BY DEF Serves
<1>2. \A k \in Ids : Gets(P.downloads[k], L.downloads[k], k, id, r, status) BY DEF Serves
<1>3. ~P.downloads[id].live
  <2>1. P.in[id].status # "STATUS_OK" BY DEF Due
  <2> QED BY <2>1 DEF Delivers
<1>4. \A k \in Ids : P.downloads[k].left > 0 => P.downloads[k].live BY DEF Delivers
<1>5. ASSUME NEW k \in Ids
      PROVE  \/ L.downloads[k] = P.downloads[k]
             \/ P.downloads[k].live
             \/ k = id /\ r.code = "SEND_FILE" /\ status = "STATUS_OK" /\ L.downloads[k].live
  BY <1>2, <1>3 DEF Gets
<1>6. ASSUME NEW k \in Ids, L.downloads[k].left > 0 PROVE L.downloads[k].live
  BY <1>2, <1>3, <1>4, <1>6 DEF Gets
<1>7. ASSUME NEW k \in Ids, L.downloads[k].live PROVE Is(V.out[k], "SEND_FILE") /\ L.in[k].status = "STATUS_OK"
  <2>1. CASE P.downloads[k].live
    <3>1. k # id /\ Is(V.out[k], "SEND_FILE") /\ P.in[k].status = "STATUS_OK" BY <1>3, <2>1 DEF Delivers
    <3> QED BY <1>1, <3>1
  <2>2. CASE ~P.downloads[k].live
    <3>1. k = id /\ r.code = "SEND_FILE" /\ status = "STATUS_OK" BY <1>5, <1>7, <2>2
    <3>2. Is(V.out[id], "SEND_FILE") BY <3>1 DEF Due
    <3> QED BY <1>1, <3>1, <3>2
  <2> QED BY <2>1, <2>2
<1>8. ASSUME NEW o \in Ids, NEW k \in Ids, Is(L.in[o], "DATA_PACKET"), L.in[o].req.ref = k, L.in[o].status # "STATUS_OK"
      PROVE  ~L.downloads[k].live
  <2>1. CASE o = id
    <3>1. r.code = "DATA_PACKET" /\ r.ref = k /\ status # "STATUS_OK" BY <1>1, <1>8, <2>1 DEF Is
    <3>2. L.downloads[k] = P.downloads[k] /\ ~P.downloads[k].live BY <1>2, <3>1 DEF Gets
    <3> QED BY <3>2
  <2>2. CASE o # id
    <3>1. Is(P.in[o], "DATA_PACKET") /\ P.in[o].req.ref = k /\ P.in[o].status # "STATUS_OK" BY <1>1, <1>8, <2>2
    <3>2. k # id /\ ~P.downloads[k].live BY <3>1 DEF Due, Delivers
    <3> QED BY <1>5, <3>2
  <2> QED BY <2>1, <2>2
<1>9. ASSUME NEW k \in Ids, L.downloads[k].left > 0 PROVE Lively(V, c, k, from)
  <2>1. CASE k = id /\ r.code = "SEND_FILE" /\ status = "STATUS_OK"
    <3>1. V.out[id].status \in Unanswered BY DEF Due
    <3> QED BY <2>1, <3>1 DEF Lively
  <2>2. CASE ~(k = id /\ r.code = "SEND_FILE" /\ status = "STATUS_OK")
    <3>1. P.downloads[k].left > 0 BY <1>2, <1>9, <2>2 DEF Gets
    <3>2. ~Ending(k, r, "DATA_PACKET")
      <4>1. P.downloads[k].live BY <1>4, <3>1
      <4> QED BY <1>2, <1>9, <2>2, <4>1 DEF Gets, Ending
    <3> QED BY <3>1, <3>2 DEF Delivers
  <2> QED BY <2>1, <2>2
<1> QED BY <1>6, <1>7, <1>8, <1>9 DEF Delivers

LEMMA ServesFeeds ==
  ASSUME NEW P, NEW L, NEW id, NEW r, NEW status, Serves(P, L, id, r, status),
         NEW V, NEW c, NEW from, NEW to, from \subseteq to, Delivers(P, V, c, from, Ids)
  PROVE  Delivers(L, V, c, to, Ids)
<1>1. L.uploads = P.uploads BY DEF Serves
<1>2. \A k \in Ids : P.out[k].req.code # "RECEIVE_FILE" => L.out[k] = P.out[k] BY ServesOut
<1>3. \A k \in Ids : Is(P.out[k], "SEND_FILE") => L.out[k] = P.out[k] BY <1>2 DEF Is
<1>4. \A o \in Open(P.out) : P.out[o].req.code = "DATA_PACKET" => o \in Open(L.out) /\ L.out[o] = P.out[o]
  BY <1>2 DEF Open
<1>5. ASSUME NEW k \in Ids, V.downloads[k].left > 0 PROVE Lively(L, c, k, to)
  <2>1. Lively(P, c, k, from) /\ V.downloads[k].live BY <1>5 DEF Delivers
  <2>2. Is(P.out[k], "SEND_FILE") BY <2>1 DEF Delivers
  <2> QED BY <1>1, <1>3, <1>4, <2>1, <2>2 DEF Lively
<1> QED BY <1>3, <1>5 DEF Delivers

LEMMA ServesLists ==
  ASSUME NEW P \in PeerTypes, NEW L \in PeerTypes, NEW id \in Ids, NEW r \in Requests, NEW status \in Statuses,
         Serves(P, L, id, r, status), NEW V, NEW from,
         Lists(P, V, from, {k \in Ids : ~Ending(k, r, "FILE_LIST")}),
         r.code = "FILE_LIST" => P.out[r.ref].status = "STATUS_OK"
  PROVE  Lists(L, V, from, Ids)
<1>1. /\ L.in[id].status = status /\ L.in[id].req = r /\ \A o \in Ids : o # id => L.in[o] = P.in[o] BY DEF Serves
<1>2. \A k \in Ids : Shows(P.listings[k], L.listings[k], k, r, status) BY DEF Serves
<1>3. \A k \in Ids : Is(P.out[k], "LIST_FILES") => L.out[k] = P.out[k] BY ServesOut DEF Is
<1>4. \A k \in Ids : Is(L.out[k], "LIST_FILES") => L.out[k] = P.out[k] BY ServesOut DEF Is
<1>5. \A k \in Ids : P.out[k].status = "STATUS_OK" => L.out[k].status = "STATUS_OK" BY ServesOut
<1>6. \A k \in Ids : P.listings[k].left > 0 => P.listings[k].live BY DEF Lists
<1>7. \A k \in Ids : P.listings[k].left \in Nat /\ L.listings[k].left \in Nat
  <2>1. P.listings \in [Ids -> Transferred] /\ L.listings \in [Ids -> Transferred] BY Maps
  <2>2. Packets \in Nat /\ Pages \in Nat BY Assumed
  <2> QED BY <2>1, <2>2 DEF Transferred
<1>8. \A k \in Ids : \A j : Known(P, k, from, j) => Known(L, k, from, j) BY <1>3 DEF Known
<1>9. ASSUME NEW k \in Ids, Listing(L, V, k) PROVE Paging(V, k, In(from))
  <2>1. L.out[k] = P.out[k] BY <1>4, <1>9 DEF Listing
  <2>2. Listing(P, V, k)
    <3>1. L.listings[k].left > 0 => P.listings[k].left > 0 BY <1>2 DEF Shows
    <3> QED BY <1>9, <2>1, <3>1 DEF Listing
  <2>3. ~Ending(k, r, "FILE_LIST")
    <3> SUFFICES ASSUME Ending(k, r, "FILE_LIST") PROVE FALSE OBVIOUS
    <3>1. r.code = "FILE_LIST" /\ r.ref = k /\ r.last BY DEF Ending
    <3>2. P.out[k].status = "STATUS_OK" BY <3>1
    <3>3. P.listings[k].left > 0 /\ L.listings[k].left > 0 BY <1>9, <2>1, <2>2, <3>2 DEF Listing
    <3>4. P.listings[k].live BY <1>6, <3>3
    <3>5. Shows(P.listings[k], L.listings[k], k, r, status) BY <1>2
    <3> QED BY <3>1, <3>3, <3>4, <3>5 DEF Shows
  <2> QED BY <2>2, <2>3 DEF Lists
<1>10. ASSUME NEW o \in Ids, NEW k \in Ids, Is(L.in[o], "FILE_LIST"), L.in[o].req.ref = k, L.in[o].status # "STATUS_OK"
       PROVE  L.out[k].status = "STATUS_OK" /\ L.listings[k].left = 0
  <2>1. Shows(P.listings[k], L.listings[k], k, r, status) BY <1>2
  <2>2. CASE o = id
    <3>1. r.code = "FILE_LIST" /\ r.ref = k /\ status # "STATUS_OK" BY <1>1, <1>10, <2>2 DEF Is
    <3>2. L.listings[k] = P.listings[k] /\ ~P.listings[k].live BY <2>1, <3>1 DEF Shows
    <3>3. ~(P.listings[k].left > 0) BY <1>6, <3>2
    <3>4. P.listings[k].left = 0 BY <1>7, <3>3
    <3> QED BY <1>5, <3>1, <3>2, <3>4
  <2>3. CASE o # id
    <3>1. Is(P.in[o], "FILE_LIST") /\ P.in[o].req.ref = k /\ P.in[o].status # "STATUS_OK" BY <1>1, <1>10, <2>3
    <3>2. P.out[k].status = "STATUS_OK" /\ P.listings[k].left = 0 BY <3>1 DEF Lists
    <3>3. CASE L.listings[k] = P.listings[k] BY <1>5, <3>2, <3>3
    <3>4. CASE L.listings[k] # P.listings[k]
      <4>1. r.code = "FILE_LIST" /\ r.ref = k /\ status = "STATUS_OK" BY <2>1, <3>4 DEF Shows
      <4>2. ~(L.listings[k].left > 0)
        <5>1. ~(P.listings[k].left > 0) BY <3>2
        <5> QED BY <2>1, <3>4, <5>1 DEF Shows
      <4>3. L.listings[k].left = 0 BY <1>7, <4>2
      <4> QED BY <1>5, <3>2, <4>3
    <3> QED BY <3>3, <3>4
  <2> QED BY <2>2, <2>3
<1>11. ASSUME NEW k \in Ids, L.listings[k].left > 0 PROVE L.listings[k].live BY <1>2, <1>6, <1>11 DEF Shows
<1> QED BY <1>8, <1>9, <1>10, <1>11 DEF Lists

LEMMA ServesPages ==
  ASSUME NEW P, NEW L, NEW id \in Ids, NEW r \in Requests, NEW status \in Statuses,
         Serves(P, L, id, r, status), NEW V, NEW s, Due(P, V, id, r, s), Lists(V, P, s, Ids),
         NEW m, Replying(m, id), m.status = status, NEW t, Longer(s, t, m)
  PROVE  Lists(V, L, t, {k \in Ids : ~Opens(id, r, status, k)})
<1>0. /\ In(t) = In(s) \cup {m}
      /\ Len(s) \in Nat /\ Len(t) = Len(s) + 1 /\ t[Len(s) + 1] = m
      /\ \A i \in 1 .. Len(s) : t[i] = s[i]
  BY DEF Longer
<1>1. /\ L.in[id].status = status /\ L.in[id].req = r /\ \A o \in Ids : o # id => L.in[o] = P.in[o] BY DEF Serves
<1>2. \A k \in Ids : L.lists[k] = P.lists[k] \/ (Opens(id, r, status, k) /\ L.lists[k].live) BY DEF Serves
<1>3. V.out[id].req = r /\ Is(V.out[id], r.code) BY DEF Due
<1>4. ASSUME NEW k \in Ids, NEW i \in Nat, NEW j \in Nat, i <= j, i <= Len(s) + 1, Known(V, k, s, i) PROVE Known(V, k, t, j)
  <2>1. \A l \in 1 .. Len(s) : l \in 1 .. Len(t) BY <1>0
  <2> QED BY <1>0, <1>4, <2>1 DEF Known
<1>5. ASSUME NEW k \in Ids, L.lists[k].live PROVE Known(V, k, t, Len(t) + 1)
  <2>1. CASE Opens(id, r, status, k)
    <3>1. k = id /\ Is(V.out[k], "LIST_FILES") /\ Grants(m, k) BY <1>3, <2>1 DEF Opens, Grants
    <3>2. Len(t) \in 1 .. Len(t) /\ Len(t) < Len(t) + 1 /\ t[Len(t)] = m BY <1>0
    <3>3. PICK l \in 1 .. Len(t) : l = Len(t) BY <3>2
    <3>4. Grants(t[l], k) /\ l < Len(t) + 1 BY <3>1, <3>2, <3>3
    <3> QED BY <3>1, <3>4 DEF Known
  <2>2. CASE ~Opens(id, r, status, k)
    <3>1. P.lists[k].live BY <1>2, <1>5, <2>2
    <3>2. Known(V, k, s, Len(s) + 1) BY <3>1 DEF Lists
    <3>3. PICK i \in Nat : i = Len(s) + 1 BY <1>0
    <3>4. PICK j \in Nat : j = Len(t) + 1 BY <1>0
    <3>5. i <= j /\ i <= Len(s) + 1 BY <1>0, <3>3, <3>4
    <3>6. Known(V, k, s, i) BY <3>2, <3>3
    <3> QED BY <1>4, <3>4, <3>5, <3>6
  <2> QED BY <2>1, <2>2
<1>6. ASSUME NEW k \in Ids, NEW j \in 1 .. Len(t), Page(t[j], k) PROVE Known(V, k, t, j)
  <2>1. j \in 1 .. Len(s)
    <3>1. ~Page(m, k) BY DEF Page, Replying
    <3>2. j \in 1 .. Len(s) \/ j = Len(s) + 1 BY <1>0
    <3> QED BY <1>0, <1>6, <3>1, <3>2
  <2>2. t[j] = s[j] /\ j \in Nat /\ j <= Len(s) + 1 BY <1>0, <2>1
  <2>3. Known(V, k, s, j) BY <1>6, <2>1, <2>2 DEF Lists
  <2> QED BY <1>4, <2>2, <2>3
<1>7. ASSUME NEW k \in Ids, ~Opens(id, r, status, k), Listing(V, L, k) PROVE Paging(L, k, In(t))
  <2>1. k # id
    <3> SUFFICES ASSUME k = id PROVE FALSE OBVIOUS
    <3>1. r.code = "LIST_FILES" BY <1>3, <1>7 DEF Listing, Is
    <3>2. status = "STATUS_OK" BY <1>1, <1>7 DEF Listing
    <3> QED BY <1>7, <3>1, <3>2 DEF Opens
  <2>2. Listing(V, P, k) BY <1>1, <1>7, <2>1 DEF Listing
  <2>3. Paging(P, k, In(s)) BY <2>2 DEF Lists
  <2>4. L.lists[k] = P.lists[k] BY <1>2, <1>7
  <2>5. \A o \in Open(P.out) : P.out[o].req.code = "FILE_LIST" => o \in Open(L.out) /\ L.out[o] = P.out[o]
    BY ServesOut DEF Open
  <2> QED BY <1>0, <2>3, <2>4, <2>5 DEF Paging
<1>8. \A o, k \in Ids : Is(V.in[o], "FILE_LIST") /\ V.in[o].req.ref = k /\ V.in[o].status # "STATUS_OK"
         => V.out[k].status = "STATUS_OK" /\ V.listings[k].left = 0
  BY DEF Lists
<1>9. \A k \in Ids : V.listings[k].left > 0 => V.listings[k].live BY DEF Lists
<1> QED BY <1>5, <1>6, <1>7, <1>8, <1>9 DEF Lists
-----------------------------------------------------------------------------
\* As Deals, but for the listings that are not in some.
Nearly(P, V, c, d, mine, s, some) ==
  /\ Stocked(P)
  /\ Echo(P, V, In(mine)) /\ Echo(V, P, In(s))
  /\ Delivers(P, V, c, In(s), Ids) /\ Delivers(V, P, d, In(mine), Ids)
  /\ Lists(P, V, mine, Ids) /\ Lists(V, P, s, some)

LEMMA ServesDeals ==
  ASSUME NEW P \in PeerTypes, NEW L \in PeerTypes, NEW id \in Ids, NEW r \in Requests, NEW status \in Statuses,
         Serves(P, L, id, r, status), NEW V, NEW c, NEW d, NEW rest, NEW w \in Seq(OnWire),
         NEW s, s = w \o P.written, NEW t, t = w \o L.written,
         Owes(P, V, c, d, rest, s, r), Due(P, V, id, r, s)
  PROVE  Nearly(L, V, c, d, rest, t, {k \in Ids : ~Opens(id, r, status, k)})
<1>1. PICK m \in OnWire : Replying(m, id) /\ m.status = status /\ Longer(s, t, m)
  <2>1. Spans(w, P, s) /\ Spans(w, L, t) BY DEF Spans
  <2> QED BY <2>1, ServesWritten
<1>2. PICK from : from = In(rest) OBVIOUS
<1>3. PICK to : to = In(t) OBVIOUS
<1>a. to = In(s) \cup {m} BY <1>1, <1>3 DEF Longer
<1>4. Stocked(L) BY ServesStocked DEF Owes
<1>5. Echo(L, V, from) /\ Echo(V, L, to)
  <2>1. Echo(P, V, from) BY <1>2 DEF Owes
  <2>2. Echo(V, P, In(s)) BY DEF Owes
  <2> QED BY <1>1, <1>a, <2>1, <2>2, ServesEcho
<1>6. Delivers(L, V, c, to, Ids)
  <2>1. PICK o : o = In(s) OBVIOUS
  <2>2. Delivers(P, V, c, o, Ids) /\ o \subseteq to BY <1>a, <2>1 DEF Owes
  <2> QED BY <2>2, ServesFeeds
<1>7. Delivers(V, L, d, from, Ids)
  <2>1. Delivers(V, P, d, from, {k \in Ids : ~Ending(k, r, "DATA_PACKET")}) BY <1>2 DEF Owes
  <2> QED BY <2>1, ServesDelivers
<1>8. Lists(L, V, rest, Ids)
  <2>1. Lists(P, V, rest, {k \in Ids : ~Ending(k, r, "FILE_LIST")}) BY DEF Owes
  <2>2. r.code = "FILE_LIST" => P.out[r.ref].status = "STATUS_OK" BY DEF Owes
  <2> QED BY <2>1, <2>2, ServesLists
<1>9. Lists(V, L, t, {k \in Ids : ~Opens(id, r, status, k)})
  <2>1. Lists(V, P, s, Ids) BY DEF Owes
  <2> QED BY <1>1, <2>1, ServesPages
<1> QED BY <1>2, <1>3, <1>4, <1>5, <1>6, <1>7, <1>8, <1>9 DEF Nearly

LEMMA GoesDeals ==
  ASSUME NEW P \in PeerTypes, NEW X \in PeerTypes, Goes(P, X), X.listings = P.listings,
         NEW V, Notes(P, V), NEW c, NEW d, NEW mine, NEW w \in Seq(OnWire),
         NEW s, s = w \o P.written, NEW t, t = w \o X.written, NEW some, some \subseteq Ids,
         Nearly(P, V, c, d, mine, s, some), \A k \in Ids : k \in some \/ Turning(X, k)
  PROVE  Deals(X, V, c, d, mine, t)
<1>1. Adjoins(P, s, t) /\ In(X.written) \subseteq In(t)
  <2>1. Writes(P, X) BY DEF Goes
  <2> QED BY <2>1, WritesAdjoins
<1>2. Stocked(X) BY DEF Goes, Nearly
<1>3. Echo(X, V, In(mine))
  <2>1. \A any : Echo(P, V, any) => Echo(X, V, any) BY GoesEcho
  <2> QED BY <2>1 DEF Nearly
<1>4. Echo(V, X, In(t))
  <2>1. \A from, to : Adjoins(P, from, to) /\ Echo(V, P, In(from)) => Echo(V, X, In(to)) BY GoesEcho
  <2> QED BY <1>1, <2>1 DEF Nearly
<1>5. Delivers(X, V, c, In(t), Ids)
  <2>1. \A from, to : /\ Adjoins(P, from, to) /\ In(X.written) \subseteq In(to) /\ Delivers(P, V, c, In(from), Ids)
                      => Delivers(X, V, c, In(to), Ids)
    BY GoesDelivers
  <2> QED BY <1>1, <2>1 DEF Nearly
<1>6. Delivers(V, X, d, In(mine), Ids)
  <2>1. \A to : Delivers(V, P, d, to, Ids) => Delivers(V, X, d, to, Ids) BY GoesDelivers
  <2> QED BY <2>1 DEF Nearly
<1>7. Lists(X, V, mine, Ids)
  <2>1. \A from : X.listings = P.listings /\ Lists(P, V, from, Ids) => Lists(X, V, from, Ids) BY GoesLists
  <2> QED BY <2>1 DEF Nearly
<1>8. Lists(V, X, t, Ids)
  <2>1. \A from, to : /\ Stocked(P) /\ Adjoins(P, from, to) /\ In(X.written) \subseteq In(to) /\ Lists(V, P, from, some)
                      => Lists(V, X, to, some)
    BY GoesLists
  <2>2. Lists(V, X, t, some) BY <1>1, <2>1 DEF Nearly
  <2>3. \A k \in Ids : Turning(X, k) => Paging(X, k, In(t)) BY <1>1, TurningPaging
  <2> QED BY <2>2, <2>3 DEF Lists
<1> QED BY <1>2, <1>3, <1>4, <1>5, <1>6, <1>7, <1>8 DEF Deals

\* S is P, but that a RECEIVE_FILE may be settled.
Eases(P, S) ==
  /\ S.in = P.in /\ S.written = P.written /\ S.uploads = P.uploads /\ S.downloads = P.downloads
  /\ S.lists = P.lists /\ S.listings = P.listings
  /\ \A o \in Ids : Settled(P.out[o], S.out[o])

\* D is P with the transfers the answer changes.
Alters(P, D, id, r, status) ==
  /\ \A k \in Ids : D.lists[k] = P.lists[k] \/ (Opens(id, r, status, k) /\ D.lists[k].live)
  /\ \A k \in Ids : Gets(P.downloads[k], D.downloads[k], k, id, r, status)
  /\ \A k \in Ids : Shows(P.listings[k], D.listings[k], k, r, status)

LEMMA ReplyServes ==
  ASSUME NEW G, NEW P \in PeerTypes, NEW S, Typed(S, G), Eases(P, S), NEW id \in Ids, NEW r \in Requests,
         NEW status \in Statuses, NEW D, SameQueue(S, D), D.in = [S.in EXCEPT ![id] = Message(r)],
         D.uploads = S.uploads, Alters(P, D, id, r, status), NEW X, X = SendReply(D, id, status)
  PROVE  /\ Serves(P, X, id, r, status) /\ Typed(X, G) /\ X.out = S.out /\ X.next = S.next /\ X.slots = S.slots
         /\ X.thrown = S.thrown /\ X.hung = S.hung /\ X.lists = D.lists
<1>1. S \in PeerTypes BY DEF Typed
<1>2. \A o \in Ids : S.listings[o].live => D.listings[o].live BY DEF Alters, Shows, Eases
<1>3. /\ Answered(S, X, id, r, status) /\ X.downloads = D.downloads /\ X.lists = D.lists
      /\ X.listings = D.listings
  BY <1>1, <1>2, ReplyAnswers
<1>4. Typed(X, G)
  <2>1. Typed(D, G) BY SameTyped
  <2> QED BY <2>1, SendReplyTyped
<1>5. P.in \in [Ids -> Messages] BY Maps
<1>6. /\ X.in[id] = [req |-> r, status |-> status] /\ \A o \in Ids : o # id => X.in[o] = P.in[o]
      /\ X.written = Append(P.written, [type |-> "RESPONSE", id |-> id, status |-> status])
  BY <1>3, <1>5 DEF Answered, Eases
<1>7. X.uploads = P.uploads /\ \A o \in Ids : Settled(P.out[o], X.out[o]) BY <1>3 DEF Answered, Eases
<1>8. Serves(P, X, id, r, status) BY <1>3, <1>6, <1>7 DEF Serves, Alters
<1> QED BY <1>3, <1>4, <1>8 DEF Answered

\* What P does after its answer.
Performs(P, L, X, id, r, status) ==
  /\ L \in PeerTypes /\ X \in PeerTypes
  /\ Serves(P, L, id, r, status) /\ Goes(L, X) /\ X.listings = L.listings
  /\ Opens(id, r, status, id) => Turning(X, id)

LEMMA ReplyPerforms ==
  ASSUME NEW G, NEW P \in PeerTypes, NEW S, Typed(S, G), Eases(P, S), NEW id \in Ids, NEW r \in Requests,
         NEW status \in Statuses, NEW D, SameQueue(S, D), D.in = [S.in EXCEPT ![id] = Message(r)],
         D.uploads = S.uploads, Alters(P, D, id, r, status), ~Opens(id, r, status, id),
         NEW X, X = SendReply(D, id, status)
  PROVE  Performs(P, X, X, id, r, status)
<1>1. Serves(P, X, id, r, status) /\ Typed(X, G) BY ReplyServes
<1>2. X \in PeerTypes BY <1>1 DEF Typed
<1>3. Goes(X, X) BY <1>2, GoesSame
<1> QED BY <1>1, <1>2, <1>3 DEF Performs

\* Which P does with a request it grants.
LEMMA RespondPerforms ==
  ASSUME NEW G, Allowed(G), NEW P \in PeerTypes, NEW S, Typed(S, G), Eases(P, S), Stocked(P),
         Fits(S, Burst), S.thrown = "nothing", ~S.hung,
         NEW id \in Ids, NEW r \in Requests, NEW current \in BOOLEAN, r.code = "LIST_FILES" => ~P.lists[id].live,
         r.code \in {"DATA_PACKET", "FILE_LIST"} => r.ref \in Ids,
         NEW X, X = Respond(S, id, r, current)
  PROVE  \E L, status : status \in Statuses /\ Performs(P, L, X, id, r, status)
<1>1. PICK Q : Q = [S EXCEPT !.in[id] = Message(r)] OBVIOUS
<1>2. S \in PeerTypes BY DEF Typed
<1>3. /\ SameQueue(S, Q) /\ Q \in PeerTypes /\ Q.in = [S.in EXCEPT ![id] = Message(r)] /\ Q.uploads = S.uploads
      /\ Q.downloads = P.downloads /\ Q.lists = P.lists /\ Q.listings = P.listings
  <2>1. SameQueue(S, Q) /\ Q.in = [S.in EXCEPT ![id] = Message(r)] BY <1>1, <1>2, ReceivedSame
  <2>2. /\ Q.uploads = S.uploads /\ Q.downloads = S.downloads /\ Q.lists = S.lists /\ Q.listings = S.listings
    BY <1>1, <1>2 DEF PeerTypes
  <2> QED BY <2>1, <2>2 DEF SameQueue, Eases
<1>4. /\ "STATUS_OK" \in Statuses /\ "UP_TO_DATE" \in Statuses /\ "FILE_NOT_FOUND" \in Statuses
      /\ "INVALID_REQUEST_ID" \in Statuses
  BY Assumed
<1>5. PICK ok \in Statuses : ok = "STATUS_OK" BY <1>4
<1>6. /\ P.downloads \in [Ids -> Transferred] /\ P.lists \in [Ids -> Transferred]
      /\ P.listings \in [Ids -> Transferred] /\ r.file \in Files
      /\ r.code \in {"SEND_FILE", "RECEIVE_FILE", "LIST_FILES", "DATA_PACKET", "FILE_LIST"}
      /\ r.ref # NoRef => r.ref \in Ids
  BY Maps, Assumed DEF RequestCodes
<1>7. ASSUME NEW status \in Statuses, X = SendReply(Q, id, status), status # "STATUS_OK",
             r.code = "DATA_PACKET" => ~P.downloads[r.ref].live, r.code = "FILE_LIST" => ~P.listings[r.ref].live
      PROVE  Performs(P, X, X, id, r, status)
  <2>1. Alters(P, Q, id, r, status)
    <3>1. \A k \in Ids : Gets(P.downloads[k], Q.downloads[k], k, id, r, status) BY <1>3, <1>7 DEF Gets
    <3>2. \A k \in Ids : Shows(P.listings[k], Q.listings[k], k, r, status) BY <1>3, <1>7 DEF Shows
    <3> QED BY <1>3, <3>1, <3>2 DEF Alters
  <2>2. ~Opens(id, r, status, id) BY <1>7 DEF Opens
  <2> QED BY <1>3, <1>7, <2>1, <2>2, ReplyPerforms
<1>8. ASSUME NEW D, SameQueue(S, D), D.in = Q.in, D.uploads = Q.uploads, Alters(P, D, id, r, ok),
             r.code # "LIST_FILES", X = SendReply(D, id, ok)
      PROVE  Performs(P, X, X, id, r, ok)
  <2>1. ~Opens(id, r, ok, id) BY <1>8 DEF Opens
  <2>2. D.in = [S.in EXCEPT ![id] = Message(r)] /\ D.uploads = S.uploads BY <1>3, <1>8
  <2> QED BY <1>8, <2>1, <2>2, ReplyPerforms
<1>9. CASE r.code = "DATA_PACKET"
  <2>1. PICK ref \in Ids : ref = r.ref BY <1>9
  <2>2. PICK old, down, kept, t :
          /\ old = Q.downloads[r.ref] /\ down = Taken(old, r)
          /\ kept = (IF down.left = 0 /\ ~down.keep THEN NoTransfer ELSE down)
          /\ t = [Q.downloads EXCEPT ![r.ref] = kept]
    OBVIOUS
  <2>10. Respond(S, id, r, current) = IF ~old.live THEN SendReply(Q, id, "INVALID_REQUEST_ID")
                                      ELSE SendReply([Q EXCEPT !.downloads = t], id, "STATUS_OK")
    BY ONLY <1>1, <1>9, <2>2 DEF Respond
  <2>11. X = IF ~old.live THEN SendReply(Q, id, "INVALID_REQUEST_ID")
             ELSE SendReply([Q EXCEPT !.downloads = t], id, "STATUS_OK")
    BY <2>10, Zenon
  <2>12. old = P.downloads[ref] /\ t = [P.downloads EXCEPT ![ref] = kept] BY ONLY <1>3, <2>1, <2>2
  <2>3. /\ X = IF ~old.live THEN SendReply(Q, id, "INVALID_REQUEST_ID")
                ELSE SendReply([Q EXCEPT !.downloads = t], id, "STATUS_OK")
        /\ old = P.downloads[ref] /\ t = [P.downloads EXCEPT ![ref] = kept]
    BY <2>11, <2>12, Zenon
  <2>4. old \in Transferred /\ down \in Transferred /\ kept \in Transferred BY <1>6, <2>1, <2>2, <2>3, TransferType
  <2>5. t \in Transfers
    <3>1. Transfers = [Ids -> Transferred] BY TransferType
    <3> QED BY ONLY <1>6, <2>3, <2>4, <3>1
  <2>6. CASE old.live
    <3>1. PICK D : D = [Q EXCEPT !.downloads = t] OBVIOUS
    <3>2. SameQueue(S, D) BY <1>3, <2>5, <3>1, UpdateSame, SameAgain
    <3>3. /\ D.in = Q.in /\ D.uploads = Q.uploads /\ D.lists = P.lists /\ D.listings = P.listings /\ D.downloads = t
      BY <1>3, <3>1 DEF PeerTypes
    <3>4. X = SendReply(D, id, ok) BY <1>5, <2>3, <2>6, <3>1
    <3>5. t[ref] = kept /\ \A k \in Ids : k # ref => t[k] = P.downloads[k] BY <1>6, <2>1, <2>3
    <3>6. Gets(old, kept, ref, id, r, ok)
      <4>1. /\ down.live = old.live /\ down.keep = old.keep
            /\ r.last => down.left = 0
            /\ ~r.last => down = old
        BY <2>2, <2>4 DEF Taken, Transferred
      <4>2. down.left \in Nat /\ old.left \in Nat
        <5>1. Packets \in Nat /\ Pages \in Nat BY Assumed
        <5>2. \A x \in Transferred : x.left \in Nat BY ONLY <5>1 DEF Transferred
        <5> QED BY <2>4, <5>2
      <4>3. NoTransfer.left = 0 /\ ~NoTransfer.live /\ ~NoTransfer.keep BY DEF NoTransfer
      <4>4. CASE down.left = 0 /\ ~down.keep
        <5>1. kept = NoTransfer BY <2>2, <4>4
        <5> QED BY <1>5, <1>9, <2>1, <2>6, <4>3, <5>1 DEF Gets
      <4>5. CASE ~(down.left = 0 /\ ~down.keep)
        <5>1. kept = down BY <2>2, <4>5
        <5> QED BY <1>5, <1>9, <2>1, <2>6, <4>1, <4>2, <4>5, <5>1 DEF Gets
      <4> QED BY <4>4, <4>5
    <3>7. \A k \in Ids : Gets(P.downloads[k], D.downloads[k], k, id, r, ok)
      <4> SUFFICES ASSUME NEW k \in Ids PROVE Gets(P.downloads[k], D.downloads[k], k, id, r, ok) OBVIOUS
      <4>1. CASE k = ref BY <2>3, <3>3, <3>5, <3>6, <4>1
      <4>2. CASE k # ref
        <5>1. D.downloads[k] = P.downloads[k] BY <3>3, <3>5, <4>2
        <5> QED BY <1>9, <2>1, <4>2, <5>1 DEF Gets
      <4> QED BY <4>1, <4>2
    <3>8. \A k \in Ids : Shows(P.listings[k], D.listings[k], k, r, ok) BY <1>9, <3>3 DEF Shows
    <3>9. Alters(P, D, id, r, ok) BY <3>3, <3>7, <3>8 DEF Alters
    <3> QED BY <1>8, <1>9, <3>2, <3>3, <3>4, <3>9
  <2>7. CASE ~old.live
    <3>1. PICK status \in Statuses : status = "INVALID_REQUEST_ID" BY <1>4
    <3>2. X = SendReply(Q, id, status) /\ status # "STATUS_OK" BY <2>3, <2>7, <3>1
    <3> QED BY <1>7, <1>9, <2>1, <2>3, <2>7, <3>2
  <2> QED BY <2>6, <2>7
<1>10. CASE r.code = "FILE_LIST"
  <2>1. PICK ref \in Ids : ref = r.ref BY <1>10
  <2>2. PICK old, new, t : old = Q.listings[r.ref] /\ new = Taken(old, r) /\ t = [Q.listings EXCEPT ![r.ref] = new]
    OBVIOUS
  <2>10. PICK some : some = [Q.listings EXCEPT ![r.ref] = Taken(@, r)] OBVIOUS
  <2>11. Respond(S, id, r, current) = IF ~Q.listings[r.ref].live THEN SendReply(Q, id, "INVALID_REQUEST_ID")
                                      ELSE SendReply([Q EXCEPT !.listings = some], id, "STATUS_OK")
    BY ONLY <1>1, <1>10, <2>10 DEF Respond
  <2>3. /\ X = IF ~old.live THEN SendReply(Q, id, "INVALID_REQUEST_ID")
                ELSE SendReply([Q EXCEPT !.listings = t], id, "STATUS_OK")
        /\ old = P.listings[ref] /\ t = [P.listings EXCEPT ![ref] = new]
    <3>1. some = t BY ONLY <2>2, <2>10
    <3>2. old = P.listings[ref] /\ t = [P.listings EXCEPT ![ref] = new] BY ONLY <1>3, <2>1, <2>2
    <3>3. X = IF ~old.live THEN SendReply(Q, id, "INVALID_REQUEST_ID")
              ELSE SendReply([Q EXCEPT !.listings = t], id, "STATUS_OK")
      BY <2>2, <2>11, <3>1, Zenon
    <3> QED BY <3>2, <3>3, Zenon
  <2>4. old \in Transferred /\ new \in Transferred BY <1>6, <2>1, <2>2, <2>3, TransferType
  <2>5. t \in Transfers
    <3>1. Transfers = [Ids -> Transferred] BY TransferType
    <3> QED BY ONLY <1>6, <2>3, <2>4, <3>1
  <2>6. CASE old.live
    <3>1. PICK D : D = [Q EXCEPT !.listings = t] OBVIOUS
    <3>2. SameQueue(S, D) BY <1>3, <2>5, <3>1, UpdateSame, SameAgain
    <3>3. /\ D.in = Q.in /\ D.uploads = Q.uploads /\ D.lists = P.lists /\ D.listings = t /\ D.downloads = P.downloads
      BY <1>3, <3>1 DEF PeerTypes
    <3>4. X = SendReply(D, id, ok) BY <1>5, <2>3, <2>6, <3>1
    <3>5. t[ref] = new /\ \A k \in Ids : k # ref => t[k] = P.listings[k] BY <1>6, <2>1, <2>3
    <3>6. Shows(old, new, ref, r, ok)
      <4>1. new.live /\ (new.left > 0 => old.left > 0 /\ ~r.last)
        BY <2>2, <2>4, <2>6 DEF Taken, Transferred
      <4> QED BY <1>5, <1>10, <2>1, <4>1 DEF Shows
    <3>7. \A k \in Ids : Shows(P.listings[k], D.listings[k], k, r, ok)
      <4> SUFFICES ASSUME NEW k \in Ids PROVE Shows(P.listings[k], D.listings[k], k, r, ok) OBVIOUS
      <4>1. CASE k = ref BY <2>3, <3>3, <3>5, <3>6, <4>1
      <4>2. CASE k # ref
        <5>1. D.listings[k] = P.listings[k] BY <3>3, <3>5, <4>2
        <5> QED BY <2>1, <4>2, <5>1 DEF Shows
      <4> QED BY <4>1, <4>2
    <3>8. \A k \in Ids : Gets(P.downloads[k], D.downloads[k], k, id, r, ok) BY <1>10, <3>3 DEF Gets
    <3>9. Alters(P, D, id, r, ok) BY <3>3, <3>7, <3>8 DEF Alters
    <3> QED BY <1>8, <1>10, <3>2, <3>3, <3>4, <3>9
  <2>7. CASE ~old.live
    <3>1. PICK status \in Statuses : status = "INVALID_REQUEST_ID" BY <1>4
    <3>2. X = SendReply(Q, id, status) /\ status # "STATUS_OK" BY <2>3, <2>7, <3>1
    <3> QED BY <1>7, <1>10, <2>1, <2>3, <2>7, <3>2
  <2> QED BY <2>6, <2>7
<1>11. CASE r.code = "SEND_FILE"
  <2>1. PICK old, new, t :
          /\ old = Q.downloads[id] /\ new = Emplaced(old, Transfer(r.file, 1)) /\ t = [Q.downloads EXCEPT ![id] = new]
    OBVIOUS
  <2>10. PICK some : some = [Q.downloads EXCEPT ![id] = Emplaced(@, Transfer(r.file, 1))] OBVIOUS
  <2>11. Respond(S, id, r, current) = IF current THEN SendReply(Q, id, "UP_TO_DATE")
                                      ELSE SendReply([Q EXCEPT !.downloads = some], id, "STATUS_OK")
    BY ONLY <1>1, <1>11, <2>10 DEF Respond
  <2>12. some = t BY ONLY <2>1, <2>10
  <2>2. X = IF current THEN SendReply(Q, id, "UP_TO_DATE")
            ELSE SendReply([Q EXCEPT !.downloads = t], id, "STATUS_OK")
    BY <2>11, <2>12, Zenon
  <2>13. old = P.downloads[id] /\ t = [P.downloads EXCEPT ![id] = new] BY ONLY <1>3, <2>1
  <2>3. old \in Transferred /\ new \in Transferred
    <3>1. Transfer(r.file, 1) \in Transferred BY <1>6, TransferType
    <3>2. old \in Transferred BY <1>6, <2>13
    <3> QED BY <2>1, <3>1, <3>2, TransferType
  <2>4. t \in Transfers
    <3>1. Transfers = [Ids -> Transferred] BY TransferType
    <3> QED BY ONLY <1>6, <2>3, <2>13, <3>1
  <2>5. CASE ~current
    <3>1. PICK D : D = [Q EXCEPT !.downloads = t] OBVIOUS
    <3>2. SameQueue(S, D) BY <1>3, <2>4, <3>1, UpdateSame, SameAgain
    <3>3. /\ D.in = Q.in /\ D.uploads = Q.uploads /\ D.lists = P.lists /\ D.listings = P.listings /\ D.downloads = t
      BY <1>3, <3>1 DEF PeerTypes
    <3>4. X = SendReply(D, id, ok) BY <1>5, <2>2, <2>5, <3>1
    <3>5. t[id] = new /\ \A k \in Ids : k # id => t[k] = P.downloads[k] BY <1>6, <2>13
    <3>6. Gets(old, new, id, id, r, ok)
      <4>1. ~old.live => new.live /\ ~new.keep /\ new.left = 1 BY <2>1 DEF Emplaced, Transfer, NoTransfer
      <4> QED BY <1>5, <1>11, <4>1 DEF Gets
    <3>7. \A k \in Ids : Gets(P.downloads[k], D.downloads[k], k, id, r, ok)
      <4> SUFFICES ASSUME NEW k \in Ids PROVE Gets(P.downloads[k], D.downloads[k], k, id, r, ok) OBVIOUS
      <4>1. CASE k = id BY <2>13, <3>3, <3>5, <3>6, <4>1
      <4>2. CASE k # id
        <5>1. D.downloads[k] = P.downloads[k] BY <3>3, <3>5, <4>2
        <5> QED BY <1>11, <4>2, <5>1 DEF Gets
      <4> QED BY <4>1, <4>2
    <3>8. \A k \in Ids : Shows(P.listings[k], D.listings[k], k, r, ok) BY <1>11, <3>3 DEF Shows
    <3>9. Alters(P, D, id, r, ok) BY <3>3, <3>7, <3>8 DEF Alters
    <3> QED BY <1>8, <1>11, <3>2, <3>3, <3>4, <3>9
  <2>6. CASE current
    <3>1. PICK status \in Statuses : status = "UP_TO_DATE" BY <1>4
    <3>2. X = SendReply(Q, id, status) /\ status # "STATUS_OK" BY <2>2, <2>6, <3>1
    <3> QED BY <1>7, <1>11, <3>2
  <2> QED BY <2>5, <2>6
<1>12. ASSUME NEW L, Serves(P, L, id, r, ok), Typed(L, G), L.out = S.out, L.next = S.next, L.slots = S.slots,
              L.thrown = S.thrown, L.hung = S.hung, L.uploads = S.uploads
       PROVE  Fits(L, Burst) /\ L.thrown = "nothing" /\ ~L.hung /\ Burst \in Nat \ {0}
  BY <1>12, Assumed DEF Fits
<1>13. CASE r.code = "RECEIVE_FILE"
  <2>1. PICK L : L = SendReply(Q, id, "STATUS_OK") OBVIOUS
  <2>2. \/ X = SendReply(Q, id, "FILE_NOT_FOUND") \/ X = CreateUpload(L, r.file, id)
    BY <1>1, <1>13, <2>1 DEF Respond
  <2>3. CASE X = SendReply(Q, id, "FILE_NOT_FOUND")
    <3>1. PICK status \in Statuses : status = "FILE_NOT_FOUND" BY <1>4
    <3>2. X = SendReply(Q, id, status) /\ status # "STATUS_OK" BY <2>3, <3>1
    <3> QED BY <1>7, <1>13, <3>2
  <2>4. CASE X = CreateUpload(L, r.file, id)
    <3>1. Alters(P, Q, id, r, ok)
      <4>1. \A k \in Ids : Gets(P.downloads[k], Q.downloads[k], k, id, r, ok) BY <1>3, <1>13 DEF Gets
      <4>2. \A k \in Ids : Shows(P.listings[k], Q.listings[k], k, r, ok) BY <1>3, <1>13 DEF Shows
      <4> QED BY <1>3, <4>1, <4>2 DEF Alters
    <3>2. L = SendReply(Q, id, ok) BY <1>5, <2>1
    <3>3. /\ Serves(P, L, id, r, ok) /\ Typed(L, G) /\ L.out = S.out /\ L.next = S.next /\ L.slots = S.slots
          /\ L.thrown = S.thrown /\ L.hung = S.hung
      <4>1. SameQueue(S, Q) /\ Q.in = [S.in EXCEPT ![id] = Message(r)] /\ Q.uploads = S.uploads BY <1>3
      <4>2. /\ Serves(P, L, id, r, ok) /\ Typed(L, G) /\ L.out = S.out /\ L.next = S.next /\ L.slots = S.slots
            /\ L.thrown = S.thrown /\ L.hung = S.hung /\ L.lists = Q.lists
        BY <3>1, <3>2, <4>1, ReplyServes
      <4> QED BY <4>2
    <3>4. L.uploads = S.uploads BY <3>3 DEF Serves, Eases
    <3>5. Fits(L, Burst) /\ L.thrown = "nothing" /\ ~L.hung /\ Burst \in Nat \ {0} BY <1>12, <3>3, <3>4
    <3>6. Stocked(L)
      <4>1. L \in PeerTypes BY <3>3 DEF Typed
      <4> QED BY <3>3, <4>1, ServesStocked
    <3>7. Req("SEND_FILE", r.file, id, FALSE) \in G
      <4>1. Req("SEND_FILE", r.file, id, FALSE) \in Requests BY <1>6, RequestType DEF RequestCodes
      <4> QED BY <4>1 DEF Allowed, Plain, Req
    <3>8. Goes(L, X) /\ X.listings = L.listings
      <4>1. PICK ref \in Ids \cup {NoRef} : ref = id OBVIOUS
      <4>2. PICK f \in Files : f = r.file BY <1>6
      <4>3. PICK n \in Nat \ {0} : n = Burst BY <3>5
      <4>5. PICK m \in G : m = Offered(f, ref) BY <3>7, <4>1, <4>2 DEF Offered
      <4>4. Fits(L, n) /\ X = CreateUpload(L, f, ref)
        BY <2>4, <3>5, <3>7, <4>1, <4>2, <4>3
      <4>6. Typed(L, G) /\ Fits(L, n) /\ L.thrown = "nothing" /\ ~L.hung /\ Stocked(L) BY <3>3, <3>5, <3>6, <4>4
      <4>7. Goes(L, X) /\ X.listings = L.listings /\ X.out = [L.out EXCEPT ![NewId(L)] = Message(m)]
        BY ONLY Allowed(G), n \in Nat \ {0}, f \in Files, ref \in Ids \cup {NoRef}, m \in G, <4>4, <4>5, <4>6, GoesUpload
      <4> QED BY <4>7
    <3>9. L \in PeerTypes /\ X \in PeerTypes
      <4>1. PICK f \in Files, ref \in Ids \cup {NoRef} : f = r.file /\ ref = id BY <1>6
      <4>2. Req("SEND_FILE", f, ref, FALSE) \in G /\ X = CreateUpload(L, f, ref) /\ Typed(L, G)
        BY <2>4, <3>3, <3>7, <4>1
      <4>3. Typed(X, G)
        BY ONLY Allowed(G), f \in Files, ref \in Ids \cup {NoRef}, <4>2, CreateUploadTyped
      <4> QED BY <3>3, <4>3 DEF Typed
    <3>10. ~Opens(id, r, ok, id) BY <1>13 DEF Opens
    <3> QED BY <3>3, <3>8, <3>9, <3>10 DEF Performs
  <2> QED BY <2>2, <2>3, <2>4
<1>14. CASE r.code = "LIST_FILES"
  <2>1. PICK t, D : t = [Q.lists EXCEPT ![id] = Emplaced(@, Transfer(r.file, Pages))] /\ D = [Q EXCEPT !.lists = t]
    OBVIOUS
  <2>2. PICK L : L = SendReply(D, id, "STATUS_OK") OBVIOUS
  <2>3. Respond(S, id, r, current)
           = IF L.lists[id].left = 0 THEN [L EXCEPT !.thrown = "no page"] ELSE SendPage(L, id)
    BY ONLY <1>1, <1>14, <2>1, <2>2 DEF Respond
  <2>4. t \in Transfers
    <3>1. Transfer(r.file, Pages) \in Transferred BY <1>6, TransferType
    <3> QED BY <1>3, <1>6, <2>1, <3>1, TransferType
  <2>5. t[id].left = Pages /\ t[id].live /\ \A o \in Ids : o # id => t[o] = P.lists[o]
    <3>1. ~P.lists[id].live BY <1>14
    <3> QED BY <1>3, <1>6, <2>1, <3>1 DEF Emplaced, Transfer, NoTransfer
  <2>6. SameQueue(S, D) BY <1>3, <2>1, <2>4, UpdateSame, SameAgain
  <2>7. D.in = Q.in /\ D.uploads = Q.uploads /\ D.lists = t /\ D.listings = P.listings /\ D.downloads = P.downloads
    BY <1>3, <2>1, <2>4 DEF PeerTypes
  <2>8. Alters(P, D, id, r, ok)
    <3>1. \A k \in Ids : Gets(P.downloads[k], D.downloads[k], k, id, r, ok) BY <1>14, <2>7 DEF Gets
    <3>2. \A k \in Ids : Shows(P.listings[k], D.listings[k], k, r, ok) BY <1>14, <2>7 DEF Shows
    <3>3. \A k \in Ids : D.lists[k] = P.lists[k] \/ (Opens(id, r, ok, k) /\ D.lists[k].live)
      BY <1>5, <1>14, <2>5, <2>7 DEF Opens
    <3> QED BY <3>1, <3>2, <3>3 DEF Alters
  <2>9. L = SendReply(D, id, ok) BY <1>5, <2>2
  <2>10. /\ Serves(P, L, id, r, ok) /\ Typed(L, G) /\ L.out = S.out /\ L.next = S.next /\ L.slots = S.slots
         /\ L.thrown = S.thrown /\ L.hung = S.hung /\ L.lists = t
    <3>1. D.in = [S.in EXCEPT ![id] = Message(r)] /\ D.uploads = S.uploads BY <1>3, <2>7
    <3>2. /\ Serves(P, L, id, r, ok) /\ Typed(L, G) /\ L.out = S.out /\ L.next = S.next /\ L.slots = S.slots
          /\ L.thrown = S.thrown /\ L.hung = S.hung /\ L.lists = D.lists
      BY ONLY P \in PeerTypes, Typed(S, G), Eases(P, S), id \in Ids, r \in Requests, ok \in Statuses,
              <2>6, <2>8, <2>9, <3>1, ReplyServes
    <3> QED BY <2>7, <3>2
  <2>11. L.uploads = S.uploads BY <2>10 DEF Serves, Eases
  <2>12. Fits(L, Burst) /\ Burst \in Nat \ {0} BY <1>12, <2>10, <2>11
  <2>13. L.lists[id].left > 0 /\ L.lists[id].left # 0
    <3>1. Pages \in Nat \ {0} BY Assumed
    <3> QED BY <2>5, <2>10, <3>1
  <2>14. X = SendPage(L, id) BY <2>3, <2>13
  <2>15. Goes(L, X) /\ Turning(X, id) /\ X.listings = L.listings BY <2>10, <2>12, <2>13, <2>14, GoesPage
  <2>16. L \in PeerTypes /\ X \in PeerTypes
    <3>1. Typed(X, G) BY <2>10, <2>13, <2>14, SendPageTyped
    <3> QED BY <2>10, <3>1 DEF Typed
  <2> QED BY <2>10, <2>15, <2>16 DEF Performs
<1> QED BY <1>6, <1>9, <1>10, <1>11, <1>13, <1>14

LEMMA PerformsDeals ==
  ASSUME NEW P \in PeerTypes, NEW L, NEW X, NEW id \in Ids, NEW r \in Requests, NEW status \in Statuses,
         Performs(P, L, X, id, r, status), NEW V, Notes(P, V), NEW c, NEW d, NEW rest, NEW w \in Seq(OnWire),
         NEW s, Spans(w, P, s), NEW t, Spans(w, X, t), Owes(P, V, c, d, rest, s, r), Due(P, V, id, r, s)
  PROVE  Deals(X, V, c, d, rest, t)
<1>1. L \in PeerTypes /\ X \in PeerTypes /\ Serves(P, L, id, r, status) /\ Goes(L, X) /\ X.listings = L.listings
  BY DEF Performs
<1>2. PICK u, some : u = w \o L.written /\ some = {k \in Ids : ~Opens(id, r, status, k)} OBVIOUS
<1>3. s = w \o P.written /\ t = w \o X.written BY DEF Spans
<1>4. Nearly(L, V, c, d, rest, u, some)
  <2>1. Nearly(L, V, c, d, rest, u, {k \in Ids : ~Opens(id, r, status, k)}) BY <1>1, <1>2, <1>3, ServesDeals
  <2> QED BY <1>2, <2>1
<1>5. Notes(L, V) BY <1>1, ServesOut DEF Notes
<1>6. \A k \in Ids : k \in some \/ Turning(X, k)
  <2>1. \A k \in Ids : Opens(id, r, status, k) => k = id BY DEF Opens
  <2> QED BY <1>2, <2>1 DEF Performs
<1>7. some \subseteq Ids BY <1>2
<1> QED BY <1>1, <1>2, <1>3, <1>4, <1>5, <1>6, <1>7, GoesDeals

LEMMA RefusePerforms ==
  ASSUME NEW G, NEW P, Typed(P, G), NEW id \in Ids, NEW r \in Requests, NEW status \in Statuses,
         status # "STATUS_OK", r.code \in {"SEND_FILE", "LIST_FILES"}, NEW X, X = Refuse(P, id, r, status)
  PROVE  Performs(P, X, X, id, r, status)
<1>1. P \in PeerTypes BY DEF Typed
<1>2. PICK Q : Q = [P EXCEPT !.in[id] = Message(r)] OBVIOUS
<1>3. SameQueue(P, Q) /\ Q.in = [P.in EXCEPT ![id] = Message(r)] BY <1>1, <1>2, ReceivedSame
<1>4. Q.uploads = P.uploads /\ Q.downloads = P.downloads /\ Q.lists = P.lists /\ Q.listings = P.listings
  BY <1>1, <1>2 DEF PeerTypes
<1>5. X = SendReply(Q, id, status) BY <1>2 DEF Refuse
<1>6. Eases(P, P) BY DEF Eases, Settled
<1>7. Alters(P, Q, id, r, status)
  <2>1. \A k \in Ids : Gets(P.downloads[k], Q.downloads[k], k, id, r, status) BY <1>4 DEF Gets
  <2>2. \A k \in Ids : Shows(P.listings[k], Q.listings[k], k, r, status) BY <1>4 DEF Shows
  <2> QED BY <1>4, <2>1, <2>2 DEF Alters
<1>8. ~Opens(id, r, status, id) BY DEF Opens
<1> QED BY <1>1, <1>3, <1>4, <1>5, <1>6, <1>7, <1>8, ReplyPerforms

LEMMA AsksPerforms ==
  ASSUME NEW G, NEW P, Typed(P, G), NEW id \in Ids, NEW r \in Requests, r.code = "SEND_FILE", NEW X, X = Asks(P, id, r)
  PROVE  \E L, status : status \in Statuses /\ Performs(P, L, X, id, r, status)
<1>1. PICK status \in Statuses : status = Pending BY DEF Statuses
<1>2. PICK Q : Q = Refuse(P, id, r, status) OBVIOUS
<1>3. status # "STATUS_OK" BY <1>1 DEF Pending
<1>4. Performs(P, Q, Q, id, r, status) BY <1>2, <1>3, RefusePerforms
<1>5. PICK some : some = Q.asked \cup {[id |-> id, req |-> r]} OBVIOUS
<1>6. X = [Q EXCEPT !.asked = some] BY <1>1, <1>2, <1>5 DEF Asks
<1>7. Q \in PeerTypes BY <1>4 DEF Performs
<1>8. [id |-> id, req |-> r] \in Asked BY DEF Asked
<1>9. some \subseteq Asked BY <1>5, <1>7, <1>8, Maps
<1>10. /\ X \in PeerTypes /\ X.in = Q.in /\ X.written = Q.written /\ X.out = Q.out /\ X.uploads = Q.uploads
       /\ X.lists = Q.lists /\ X.downloads = Q.downloads /\ X.listings = Q.listings
  BY <1>6, <1>7, <1>9 DEF PeerTypes
<1>11. Serves(P, X, id, r, status) BY <1>4, <1>10 DEF Performs, Serves
<1>12. Goes(X, X) BY <1>10, GoesSame
<1>13. ~Opens(id, r, status, id) BY <1>3 DEF Opens
<1>14. Performs(P, X, X, id, r, status) BY <1>10, <1>11, <1>12, <1>13 DEF Performs
<1> QED BY <1>14

LEMMA PerformsHolding ==
  ASSUME NEW P \in PeerTypes, NEW L, NEW X, NEW id \in Ids, NEW r \in Requests, NEW status \in Statuses,
         Performs(P, L, X, id, r, status), NEW V, NEW s, Due(P, V, id, r, s),
         NEW d, NEW from, NEW some, Delivers(V, P, d, from, some), NEW c, c = NoCall \/ c.id \in Ids, Holding(P, c)
  PROVE  Holding(X, c)
<1>1. Serves(P, L, id, r, status) /\ Goes(L, X) BY DEF Performs
<1>2. X.downloads = L.downloads BY <1>1 DEF Goes
<1>3. ~P.downloads[id].live
  <2>1. P.in[id].status # "STATUS_OK" BY DEF Due
  <2> QED BY <2>1 DEF Delivers
<1>4. \A k \in Ids : P.out[k].status = "STATUS_OK" => X.out[k].status = "STATUS_OK" /\ X.out[k].req = P.out[k].req
  <2>1. \A k \in Ids : P.out[k].status = "STATUS_OK" => L.out[k].status = "STATUS_OK" /\ L.out[k].req = P.out[k].req
    BY <1>1, ServesOut DEF Absent
  <2>2. \A k \in Ids : L.out[k].status = "STATUS_OK" => X.out[k] = L.out[k] BY <1>1 DEF Goes, Widens, Absent
  <2> QED BY <2>1, <2>2
<1>5. \A k \in Ids : Gets(P.downloads[k], X.downloads[k], k, id, r, status) BY <1>1, <1>2 DEF Serves
<1>6. ASSUME NEW k \in Ids
      PROVE  /\ X.downloads[k].keep => P.downloads[k].keep
             /\ X.downloads[k].live /\ X.downloads[k].left = 0 => X.downloads[k].keep
  <2>1. Gets(P.downloads[k], X.downloads[k], k, id, r, status) BY <1>5
  <2> QED BY <1>3, <2>1 DEF Gets, Holding
<1> QED BY <1>4, <1>6 DEF Holding, Is, NoCall

\* A SEND_FILE that settles a RECEIVE_FILE.
LEMMA AcceptPerforms ==
  ASSUME NEW G, Allowed(G), NEW P, Typed(P, G), NEW V, NEW mine, NEW w, Context(V, mine, w), NEW F,
         Sound(P, V, mine, w, F), Told(P, V, w, mine), P.next + Burst <= MaxId, P.thrown = "nothing", Stocked(P),
         NEW id \in Ids, NEW r \in Requests, NEW current \in BOOLEAN,
         NEW match \in Ids, r.code = "SEND_FILE",
         P.out[match].status # Absent, P.out[match].req.code = "RECEIVE_FILE",
         MaySettle(match, P.out, V.asked, w \o P.written, mine, "STATUS_OK"),
         NEW S, S = Settle(P, match, "STATUS_OK"), NEW X, X = Respond(S, id, r, current)
  PROVE  \E L, status : status \in Statuses /\ Performs(P, L, X, id, r, status)
<1>1. P \in PeerTypes /\ w \in Seq(OnWire) BY DEF Typed, Context
<1>2. PICK ok \in Statuses : ok = "STATUS_OK" BY Assumed
<1>3. S = Settle(P, match, ok) BY <1>2
<1>4. /\ S.out[match].status = ok /\ S.out[match].req = P.out[match].req
      /\ \A o \in Ids : o # match => S.out[o] = P.out[o]
      /\ S.next = P.next /\ S.in = P.in /\ S.uploads = P.uploads /\ S.downloads = P.downloads /\ S.lists = P.lists
      /\ S.listings = P.listings /\ S.written = P.written /\ S.thrown = P.thrown /\ S.hung = P.hung
  BY <1>1, <1>3, Settles
<1>5. Typed(S, G) BY <1>3, SettleTyped
<1>6. Sound(S, V, mine, w, F)
  <2>1. MaySettle(match, P.out, V.asked, w \o P.written, mine, ok) BY <1>2
  <2> QED BY <1>1, <1>3, <2>1, SoundSettle
<1>7. \A x \in In(w) \cup In(P.written) : ~Asking(x, match)
  <2>1. P.written \in Seq(OnWire) BY <1>1, Maps
  <2>2. PICK sent : sent = w \o P.written OBVIOUS
  <2>3. \A i \in 1 .. Len(sent) : ~Asking(sent[i], match) BY <2>2 DEF MaySettle
  <2> QED BY <1>1, <2>1, <2>2, <2>3, NoneAsking
<1>8. Settling(P, match, ok) BY <1>2 DEF Settling
<1>9. Told(S, V, w, mine) BY <1>1, <1>3, <1>7, <1>8, ToldSettled
<1>10. S.slots + Cardinality(Open(S.out)) = MaxId /\ ~S.hung /\ S.next + Burst <= MaxId /\ S.thrown = "nothing"
  BY <1>4, <1>6 DEF Sound
<1>11. Fits(S, Burst)
  <2>1. S \in PeerTypes BY <1>5 DEF Typed
  <2>2. Book(S) BY <1>9 DEF Told, Tale
  <2> QED BY <1>10, <2>1, <2>2, FitsBurst
<1>12. Eases(P, S)
  <2>1. ASSUME NEW o \in Ids PROVE Settled(P.out[o], S.out[o])
    <3>1. CASE o = match BY <1>2, <1>4, <3>1 DEF Settled
    <3>2. CASE o # match BY <1>4, <3>2 DEF Settled
    <3> QED BY <3>1, <3>2
  <2> QED BY <1>4, <2>1 DEF Eases
<1>13. r.code # "LIST_FILES" /\ r.code \notin {"DATA_PACKET", "FILE_LIST"} OBVIOUS
<1> QED BY <1>1, <1>5, <1>10, <1>11, <1>12, <1>13, RespondPerforms

\* P answers at once.
LEMMA OwnPerforms ==
  ASSUME NEW G, Allowed(G), NEW P, Typed(P, G), NEW V, NEW mine, NEW w, Context(V, mine, w), NEW F,
         Sound(P, V, mine, w, F), Told(P, V, w, mine), P.next + Burst <= MaxId, P.thrown = "nothing", Stocked(P),
         NEW id \in Ids, NEW r \in Requests, NEW current \in BOOLEAN,
         r.code # "SEND_FILE" => P.in[id].status = Absent, r.code \in {"DATA_PACKET", "FILE_LIST"} => r.ref \in Ids,
         NEW X, X = Respond(P, id, r, current)
  PROVE  \E L, status : status \in Statuses /\ Performs(P, L, X, id, r, status)
<1>1. P \in PeerTypes BY DEF Typed
<1>2. Fits(P, Burst)
  <2>1. Book(P) BY DEF Told, Tale
  <2>2. P.slots + Cardinality(Open(P.out)) = MaxId BY DEF Sound
  <2> QED BY <1>1, <2>1, <2>2, FitsBurst
<1>3. Eases(P, P) BY DEF Eases, Settled
<1>4. r.code = "LIST_FILES" => ~P.lists[id].live BY DEF Told, Tale, Granted
<1>5. ~P.hung BY DEF Sound
<1> QED BY <1>1, <1>2, <1>3, <1>4, <1>5, RespondPerforms

\* P handles a request.
LEMMA RequestDeals ==
  ASSUME NEW G, Allowed(G), NEW P, Typed(P, G), NEW V, NEW mine, NEW w, Context(V, mine, w), NEW F,
         Sound(P, V, mine, w, F), Told(P, V, w, mine), mine # <<>>, NEW m \in OnWire, m = mine[1], m.type = "REQUEST",
         m.req.code \in {"DATA_PACKET", "FILE_LIST"} => m.req.ref \in Ids,
         P.next + Burst <= MaxId, P.thrown = "nothing",
         m.req.code = "SEND_FILE" /\ m.req.ref = NoRef => Matches(P, m.req) = {},
         NEW X \in Handled(P, m), NEW c, NEW d, NEW s, Spans(w, P, s), NEW t, Spans(w, X, t),
         Deals(P, V, c, d, mine, s), c = NoCall \/ c.id \in Ids, Holding(P, c)
  PROVE  Deals(X, V, c, d, Tail(mine), t) /\ Holding(X, c)
<1> DEFINE sent == w \o P.written
           rest == Tail(mine)
<1>1. P \in PeerTypes /\ mine \in Seq(OnWire) /\ V \in PeerTypes /\ w \in Seq(OnWire) BY DEF Typed, Context
<1>2. PICK id \in Ids, r \in Requests : id = m.id /\ r = m.req BY DEF OnWire
<1>3. X \in Authorized(P, id, r) BY <1>2 DEF Handled
<1>4. Sound(P, V, rest, w, F) /\ Context(V, rest, w) BY <1>1, SoundTaken
<1>5. Half(P.out, V.asked, sent, mine) /\ Half(V.out, P.asked, mine, sent) /\ Half(P.out, V.asked, sent, rest)
  BY <1>4 DEF Sound
<1>6. Asking(mine[1], id) /\ mine[1].req = r BY <1>2 DEF Asking
<1>7. Fresh(id, r, P, V, rest, w) BY <1>1, <1>5, <1>6, FirstRequest
<1>8. Told(P, V, w, rest) BY <1>1, ToldTaken
<1>9. In(rest) \subseteq In(mine) /\ m \in In(mine) BY <1>1, InTail
<1> HIDE DEF sent, rest
<1>10. V.out[id] = Message(r) /\ P.in[id].status = Absent /\ V.out[id].req = r /\ V.out[id].status = None
       /\ Is(V.out[id], r.code)
  <2>1. V.out[id] = Message(r) /\ P.in[id].status = Absent BY <1>2, <1>9 DEF Told, Tale, Noted
  <2> QED BY <2>1 DEF Message, Is, None, Absent
<1>11. Owes(P, V, c, d, rest, s, r)
  <2>1. m.req.code = "FILE_LIST" => m.req.ref \in Ids OBVIOUS
  <2> QED BY <1>1, <1>2, <2>1, RequestTaken DEF rest
<1>12. Due(P, V, id, r, s)
  <2>1. Echo(V, P, In(s)) BY DEF Deals
  <2>2. Notes(V, P) /\ Book(V) BY DEF Told, Tale, Noted, Notes
  <2>3. s = w \o P.written BY DEF Spans
  <2> QED BY <1>1, <1>4, <1>7, <1>10, <2>1, <2>2, <2>3, FreshDue
<1>13. Notes(P, V) BY DEF Told, Tale, Noted, Notes
<1>14. Stocked(P) BY DEF Deals
<1>15. ASSUME \E L, status : status \in Statuses /\ Performs(P, L, X, id, r, status)
       PROVE  Deals(X, V, c, d, rest, t) /\ Holding(X, c)
  <2>1. PICK L, status : status \in Statuses /\ Performs(P, L, X, id, r, status) BY <1>15
  <2>2. Deals(X, V, c, d, rest, t) BY <1>1, <1>11, <1>12, <1>13, <2>1, PerformsDeals
  <2>3. Delivers(V, P, d, In(mine), Ids) BY DEF Deals
  <2>4. Holding(X, c) BY <1>1, <1>12, <2>1, <2>3, PerformsHolding
  <2> QED BY <2>2, <2>4
<1>16. r.ref # NoRef /\ r.code = "SEND_FILE" =>
         /\ r.ref \in Ids /\ Is(P.out[r.ref], "RECEIVE_FILE") /\ P.out[r.ref].req.file = r.file
  <2>1. InReply(V, P) BY <1>8 DEF Told, Tale
  <2> SUFFICES ASSUME r.ref # NoRef, r.code = "SEND_FILE"
               PROVE  r.ref \in Ids /\ Is(P.out[r.ref], "RECEIVE_FILE") /\ P.out[r.ref].req.file = r.file
    OBVIOUS
  <2>2. Is(V.out[id], "SEND_FILE") /\ r.ref = V.out[id].req.ref BY <1>10
  <2>3. Is(P.out[r.ref], "RECEIVE_FILE") /\ P.out[r.ref].req.file = V.out[id].req.file
    BY <2>1, <2>2, InReplyOf DEF Fulfils
  <2>4. r.ref \in Ids BY Assumed
  <2> QED BY <1>10, <2>3, <2>4
<1>17. CASE /\ r.code = "SEND_FILE"
            /\ \E match \in Matches(P, r), current \in BOOLEAN :
                 X = Respond(Settle(P, match, "STATUS_OK"), id, r, current)
  <2>1. PICK match \in Matches(P, r), current \in BOOLEAN :
               X = Respond(Settle(P, match, "STATUS_OK"), id, r, current)
    BY <1>17
  <2>2. /\ match \in Ids /\ P.out[match].status # Absent /\ P.out[match].req.file = r.file
        /\ P.out[match].req.code = "RECEIVE_FILE" /\ "STATUS_OK" # Pending
    BY DEF Matches, Pending
  <2>3. r.ref # NoRef BY <1>2, <1>17, <2>1
  <2>4. r.ref = match
    <3>1. Book(P) BY DEF Told, Tale
    <3>2. Is(P.out[match], "RECEIVE_FILE") BY <2>2 DEF Is
    <3> QED BY <1>16, <1>17, <2>2, <2>3, <3>1, <3>2 DEF Book
  <2>5. MaySettle(match, P.out, V.asked, sent, rest, "STATUS_OK")
    <3>1. CASE match \notin Open(P.out) BY <1>5, <2>2, <3>1, ClosedSettles
    <3>2. CASE match \in Open(P.out)
      <4>1. Sending(mine[1], match) BY <1>2, <1>17, <2>4 DEF Sending
      <4> QED BY <1>1, <1>5, <2>2, <4>1, FirstAnswer DEF rest
    <3> QED BY <3>1, <3>2
  <2>6. PICK S : S = Settle(P, match, "STATUS_OK") OBVIOUS
  <2>7. X = Respond(S, id, r, current) BY <2>1, <2>6
  <2>8. \E L, status : status \in Statuses /\ Performs(P, L, X, id, r, status)
    BY <1>4, <1>8, <1>14, <1>17, <2>2, <2>5, <2>6, <2>7, AcceptPerforms DEF sent
  <2> QED BY <1>15, <2>8 DEF rest
<1>18. CASE r.code = "SEND_FILE" /\ X = Asks(P, id, r) BY <1>15, <1>18, AsksPerforms DEF rest
<1>19. CASE r.code = "LIST_FILES" /\ X = Refuse(P, id, r, "FILE_NOT_FOUND")
  <2>1. PICK status \in Statuses : status = "FILE_NOT_FOUND"
    <3>1. "FILE_NOT_FOUND" \in Statuses BY Assumed
    <3> QED BY <3>1, Zenon
  <2>2. X = Refuse(P, id, r, status) /\ status # "STATUS_OK" /\ r.code \in {"SEND_FILE", "LIST_FILES"} BY <1>19, <2>1
  <2>3. Performs(P, X, X, id, r, status) BY <2>2, RefusePerforms
  <2> QED BY <1>15, <2>3 DEF rest
<1>20. CASE r.code # "SEND_FILE" /\ X = Respond(P, id, r, FALSE)
  <2>1. PICK current \in BOOLEAN : current = FALSE OBVIOUS
  <2>2. X = Respond(P, id, r, current) BY <1>20, <2>1
  <2>3. P.in[id].status = Absent /\ (r.code \in {"DATA_PACKET", "FILE_LIST"} => r.ref \in Ids) BY <1>2, <1>10
  <2>4. \E L, status : status \in Statuses /\ Performs(P, L, X, id, r, status)
    BY <1>4, <1>8, <1>14, <2>2, <2>3, OwnPerforms
  <2> QED BY <1>15, <2>4 DEF rest
<1> QED BY <1>3, <1>17, <1>18, <1>19, <1>20, Authorizes DEF rest

\* The application answers what it was asked.
LEMMA AnswerDeals ==
  ASSUME NEW G, Allowed(G), NEW P, Typed(P, G), NEW V, NEW mine, NEW w, Context(V, mine, w), NEW F,
         Sound(P, V, mine, w, F), Told(P, V, w, mine), P.next + Burst <= MaxId, P.thrown = "nothing",
         NEW id \in Ids, NEW r \in Requests, r.code = "SEND_FILE", Fresh(id, r, P, V, mine, w),
         NEW X, \/ \E current \in BOOLEAN : X = Respond(P, id, r, current)
                \/ X = Refuse(P, id, r, "FORBIDDEN"),
         NEW c, NEW d, NEW s, Spans(w, P, s), NEW t, Spans(w, X, t),
         Deals(P, V, c, d, mine, s), c = NoCall \/ c.id \in Ids, Holding(P, c)
  PROVE  Deals(X, V, c, d, mine, t) /\ Holding(X, c)
<1>1. P \in PeerTypes /\ V \in PeerTypes /\ w \in Seq(OnWire) BY DEF Typed, Context
<1>2. Owes(P, V, c, d, mine, s, r) BY RequestKept
<1>3. Due(P, V, id, r, s)
  <2>1. Echo(V, P, In(s)) BY DEF Deals
  <2>2. Notes(V, P) /\ Book(V) BY DEF Told, Tale, Noted, Notes
  <2>3. s = w \o P.written BY DEF Spans
  <2> QED BY <1>1, <2>1, <2>2, <2>3, FreshDue
<1>4. Notes(P, V) BY DEF Told, Tale, Noted, Notes
<1>5. Stocked(P) BY DEF Deals
<1>6. PICK L, status : status \in Statuses /\ Performs(P, L, X, id, r, status)
  <2>1. CASE \E current \in BOOLEAN : X = Respond(P, id, r, current)
    <3>1. PICK current \in BOOLEAN : X = Respond(P, id, r, current) BY <2>1
    <3>2. r.code \notin {"DATA_PACKET", "FILE_LIST"} OBVIOUS
    <3> QED BY <1>5, <3>1, <3>2, OwnPerforms
  <2>2. CASE X = Refuse(P, id, r, "FORBIDDEN")
    <3>1. PICK status \in Statuses : status = "FORBIDDEN" BY Assumed
    <3>2. X = Refuse(P, id, r, status) /\ status # "STATUS_OK" /\ r.code \in {"SEND_FILE", "LIST_FILES"} BY <2>2, <3>1
    <3>3. Performs(P, X, X, id, r, status) BY <3>2, RefusePerforms
    <3> QED BY <3>3
  <2> QED BY <2>1, <2>2
<1>7. Deals(X, V, c, d, mine, t) BY <1>1, <1>2, <1>3, <1>4, <1>6, PerformsDeals
<1>8. Holding(X, c)
  <2>1. Delivers(V, P, d, In(mine), Ids) BY DEF Deals
  <2> QED BY <1>1, <1>3, <1>6, <2>1, PerformsHolding
<1> QED BY <1>7, <1>8

\* What P has been granted X has.
Sure(P, X) ==
  \A k \in Ids : P.out[k].status = "STATUS_OK" => X.out[k].status = "STATUS_OK" /\ X.out[k].req = P.out[k].req

LEMMA HoldingKept ==
  ASSUME NEW P, NEW X, X.downloads = P.downloads, Sure(P, X), NEW c, c = NoCall \/ c.id \in Ids, Holding(P, c)
  PROVE  Holding(X, c)
<1>1. Absent # "STATUS_OK" BY DEF Absent
<1> QED BY <1>1 DEF Holding, Sure, Is, NoCall

LEMMA GoesSure ==
  ASSUME NEW P, NEW X, Goes(P, X)
  PROVE  Sure(P, X)
BY DEF Goes, Widens, Sure, Absent

\* P handles a reply.
LEMMA ReplyDeals ==
  ASSUME NEW G, Allowed(G), NEW P, Typed(P, G), NEW V, NEW mine, NEW w, Context(V, mine, w), NEW F,
         Sound(P, V, mine, w, F), Told(P, V, w, mine), mine # <<>>, mine[1].type = "RESPONSE",
         P.next + Burst <= MaxId, NEW X \in Handled(P, mine[1]), X \in PeerTypes,
         NEW c, NEW d, NEW s, Spans(w, P, s), NEW t, Spans(w, X, t),
         Deals(P, V, c, d, mine, s), c = NoCall \/ c.id \in Ids, Holding(P, c)
  PROVE  Deals(X, V, c, d, Tail(mine), t) /\ Holding(X, c)
<1>1. P \in PeerTypes /\ mine \in Seq(OnWire) /\ w \in Seq(OnWire) BY DEF Typed, Context
<1>2. Stocked(P) BY DEF Deals
<1>3. PICK id \in Ids, reply \in Statuses, status \in Statuses, Q \in PeerTypes :
           /\ mine[1].id = id /\ mine[1].status = reply /\ id \in Open(P.out)
           /\ status = Recorded(P.out[id].req, reply) /\ Receives(P, Q, X, id, status) /\ Typed(Q, G) /\ Stocked(Q)
  BY <1>2, ReplyReceived
<1>4. Replying(mine[1], id) BY <1>3 DEF Replying
<1>5. Lands(P, Q, mine, id, status) BY <1>3, <1>4 DEF Lands, Receives
<1>6. Book(P) /\ Notes(P, V) BY DEF Told, Tale, Noted, Notes
<1>7. s = w \o P.written /\ t = w \o X.written BY DEF Spans
<1>8. Deals(X, V, c, d, Tail(mine), t) BY <1>1, <1>3, <1>5, <1>6, <1>7, ReceiveDeals
<1>9. Holding(X, c)
  <2>1. Landed(P, Q, mine, id, status) BY <1>1, <1>5, LandsStatus
  <2>2. /\ P.out[id].status # "STATUS_OK" /\ Q.downloads = P.downloads
        /\ \A o \in Ids : o # id => Q.out[o] = P.out[o]
    BY <2>1 DEF Landed
  <2>3. Goes(Q, X) BY <1>3 DEF Receives
  <2>4. X.downloads = P.downloads BY <2>2, <2>3 DEF Goes
  <2>5. Sure(P, X)
    <3>1. Sure(P, Q) BY <2>2 DEF Sure
    <3>2. Sure(Q, X) BY <2>3, GoesSure
    <3> QED BY <3>1, <3>2 DEF Sure
  <2> QED BY <2>4, <2>5, HoldingKept
<1> QED BY <1>8, <1>9
-----------------------------------------------------------------------------
\* Q has the requests and transfers of P.
Like(P, Q) ==
  /\ Q.out = P.out /\ Q.in = P.in /\ Q.uploads = P.uploads /\ Q.downloads = P.downloads
  /\ Q.lists = P.lists /\ Q.listings = P.listings

LEMMA LikeDeals ==
  ASSUME NEW P, NEW Q, Like(P, Q), NEW V, NEW c, NEW d, NEW mine, NEW s, Deals(P, V, c, d, mine, s)
  PROVE  Deals(Q, V, c, d, mine, s) /\ (Holding(P, c) => Holding(Q, c))
<1>1. Stocked(Q) BY DEF Deals, Like, Stocked
<1>2. Echo(Q, V, In(mine)) BY DEF Deals, Like, Echo
<1>3. Echo(V, Q, In(s)) BY DEF Deals, Like, Echo
<1>4. Delivers(Q, V, c, In(s), Ids) BY DEF Deals, Like, Delivers, Lively
<1>5. Delivers(V, Q, d, In(mine), Ids) BY DEF Deals, Like, Delivers
<1>6. Lists(Q, V, mine, Ids) BY DEF Deals, Like, Lists, Known, Listing
<1>7. Lists(V, Q, s, Ids) BY DEF Deals, Like, Lists, Listing, Paging
<1>8. Holding(P, c) => Holding(Q, c) BY DEF Like, Holding
<1> QED BY <1>1, <1>2, <1>3, <1>4, <1>5, <1>6, <1>7, <1>8 DEF Deals

LEMMA BusyDeals ==
  ASSUME NEW p \in Peers, \A o \in Peers : Busy(o)
  PROVE  /\ Deals(peer[p], peer[Other(p)], call[p], call[Other(p)], Unread(p), Unread(Other(p)))
         /\ Holding(peer[p], call[p])
<1>1. Other(p) \in Peers /\ Other(Other(p)) = p BY Two
<1> QED BY <1>1 DEF Busy, Deals

LEMMA BecomesBusy ==
  ASSUME NEW s, Types(s), NEW p \in Peers, NEW Q, Typed(Q, Mine(s, p)), Becomes(p, Q),
         NEW c, call' = [call EXCEPT ![p] = c], NEW mine \in Seq(OnWire), mine = Unread(p)',
         NEW t, Spans(Unread(Other(p)), Q, t),
         Deals(Q, peer[Other(p)], c, call[Other(p)], mine, t), Holding(Q, c), Busy(Other(p)),
         batch'[Other(p)] = batch[Other(p)], done'[Other(p)] = done[Other(p)]
  PROVE  \A o \in Peers : Busy(o)'
<1>1. PICK q \in Peers : q = Other(p) /\ q # p /\ Other(q) = p /\ \A o \in Peers : o = p \/ o = q BY Two
<1>2. PICK V : V = peer[q] OBVIOUS
<1>3. PICK w : w = Unread(q) OBVIOUS
<1>4. PICK d : d = call[q] OBVIOUS
<1> DEFINE N == [Q EXCEPT !.written = <<>>, !.thrown = "nothing"]
<1>5. Q \in PeerTypes /\ Q.written \in Seq(OnWire) BY DEF Typed, PeerTypes
<1>6. Like(Q, N) BY <1>5 DEF PeerTypes, Like
<1>7. peer' = [peer EXCEPT ![p] = N] /\ wire' = [wire EXCEPT ![q] = @ \o Q.written] BY <1>1 DEF Becomes
<1> HIDE DEF N
<1>8. peer'[p] = N /\ peer'[q] = V /\ wire'[q] = wire[q] \o Q.written /\ call'[p] = c /\ call'[q] = d
  BY <1>1, <1>2, <1>4, <1>7 DEF Types, PeersTyped, Carries
<1>9. Unread(q)' = t
  <2>1. batch'[q] = batch[q] /\ done'[q] = done[q] BY <1>1
  <2>2. PICK x : x = Q.written OBVIOUS
  <2>3. x \in Seq(OnWire) /\ wire'[q] = wire[q] \o x BY <1>5, <1>8, <2>2
  <2>4. Unread(q)' = Unread(q) \o x BY <2>1, <2>3, UnreadGrows
  <2> QED BY <1>1, <2>2, <2>4 DEF Spans
<1>10. Deals(Q, V, c, d, mine, t) /\ Holding(Q, c) BY <1>1, <1>2, <1>4
<1>11. Deals(N, V, c, d, mine, t) /\ Holding(N, c) BY <1>6, <1>10, LikeDeals
<1>12. Stocked(V) /\ Holding(V, d) BY <1>1, <1>2, <1>4 DEF Busy
<1>13. Busy(p)'
  <2>1. /\ Stocked(peer'[p]) /\ Holding(peer'[p], call'[p])
        /\ Echo(peer'[p], peer'[Other(p)], In(Unread(p)'))
        /\ Delivers(peer'[p], peer'[Other(p)], call'[p], In(Unread(Other(p))'), Ids)
        /\ Lists(peer'[p], peer'[Other(p)], Unread(p)', Ids)
    BY <1>1, <1>8, <1>9, <1>11 DEF Deals
  <2> QED BY <2>1 DEF Busy
<1>14. Busy(q)'
  <2>1. /\ Stocked(peer'[q]) /\ Holding(peer'[q], call'[q])
        /\ Echo(peer'[q], peer'[Other(q)], In(Unread(q)'))
        /\ Delivers(peer'[q], peer'[Other(q)], call'[q], In(Unread(Other(q))'), Ids)
        /\ Lists(peer'[q], peer'[Other(q)], Unread(q)', Ids)
    BY <1>1, <1>8, <1>9, <1>11, <1>12 DEF Deals
  <2> QED BY <2>1 DEF Busy
<1> QED BY <1>1, <1>13, <1>14

\* A step of p that takes no message.
LEMMA StaysBusy ==
  ASSUME NEW s, Types(s), NEW p \in Peers, NEW Q, Typed(Q, Mine(s, p)), Becomes(p, Q),
         NEW c, call' = [call EXCEPT ![p] = c], NEW t, Spans(Unread(Other(p)), Q, t),
         Deals(Q, peer[Other(p)], c, call[Other(p)], Unread(p), t), Holding(Q, c), Busy(Other(p)),
         UNCHANGED <<batch, done>>
  PROVE  \A o \in Peers : Busy(o)'
<1>1. Other(p) \in Peers /\ Other(p) # p BY Two
<1>2. wire'[p] = wire[p] BY <1>1 DEF Becomes, Types, Carries
<1>3. PICK mine \in Seq(OnWire) : mine = Unread(p) BY Contexts
<1>4. mine = Unread(p)' BY <1>2, <1>3 DEF Unread
<1>5. batch'[Other(p)] = batch[Other(p)] /\ done'[Other(p)] = done[Other(p)] OBVIOUS
<1>6. Deals(Q, peer[Other(p)], c, call[Other(p)], mine, t) BY <1>3
<1> QED BY <1>3, <1>4, <1>5, <1>6, BecomesBusy

\* p handles a message.
LEMMA HandleBusy ==
  ASSUME OneWay, NEW s, Types(s), NEW p \in Peers, Handle(p), FewRequests,
         \A o \in Peers : Paired(o) /\ Bound(o), events' = {}, \A o \in Peers : Busy(o)
  PROVE  \A o \in Peers : Busy(o)'
<1>1. PICK m, Q : Turns(s, p, m, Q) BY HandleTyped
<1>2. PICK q \in Peers : q = Other(p) /\ q # p BY Two
<1>3. PICK P : P = peer[p] OBVIOUS
<1>4. PICK V : V = peer[q] OBVIOUS
<1>5. PICK w : w = Unread(q) OBVIOUS
<1>6. PICK mine : mine = Unread(p) OBVIOUS
<1>7. PICK F : F = Fetching(p) OBVIOUS
<1>8. PICK c \in CallTypes : c = call[p] BY DEF Types
<1>9. PICK d : d = call[q] OBVIOUS
<1>10. PICK G : G = Mine(s, p) OBVIOUS
<1>11. /\ Typed(P, G) /\ Allowed(G) /\ Context(V, mine, w) /\ Sound(P, V, mine, w, F)
       /\ wire[p] \in Seq(OnWire) /\ batch[p] \in Seq(OnWire) /\ mine \in Seq(OnWire) /\ done[p] \in Nat
       /\ w \in Seq(OnWire) /\ P.thrown = "nothing" /\ P.written = <<>> /\ P.next + Burst <= MaxId
  <2>1. /\ Typed(P, G) /\ Allowed(G) /\ Context(V, mine, w) /\ Sound(P, V, mine, w, F)
        /\ wire[p] \in Seq(OnWire) /\ batch[p] \in Seq(OnWire) /\ mine \in Seq(OnWire) /\ done[p] \in Nat
        /\ P.thrown = "nothing" /\ P.written = <<>>
    BY <1>2, <1>3, <1>4, <1>5, <1>6, <1>7, <1>10, Contexts, MineAllowed DEF Paired
  <2>2. P.next + Burst <= MaxId BY <1>3 DEF FewRequests
  <2> QED BY <2>1, <2>2 DEF Context
<1>12. Told(P, V, w, mine) BY <1>2, <1>3, <1>4, <1>5, <1>6, BoundTold
<1>13. Deals(P, V, c, d, mine, w) /\ Holding(P, c) BY <1>2, <1>3, <1>4, <1>5, <1>6, <1>8, <1>9, BusyDeals
<1>14. Spans(w, P, w) BY <1>11, ConcatEmptySeq DEF Spans
<1>15. done[p] \in 1 .. Len(batch[p]) /\ batch' = batch BY HandleTyped DEF Handle
<1>16. /\ mine # <<>> /\ mine[1] = m /\ m \in OnWire
       /\ Tail(mine) = Left(batch[p], done[p] + 1, wire[p])
  <2>1. /\ mine # <<>> /\ mine[1] = batch[p][done[p]]
        /\ Tail(mine) = Left(batch[p], done[p] + 1, wire[p])
    BY <1>6, <1>15, UnreadNext
  <2>2. m \in OnWire BY <1>1, MineAllowed DEF Turns
  <2> QED BY <1>1, <2>1, <2>2 DEF Turns
<1>17. Typed(Q, G) /\ Becomes(p, Q) /\ Q \in Handled(P, m) /\ Q \in PeerTypes
  BY <1>1, <1>3, <1>10, <1>16 DEF Turns, Typed
<1>18. Q.thrown = "nothing" BY <1>1 DEF Turns
<1>19. PICK t : Spans(w, Q, t)
  <2>1. PICK t : t = w \o Q.written OBVIOUS
  <2>2. Spans(w, Q, t) BY <2>1 DEF Spans
  <2> QED BY <2>2
<1>20. c.id \in Ids BY <1>8 DEF CallTypes
<1>21. Deals(Q, V, c, d, Tail(mine), t) /\ Holding(Q, c)
  <2>1. CASE m.type = "RESPONSE"
    <3>1. mine[1].type = "RESPONSE" /\ Q \in Handled(P, mine[1]) BY <1>16, <1>17, <2>1
    <3> QED BY <1>11, <1>12, <1>13, <1>14, <1>16, <1>17, <1>19, <1>20, <3>1, ReplyDeals
  <2>2. CASE m.type = "REQUEST"
    <3>1. m.req \in Mine(s, Other(p)) BY <1>1, <2>2 DEF Turns, Wired
    <3>2. m.req.code = "SEND_FILE" /\ m.req.ref = NoRef => Matches(P, m.req) = {} BY <1>3, <3>1, NoneMatches
    <3>3. m.req.code \in {"DATA_PACKET", "FILE_LIST"} => m.req.ref \in Ids BY <3>1 DEF Mine, Referred
    <3>4. m = mine[1] BY <1>16
    <3> QED BY <1>11, <1>12, <1>13, <1>14, <1>16, <1>17, <1>19, <1>20, <2>2, <3>2, <3>3, <3>4, RequestDeals
  <2> QED BY <1>16, <2>1, <2>2 DEF OnWire
<1>22. done'[p] = done[p] + 1 /\ done'[q] = done[q] /\ call' = [call EXCEPT ![p] = c]
  <2>1. done' = [done EXCEPT ![p] = done[p] + 1] /\ call' = call BY <1>1, <1>18 DEF Turns
  <2>2. call = [call EXCEPT ![p] = c] BY <1>8 DEF Types
  <2> QED BY <1>2, <2>1, <2>2 DEF Types
<1>23. Unread(p)' = Tail(mine)
  <2>1. wire'[p] = wire[p] BY <1>2, <1>17 DEF Becomes, Types, Carries
  <2> QED BY <1>15, <1>16, <1>22, <2>1 DEF Unread
<1>24. PICK rest \in Seq(OnWire) : rest = Tail(mine) BY <1>11, <1>16, Taking
<1>25. /\ batch'[Other(p)] = batch[Other(p)] /\ done'[Other(p)] = done[Other(p)] /\ rest = Unread(p)'
       /\ Deals(Q, peer[Other(p)], c, call[Other(p)], rest, t) /\ Spans(Unread(Other(p)), Q, t) /\ Busy(Other(p))
       /\ Typed(Q, Mine(s, p))
  BY <1>2, <1>4, <1>5, <1>9, <1>10, <1>15, <1>17, <1>19, <1>21, <1>22, <1>23, <1>24
<1> QED BY <1>17, <1>21, <1>22, <1>25, BecomesBusy

LEMMA PollBusy ==
  ASSUME NEW s, Types(s), NEW p \in Peers, Poll(p) \/ PollEnds(p), \A o \in Peers : Paired(o),
         \A o \in Peers : Busy(o)
  PROVE  \A o \in Peers : Busy(o)'
<1>1. peer' = peer /\ call' = call /\ \A o \in Peers : Unread(o)' = Unread(o) BY PollUnread DEF Paired
<1> TAKE o \in Peers
<1>2. Other(o) \in Peers BY Two
<1>3. /\ Stocked(peer'[o]) /\ Holding(peer'[o], call'[o])
      /\ Echo(peer'[o], peer'[Other(o)], In(Unread(o)'))
      /\ Delivers(peer'[o], peer'[Other(o)], call'[o], In(Unread(Other(o))'), Ids)
      /\ Lists(peer'[o], peer'[Other(o)], Unread(o)', Ids)
  BY <1>1, <1>2 DEF Busy
<1> QED BY <1>3 DEF Busy

\* The application of p answers.
LEMMA AnswerBusy ==
  ASSUME NEW s, Types(s), NEW p \in Peers, Answer(p), FewRequests, \A o \in Peers : Paired(o) /\ Bound(o),
         \A o \in Peers : Busy(o)
  PROVE  \A o \in Peers : Busy(o)'
<1>1. PICK a, Q : Answers(p, a, Q) BY AnswerTyped
<1>2. UNCHANGED <<batch, done, call, todo, events>> BY AnswerTyped
<1>3. PICK P \in PeerTypes : P = peer[p] BY DEF Types, PeersTyped
<1>4. PICK V : V = peer[Other(p)] OBVIOUS
<1>5. PICK w : w = Unread(Other(p)) OBVIOUS
<1>6. PICK mine : mine = Unread(p) OBVIOUS
<1>7. PICK F : F = Fetching(p) OBVIOUS
<1>8. PICK G : G = Mine(s, p) OBVIOUS
<1>9. PICK c \in CallTypes : c = call[p] BY DEF Types
<1>10. PICK d : d = call[Other(p)] OBVIOUS
<1>11. /\ Typed(P, G) /\ Allowed(G) /\ Context(V, mine, w) /\ Sound(P, V, mine, w, F) /\ Told(P, V, w, mine)
       /\ P.thrown = "nothing" /\ P.next + Burst <= MaxId /\ P.written = <<>> /\ w \in Seq(OnWire)
  <2>1. /\ Typed(P, G) /\ Allowed(G) /\ Context(V, mine, w) /\ P.thrown = "nothing" /\ Sound(P, V, mine, w, F)
        /\ P.written = <<>>
    BY <1>3, <1>4, <1>5, <1>6, <1>7, <1>8, Contexts, MineAllowed DEF Paired
  <2>2. Told(P, V, w, mine) BY <1>3, <1>4, <1>5, <1>6, BoundTold
  <2>3. P.next + Burst <= MaxId BY <1>3 DEF FewRequests
  <2> QED BY <2>1, <2>2, <2>3 DEF Context
<1>12. PICK L : L = [P EXCEPT !.asked = @ \ {a}] OBVIOUS
<1>13. /\ a \in P.asked /\ Becomes(p, Q)
       /\ (\E current \in BOOLEAN : Q = Respond(L, a.id, a.req, current)) \/ Q = Refuse(L, a.id, a.req, "FORBIDDEN")
  BY <1>1, <1>3, <1>12, Zenon DEF Answers
<1>14. PICK id \in Ids, r \in Requests : id = a.id /\ r = a.req BY <1>11, <1>13 DEF Typed, PeerTypes, Asked
<1>15. r.code = "SEND_FILE"
  <2>1. Awaits(id, V.out, P.asked, w \o P.written) BY <1>11 DEF Sound, Half, Placed
  <2> QED BY <1>13, <1>14, <2>1 DEF Awaits
<1>16. Typed(L, G) /\ Sound(L, V, mine, w, F) /\ Fresh(id, r, L, V, mine, w)
  BY <1>11, <1>12, <1>13, <1>14, SoundTakenUp
<1>17. /\ Like(P, L) /\ L.written = P.written /\ L.next = P.next /\ L.thrown = P.thrown
       /\ L.asked \subseteq P.asked /\ L.in = P.in /\ L.out = P.out /\ L.lists = P.lists /\ L.uploads = P.uploads
  BY <1>11, <1>12 DEF PeerTypes, Like
<1>18. Told(L, V, w, mine) BY <1>11, <1>17, ToldElse
<1>19. Deals(P, V, c, d, mine, w) /\ Holding(P, c) BY <1>3, <1>4, <1>5, <1>6, <1>9, <1>10, BusyDeals
<1>20. Deals(L, V, c, d, mine, w) /\ Holding(L, c) BY <1>17, <1>19, LikeDeals
<1>21. Spans(w, L, w) BY <1>11, <1>17, ConcatEmptySeq DEF Spans
<1>22. PICK t : Spans(w, Q, t)
  <2>1. PICK t : t = w \o Q.written OBVIOUS
  <2>2. Spans(w, Q, t) BY <2>1 DEF Spans
  <2> QED BY <2>2
<1>23. /\ \/ \E current \in BOOLEAN : Q = Respond(L, id, r, current)
          \/ Q = Refuse(L, id, r, "FORBIDDEN")
       /\ L.next + Burst <= MaxId /\ L.thrown = "nothing" /\ c.id \in Ids
  BY <1>9, <1>11, <1>13, <1>14, <1>17 DEF CallTypes
<1>24. Deals(Q, V, c, d, mine, t) /\ Holding(Q, c)
  BY <1>11, <1>15, <1>16, <1>18, <1>20, <1>21, <1>22, <1>23, AnswerDeals
<1>25. Typed(Q, Mine(s, p))
  <2>1. CASE \E current \in BOOLEAN : Q = Respond(L, id, r, current) BY <1>8, <1>11, <1>16, <2>1, RespondTyped
  <2>2. CASE Q = Refuse(L, id, r, "FORBIDDEN")
    <3>1. "FORBIDDEN" \in Statuses BY Assumed
    <3> QED BY <1>8, <1>16, <2>2, <3>1, RefuseTyped
  <2> QED BY <1>23, <2>1, <2>2
<1>26. call' = [call EXCEPT ![p] = c] BY <1>2, <1>9 DEF Types
<1>27. Busy(Other(p)) BY Two
<1>28. Deals(Q, peer[Other(p)], c, call[Other(p)], Unread(p), t) /\ Spans(Unread(Other(p)), Q, t) /\ UNCHANGED <<batch, done>>
  BY <1>2, <1>4, <1>5, <1>6, <1>10, <1>22, <1>24
<1> QED BY <1>13, <1>24, <1>25, <1>26, <1>27, <1>28, StaysBusy

\* The call e goes on with the uploads the call c pushes.
Relays(P, c, e) == \A k \in Ids : Pushing(c, k) /\ P.uploads[k].left > 0 => Pushing(e, k)

LEMMA CallDeals ==
  ASSUME NEW P, NEW V, NEW c, NEW e, Relays(P, c, e), NEW d, NEW mine, NEW s, Deals(P, V, c, d, mine, s)
  PROVE  Deals(P, V, e, d, mine, s)
<1>1. \A k \in Ids : Lively(P, c, k, In(s)) => Lively(P, e, k, In(s)) BY DEF Relays, Lively
<1>2. Delivers(P, V, c, In(s), Ids) BY DEF Deals
<1>3. Delivers(P, V, e, In(s), Ids) BY <1>1, <1>2 DEF Delivers
<1> QED BY <1>3 DEF Deals

\* Q is P but for what a call does with what it has got.
Trims(P, Q) ==
  /\ Q.out = P.out /\ Q.in = P.in /\ Q.uploads = P.uploads /\ Q.lists = P.lists
  /\ \A k \in Ids : /\ Q.downloads[k].live => P.downloads[k].live
                    /\ Q.downloads[k].left > 0 => P.downloads[k].left > 0 /\ Q.downloads[k].live
                    /\ Q.listings[k].left = P.listings[k].left
                    /\ Q.listings[k].left > 0 => Q.listings[k].live

LEMMA TrimsDeals ==
  ASSUME NEW P, NEW Q, Trims(P, Q), NEW V, NEW c, NEW d, NEW mine, NEW s, Deals(P, V, c, d, mine, s)
  PROVE  Deals(Q, V, c, d, mine, s)
<1>1. Stocked(Q) BY DEF Deals, Trims, Stocked
<1>2. Echo(Q, V, In(mine)) BY DEF Deals, Trims, Echo
<1>3. Echo(V, Q, In(s)) BY DEF Deals, Trims, Echo
<1>4. Delivers(Q, V, c, In(s), Ids) BY DEF Deals, Trims, Delivers, Lively
<1>5. Delivers(V, Q, d, In(mine), Ids) BY DEF Deals, Trims, Delivers
<1>6. Lists(Q, V, mine, Ids) BY DEF Deals, Trims, Lists, Known, Listing
<1>7. Lists(V, Q, s, Ids) BY DEF Deals, Trims, Lists, Listing, Paging
<1> QED BY <1>1, <1>2, <1>3, <1>4, <1>5, <1>6, <1>7 DEF Deals

\* Q is P without the upload o, which the other peer has not accepted.
Withdraws(P, Q, o) ==
  /\ Is(P.out[o], "SEND_FILE") /\ P.out[o].status \in Final /\ P.out[o].status # "STATUS_OK"
  /\ Q.out = P.out /\ Q.in = P.in /\ Q.downloads = P.downloads /\ Q.lists = P.lists /\ Q.listings = P.listings
  /\ Q.uploads[o] = NoTransfer /\ \A k \in Ids : k # o => Q.uploads[k] = P.uploads[k]

LEMMA WithdrawsDeals ==
  ASSUME NEW P, NEW Q, NEW o \in Ids, Withdraws(P, Q, o), NEW V, NEW c, NEW d, NEW mine, NEW s,
         Deals(P, V, c, d, mine, s)
  PROVE  Deals(Q, V, c, d, mine, s)
<1>1. NoTransfer.left = 0 /\ ~NoTransfer.live BY DEF NoTransfer
<1>2. P.out[o].status \notin Unanswered BY FinalAssumption DEF Withdraws, Unanswered
<1>3. V.in[o].status = P.out[o].status
  <2>1. Is(P.out[o], "SEND_FILE") /\ P.out[o].status \in Final /\ Echo(P, V, In(mine)) BY DEF Withdraws, Deals
  <2>2. P.out[o].req.code # "RECEIVE_FILE" BY <2>1 DEF Is
  <2> QED BY <2>1, <2>2 DEF Echo
<1>4. Stocked(Q)
  <2> SUFFICES ASSUME NEW k \in Ids
               PROVE  /\ Q.uploads[k].left > 0 => Q.uploads[k].live
                      /\ Q.uploads[k].live => Is(Q.out[k], "SEND_FILE")
                      /\ Is(Q.out[k], "SEND_FILE") /\ Q.out[k].status \in Unanswered => Q.uploads[k].left > 0
                      /\ Q.lists[k].left > 0 => Q.lists[k].live
    BY DEF Stocked
  <2>1. CASE k = o BY <1>1, <1>2, <2>1 DEF Withdraws, Deals, Stocked
  <2>2. CASE k # o BY <2>2 DEF Withdraws, Deals, Stocked
  <2> QED BY <2>1, <2>2
<1>5. Echo(Q, V, In(mine)) BY DEF Deals, Withdraws, Echo
<1>6. Echo(V, Q, In(s)) BY DEF Deals, Withdraws, Echo
<1>7. Delivers(Q, V, c, In(s), Ids)
  <2>1. Delivers(P, V, c, In(s), Ids) BY DEF Deals
  <2>2. ~V.downloads[o].live BY <1>3, <2>1 DEF Delivers, Withdraws
  <2>3. ASSUME NEW k \in Ids, V.downloads[k].left > 0 PROVE Lively(Q, c, k, In(s))
    <3>1. V.downloads[k].live /\ Lively(P, c, k, In(s)) BY <2>1, <2>3 DEF Delivers
    <3>2. k # o BY <2>2, <3>1
    <3>3. Q.uploads[k] = P.uploads[k] /\ Q.out = P.out BY <3>2 DEF Withdraws
    <3> QED BY <3>1, <3>3 DEF Lively
  <2>4. Q.out = P.out BY DEF Withdraws
  <2> QED BY <2>1, <2>3, <2>4 DEF Delivers
<1>8. Delivers(V, Q, d, In(mine), Ids) BY DEF Deals, Withdraws, Delivers
<1>9. Lists(Q, V, mine, Ids) BY DEF Deals, Withdraws, Lists, Known, Listing
<1>10. Lists(V, Q, s, Ids) BY DEF Deals, Withdraws, Lists, Listing, Paging
<1> QED BY <1>4, <1>5, <1>6, <1>7, <1>8, <1>9, <1>10 DEF Deals

\* The application calls.
LEMMA CallBusy ==
  ASSUME NEW s, Types(s), NEW p \in Peers, NEW c, Call(p, c), FewRequests,
         \A o \in Peers : Paired(o) /\ Bound(o), \A o \in Peers : Busy(o)
  PROVE  \A o \in Peers : Busy(o)'
<1>1. PICK Q : Calls(s, p, c, Q) BY CallTyped
<1>2. PICK P \in PeerTypes : P = peer[p] BY DEF Types, PeersTyped
<1>3. PICK V : V = peer[Other(p)] OBVIOUS
<1>4. PICK w : w = Unread(Other(p)) OBVIOUS
<1>5. PICK mine : mine = Unread(p) OBVIOUS
<1>6. PICK G : G = Mine(s, p) OBVIOUS
<1>7. PICK d : d = call[Other(p)] OBVIOUS
<1>8. PICK old : old = call[p] OBVIOUS
<1>9. /\ Typed(P, G) /\ Allowed(G) /\ Context(V, mine, w) /\ Told(P, V, w, mine)
      /\ P.thrown = "nothing" /\ ~P.hung /\ old = NoCall /\ P.written = <<>>
      /\ w \in Seq(OnWire) /\ Fits(P, Burst) /\ Burst \in Nat \ {0}
  <2>1. Typed(P, G) /\ Allowed(G) /\ Context(V, mine, w) /\ P.thrown = "nothing" /\ P.written = <<>>
    BY <1>2, <1>3, <1>4, <1>5, <1>6, Contexts, MineAllowed
  <2>2. Told(P, V, w, mine) BY <1>2, <1>3, <1>4, <1>5, BoundTold
  <2>3. ~P.hung /\ old = NoCall BY <1>2, <1>8 DEF Call
  <2>4. P.slots + Cardinality(Open(P.out)) = MaxId BY <1>2 DEF Paired, Sound
  <2>5. P.next + Burst <= MaxId BY <1>2 DEF FewRequests
  <2>6. Book(P) BY <2>2 DEF Told, Tale
  <2>7. Fits(P, Burst) BY <2>4, <2>5, <2>6, FitsBurst
  <2>8. Burst \in Nat \ {0} BY Assumed
  <2> QED BY <2>1, <2>2, <2>3, <2>7, <2>8 DEF Context
<1>10. Deals(P, V, old, d, mine, w) /\ Holding(P, old) BY <1>2, <1>3, <1>4, <1>5, <1>7, <1>8, BusyDeals
<1>11. Stocked(P) BY <1>10 DEF Deals
<1>12. PICK r \in G : r = Opening(c) BY <1>1, <1>6 DEF Calls
<1>13. /\ c.file \in Files /\ Becomes(p, Q) /\ r \in Requests
       /\ c.call \in {"send_file", "receive_file", "list_files"}
       /\ c.call = "send_file" => Q = CreateUpload(P, c.file, NoRef)
       /\ c.call # "send_file" => Q = SendRequest(P, r)
  <2>1. r \in Requests BY <1>9 DEF Allowed, Referred
  <2> QED BY <1>1, <1>2, <1>12, <2>1 DEF Calls
<1>14. Goes(P, Q) /\ Q.listings = P.listings /\ Typed(Q, G)
  <2>1. CASE c.call = "send_file"
    <3>1. PICK f \in Files, ref \in Ids \cup {NoRef} : f = c.file /\ ref = NoRef BY <1>13
    <3>2. r = Offered(f, ref) BY <1>12, <2>1, <3>1 DEF Opening, Offered
    <3>3. Q = CreateUpload(P, f, ref) BY <1>13, <2>1, <3>1
    <3>4. Req("SEND_FILE", f, ref, FALSE) \in G BY <3>2 DEF Offered
    <3>5. Typed(Q, G) BY <1>9, <3>3, <3>4, CreateUploadTyped
    <3>6. Goes(P, Q) /\ Q.listings = P.listings
      <4>1. PICK n \in Nat \ {0} : n = Burst BY <1>9
      <4>2. PICK m \in G : m = Offered(f, ref) BY <1>12, <3>2
      <4>3. Fits(P, n) BY <1>9, <4>1
      <4>4. Goes(P, Q) /\ Q.listings = P.listings /\ Q.out = [P.out EXCEPT ![NewId(P)] = Message(m)]
        BY <1>9, <1>11, <3>3, <4>2, <4>3, GoesUpload
      <4> QED BY <4>4
    <3> QED BY <3>5, <3>6
  <2>2. CASE c.call # "send_file"
    <3>1. Q = SendRequest(P, r) BY <1>13, <2>2
    <3>2. Typed(Q, G) BY <1>9, <3>1, SendRequestTyped
    <3>3. r.code \in {"RECEIVE_FILE", "LIST_FILES"}
      <4>1. CASE c.call = "receive_file"
        <5>1. r = Req("RECEIVE_FILE", c.file, NoRef, FALSE) BY <1>12, <4>1 DEF Opening
        <5> QED BY <5>1 DEF Req
      <4>2. CASE c.call = "list_files"
        <5>1. r = Req("LIST_FILES", c.file, NoRef, FALSE) BY <1>12, <4>2 DEF Opening
        <5> QED BY <5>1 DEF Req
      <4> QED BY <1>13, <2>2, <4>1, <4>2
    <3>4. Q \in PeerTypes BY <3>2 DEF Typed
    <3> QED BY <1>9, <1>13, <3>1, <3>2, <3>3, <3>4, GoesRequest
  <2> QED BY <2>1, <2>2
<1>15. PICK t : t = w \o Q.written OBVIOUS
<1>16. Deals(Q, V, old, d, mine, t)
  <2>1. Nearly(P, V, old, d, mine, w, Ids) BY <1>10 DEF Deals, Nearly
  <2>2. w = w \o P.written BY <1>9, ConcatEmptySeq
  <2>3. Notes(P, V) BY <1>9 DEF Told, Tale, Noted, Notes
  <2>4. PICK some : some = Ids OBVIOUS
  <2>5. some \subseteq Ids /\ (\A k \in Ids : k \in some \/ Turning(Q, k)) /\ Nearly(P, V, old, d, mine, w, some)
    BY <2>1, <2>4
  <2>6. Q \in PeerTypes BY <1>14 DEF Typed
  <2> QED BY <1>9, <1>14, <1>15, <2>2, <2>3, <2>5, <2>6, GoesDeals
<1>17. PICK n : n = [NoCall EXCEPT !.call = c.call, !.phase = "waiting", !.file = c.file, !.id = NewId(P)]
  OBVIOUS
<1>18. call' = [call EXCEPT ![p] = n] BY <1>1, <1>2, <1>17 DEF Calls
<1>19. n.call = c.call /\ n.phase = "waiting" BY <1>17 DEF NoCall
<1>20. Relays(Q, old, n) BY <1>9 DEF Relays, Pushing, NoCall
<1>21. Deals(Q, V, n, d, mine, t) BY <1>16, <1>20, CallDeals
<1>22. Holding(Q, n)
  <2>1. Q.downloads = P.downloads BY <1>14 DEF Goes
  <2>2. \A k \in Ids : ~P.downloads[k].keep BY <1>9, <1>10 DEF Holding, NoCall
  <2>3. \A k \in Ids : P.downloads[k].live /\ P.downloads[k].left = 0 => P.downloads[k].keep BY <1>10 DEF Holding
  <2> QED BY <1>13, <1>19, <2>1, <2>2, <2>3 DEF Holding
<1>23. UNCHANGED <<batch, done>> BY CallTyped
<1>24. /\ Typed(Q, Mine(s, p)) /\ Spans(Unread(Other(p)), Q, t) /\ Busy(Other(p))
       /\ Deals(Q, peer[Other(p)], n, call[Other(p)], Unread(p), t)
  BY <1>3, <1>4, <1>5, <1>6, <1>7, <1>14, <1>15, <1>21, Two DEF Spans
<1> QED BY <1>13, <1>18, <1>22, <1>23, <1>24, StaysBusy

\* A call goes on, or returns: p is then Q, in the call e.
Pursues(p, P, V, c, d, mine, w, Q, e) ==
  \E t : /\ Becomes(p, Q) /\ call' = [call EXCEPT ![p] = e]
         /\ Spans(w, Q, t) /\ Deals(Q, V, e, d, mine, t) /\ Holding(Q, e)

\* It writes nothing.
LEMMA PursuesSame ==
  ASSUME NEW p, NEW P, NEW V, NEW c, NEW d, NEW mine, NEW w \in Seq(OnWire), P.written = <<>>,
         NEW Q, Q.written = P.written, Deals(Q, V, c, d, mine, w), NEW e, Relays(Q, c, e), Holding(Q, e),
         Becomes(p, Q), call' = [call EXCEPT ![p] = e]
  PROVE  Pursues(p, P, V, c, d, mine, w, Q, e)
<1>1. Deals(Q, V, e, d, mine, w) BY CallDeals
<1>2. Spans(w, Q, w) BY ConcatEmptySeq DEF Spans
<1> QED BY <1>1, <1>2 DEF Pursues

\* A call that is not receive_file with a download has kept none.
LEMMA NoneKept ==
  ASSUME NEW P, NEW c, Holding(P, c), c.call # "receive_file" \/ c.phase # "looping"
  PROVE  /\ \A k \in Ids : ~P.downloads[k].keep /\ ~(P.downloads[k].live /\ P.downloads[k].left = 0)
         /\ Holding(P, NoCall)
BY DEF Holding

LEMMA SendFileBusy ==
  ASSUME NEW G, Allowed(G), NEW P, Typed(P, G), NEW V, NEW mine, NEW w, Context(V, mine, w), Told(P, V, w, mine),
         P.written = <<>>, P.slots + Cardinality(Open(P.out)) = MaxId, P.next + Burst <= MaxId,
         NEW c \in CallTypes, Called(P, c), NEW d, Deals(P, V, c, d, mine, w), Holding(P, c),
         NEW p, P = peer[p], c = call[p], SendFileAnswered(p) \/ SendFileLoop(p)
  PROVE  \E Q, e : Typed(Q, G) /\ Pursues(p, P, V, c, d, mine, w, Q, e)
<1>1. P \in PeerTypes /\ w \in Seq(OnWire) /\ c.id \in Ids BY DEF Typed, Context, CallTypes
<1>2. P.uploads \in [Ids -> Transferred] /\ P.out \in [Ids -> Messages] BY <1>1, Maps
<1>3. Holding(P, NoCall) /\ c.call = "send_file"
  <2>1. c.call = "send_file" BY DEF SendFileAnswered, SendFileLoop, Resumes
  <2> QED BY <2>1, NoneKept
<1>4. CASE SendFileAnswered(p)
  <2>1. c.phase = "waiting" /\ P.out[c.id].status \notin Unanswered BY <1>4 DEF SendFileAnswered, Resumes, Ready
  <2>2. Is(P.out[c.id], "SEND_FILE") BY <1>3, <2>1 DEF Called
  <2>3. CASE P.out[c.id].status = "STATUS_OK"
    <3>1. PICK e : e = [c EXCEPT !.phase = "pushing"] OBVIOUS
    <3>2. e.call = "send_file" /\ e.phase = "pushing" /\ e.id = c.id BY <1>3, <3>1 DEF CallTypes
    <3>3. Becomes(p, P) /\ call' = [call EXCEPT ![p] = e] BY <1>4, <2>3, <3>1 DEF SendFileAnswered, Continue
    <3>4. Relays(P, c, e) BY <2>1 DEF Relays, Pushing
    <3>5. Holding(P, e) BY <1>3, <3>2 DEF Holding, NoCall
    <3> QED BY <1>1, <3>3, <3>4, <3>5, PursuesSame
  <2>4. CASE P.out[c.id].status # "STATUS_OK"
    <3>1. PICK t : t = [P.uploads EXCEPT ![c.id] = NoTransfer] OBVIOUS
    <3>2. t \in Transfers BY <1>1, <1>2, <3>1, TransferType
    <3>3. PICK Q : Q = [P EXCEPT !.uploads = t] OBVIOUS
    <3>4. SameQueue(P, Q) /\ Q.in = P.in /\ Q.lists = P.lists /\ Q.uploads = t /\ Q.downloads = P.downloads
          /\ Q.listings = P.listings
      BY <1>1, <3>2, <3>3, UpdateSame DEF PeerTypes
    <3>5. Becomes(p, Q) /\ call' = [call EXCEPT ![p] = NoCall]
      BY <1>4, <2>4, <3>1, <3>3 DEF SendFileAnswered, Return
    <3>6. Withdraws(P, Q, c.id)
      <4>1. P.out[c.id].status \in Final
        <5>1. P.out[c.id] \in Messages BY <1>1, <1>2
        <5> QED BY <2>1, <2>2, <5>1 DEF Messages, Statuses, Unanswered, Is
      <4>2. /\ Q.out = P.out /\ Q.uploads[c.id] = NoTransfer
            /\ \A k \in Ids : k # c.id => Q.uploads[k] = P.uploads[k]
        BY <1>1, <1>2, <3>1, <3>4 DEF SameQueue
      <4> QED BY <2>2, <2>4, <3>4, <4>1, <4>2 DEF Withdraws
    <3>7. Deals(Q, V, c, d, mine, w) BY <1>1, <3>6, WithdrawsDeals
    <3>8. Holding(Q, NoCall) BY <1>3, <3>4 DEF Holding
    <3>9. Relays(Q, c, NoCall) BY <2>1 DEF Relays, Pushing
    <3>10. Q.written = P.written BY <3>4 DEF SameQueue
    <3>11. Typed(Q, G) BY <3>4, SameTyped
    <3> QED BY <1>1, <3>5, <3>7, <3>8, <3>9, <3>10, <3>11, PursuesSame
  <2> QED BY <2>3, <2>4
<1>5. CASE SendFileLoop(p)
  <2>1. c.phase = "pushing" BY <1>5 DEF SendFileLoop, Resumes
  <2>2. CASE P.uploads[c.id].left > 0
    <3>1. PICK Q : Q = SendPacket(P, c.id) OBVIOUS
    <3>2. P.out[c.id].status = "STATUS_OK" BY <1>3, <2>1 DEF Called
    <3>3. Typed(Q, G) BY <1>1, <2>2, <3>1, SendPacketTyped
    <3>4. PICK n \in Nat \ {0} : n = Burst BY Assumed
    <3>5. Fits(P, n)
      <4>1. Book(P) BY DEF Told, Tale
      <4> QED BY <1>1, <3>4, <4>1, FitsBurst
    <3>6. Goes(P, Q) /\ Q.listings = P.listings BY <1>1, <2>2, <3>1, <3>2, <3>5, GoesPacket
    <3>7. PICK t : t = w \o Q.written OBVIOUS
    <3>8. Deals(Q, V, c, d, mine, t)
      <4>1. PICK some : some = Ids OBVIOUS
      <4>2. some \subseteq Ids /\ (\A k \in Ids : k \in some \/ Turning(Q, k)) /\ Nearly(P, V, c, d, mine, w, some)
        BY <4>1 DEF Deals, Nearly
      <4>3. Notes(P, V) BY DEF Told, Tale, Noted, Notes
      <4>4. w = w \o P.written BY <1>1, ConcatEmptySeq
      <4>5. Q \in PeerTypes BY <3>3 DEF Typed
      <4> QED BY <1>1, <3>6, <3>7, <4>2, <4>3, <4>4, <4>5, GoesDeals
    <3>9. Holding(Q, c)
      <4>1. Q.downloads = P.downloads BY <3>6 DEF Goes
      <4>2. Sure(P, Q) BY <3>6, GoesSure
      <4> QED BY <1>1, <4>1, <4>2, HoldingKept
    <3>10. Becomes(p, Q) /\ call' = [call EXCEPT ![p] = c] BY <1>5, <2>2, <3>1 DEF SendFileLoop, Continue
    <3>11. Pursues(p, P, V, c, d, mine, w, Q, c) BY <3>7, <3>8, <3>9, <3>10 DEF Pursues, Spans
    <3> QED BY <3>3, <3>11
  <2>3. CASE ~(P.uploads[c.id].left > 0)
    <3>1. Becomes(p, P) /\ call' = [call EXCEPT ![p] = NoCall] BY <1>5, <2>3 DEF SendFileLoop, Return
    <3>2. Relays(P, c, NoCall) BY <2>3 DEF Relays, Pushing
    <3> QED BY <1>1, <1>3, <3>1, <3>2, PursuesSame
  <2> QED BY <2>2, <2>3
<1> QED BY <1>4, <1>5

LEMMA ReceiveFileBusy ==
  ASSUME NEW G, NEW P, Typed(P, G), NEW V, NEW mine, NEW w, Context(V, mine, w), P.written = <<>>,
         NEW c \in CallTypes, NEW d, Deals(P, V, c, d, mine, w), Holding(P, c),
         NEW p, P = peer[p], c = call[p], ReceiveFileAnswered(p) \/ ReceiveFileLoop(p)
  PROVE  \E Q, e : Typed(Q, G) /\ Pursues(p, P, V, c, d, mine, w, Q, e)
<1>1. P \in PeerTypes /\ w \in Seq(OnWire) /\ c.key \in Ids BY DEF Typed, Context, CallTypes
<1>2. P.downloads \in [Ids -> Transferred] BY <1>1, Maps
<1>3. c.call = "receive_file" BY Zenon DEF ReceiveFileAnswered, ReceiveFileLoop, Resumes
<1>4. ASSUME NEW Q, NEW e PROVE Relays(Q, c, e) BY <1>3 DEF Relays, Pushing
<1>5. CASE ReceiveFileAnswered(p)
  <2>1. c.phase = "waiting" BY <1>5, Zenon DEF ReceiveFileAnswered, Resumes
  <2>2. /\ \A k \in Ids : ~P.downloads[k].keep /\ ~(P.downloads[k].live /\ P.downloads[k].left = 0)
        /\ Holding(P, NoCall)
    BY <2>1, NoneKept
  <2>3. \/ \E error : Return(p, P, error)
        \/ \E k \in Ids : /\ P.downloads[k].live
                          /\ Continue(p, [P EXCEPT !.downloads[k].keep = TRUE], [c EXCEPT !.phase = "looping", !.key = k])
    BY <1>5, Zenon DEF ReceiveFileAnswered
  <2>4. CASE \E error : Return(p, P, error)
    <3>1. Becomes(p, P) /\ call' = [call EXCEPT ![p] = NoCall] BY <2>4 DEF Return
    <3>2. Relays(P, c, NoCall) BY <1>4
    <3> QED BY <1>1, <2>2, <3>1, <3>2, PursuesSame
  <2>5. ASSUME NEW k \in Ids, P.downloads[k].live,
               Continue(p, [P EXCEPT !.downloads[k].keep = TRUE], [c EXCEPT !.phase = "looping", !.key = k])
        PROVE  \E Q, e : Typed(Q, G) /\ Pursues(p, P, V, c, d, mine, w, Q, e)
    <3>1. PICK u \in Transferred : u = P.downloads[k] BY <1>2
    <3>2. PICK x : x = [u EXCEPT !.keep = TRUE] OBVIOUS
    <3>3. x \in Transferred /\ x.keep /\ x.live = u.live /\ x.left = u.left BY <3>2 DEF Transferred
    <3>4. PICK t : t = [P.downloads EXCEPT ![k] = x] OBVIOUS
    <3>5. t \in Transfers BY <1>2, <3>3, <3>4, TransferType
    <3>6. t[k] = x /\ \A o \in Ids : o # k => t[o] = P.downloads[o] BY <1>2, <3>4
    <3>7. PICK Q : Q = [P EXCEPT !.downloads = t] OBVIOUS
    <3>8. SameQueue(P, Q) /\ Q.in = P.in /\ Q.lists = P.lists /\ Q.uploads = P.uploads /\ Q.downloads = t
          /\ Q.listings = P.listings
      BY <1>1, <3>5, <3>7, UpdateSame DEF PeerTypes
    <3>9. PICK e : e = [c EXCEPT !.phase = "looping", !.key = k] OBVIOUS
    <3>10. e.call = "receive_file" /\ e.phase = "looping" /\ e.key = k BY <1>3, <3>9 DEF CallTypes
    <3>11. Becomes(p, Q) /\ call' = [call EXCEPT ![p] = e]
      BY <2>5, <3>1, <3>2, <3>4, <3>7, <3>9 DEF Continue
    <3>12. Trims(P, Q)
      <4>1. \A o \in Ids : P.downloads[o].left > 0 => P.downloads[o].live BY DEF Deals, Delivers
      <4>2. \A o \in Ids : P.listings[o].left > 0 => P.listings[o].live BY DEF Deals, Lists
      <4>3. ASSUME NEW o \in Ids
            PROVE  /\ t[o].live => P.downloads[o].live
                   /\ t[o].left > 0 => P.downloads[o].left > 0 /\ t[o].live
        BY <3>1, <3>3, <3>6, <4>1
      <4> QED BY <3>8, <4>2, <4>3 DEF Trims, SameQueue
    <3>13. Deals(Q, V, c, d, mine, w) BY <3>12, TrimsDeals
    <3>14. Holding(Q, e)
      <4>1. ASSUME NEW o \in Ids
            PROVE  /\ t[o].keep => o = k
                   /\ t[o].live /\ t[o].left = 0 => t[o].keep
        BY <2>2, <3>3, <3>6
      <4> QED BY <3>8, <3>10, <4>1 DEF Holding
    <3>15. Typed(Q, G) /\ Q.written = P.written BY <3>8, SameTyped DEF SameQueue
    <3>16. Relays(Q, c, e) BY <1>4
    <3> QED BY <1>1, <3>11, <3>13, <3>14, <3>15, <3>16, PursuesSame
  <2> QED BY <2>3, <2>4, <2>5, Zenon
<1>6. CASE ReceiveFileLoop(p)
  <2>1. c.phase = "looping" /\ P.downloads[c.key].left = 0 BY <1>3, <1>6 DEF ReceiveFileLoop, Resumes, Ready
  <2>2. PICK t : t = [P.downloads EXCEPT ![c.key] = NoTransfer] OBVIOUS
  <2>3. t \in Transfers BY <1>1, <1>2, <2>2, TransferType
  <2>4. t[c.key] = NoTransfer /\ \A o \in Ids : o # c.key => t[o] = P.downloads[o] BY <1>1, <1>2, <2>2
  <2>5. PICK Q : Q = [P EXCEPT !.downloads = t] OBVIOUS
  <2>6. SameQueue(P, Q) /\ Q.in = P.in /\ Q.lists = P.lists /\ Q.uploads = P.uploads /\ Q.downloads = t
        /\ Q.listings = P.listings
    BY <1>1, <2>3, <2>5, UpdateSame DEF PeerTypes
  <2>7. Becomes(p, Q) /\ call' = [call EXCEPT ![p] = NoCall] BY <1>6, <2>2, <2>5 DEF ReceiveFileLoop, Return
  <2>8. NoTransfer.left = 0 /\ ~NoTransfer.live /\ ~NoTransfer.keep BY DEF NoTransfer
  <2>9. Trims(P, Q)
    <3>1. \A o \in Ids : P.downloads[o].left > 0 => P.downloads[o].live BY DEF Deals, Delivers
    <3>2. \A o \in Ids : P.listings[o].left > 0 => P.listings[o].live BY DEF Deals, Lists
    <3>3. ASSUME NEW o \in Ids
          PROVE  /\ t[o].live => P.downloads[o].live
                 /\ t[o].left > 0 => P.downloads[o].left > 0 /\ t[o].live
      BY <2>4, <2>8, <3>1
    <3> QED BY <2>6, <3>2, <3>3 DEF Trims, SameQueue
  <2>10. Deals(Q, V, c, d, mine, w) BY <2>9, TrimsDeals
  <2>11. Holding(Q, NoCall)
    <3>1. ASSUME NEW o \in Ids PROVE ~t[o].keep /\ ~(t[o].live /\ t[o].left = 0)
      <4>1. CASE o = c.key BY <2>4, <2>8, <4>1
      <4>2. CASE o # c.key BY <2>4, <4>2 DEF Holding
      <4> QED BY <4>1, <4>2
    <3> QED BY <2>6, <3>1 DEF Holding
  <2>12. Typed(Q, G) /\ Q.written = P.written BY <2>6, SameTyped DEF SameQueue
  <2>13. Relays(Q, c, NoCall) BY <1>4
  <2> QED BY <1>1, <2>7, <2>10, <2>11, <2>12, <2>13, PursuesSame
<1> QED BY <1>5, <1>6

LEMMA ListFilesBusy ==
  ASSUME NEW G, NEW P, Typed(P, G), NEW V, NEW mine, NEW w, Context(V, mine, w), P.written = <<>>,
         NEW c \in CallTypes, Called(P, c), NEW d, Deals(P, V, c, d, mine, w), Holding(P, c),
         NEW p, P = peer[p], c = call[p], ListFilesAnswered(p) \/ ListFilesLoop(p)
  PROVE  \E Q, e : Typed(Q, G) /\ Pursues(p, P, V, c, d, mine, w, Q, e)
<1>1. P \in PeerTypes /\ w \in Seq(OnWire) /\ c.id \in Ids BY DEF Typed, Context, CallTypes
<1>2. P.listings \in [Ids -> Transferred] BY <1>1, Maps
<1>3. c.call = "list_files" BY DEF ListFilesAnswered, ListFilesLoop, Resumes
<1>4. ASSUME NEW Q, NEW e PROVE Relays(Q, c, e) BY <1>3 DEF Relays, Pushing
<1>5. Holding(P, NoCall) /\ \A k \in Ids : ~P.downloads[k].keep BY <1>3, NoneKept
<1>6. CASE ListFilesAnswered(p)
  <2>1. c.phase = "waiting" BY <1>6 DEF ListFilesAnswered, Resumes
  <2>2. \/ \E error : Return(p, P, error)
        \/ P.out[c.id].status = "STATUS_OK" /\ Continue(p, P, [c EXCEPT !.phase = "looping"])
    BY <1>6, Zenon DEF ListFilesAnswered
  <2>3. CASE \E error : Return(p, P, error)
    <3>1. Becomes(p, P) /\ call' = [call EXCEPT ![p] = NoCall] BY <2>3 DEF Return
    <3>2. Relays(P, c, NoCall) BY <1>4
    <3> QED BY <1>1, <1>5, <3>1, <3>2, PursuesSame
  <2>4. CASE P.out[c.id].status = "STATUS_OK" /\ Continue(p, P, [c EXCEPT !.phase = "looping"])
    <3>1. PICK e : e = [c EXCEPT !.phase = "looping"] OBVIOUS
    <3>2. e.call = "list_files" /\ e.phase = "looping" /\ e.id = c.id BY <1>3, <3>1 DEF CallTypes
    <3>3. Becomes(p, P) /\ call' = [call EXCEPT ![p] = e] BY <2>4, <3>1 DEF Continue
    <3>4. Is(P.out[c.id], "LIST_FILES") BY <1>3, <2>1 DEF Called
    <3>5. Holding(P, e) BY <1>5, <2>4, <3>2, <3>4 DEF Holding
    <3>6. Relays(P, c, e) BY <1>4
    <3> QED BY <1>1, <3>3, <3>5, <3>6, PursuesSame
  <2> QED BY <2>2, <2>3, <2>4
<1>7. CASE ListFilesLoop(p)
  <2>1. P.listings[c.id].left = 0 BY <1>3, <1>7 DEF ListFilesLoop, Resumes, Ready
  <2>2. PICK t : t = [P.listings EXCEPT ![c.id] = NoTransfer] OBVIOUS
  <2>3. t \in Transfers BY <1>1, <1>2, <2>2, TransferType
  <2>4. t[c.id] = NoTransfer /\ \A o \in Ids : o # c.id => t[o] = P.listings[o] BY <1>1, <1>2, <2>2
  <2>5. PICK Q : Q = [P EXCEPT !.listings = t] OBVIOUS
  <2>6. SameQueue(P, Q) /\ Q.in = P.in /\ Q.lists = P.lists /\ Q.uploads = P.uploads /\ Q.downloads = P.downloads
        /\ Q.listings = t
    BY <1>1, <2>3, <2>5, UpdateSame DEF PeerTypes
  <2>7. Becomes(p, Q) /\ call' = [call EXCEPT ![p] = NoCall] BY <1>7, <2>2, <2>5 DEF ListFilesLoop, Return
  <2>8. Trims(P, Q)
    <3>1. \A o \in Ids : P.downloads[o].left > 0 => P.downloads[o].live BY DEF Deals, Delivers
    <3>2. \A o \in Ids : P.listings[o].left > 0 => P.listings[o].live BY DEF Deals, Lists
    <3>3. NoTransfer.left = 0 BY DEF NoTransfer
    <3>4. ASSUME NEW o \in Ids PROVE t[o].left = P.listings[o].left /\ (t[o].left > 0 => t[o].live)
      BY <2>1, <2>4, <3>2, <3>3
    <3> QED BY <2>6, <3>1, <3>4 DEF Trims, SameQueue
  <2>9. Deals(Q, V, c, d, mine, w) BY <2>8, TrimsDeals
  <2>10. Holding(Q, NoCall) BY <1>5, <2>6 DEF Holding
  <2>11. Typed(Q, G) /\ Q.written = P.written BY <2>6, SameTyped DEF SameQueue
  <2>12. Relays(Q, c, NoCall) BY <1>4
  <2> QED BY <1>1, <2>7, <2>9, <2>10, <2>11, <2>12, PursuesSame
<1> QED BY <1>6, <1>7

\* A call goes on.
LEMMA ResumeBusy ==
  ASSUME NEW s, Types(s), NEW p \in Peers, Resume(p), FewRequests,
         \A o \in Peers : Paired(o) /\ Bound(o), \A o \in Peers : Busy(o)
  PROVE  \A o \in Peers : Busy(o)'
<1>1. PICK P \in PeerTypes : P = peer[p] BY DEF Types, PeersTyped
<1>2. PICK c \in CallTypes : c = call[p] BY DEF Types
<1>3. PICK V : V = peer[Other(p)] OBVIOUS
<1>4. PICK w : w = Unread(Other(p)) OBVIOUS
<1>5. PICK mine : mine = Unread(p) OBVIOUS
<1>6. PICK d : d = call[Other(p)] OBVIOUS
<1>7. PICK G : G = Mine(s, p) OBVIOUS
<1>8. /\ Typed(P, G) /\ Allowed(G) /\ Context(V, mine, w) /\ Told(P, V, w, mine) /\ P.written = <<>>
      /\ P.slots + Cardinality(Open(P.out)) = MaxId /\ P.next + Burst <= MaxId /\ Called(P, c)
  <2>1. Typed(P, G) /\ Allowed(G) /\ Context(V, mine, w) /\ P.written = <<>>
    BY <1>1, <1>3, <1>4, <1>5, <1>7, Contexts, MineAllowed
  <2>2. Told(P, V, w, mine) BY <1>1, <1>3, <1>4, <1>5, BoundTold
  <2>3. P.slots + Cardinality(Open(P.out)) = MaxId BY <1>1 DEF Paired, Sound
  <2>4. P.next + Burst <= MaxId BY <1>1 DEF FewRequests
  <2>5. Called(P, c) BY <1>1, <1>2 DEF Bound
  <2> QED BY <2>1, <2>2, <2>3, <2>4, <2>5
<1>9. Deals(P, V, c, d, mine, w) /\ Holding(P, c) BY <1>1, <1>2, <1>3, <1>4, <1>5, <1>6, BusyDeals
<1>10. \E Q, e : Typed(Q, G) /\ Pursues(p, P, V, c, d, mine, w, Q, e)
  <2>1. CASE SendFileAnswered(p) \/ SendFileLoop(p) BY <1>1, <1>2, <1>8, <1>9, <2>1, SendFileBusy
  <2>2. CASE ReceiveFileAnswered(p) \/ ReceiveFileLoop(p) BY <1>1, <1>2, <1>8, <1>9, <2>2, ReceiveFileBusy
  <2>3. CASE ListFilesAnswered(p) \/ ListFilesLoop(p) BY <1>1, <1>2, <1>8, <1>9, <2>3, ListFilesBusy
  <2> QED BY <2>1, <2>2, <2>3 DEF Resume
<1>11. PICK Q, e : Typed(Q, G) /\ Pursues(p, P, V, c, d, mine, w, Q, e) BY <1>10
<1>12. PICK t : /\ Becomes(p, Q) /\ call' = [call EXCEPT ![p] = e]
                /\ Spans(w, Q, t) /\ Deals(Q, V, e, d, mine, t) /\ Holding(Q, e)
  BY <1>11 DEF Pursues
<1>13. /\ Typed(Q, Mine(s, p)) /\ Spans(Unread(Other(p)), Q, t) /\ Busy(Other(p))
       /\ Deals(Q, peer[Other(p)], e, call[Other(p)], Unread(p), t)
  BY <1>3, <1>4, <1>5, <1>6, <1>7, <1>11, <1>12, Two
<1>14. UNCHANGED <<batch, done>> BY ResumeAdvances DEF Advances
<1> QED BY <1>12, <1>13, <1>14, StaysBusy

\* What is granted goes on, and no call holds what is over.
AllBusy == \A p \in Peers : Busy(p)

LEMMA BusyInit == Init => AllBusy
<1> SUFFICES ASSUME Init, NEW p \in Peers PROVE Busy(p) BY DEF AllBusy
<1>1. Other(p) \in Peers BY Two
<1>2. PICK P : P = NewPeer OBVIOUS
<1>3. peer[p] = P /\ peer[Other(p)] = P /\ call[p] = NoCall BY <1>1, <1>2 DEF Init
<1>4. Unread(p) = <<>> /\ Unread(Other(p)) = <<>> BY <1>1 DEF Init, Unread, Left
<1>5. /\ NoMessage.status = Absent /\ Absent \notin Unanswered /\ Absent \notin Final /\ Absent # "STATUS_OK"
      /\ NoTransfer.left = 0 /\ ~NoTransfer.live /\ ~NoTransfer.keep
  <2>1. NoMessage.status = Absent BY DEF NoMessage
  <2>2. Absent \notin Unanswered BY DEF Unanswered, None, Absent, Pending
  <2>3. Absent \notin Final BY FinalAssumption DEF Absent
  <2>4. NoTransfer.left = 0 /\ ~NoTransfer.live /\ ~NoTransfer.keep BY DEF NoTransfer
  <2> QED BY <2>1, <2>2, <2>3, <2>4 DEF Absent
<1>6. \A k \in Ids : /\ P.out[k] = NoMessage /\ P.in[k] = NoMessage
                     /\ P.uploads[k] = NoTransfer /\ P.downloads[k] = NoTransfer
                     /\ P.lists[k] = NoTransfer /\ P.listings[k] = NoTransfer
  BY <1>2 DEF NewPeer
<1>7. Stocked(P) BY <1>5, <1>6 DEF Stocked, Is
<1>8. Holding(P, NoCall) BY <1>5, <1>6 DEF Holding
<1>9. PICK none : none = <<>> OBVIOUS
<1>10. In(none) = {} /\ Len(none) = 0 BY <1>9 DEF In
<1>11. Echo(P, P, In(none)) BY <1>5, <1>6, <1>10 DEF Echo
<1>12. Delivers(P, P, NoCall, In(none), Ids) BY <1>5, <1>6 DEF Delivers, Is
<1>13. Lists(P, P, none, Ids)
  <2>1. \A k \in Ids : ~Is(P.in[k], "FILE_LIST") /\ ~Listing(P, P, k) BY <1>5, <1>6 DEF Is, Listing
  <2> QED BY <1>5, <1>6, <1>10, <2>1 DEF Lists
<1>14. Unread(p) = none /\ Unread(Other(p)) = none BY <1>4, <1>9
<1> QED BY <1>3, <1>7, <1>8, <1>11, <1>12, <1>13, <1>14 DEF Busy

LEMMA BusyStep ==
  ASSUME OneWay, Session, Accounted, Orderly, FewRequests, Orderly', AllBusy, [Next]_vars
  PROVE  AllBusy'
<1>1. PICK s \in Scripts : Types(s) BY DEF Session
<1>2. \A o \in Peers : Paired(o) /\ Bound(o) BY DEF Orderly, Accounted
<1>3. events' = {} BY DEF Orderly
<1>4. \A o \in Peers : Busy(o) BY DEF AllBusy
<1> SUFFICES \A o \in Peers : Busy(o)' BY DEF AllBusy
<1>5. CASE UNCHANGED vars
  <2>1. UNCHANGED <<peer, wire, batch, done, call, todo, events>> BY <1>5 DEF vars
  <2>2. \A o : Unread(o)' = Unread(o) BY <2>1 DEF Unread
  <2> QED BY <1>4, <2>1, <2>2 DEF Busy
<1>6. ASSUME NEW p \in Peers, Poll(p) \/ PollEnds(p) PROVE \A o \in Peers : Busy(o)'
  BY <1>1, <1>2, <1>4, <1>6, PollBusy
<1>7. ASSUME NEW p \in Peers, Handle(p) PROVE \A o \in Peers : Busy(o)'
  BY <1>1, <1>2, <1>3, <1>4, <1>7, HandleBusy
<1>8. ASSUME NEW p \in Peers, Resume(p) PROVE \A o \in Peers : Busy(o)' BY <1>1, <1>2, <1>4, <1>8, ResumeBusy
<1>9. ASSUME NEW p \in Peers, Answer(p) PROVE \A o \in Peers : Busy(o)' BY <1>1, <1>2, <1>4, <1>9, AnswerBusy
<1>10. ASSUME NEW p \in Peers, NEW c, Call(p, c) PROVE \A o \in Peers : Busy(o)'
  BY <1>1, <1>2, <1>4, <1>10, CallBusy
<1> QED BY <1>5, <1>6, <1>7, <1>8, <1>9, <1>10, Steps

LEMMA BusyAlways ==
  ASSUME OneWay, FetchedOnce
  PROVE  Spec /\ []FewRequests => [](Session /\ Accounted /\ Orderly /\ Pursued /\ AllBusy)
<1>1. Session /\ Accounted /\ Orderly /\ FewRequests /\ Orderly' /\ AllBusy /\ [Next]_vars => AllBusy'
  BY BusyStep
<1> QED BY <1>1, BusyInit, PursuedAlways, PTL DEF Spec

\* When nothing moves, P, in the call c, has no download and waits for nothing.
LEMMA Rests ==
  ASSUME NEW P \in PeerTypes, NEW V, NEW c \in CallTypes, NEW d, Open(P.out) = {}, Open(V.out) = {},
         Holding(P, c), c.phase \notin {"waiting", "pushing"}, d.phase # "pushing",
         c.phase = "looping" /\ c.call = "receive_file" => P.downloads[c.key].left # 0,
         c.phase = "looping" /\ c.call = "list_files" => P.listings[c.id].left # 0,
         NEW s, In(s) = {}, Echo(P, V, In(s)), Lists(P, V, s, Ids), Delivers(V, P, d, In(s), Ids)
  PROVE  c = NoCall /\ \A k \in Ids : ~P.downloads[k].live
<1>1. c.id \in Ids /\ c.key \in Ids BY DEF CallTypes
<1>2. P.downloads \in [Ids -> Transferred] /\ P.listings \in [Ids -> Transferred] BY Maps
<1>3. \A k \in Ids : P.downloads[k].left \in Nat /\ P.listings[k].left \in Nat
  <2>1. Packets \in Nat /\ Pages \in Nat BY Assumed
  <2>2. \A t \in Transferred : t.left \in Nat BY ONLY <2>1 DEF Transferred
  <2> QED BY <1>2, <2>2
<1>4. ASSUME NEW k \in Ids PROVE P.downloads[k].left = 0
  <2>1. ~Lively(V, d, k, In(s)) BY DEF Lively, Open, Pushing
  <2>2. ~(P.downloads[k].left > 0) BY <2>1 DEF Delivers
  <2> QED BY <1>3, <2>2
<1>5. ~(c.phase = "looping" /\ c.call = "receive_file") BY <1>1, <1>4
<1>6. ~(c.phase = "looping" /\ c.call = "list_files")
  <2> SUFFICES ASSUME c.phase = "looping", c.call = "list_files" PROVE FALSE OBVIOUS
  <2>1. Is(P.out[c.id], "LIST_FILES") /\ P.out[c.id].status = "STATUS_OK" BY DEF Holding, NoCall
  <2>2. "STATUS_OK" \in Final BY SessionAssumption
  <2>3. P.out[c.id].req.code # "RECEIVE_FILE" BY <2>1 DEF Is
  <2>4. V.in[c.id].status = "STATUS_OK" BY <1>1, <2>1, <2>2, <2>3 DEF Echo
  <2>5. P.listings[c.id].left > 0 BY <1>1, <1>3
  <2>6. Listing(P, V, c.id) BY <2>1, <2>4, <2>5 DEF Listing
  <2>7. Paging(V, c.id, In(s)) BY <1>1, <2>6 DEF Lists
  <2> QED BY <2>7 DEF Paging
<1>7. c = NoCall BY <1>5, <1>6 DEF Holding
<1>8. \A k \in Ids : ~P.downloads[k].live BY <1>4, <1>5 DEF Holding
<1> QED BY <1>7, <1>8

\* Under the same conditions, and as the call that waits for a download or a listing
\* finds it again: when nothing moves any more, every call has returned, no download
\* is unfinished and no request is open (Peer_private.cpp:276-285, Peer.cpp:127-220).
THEOREM NobodyEverLeftWaiting ==
  ASSUME OneWay, FetchedOnce
  PROVE  Spec /\ []FewRequests => []NobodyLeftWaiting
<1>1. ASSUME Session, AllBusy, Quiet => AllAnswered PROVE NobodyLeftWaiting
  <2> SUFFICES ASSUME Quiet, NEW p \in Peers
               PROVE  /\ call[p] = NoCall
                      /\ Open(peer[p].out) = {}
                      /\ \A id \in Ids : ~peer[p].downloads[id].live
    BY DEF NobodyLeftWaiting
  <2>1. PICK s \in Scripts : Types(s) BY <1>1 DEF Session
  <2>2. PICK q \in Peers : q = Other(p) /\ Other(q) = p BY Two
  <2>3. PICK P \in PeerTypes : P = peer[p] BY <2>1 DEF Types, PeersTyped
  <2>4. PICK c \in CallTypes : c = call[p] BY <2>1 DEF Types
  <2>5. PICK V : V = peer[q] OBVIOUS
  <2>6. PICK d : d = call[q] OBVIOUS
  <2>7. PICK mine : mine = Unread(p) OBVIOUS
  <2>8. In(mine) = {}
    <3>1. wire[p] = <<>> /\ done[p] = 0 BY DEF Quiet
    <3>2. mine = <<>> BY <2>7, <3>1 DEF Unread, Left
    <3> QED BY <3>2 DEF In
  <2>9. Open(P.out) = {} /\ c.phase \notin {"waiting", "pushing"} /\ Open(V.out) = {} /\ d.phase # "pushing"
    BY <1>1, <2>3, <2>4, <2>5, <2>6 DEF AllAnswered
  <2>10. Holding(P, c) /\ Echo(P, V, In(mine)) /\ Lists(P, V, mine, Ids)
    BY <1>1, <2>2, <2>3, <2>4, <2>5, <2>7 DEF AllBusy, Busy
  <2>11. Delivers(V, P, d, In(mine), Ids) BY <1>1, <2>2, <2>3, <2>5, <2>6, <2>7 DEF AllBusy, Busy
  <2>12. ~Ready(p) BY DEF Quiet
  <2>13. /\ c.phase = "looping" /\ c.call = "receive_file" => P.downloads[c.key].left # 0
         /\ c.phase = "looping" /\ c.call = "list_files" => P.listings[c.id].left # 0
    BY <2>3, <2>4, <2>12 DEF Ready
  <2>14. c = NoCall /\ \A k \in Ids : ~P.downloads[k].live
    BY <2>8, <2>9, <2>10, <2>11, <2>13, Rests
  <2> QED BY <2>3, <2>4, <2>9, <2>14
<1> QED BY <1>1, BusyAlways, EveryRequestAnswered, PTL
=============================================================================
