------------------------ MODULE DownloadTransferProofs ------------------------
(***************************************************************************)
(* The download handler for files of every size, whole last block or not:  *)
(* what one call may do to it and to the destination, whatever packet it   *)
(* is given and whatever came before; and, of a handler alone, that no     *)
(* packets spoil the destination and packets in order store the file.      *)
(***************************************************************************)
EXTENDS DownloadOrder, SequenceTheorems, TLAPS

USE DownloadAssumption DEF DownloadAssumption

Handlers == [live : BOOLEAN, open : BOOLEAN, opened : BOOLEAN, hash : Versions,
             pos : Nat, expected : Nat, missing : SUBSET Nat]

\* The first state of a handler, and what a packet carries.
LEMMA OpenedType ==
  ASSUME NEW v \in Versions, NEW ok \in BOOLEAN
  PROVE  /\ Opened(v, ok) \in Handlers /\ Opened(v, ok).live /\ Opened(v, ok).hash = v
         /\ Opened(v, ok).open = ok /\ Opened(v, ok).opened = ok
         /\ Opened(v, ok).expected = 0 /\ Opened(v, ok).missing = {} /\ Opened(v, ok).pos = 0
         /\ NoHandler \in Handlers /\ ~NoHandler.open
BY DEF Opened, NoHandler, Handlers

\* LastId is the id of the last packet, of the last block or of the empty packet
\* after it.
LEMMA LastIdType == LastId \in Nat /\ Packets - 1 <= LastId /\ LastId <= Packets
BY DEF LastId

\* A packet carries one block or none.
LEMMA PacketType ==
  ASSUME NEW i \in Nat, NEW v \in Versions
  PROVE  /\ Packet(i, v).id = i /\ Len(Packet(i, v).data) \in Nat
         /\ i < Packets => Packet(i, v).data = <<<<i, v>>>> /\ Len(Packet(i, v).data) = 1
BY DEF Packet

\* What a call of the handler h may leave behind: the handler goes on with its
\* transfer, the destination is as it was or the file, and after a stream closed in
\* silence it is the file.
SameTransfer(h, g) == g \in Handlers /\ g.live = h.live /\ g.opened = h.opened /\ g.hash = h.hash
Sound(h, out) ==
  /\ SameTransfer(h, out.handler)
  /\ out.dest = dest \/ out.dest = Version(h.hash)
  /\ h.open /\ ~out.handler.open /\ out.thrown = "nothing" => out.dest = Version(h.hash)

\* finish_transfer.
LEMMA FinishOutcome ==
  ASSUME NEW h \in Handlers, NEW file
  PROVE  Sound(h, FinishTransfer(h, file))
<1>1. SameTransfer(h, [h EXCEPT !.open = FALSE])
  BY DEF Handlers, SameTransfer
<1>2. CASE file = Version(h.hash)
  BY <1>1, <1>2 DEF FinishTransfer, Outcome, Sound
<1>3. CASE file # Version(h.hash)
  BY <1>1, <1>3 DEF FinishTransfer, Outcome, Sound
<1>4. QED
  BY <1>2, <1>3

\* A packet from further on.
LEMMA SkipAheadOutcome ==
  ASSUME NEW h \in Handlers, NEW p, p.id \in Nat, p.id > h.expected
  PROVE  Sound(h, SkipAhead(h, p))
<1> DEFINE next == [h EXCEPT !.expected = p.id + 1, !.pos = @ + (p.id - h.expected),
                             !.missing = @ \cup h.expected .. (p.id - 1)]
<1>1. SameTransfer(h, next) /\ next.open = h.open
  <2>1. p.id + 1 \in Nat /\ h.pos + (p.id - h.expected) \in Nat
    BY DEF Handlers
  <2>2. h.missing \cup h.expected .. (p.id - 1) \in SUBSET Nat
    BY DEF Handlers
  <2>3. QED
    BY <2>1, <2>2 DEF Handlers, SameTransfer
<1>2. SkipAhead(h, p).handler = next /\ SkipAhead(h, p).dest = dest
  BY DEF SkipAhead, Outcome
<1>3. QED
  BY <1>1, <1>2 DEF Sound

\* A packet from before.
LEMMA FillInOutcome ==
  ASSUME NEW h \in Handlers, NEW p
  PROVE  Sound(h, FillIn(h, p))
<1> DEFINE file == Written(h, WriteAt(temp.blocks, p.id, p))
<1>1. CASE h.missing = {} /\ h.expected + 1 = Packets
  <2>1. FillIn(h, p) = FinishTransfer(h, file)
    BY <1>1 DEF FillIn
  <2>2. QED
    BY <2>1, FinishOutcome
<1>2. CASE ~(h.missing = {} /\ h.expected + 1 = Packets)
  <2>1. FillIn(h, p).handler = h /\ FillIn(h, p).dest = dest
    BY <1>2 DEF FillIn, Outcome
  <2>2. QED
    BY <2>1 DEF Sound, SameTransfer
<1>3. QED
  BY <1>1, <1>2

\* The packet that is expected: the handler moves on and may finish.
LEMMA TakeNextBranches ==
  ASSUME NEW h, NEW p
  PROVE  LET file == Written(h, WriteAt(temp.blocks, h.pos, p))
             next == [h EXCEPT !.expected = @ + 1, !.pos = @ + Len(p.data)]
             last == next.expected = Packets
         IN  /\ ~p.whole /\ ~last => TakeNext(h, p) = Outcome(next, dest, file, "size invalid")
             /\ last /\ h.missing = {} => TakeNext(h, p) = FinishTransfer(next, file)
             /\ ~(~p.whole /\ ~last) /\ ~(last /\ h.missing = {})
                  => TakeNext(h, p) = Outcome(next, dest, file, "nothing")
BY DEF TakeNext

\* So it is sound as well.
LEMMA TakeNextOutcome ==
  ASSUME NEW h \in Handlers, NEW p, Len(p.data) \in Nat
  PROVE  Sound(h, TakeNext(h, p))
<1> DEFINE file == Written(h, WriteAt(temp.blocks, h.pos, p))
           next == [h EXCEPT !.expected = @ + 1, !.pos = @ + Len(p.data)]
           last == next.expected = Packets
<1>1. SameTransfer(h, next) /\ next.open = h.open
  <2>1. h.expected + 1 \in Nat /\ h.pos + Len(p.data) \in Nat
    BY DEF Handlers
  <2>2. QED
    BY <2>1 DEF Handlers, SameTransfer
<1>2. CASE last /\ h.missing = {}
  <2>1. TakeNext(h, p) = FinishTransfer(next, file)
    BY <1>2, TakeNextBranches
  <2> HIDE DEF next, file
  <2>2. Sound(next, TakeNext(h, p))
    BY <1>1, <2>1, FinishOutcome DEF SameTransfer
  <2>3. QED
    BY <1>1, <2>2 DEF Sound, SameTransfer
<1>3. CASE ~(last /\ h.missing = {})
  <2>1. \E e : TakeNext(h, p) = Outcome(next, dest, file, e)
    <3>1. CASE ~p.whole /\ ~last
      BY <3>1, TakeNextBranches
    <3>2. CASE ~(~p.whole /\ ~last)
      BY <1>3, <3>2, TakeNextBranches
    <3>3. QED
      BY <3>1, <3>2
  <2> HIDE DEF next, file
  <2>2. PICK e : TakeNext(h, p) = Outcome(next, dest, file, e)
    BY <2>1
  <2>3. TakeNext(h, p).handler = next /\ TakeNext(h, p).dest = dest
    BY <2>2 DEF Outcome
  <2>4. QED
    BY <1>1, <2>3 DEF Sound
<1>4. QED
  BY <1>2, <1>3

\* The three branches of receive_packet.
LEMMA ReceiveBranches ==
  ASSUME NEW p, p.id \in Nat, handler \in Handlers
  PROVE  LET h == [handler EXCEPT !.missing = @ \ {p.id}]
         IN  /\ SameTransfer(handler, h) /\ h.open = handler.open
             /\ \/ p.id > h.expected /\ ReceivePacket(p) = SkipAhead(h, p)
                \/ p.id < h.expected /\ ReceivePacket(p) = FillIn(h, p)
                \/ p.id = h.expected /\ ReceivePacket(p) = TakeNext(h, p)
<1> DEFINE h == [handler EXCEPT !.missing = @ \ {p.id}]
<1>1. SameTransfer(handler, h) /\ h.open = handler.open /\ h.expected \in Nat
  BY DEF Handlers, SameTransfer
<1>2. ReceivePacket(p) = CASE p.id > h.expected -> SkipAhead(h, p)
                           [] p.id < h.expected -> FillIn(h, p)
                           [] OTHER             -> TakeNext(h, p)
  BY DEF ReceivePacket
<1> HIDE DEF h
<1>3. \/ p.id > h.expected /\ ReceivePacket(p) = SkipAhead(h, p)
      \/ p.id < h.expected /\ ReceivePacket(p) = FillIn(h, p)
      \/ p.id = h.expected /\ ReceivePacket(p) = TakeNext(h, p)
  BY <1>1, <1>2
<1>4. QED
  BY <1>1, <1>3 DEF h

\* What receive_packet can leave behind.
LEMMA ReceiveOutcome ==
  ASSUME handler \in Handlers, NEW i \in Nat, NEW v \in Versions
  PROVE  Sound(handler, ReceivePacket(Packet(i, v)))
<1> DEFINE p == Packet(i, v)
           h == [handler EXCEPT !.missing = @ \ {p.id}]
<1>1. p.id \in Nat /\ Len(p.data) \in Nat
  BY PacketType
<1>2. /\ SameTransfer(handler, h) /\ h.open = handler.open
      /\ \/ p.id > h.expected /\ ReceivePacket(p) = SkipAhead(h, p)
         \/ p.id < h.expected /\ ReceivePacket(p) = FillIn(h, p)
         \/ p.id = h.expected /\ ReceivePacket(p) = TakeNext(h, p)
  BY <1>1, ReceiveBranches
<1> HIDE DEF p, h
<1>3. Sound(h, ReceivePacket(p))
  BY <1>1, <1>2, SkipAheadOutcome, FillInOutcome, TakeNextOutcome DEF SameTransfer
<1>4. Sound(handler, ReceivePacket(p))
  BY <1>2, <1>3 DEF Sound, SameTransfer
<1>5. QED
  BY <1>4 DEF p
-----------------------------------------------------------------------------

\* The first n blocks of the file.
FirstBlocks(n) == [k \in 1 .. n |-> <<k - 1, 0>>]

\* The handler after the first n packets of the file, in order: the stream holds the
\* blocks so far, and after the last block it is closed.
AtBlock(n) ==
  /\ handler \in Handlers /\ handler.hash = 0
  /\ handler.expected = n /\ handler.missing = {}
  /\ n < Packets => handler.open /\ handler.pos = n /\ temp = File(FirstBlocks(n))
  /\ n >= Packets => ~handler.open

\* The block that is next is put after those there are.
LEMMA WriteNext ==
  ASSUME NEW n \in 0 .. Packets - 1
  PROVE  WriteAt(FirstBlocks(n), n, Packet(n, 0)) = FirstBlocks(n + 1)
<1> DEFINE s == FirstBlocks(n)
<1>1. n \in Nat /\ n < Packets
  OBVIOUS
<1>2. Packet(n, 0).data = <<<<n, 0>>>> /\ Packet(n, 0).data # <<>>
  <2>1. Packet(n, 0).data = <<<<n, 0>>>>
    BY <1>1, PacketType
  <2>2. <<<<n, 0>>>> # <<>>
    OBVIOUS
  <2>3. QED
    BY <2>1, <2>2
<1>3. Len(s) = n
  BY <1>1, LenProperties DEF FirstBlocks
<1>4. PadTo(s, n + 1) = [k \in 1 .. n + 1 |-> IF k <= n THEN s[k] ELSE Filler]
  BY <1>1, <1>3 DEF PadTo
<1>5. WriteAt(s, n, Packet(n, 0)) = [PadTo(s, n + 1) EXCEPT ![n + 1] = <<n, 0>>]
  BY <1>1, <1>2, <1>3 DEF WriteAt
<1> DEFINE t == [k \in 1 .. n + 1 |-> <<k - 1, 0>>]
<1>6. WriteAt(s, n, Packet(n, 0))
        = [k \in 1 .. n + 1 |-> IF k = n + 1 THEN <<n, 0>> ELSE IF k <= n THEN s[k] ELSE Filler]
  BY <1>4, <1>5
<1>7. ASSUME NEW k \in 1 .. n + 1
      PROVE  (IF k = n + 1 THEN <<n, 0>> ELSE IF k <= n THEN s[k] ELSE Filler) = <<k - 1, 0>>
  <2>1. CASE k = n + 1
    <3>1. k - 1 = n
      BY <1>1, <2>1
    <3>2. QED
      BY <2>1, <3>1
  <2>2. CASE k # n + 1
    <3>1. k \in 1 .. n /\ k <= n
      BY <1>1, <2>2
    <3>2. s[k] = <<k - 1, 0>>
      BY <3>1 DEF FirstBlocks
    <3>3. QED
      BY <2>2, <3>1, <3>2
  <2>3. QED
    BY <2>1, <2>2
<1>8. WriteAt(s, n, Packet(n, 0)) = t
  BY <1>6, <1>7
<1>9. QED
  BY <1>8 DEF FirstBlocks

\* With the blocks in order, the last of them is in place at once.
LEMMA WholeFile == File(FirstBlocks(Packets)) = Version(0)
BY DEF File, FirstBlocks, Version

\* The packet in order is taken by the third branch.
LEMMA TakesNext ==
  ASSUME NEW n \in Nat, NEW v \in Versions,
         handler \in Handlers, handler.expected = n, handler.missing = {}
  PROVE  ReceivePacket(Packet(n, v)) = TakeNext(handler, Packet(n, v))
<1>1. Packet(n, v).id = n
  BY PacketType
<1>2. [handler EXCEPT !.missing = @ \ {n}] = handler
  BY DEF Handlers
<1>4. ReceivePacket(Packet(n, v)) = CASE n > handler.expected -> SkipAhead(handler, Packet(n, v))
                                      [] n < handler.expected -> FillIn(handler, Packet(n, v))
                                      [] OTHER                -> TakeNext(handler, Packet(n, v))
  BY <1>1, <1>2, Zenon DEF ReceivePacket
<1>5. QED
  BY <1>1, <1>4

LEMMA FinishedHandler ==
  ASSUME NEW h, NEW file
  PROVE  FinishTransfer(h, file).handler = [h EXCEPT !.open = FALSE]
BY DEF FinishTransfer, Outcome

\* Whatever version its block is of, the packet in order moves the handler on, and
\* before the last it is neither refused nor does it end the transfer.
LEMMA NextPacket ==
  ASSUME NEW n \in Nat, NEW v \in Versions,
         handler \in Handlers, handler.expected = n, handler.missing = {}
  PROVE  LET out == ReceivePacket(Packet(n, v))
         IN  /\ out.handler.expected = n + 1 /\ out.handler.missing = {}
             /\ n + 1 < Packets => out.handler.open = handler.open /\ out.thrown = "nothing"
             /\ n + 1 = Packets => ~out.handler.open
             /\ n + 1 > Packets => out.handler.open = handler.open
<1> DEFINE p    == Packet(n, v)
           file == Written(handler, WriteAt(temp.blocks, handler.pos, p))
           next == [handler EXCEPT !.expected = @ + 1, !.pos = @ + Len(p.data)]
           last == next.expected = Packets
<1>3. ReceivePacket(p) = TakeNext(handler, p)
  BY TakesNext
<1>4. /\ ~p.whole /\ ~last => TakeNext(handler, p) = Outcome(next, dest, file, "size invalid")
      /\ last /\ handler.missing = {} => TakeNext(handler, p) = FinishTransfer(next, file)
      /\ ~(~p.whole /\ ~last) /\ ~(last /\ handler.missing = {})
           => TakeNext(handler, p) = Outcome(next, dest, file, "nothing")
  BY TakeNextBranches
<1> DEFINE closed == [next EXCEPT !.open = FALSE]
<1>5. /\ next.expected = n + 1 /\ next.missing = {} /\ next.open = handler.open
      /\ closed.expected = n + 1 /\ closed.missing = {} /\ ~closed.open
  BY DEF Handlers
<1>6. n + 1 < Packets => p.whole
  <2>1. n + 1 < Packets => n < Packets - 1
    OBVIOUS
  <2>2. n < Packets - 1 => p.whole
    BY Zenon DEF Packet
  <2>3. QED
    BY <2>1, <2>2, Zenon
<1>7. last <=> n + 1 = Packets
  BY <1>5
<1> HIDE DEF p, next, file, last, closed
<1>8. CASE n + 1 = Packets
  <2>1. ReceivePacket(p) = FinishTransfer(next, file)
    BY <1>3, <1>4, <1>7, <1>8
  <2>2. ReceivePacket(p).handler = closed
    BY <2>1, FinishedHandler, Zenon DEF closed
  <2>3. QED
    BY <1>5, <1>8, <2>2 DEF p
<1>9. CASE n + 1 # Packets
  <2>1. PICK e : ReceivePacket(p) = Outcome(next, dest, file, e) /\ (n + 1 < Packets => e = "nothing")
    BY <1>3, <1>4, <1>6, <1>7, <1>9
  <2>2. ReceivePacket(p).handler = next /\ (n + 1 < Packets => ReceivePacket(p).thrown = "nothing")
    BY <2>1 DEF Outcome
  <2>3. QED
    BY <1>5, <1>9, <2>2 DEF p
<1>10. QED
  BY <1>8, <1>9

\* What the call of the packet in order leaves behind, before the last block, with
\* the last block, and with the empty packet after it.
LEMMA BlockOutcome ==
  ASSUME NEW n \in 0 .. LastId, AtBlock(n)
  PROVE  LET out == ReceivePacket(Packet(n, 0))
         IN  /\ out.handler.expected = n + 1 /\ out.handler.missing = {}
             /\ n + 1 < Packets => /\ out.handler.open /\ out.handler.pos = n + 1
                                   /\ out.temp = File(FirstBlocks(n + 1))
                                   /\ out.thrown = "nothing"
             /\ n + 1 >= Packets => ~out.handler.open
             /\ n + 1 = Packets => out.dest = Version(0) /\ out.temp = NoFile
             /\ n + 1 > Packets => out.dest = dest
<1> DEFINE p    == Packet(n, 0)
           file == Written(handler, WriteAt(temp.blocks, handler.pos, p))
           next == [handler EXCEPT !.expected = @ + 1, !.pos = @ + Len(p.data)]
           last == next.expected = Packets
<1>1. n \in Nat /\ Len(p.data) \in Nat /\ (n < Packets => Len(p.data) = 1)
  BY LastIdType, PacketType
<1>2. handler \in Handlers /\ handler.hash = 0 /\ handler.expected = n /\ handler.missing = {}
  BY DEF AtBlock
<1>3. ReceivePacket(p) = TakeNext(handler, p)
  BY <1>1, <1>2, TakesNext
<1>4. /\ ~p.whole /\ ~last => TakeNext(handler, p) = Outcome(next, dest, file, "size invalid")
      /\ last /\ handler.missing = {} => TakeNext(handler, p) = FinishTransfer(next, file)
      /\ ~(~p.whole /\ ~last) /\ ~(last /\ handler.missing = {})
           => TakeNext(handler, p) = Outcome(next, dest, file, "nothing")
  BY TakeNextBranches
<1>5. /\ next.expected = n + 1 /\ next.missing = {} /\ next.hash = 0
      /\ next.open = handler.open
      /\ n < Packets => next.pos = handler.pos + 1
      /\ [next EXCEPT !.open = FALSE].expected = n + 1
      /\ [next EXCEPT !.open = FALSE].missing = {}
      /\ ~[next EXCEPT !.open = FALSE].open
  BY <1>1, <1>2 DEF Handlers
<1>6. ASSUME n < Packets
      PROVE  handler.open /\ handler.pos = n /\ file = File(FirstBlocks(n + 1))
  <2>1. handler.open /\ handler.pos = n /\ temp = File(FirstBlocks(n))
    BY <1>6 DEF AtBlock
  <2>2. temp.blocks = FirstBlocks(n)
    BY <2>1 DEF File
  <2>3. n \in 0 .. Packets - 1
    BY <1>1, <1>6
  <2>4. WriteAt(temp.blocks, handler.pos, p) = FirstBlocks(n + 1)
    BY <2>1, <2>2, <2>3, WriteNext
  <2>5. QED
    BY <2>1, <2>4 DEF Written
<1> HIDE DEF next, file
<1>7. CASE n + 1 < Packets
  <2>1. ~last /\ n < Packets
    BY <1>1, <1>5, <1>7
  <2> HIDE DEF last
  <2>2. p.whole
    <3>1. n < Packets - 1
      BY <1>1, <1>7
    <3>2. QED
      BY <3>1 DEF Packet
  <2>3. ~(last /\ handler.missing = {}) /\ ~(~p.whole /\ ~last)
    BY <2>1, <2>2
  <2> HIDE DEF p
  <2>4. ReceivePacket(p) = Outcome(next, dest, file, "nothing")
    BY <1>3, <1>4, <2>3
  <2>5. /\ ReceivePacket(p).handler = next /\ ReceivePacket(p).temp = file
        /\ ReceivePacket(p).thrown = "nothing"
    BY <2>4 DEF Outcome
  <2>6. QED
    BY <1>1, <1>5, <1>6, <1>7, <2>1, <2>5 DEF p
<1>8. CASE n + 1 = Packets
  <2>1. last /\ n < Packets
    BY <1>1, <1>5, <1>8
  <2>2. ReceivePacket(p) = FinishTransfer(next, file)
    BY <1>2, <1>3, <1>4, <2>1
  <2>3. file = Version(next.hash)
    BY <1>5, <1>6, <1>8, <2>1, WholeFile
  <2>4. ReceivePacket(p) = Outcome([next EXCEPT !.open = FALSE], file, NoFile, "nothing")
    BY <2>2, <2>3 DEF FinishTransfer
  <2> DEFINE closed == [next EXCEPT !.open = FALSE]
  <2>5. closed.expected = n + 1 /\ closed.missing = {} /\ ~closed.open
    BY <1>5
  <2> HIDE DEF p, last, closed
  <2>6. /\ ReceivePacket(p).handler = closed /\ ReceivePacket(p).dest = file
        /\ ReceivePacket(p).temp = NoFile
    BY <2>4 DEF Outcome, closed
  <2>7. file = Version(0)
    BY <1>5, <2>3
  <2>8. QED
    BY <1>1, <1>8, <2>5, <2>6, <2>7 DEF p
<1>9. CASE n + 1 > Packets
  <2>1. ~last /\ ~handler.open
    BY <1>1, <1>5, <1>9 DEF AtBlock
  <2>2. PICK e : ReceivePacket(p) = Outcome(next, dest, file, e)
    BY <1>3, <1>4, <2>1
  <2>3. QED
    BY <1>1, <1>5, <1>9, <2>1, <2>2 DEF Outcome
<1>10. QED
  BY <1>1, <1>7, <1>8, <1>9
\* A handler whose stream is closed does not open it again, and leaves no file.
LEMMA ClosedStays ==
  ASSUME handler \in Handlers, ~handler.open, NEW i \in Nat, NEW v \in Versions
  PROVE  LET out == ReceivePacket(Packet(i, v))
         IN  ~out.handler.open /\ (~temp.exists => ~out.temp.exists)
<1> DEFINE p == Packet(i, v)
           h == [handler EXCEPT !.missing = @ \ {p.id}]
<1>1. p.id \in Nat
  BY PacketType
<1>2. /\ ~h.open
      /\ \/ ReceivePacket(p) = SkipAhead(h, p)
         \/ ReceivePacket(p) = FillIn(h, p)
         \/ ReceivePacket(p) = TakeNext(h, p)
  BY <1>1, ReceiveBranches
<1>3. h \in Handlers
  BY <1>1, ReceiveBranches DEF SameTransfer
<1> HIDE DEF p, h
<1>4. \A s : Written(h, s) = temp
  BY <1>2 DEF Written
<1> DEFINE Stays(out) == ~out.handler.open /\ (~temp.exists => ~out.temp.exists)
<1>5. \A g \in Handlers : Stays(FinishTransfer(g, temp))
  <2> SUFFICES ASSUME NEW g \in Handlers PROVE Stays(FinishTransfer(g, temp))
    OBVIOUS
  <2>1. ~[g EXCEPT !.open = FALSE].open
    BY DEF Handlers
  <2>2. CASE temp = Version(g.hash)
    BY <2>1, <2>2 DEF FinishTransfer, Outcome, NoFile
  <2>3. CASE temp # Version(g.hash)
    BY <2>1, <2>3 DEF FinishTransfer, Outcome
  <2>4. QED
    BY <2>2, <2>3
<1>6. \A g, e : ~g.open => Stays(Outcome(g, dest, temp, e))
  BY DEF Outcome
<1>7. Stays(SkipAhead(h, p))
  <2> DEFINE next == [h EXCEPT !.expected = p.id + 1, !.pos = @ + (p.id - h.expected),
                               !.missing = @ \cup h.expected .. (p.id - 1)]
  <2>1. ~next.open
    BY <1>2, <1>3 DEF Handlers
  <2>2. SkipAhead(h, p) = Outcome(next, dest, temp, "nothing")
    BY <1>4 DEF SkipAhead
  <2> HIDE DEF next, Stays
  <2>3. QED
    BY <1>6, <2>1, <2>2
<1>8. Stays(FillIn(h, p))
  <2>1. FillIn(h, p) = FinishTransfer(h, temp) \/ FillIn(h, p) = Outcome(h, dest, temp, "nothing")
    BY <1>4 DEF FillIn
  <2> HIDE DEF Stays
  <2>2. QED
    BY <1>2, <1>3, <1>5, <1>6, <2>1
<1>9. Stays(TakeNext(h, p))
  <2> DEFINE next == [h EXCEPT !.expected = @ + 1, !.pos = @ + Len(p.data)]
  <2>1. next \in Handlers /\ ~next.open
    <3>1. Len(p.data) \in Nat
      BY PacketType DEF p
    <3>2. h.expected + 1 \in Nat /\ h.pos + Len(p.data) \in Nat
      BY <1>3, <3>1 DEF Handlers
    <3>3. QED
      BY <1>2, <1>3, <3>2 DEF Handlers
  <2>2. TakeNext(h, p) = FinishTransfer(next, temp) \/ \E e : TakeNext(h, p) = Outcome(next, dest, temp, e)
    BY <1>4, TakeNextBranches
  <2> HIDE DEF next, Stays
  <2>3. QED
    BY <1>5, <1>6, <2>1, <2>2
<1>10. Stays(ReceivePacket(p))
  <2> HIDE DEF Stays
  <2>1. QED
    BY <1>2, <1>7, <1>8, <1>9
<1>11. QED
  BY <1>10 DEF p

-----------------------------------------------------------------------------

\* The handler keeps the hash it was made with, and the destination is whole.
Kept == handler \in Handlers /\ handler.hash = 0 /\ dest \in {NoFile, Other, Version(0)}

\* The first state keeps it.
LEMMA KeptInit == AloneInit => Kept
<1> SUFFICES ASSUME AloneInit PROVE Kept
  OBVIOUS
<1>1. PICK ok \in BOOLEAN : handler = Opened(0, ok)
  BY DEF AloneInit, OpenResults
<1>2. QED
  BY <1>1, OpenedType DEF AloneInit, Kept

\* Every packet keeps it.
LEMMA KeptStep == Kept /\ [AloneNext]_alone => Kept'
<1> SUFFICES ASSUME Kept, [AloneNext]_alone PROVE Kept'
  OBVIOUS
<1>1. ASSUME NEW i \in 0 .. LastId, Arrive(i) PROVE Kept'
  BY <1>1, LastIdType, ReceiveOutcome DEF Kept, Arrive, Sound, SameTransfer
<1>2. CASE UNCHANGED alone
  BY <1>2 DEF alone, download, Kept
<1>3. QED
  BY <1>1, <1>2 DEF AloneNext

\* Whatever packets come, in any order and repeatedly, the destination is what was
\* there or the whole file (TransferHandler.cpp:84-92).
THEOREM AloneAlwaysWhole == AloneSpec => []DestinationWhole
<1>1. Kept => DestinationWhole
  BY DEF Kept, DestinationWhole
<1>2. QED
  BY <1>1, KeptInit, KeptStep, PTL DEF AloneSpec

\* Whatever packets come, a stream that was open and closes in silence has stored the file
\* (TransferHandler.cpp:84-96, Peer.cpp:180-186).
THEOREM SilenceMeansStored == AloneSpec => ClosedMeansStored
<1>1. Kept /\ [AloneNext]_alone => [ClosedMeansStoredStep]_alone
  <2> SUFFICES ASSUME Kept, NEW i \in 0 .. LastId, Arrive(i), handler.open,
                      Finished(handler'), thrown' = "nothing"
               PROVE  dest' = Version(0)
    BY DEF AloneNext, ClosedMeansStoredStep
  <2>1. QED
    BY LastIdType, ReceiveOutcome DEF Kept, Arrive, Finished, Sound
<1>2. QED
  BY <1>1, KeptInit, KeptStep, PTL DEF AloneSpec, ClosedMeansStored

-----------------------------------------------------------------------------

\* As long as the packets come in order a stream that opened holds the blocks so far, and
\* after the last block the file is in place.
InStep(n) ==
  /\ AtBlock(n)
  /\ arrived = 0 .. n - 1
  /\ n < Packets => thrown = "nothing"
  /\ n >= Packets => dest = Version(0)
Ordered == inOrder /\ handler.opened => \E n \in 0 .. LastId + 1 : InStep(n)

\* An interval from zero tells its end.
LEMMA IntervalEnd ==
  ASSUME NEW m \in Nat, NEW n \in Nat, 0 .. m - 1 = 0 .. n - 1
  PROVE  m = n
<1>1. CASE m < n
  <2>1. m \in 0 .. n - 1 /\ ~(m \in 0 .. m - 1)
    BY <1>1
  <2>2. QED
    BY <2>1
<1>2. CASE n < m
  <2>1. n \in 0 .. m - 1 /\ ~(n \in 0 .. n - 1)
    BY <1>2
  <2>2. QED
    BY <2>1
<1>3. QED
  BY <1>1, <1>2

\* So the next state is in step as well.
LEMMA InStepNext ==
  ASSUME NEW n \in 0 .. LastId, InStep(n), Arrive(n)
  PROVE  InStep(n + 1)'
<1>1. n \in Nat
  BY LastIdType
<1>2. handler' \in Handlers /\ handler'.hash = 0
  BY LastIdType, ReceiveOutcome DEF InStep, AtBlock, Arrive, Sound, SameTransfer
<1>3. arrived' = 0 .. (n + 1) - 1
  BY <1>1 DEF InStep, Arrive
<1>4. /\ handler'.expected = n + 1 /\ handler'.missing = {}
      /\ n + 1 < Packets => /\ handler'.open /\ handler'.pos = n + 1
                            /\ temp' = File(FirstBlocks(n + 1)) /\ thrown' = "nothing"
      /\ n + 1 >= Packets => ~handler'.open /\ dest' = Version(0)
  BY BlockOutcome, LastIdType DEF InStep, Arrive
<1>5. QED
  BY <1>2, <1>3, <1>4 DEF InStep, AtBlock, File, FirstBlocks, Version

\* The first state is in step.
LEMMA OrderedInit == AloneInit => Ordered
<1> SUFFICES ASSUME AloneInit, handler.opened PROVE InStep(0)
  BY LastIdType DEF Ordered
<1>1. handler = Opened(0, TRUE) /\ temp = File(<<>>)
  <2>1. PICK ok \in BOOLEAN : handler = Opened(0, ok) /\ (ok => temp = File(<<>>))
    BY DEF AloneInit, OpenResults
  <2>2. ok
    BY <2>1, OpenedType
  <2>3. QED
    BY <2>1, <2>2
<1>2. /\ handler \in Handlers /\ handler.open /\ handler.hash = 0
      /\ handler.expected = 0 /\ handler.missing = {} /\ handler.pos = 0
  BY <1>1, OpenedType
<1>3. temp = File(FirstBlocks(0))
  BY <1>1 DEF File, FirstBlocks
<1>4. QED
  BY <1>2, <1>3 DEF AloneInit, InStep, AtBlock

\* Every packet keeps it: only the packet in order leaves inOrder true.
LEMMA OrderedStep == Kept /\ Ordered /\ [AloneNext]_alone => Ordered'
<1> SUFFICES ASSUME Kept, Ordered, [AloneNext]_alone, inOrder', handler'.opened
             PROVE  \E n \in 0 .. LastId + 1 : InStep(n)'
  BY DEF Ordered
<1>1. ASSUME NEW i \in 0 .. LastId, Arrive(i)
      PROVE  \E n \in 0 .. LastId + 1 : InStep(n)'
  <2>1. inOrder /\ arrived = 0 .. i - 1 /\ handler.opened
    <3>1. Sound(handler, ReceivePacket(Packet(i, 0)))
      BY LastIdType, ReceiveOutcome DEF Kept
    <3>2. QED
      BY <1>1, <3>1 DEF Arrive, Sound, SameTransfer
  <2>2. PICK n \in 0 .. LastId + 1 : InStep(n)
    BY <2>1 DEF Ordered
  <2>3. n = i
    BY <2>1, <2>2, IntervalEnd, LastIdType DEF InStep
  <2>4. InStep(i + 1)'
    BY <1>1, <2>2, <2>3, InStepNext
  <2>5. i + 1 \in 0 .. LastId + 1
    BY LastIdType
  <2>6. QED
    BY <2>4, <2>5
<1>2. CASE UNCHANGED alone
  BY <1>2 DEF alone, download, Ordered, InStep, AtBlock
<1>3. QED
  BY <1>1, <1>2 DEF AloneNext

\* Packets in order store the file with its last block and none is refused before
\* (TransferHandler.cpp:66-81), once the temporary file is open.
THEOREM OrderStores == AloneSpec => []InOrderStores
<1>1. Ordered => InOrderStores
  <2> SUFFICES ASSUME NEW n \in 0 .. LastId + 1, InStep(n)
               PROVE  /\ 0 .. Packets - 1 \subseteq arrived => dest = Version(0) /\ Finished(handler)
                      /\ ~Finished(handler) => thrown = "nothing"
    BY DEF Ordered, InOrderStores
  <2>1. CASE n < Packets
    <3>1. Packets - 1 \in 0 .. Packets - 1 /\ ~(Packets - 1 \in arrived)
      BY <2>1, LastIdType DEF InStep
    <3>2. QED
      BY <2>1, <3>1 DEF InStep, AtBlock
  <2>2. CASE n >= Packets
    BY <2>2 DEF InStep, AtBlock, Finished
  <2>3. QED
    BY <2>1, <2>2, LastIdType
<1>2. QED
  BY <1>1, KeptInit, KeptStep, OrderedInit, OrderedStep, PTL DEF AloneSpec
=============================================================================
