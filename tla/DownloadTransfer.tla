-------------------------- MODULE DownloadTransfer --------------------------
(***************************************************************************)
(* DownloadTransferHandler: what the receiving peer does with the packets  *)
(* of one file, and what is on its disk meanwhile.                         *)
(*                                                                         *)
(* A file is a sequence of blocks of packet_size bytes, the last of which  *)
(* may be shorter.  <<i, v>> is block i of version v of the sender's file. *)
(* The hash of a file tells its version and nothing else.                  *)
(***************************************************************************)
EXTENDS Integers, Sequences, FiniteSets

CONSTANTS
  Packets,      \* total_packets: the number of blocks of the file
  LastIsShort,  \* the last block has fewer than packet_size bytes
  Versions,     \* the versions of the sender's file
  OpenFails     \* the temporary file may fail to open

\* A file of size 0 is left out: the code says it does not support it
\* (TransferHandler.cpp:69).
ASSUME DownloadAssumption ==
  /\ Packets \in Nat \ {0}
  /\ LastIsShort \in BOOLEAN /\ OpenFails \in BOOLEAN
  /\ Versions \subseteq Nat /\ 0 \in Versions

VARIABLES
  dest,       \* the destination file
  temp,       \* the .fsdownload file
  handler,    \* the DownloadTransferHandler
  thrown      \* what the last call of the handler has thrown

download == <<dest, temp, handler, thrown>>

Filler == <<-1, 0>>     \* a block of zeros
Mixed  == <<-2, 0>>     \* a short block written over a longer one
Blocks == ((0 .. Packets - 1) \X Versions) \cup {Filler, Mixed}

NoFile     == [exists |-> FALSE, blocks |-> <<>>]
File(s)    == [exists |-> TRUE, blocks |-> s]
Version(v) == File([i \in 1 .. Packets |-> <<i - 1, v>>])
Other      == File(<<Mixed>>)     \* a file under the same name, not the sender's

\* hash is that of the SEND_FILE request; pos is where the stream writes; opened
\* is what its open came to, which the code looks at nowhere.
NoHandler == [live |-> FALSE, open |-> FALSE, opened |-> FALSE, hash |-> 0, pos |-> 0,
              expected |-> 0, missing |-> {}]

\* The stream has no exceptions: a handler whose file does not open is made like
\* any other.
Opened(v, ok) == [NoHandler EXCEPT !.live = TRUE, !.open = ok, !.opened = ok, !.hash = v]
OpenResults == IF OpenFails THEN BOOLEAN ELSE {TRUE}

\* A packet: its id, the blocks it carries (none or one) and whether it is a
\* whole packet_size long.
Packet(i, v) ==
  [id    |-> i,
   data  |-> IF i < Packets THEN <<<<i, v>>>> ELSE <<>>,
   whole |-> i < Packets - 1 \/ (i = Packets - 1 /\ ~LastIsShort)]

\* UploadTransferHandler stops after the first packet that is not whole, an
\* empty one when the size is a multiple of packet_size.
LastId == IF LastIsShort THEN Packets - 1 ELSE Packets

-----------------------------------------------------------------------------

\* s, with blocks of zeros up to length n.
PadTo(s, n) == [i \in 1 .. (IF n > Len(s) THEN n ELSE Len(s)) |->
                  IF i <= Len(s) THEN s[i] ELSE Filler]

\* s with n blocks of zeros written from position pos on, over what is there.
ZerosAt(s, pos, n) == [i \in 1 .. (IF pos + n > Len(s) THEN pos + n ELSE Len(s)) |->
                         IF i \in pos + 1 .. pos + n \/ i > Len(s) THEN Filler ELSE s[i]]

\* s with the data of packet p written at position pos.
WriteAt(s, pos, p) ==
  IF p.data = <<>> THEN s
  ELSE LET overwrites == pos < Len(s) /\ s[pos + 1][1] # p.id
       IN  [PadTo(s, pos + 1) EXCEPT ![pos + 1] =
              IF overwrites /\ ~p.whole THEN Mixed ELSE p.data[1]]

\* The temporary file once s is written to it; a closed stream writes nothing.
Written(h, s) == IF h.open THEN File(s) ELSE temp

\* The constructor throws UpToDateError for a temporary file that is there, and
\* then for a destination that has the hash.
UpToDate(v) == temp.exists \/ dest = Version(v)

OpenDownload(v) ==
  /\ ~UpToDate(v)
  /\ \E ok \in OpenResults : /\ handler' = Opened(v, ok)
                              /\ temp' = IF ok THEN File(<<>>) ELSE temp
  /\ thrown' = "nothing"
  /\ UNCHANGED dest

\* What a call leaves behind: the handler, the two files and the exception.
Outcome(h, destination, temporary, error) ==
  [handler |-> h, dest |-> destination, temp |-> temporary, thrown |-> error]

\* Mutated FinishTransfer: the hash is not compared.
FinishTransferUnchecked(h, file) ==
  Outcome([h EXCEPT !.open = FALSE], file, NoFile, "nothing")

\* Mutated FinishTransfer: a wrong hash goes unreported.
FinishTransferSilently(h, file) ==
  IF file = Version(h.hash)
  THEN Outcome([h EXCEPT !.open = FALSE], file, NoFile, "nothing")
  ELSE Outcome([h EXCEPT !.open = FALSE], dest, file, "nothing")

\* Mutated FinishTransfer: the temporary file is copied, not moved.
FinishTransferByCopy(h, file) ==
  IF file = Version(h.hash)
  THEN Outcome([h EXCEPT !.open = FALSE], file, file, "nothing")
  ELSE Outcome([h EXCEPT !.open = FALSE], dest, file, "hash missmatch")

\* finish_transfer: close the stream, compare the hashes, move the temporary
\* file over the destination or throw.
FinishTransfer(h, file) ==
  IF file = Version(h.hash)
  THEN Outcome([h EXCEPT !.open = FALSE], file, NoFile, "nothing")
  ELSE Outcome([h EXCEPT !.open = FALSE], dest, file, "hash missmatch")

\* receive_packet, a packet from further on: zeros for the ids passed over, written
\* where the stream is, which lags behind the ids from the first gap on.
SkipAhead(h, p) ==
  LET gap == p.id - h.expected
  IN  Outcome([h EXCEPT !.expected = p.id + 1, !.pos = @ + gap,
                        !.missing = @ \cup h.expected .. (p.id - 1)],
              dest, Written(h, ZerosAt(temp.blocks, h.pos, gap)), "nothing")

\* receive_packet, a packet passed over before, or seen before.
FillIn(h, p) ==
  LET file == Written(h, WriteAt(temp.blocks, p.id, p))
  IN  IF h.missing = {} /\ h.expected + 1 = Packets
      THEN FinishTransfer(h, file)
      ELSE Outcome(h, dest, file, "nothing")

\* Mutated TakeNext: the transfer finishes one packet early.
TakeNextTooEarly(h, p) ==
  LET file == Written(h, WriteAt(temp.blocks, h.pos, p))
      next == [h EXCEPT !.expected = @ + 1, !.pos = @ + Len(p.data)]
      last == next.expected + 1 = Packets
  IN  CASE ~p.whole /\ ~last      -> Outcome(next, dest, file, "size invalid")
        [] last /\ h.missing = {} -> FinishTransfer(next, file)
        [] OTHER                  -> Outcome(next, dest, file, "nothing")

\* receive_packet, the packet expected next.
TakeNext(h, p) ==
  LET file == Written(h, WriteAt(temp.blocks, h.pos, p))
      next == [h EXCEPT !.expected = @ + 1, !.pos = @ + Len(p.data)]
      last == next.expected = Packets
  IN  CASE ~p.whole /\ ~last      -> Outcome(next, dest, file, "size invalid")
        [] last /\ h.missing = {} -> FinishTransfer(next, file)
        [] OTHER                  -> Outcome(next, dest, file, "nothing")

ReceivePacket(p) ==
  LET h == [handler EXCEPT !.missing = @ \ {p.id}]
  IN  CASE p.id > h.expected -> SkipAhead(h, p)
        [] p.id < h.expected -> FillIn(h, p)
        [] OTHER             -> TakeNext(h, p)

\* finished(): the stream is closed.
Finished(h) == ~h.open

-----------------------------------------------------------------------------

IsFile(f) == f.exists \in BOOLEAN /\ f.blocks \in Seq(Blocks)

\* Every variable has its type.
DownloadTypeOK ==
  /\ IsFile(dest) /\ IsFile(temp)
  /\ handler \in [live : BOOLEAN, open : BOOLEAN, opened : BOOLEAN, hash : Versions,
                  pos : 0 .. LastId + 1, expected : 0 .. LastId + 1, missing : SUBSET (0 .. LastId)]
  /\ thrown \in {"nothing", "size invalid", "hash missmatch"}

\* The destination is the file that was there before or one whole version of the
\* sender's file, whatever packets come and in whatever order
\* (TransferHandler.cpp:84-92).
DestinationWhole == dest \in {NoFile, Other} \cup {Version(v) : v \in Versions}
=============================================================================
