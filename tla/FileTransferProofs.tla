-------------------------- MODULE FileTransferProofs --------------------------
(***************************************************************************)
(* A file on its way between two peers, for files of every size, any       *)
(* number of versions, slots and attempts, and polls of any length: what   *)
(* is at the destination, what STATUS_OK means, that receive_file finds    *)
(* its download, that no packet is passed over, and that an answer frees   *)
(* the slot the next packet takes.  Without a crash or a change of the     *)
(* file no temporary file is left behind.                                  *)
(***************************************************************************)
EXTENDS FileTransfer, DownloadTransferProofs, SequenceTheorems, FiniteSetTheorems

USE TransferAssumption DEF TransferAssumption

Wired == {SendFile(v) : v \in Versions} \cup {DataPacket(Packet(i, v)) : i \in Nat, v \in Versions}
Uploads == [live : BOOLEAN, open : BOOLEAN, next : Nat, hash : Versions]

SenderType ==
  /\ version \in Versions /\ upload \in Uploads
  /\ toReceiver \in Seq(Wired) /\ \E A : toSender \in Seq(A)
  /\ unread \in Nat /\ unread <= Len(toSender)

ReceiverType ==
  /\ handler \in Handlers /\ batch \in Seq(Wired) /\ done \in Nat
  /\ batch = <<>> => done = 0

\* In one mode one of the two applications has a call, in the other the other has.
Roles ==
  /\ mode \in {"push", "pull"}
  /\ sender # "idle" => mode = "push"
  /\ receiver \in {"waiting", "looping"} => mode = "pull"
  /\ receiver = "asked" => mode = "push"

Stored == dest \in {Version(v) : v \in Versions}

\* Where the request of receive_file, or what answers it, is while it waits: alone
\* on the wire, then as SEND_FILE on the wire, then in the batch, then handled.
Asked == toSender = <<Reply("RECEIVE_FILE", 0, "NONE")>> /\ toReceiver = <<>> /\ batch = <<>>
Offered ==
  /\ toSender = <<>> /\ Len(toReceiver) = 1 /\ toReceiver[1].kind = "SEND_FILE" /\ batch = <<>>
Taken ==
  /\ toSender = <<>> /\ toReceiver = <<>>
  /\ Len(batch) = 1 /\ batch[1].kind = "SEND_FILE" /\ done = 1
Settled ==
  /\ batch # <<>> /\ done = Len(batch) + 1
  /\ outcome = "UP_TO_DATE" \/ (handler.live /\ (handler.open \/ ~handler.opened))
Waits == receiver = "waiting" => Asked \/ Offered \/ Taken \/ Settled

\* A handler that is kept is there.
Keeps == keep => handler.live

\* While receive_file polls, a download whose file has opened is open still or has
\* stored the file.
Loops ==
  receiver = "looping" => keep = TRUE /\ handler.live /\ (handler.opened => handler.open \/ Stored)

Inv ==
  /\ SenderType /\ ReceiverType /\ Roles /\ Waits /\ Keeps /\ Loops
  /\ DestinationWhole

-----------------------------------------------------------------------------
LEMMA WireType ==
  ASSUME NEW m \in Wired
  PROVE  /\ m.kind = "SEND_FILE" => m.hash \in Versions
         /\ m.kind = "DATA_PACKET" =>
              \E i \in Nat, v \in Versions : m.packet = Packet(i, v)
BY DEF Wired, SendFile, DataPacket

LEMMA NoUploadType == NoUpload \in Uploads
BY DownloadAssumption DEF DownloadAssumption, NoUpload, Uploads

\* Sending packets: more messages on the wire, the upload moves on.
LEMMA SendPacketsType ==
  ASSUME SenderType, NEW n \in Nat \ {0}, NEW answered, SendPackets(n, answered)
  PROVE  toReceiver' \in Seq(Wired) /\ upload' \in Uploads
<1> DEFINE last == IF upload.next + n - 1 < LastId THEN upload.next + n - 1 ELSE LastId
           ids == upload.next .. last
           packets == [i \in 1 .. Cardinality(ids) |-> DataPacket(Packet(upload.next + i - 1, version))]
<1>1. upload.next \in Nat /\ last \in Nat BY LastIdType DEF SenderType, Uploads
<1>2. toReceiver' = toReceiver \o packets
      /\ upload' = [upload EXCEPT !.next = last + 1, !.open = last < LastId]
  BY DEF SendPackets
<1> HIDE DEF last
<1>3. Cardinality(ids) \in Nat
  <2>1. IsFiniteSet(ids) BY <1>1, FS_Interval
  <2> HIDE DEF ids
  <2> QED BY <2>1, FS_CardinalityType
<1> HIDE DEF ids
<1>4. packets \in Seq(Wired)
  <2>1. \A i \in Nat : DataPacket(Packet(i, version)) \in Wired BY DEF Wired, SenderType
  <2>2. \A i \in 1 .. Cardinality(ids) : upload.next + i - 1 \in Nat BY <1>1, <1>3
  <2>3. \A i \in 1 .. Cardinality(ids) : DataPacket(Packet(upload.next + i - 1, version)) \in Wired
    BY <2>1, <2>2
  <2> QED BY <1>3, <2>3, IsASeq
<1> HIDE DEF packets
<1>5. toReceiver' \in Seq(Wired) BY <1>2, <1>4, ConcatProperties DEF SenderType
<1>6. upload' \in Uploads
  <2> DEFINE goesOn == last < LastId
  <2>1. last + 1 \in Nat /\ goesOn \in BOOLEAN BY <1>1
  <2>2. upload' = [upload EXCEPT !.next = last + 1, !.open = goesOn] BY <1>2
  <2> HIDE DEF goesOn
  <2> QED BY <2>1, <2>2 DEF SenderType, Uploads
<1> QED BY <1>5, <1>6

LEMMA OfferType ==
  ASSUME SenderType, Offer
  PROVE  toReceiver' \in Seq(Wired) /\ upload' \in Uploads
<1>1. SendFile(version) \in Wired BY DEF SenderType, Wired
<1> QED BY <1>1, AppendProperties DEF SenderType, Offer, Uploads

\* What handling a message does to those behind it.
LEMMA HandlesType ==
  ASSUME SenderType, NEW kind, NEW statuses, Handles(kind, statuses)
  PROVE  /\ \E A : toSender' \in Seq(A)
         /\ unread' \in Nat /\ unread' <= Len(toSender')
         /\ version' \in Versions /\ UNCHANGED <<mode, receiving>>
<1>1. PICK A : toSender \in Seq(A) BY DEF SenderType
<1>2. unread \in Nat /\ unread > 0 /\ unread <= Len(toSender) /\ toSender' = Tail(toSender)
      /\ unread' = unread - 1 /\ UNCHANGED <<mode, version, receiving>>
  BY DEF SenderType, Handles
<1>3. toSender # <<>> BY <1>1, <1>2
<1>4. Tail(toSender) \in Seq(A) /\ Len(Tail(toSender)) = Len(toSender) - 1 BY <1>1, <1>3
<1>5. unread' \in Nat /\ unread' <= Len(toSender') BY <1>1, <1>2, <1>4
<1> QED BY <1>2, <1>4, <1>5 DEF SenderType

\* An answer to anything but RECEIVE_FILE comes after the wait for SEND_FILE.
LEMMA HandlesLate ==
  ASSUME SenderType, Waits, NEW kind, kind # "RECEIVE_FILE", NEW statuses, Handles(kind, statuses),
         receiver = "waiting"
  PROVE  Settled
<1>1. unread > 0 /\ unread <= Len(toSender) /\ Head(toSender).re = kind BY DEF SenderType, Handles
<1>2. ~Asked BY <1>1 DEF Asked, Reply
<1>3. toSender # <<>> BY <1>1 DEF SenderType
<1> QED BY <1>2, <1>3 DEF Waits, Offered, Taken

\* A step of the sender leaves the receiver as it is.
LEMMA ReceiverKept ==
  ASSUME Inv, UNCHANGED <<mode, receiving>>
  PROVE  /\ ReceiverType' /\ Keeps' /\ Loops' /\ DestinationWhole'
         /\ (Settled => Settled')
         /\ (receiver' \in {"waiting", "looping"} => mode' = "pull") /\ (receiver' = "asked" => mode' = "push")
BY DEF Inv, receiving, download, ReceiverType, Keeps, Loops, DestinationWhole, Settled, Stored, Roles

LEMMA SenderHandles ==
  ASSUME Inv,
         \/ SenderOnReceiveFile \/ SenderOnAccepted \/ SenderOnRefused \/ SenderOnAck \/ SenderOnNack
  PROVE  Inv'
<1>1. PICK kind, statuses : Handles(kind, statuses)
  BY DEF SenderOnReceiveFile, SenderOnAccepted, SenderOnRefused, SenderOnAck, SenderOnNack
<1>2. SenderType /\ Waits BY DEF Inv
<1>3. /\ \E A : toSender' \in Seq(A)
      /\ unread' \in Nat /\ unread' <= Len(toSender')
      /\ version' \in Versions /\ UNCHANGED <<mode, receiving>>
  BY <1>1, <1>2, HandlesType
<1>4. toReceiver' \in Seq(Wired) /\ upload' \in Uploads
  <2>1. ASSUME SenderOnReceiveFile PROVE toReceiver' \in Seq(Wired) /\ upload' \in Uploads
    BY <1>2, <2>1, OfferType DEF SenderOnReceiveFile
  <2>2. ASSUME SenderOnAccepted PROVE toReceiver' \in Seq(Wired) /\ upload' \in Uploads
    BY <1>2, <2>2, SendPacketsType DEF SenderOnAccepted
  <2>3. ASSUME SenderOnRefused \/ SenderOnNack PROVE toReceiver' \in Seq(Wired) /\ upload' \in Uploads
    BY <1>2, <2>3, NoUploadType DEF SenderOnRefused, SenderOnNack, SenderType
  <2>4. ASSUME SenderOnAck PROVE toReceiver' \in Seq(Wired) /\ upload' \in Uploads
    BY <1>2, <2>4, SendPacketsType, NoUploadType DEF SenderOnAck, SenderType
  <2> QED BY <2>1, <2>2, <2>3, <2>4
<1>5. SenderType' BY <1>3, <1>4 DEF SenderType
<1>6. sender' # "idle" => mode' = "push"
  BY <1>3 DEF SenderOnReceiveFile, SenderOnAccepted, SenderOnRefused, SenderOnAck, SenderOnNack, Inv, Roles
<1>7. Waits'
  <2>1. receiver' = receiver BY <1>3 DEF receiving
  <2>2. CASE ~SenderOnReceiveFile
    <3>1. receiver = "waiting" => Settled
      BY <1>2, <2>2, HandlesLate DEF SenderOnAccepted, SenderOnRefused, SenderOnAck, SenderOnNack
    <3> QED BY <1>3, <2>1, <3>1, ReceiverKept DEF Waits
  <2>3. CASE SenderOnReceiveFile
    <3>1. Offer /\ toSender' = Tail(toSender) /\ unread > 0 /\ unread <= Len(toSender)
      BY <1>2, <2>3 DEF SenderOnReceiveFile, Handles, SenderType
    <3>2. toSender # <<>> BY <1>2, <3>1 DEF SenderType
    <3>3. Asked => Offered'
      <4> SUFFICES ASSUME Asked PROVE Offered' OBVIOUS
      <4>1. toSender' = <<>> BY <3>1 DEF Asked
      <4>2. toReceiver' = <<SendFile(version)>> BY <3>1 DEF Asked, Offer
      <4>3. batch' = <<>> BY <1>3 DEF Asked, receiving
      <4> QED BY <4>1, <4>2, <4>3 DEF Offered, SendFile
    <3> QED BY <1>2, <1>3, <2>1, <3>2, <3>3, ReceiverKept DEF Waits, Offered, Taken
  <2> QED BY <2>2, <2>3
<1> QED BY <1>3, <1>5, <1>6, <1>7, ReceiverKept DEF Inv, Roles

-----------------------------------------------------------------------------
\* The receiver's steps keep what the sender has.
LEMMA AppendType ==
  ASSUME NEW s, \E A : s \in Seq(A), NEW x
  PROVE  (\E A : Append(s, x) \in Seq(A)) /\ Len(Append(s, x)) = Len(s) + 1 /\ Len(s) \in Nat
<1>1. PICK A : s \in Seq(A) OBVIOUS
<1>2. s \in Seq(A \cup {x})
  BY <1>1, SeqMonotonic
<1> QED BY <1>1, <1>2, AppendProperties

\* A reply behind the others.
LEMMA ReplyType ==
  ASSUME SenderType, NEW x, toSender' = Append(toSender, x), UNCHANGED sending,
         toReceiver' = toReceiver
  PROVE  SenderType'
<1>1. (\E A : toSender' \in Seq(A)) /\ Len(toSender') = Len(toSender) + 1 /\ Len(toSender) \in Nat
  BY AppendType DEF SenderType
<1>2. unread' \in Nat /\ unread' <= Len(toSender')
  BY <1>1 DEF SenderType, sending
<1> QED BY <1>1, <1>2 DEF SenderType, sending

LEMMA SenderPollsStep == ASSUME Inv, SenderPolls PROVE Inv'
<1>1. UNCHANGED <<mode, receiving, version, upload, toReceiver, toSender, sender>> /\ unread' \in Nat
      /\ unread' <= Len(toSender)
  BY DEF SenderPolls
<1>2. SenderType' BY <1>1 DEF Inv, SenderType
<1>3. Roles' /\ Waits'
  BY <1>1 DEF Inv, Roles, Waits, Asked, Offered, Taken, Settled, receiving, download
<1> QED BY <1>1, <1>2, <1>3, ReceiverKept DEF Inv

LEMMA SendFileLoopStep == ASSUME Inv, SendFileLoop PROVE Inv'
<1>1. sender = "pushing" /\ UNCHANGED <<mode, version, unread, receiving, toSender>>
  BY DEF SendFileLoop
<1>2. toReceiver' \in Seq(Wired) /\ upload' \in Uploads
  <2>1. CASE SendPackets(1, {}) BY <2>1, SendPacketsType DEF Inv
  <2>2. CASE UNCHANGED <<upload, unanswered, toReceiver>> BY <2>2 DEF Inv, SenderType
  <2> QED BY <2>1, <2>2 DEF SendFileLoop
<1>3. SenderType' BY <1>1, <1>2 DEF Inv, SenderType
<1>4. mode = "push" /\ receiver # "waiting" BY <1>1 DEF Inv, Roles
<1>5. Roles' /\ Waits' BY <1>1, <1>4 DEF Inv, Roles, Waits, receiving
<1> QED BY <1>1, <1>3, <1>5, ReceiverKept DEF Inv

LEMMA CallSendFileStep == ASSUME Inv, CallSendFile PROVE Inv'
<1>1. /\ mode = "push" /\ receiver = "idle" /\ outcome' = "none" /\ Offer
      /\ UNCHANGED <<mode, version, unread, download, receiver, keep, batch, done, toSender>>
  BY DEF CallSendFile
<1>2. SenderType' BY <1>1, OfferType DEF Inv, SenderType
<1>3. ReceiverType' /\ DestinationWhole' BY <1>1 DEF Inv, ReceiverType, DestinationWhole, download
<1>4. Roles' /\ Waits' /\ Keeps' /\ Loops'
  BY <1>1 DEF Inv, Roles, Waits, Keeps, Loops, download
<1> QED BY <1>2, <1>3, <1>4 DEF Inv

LEMMA ChangeFileStep == ASSUME Inv, ChangeFile PROVE Inv'
<1>1. version' \in Versions
      /\ UNCHANGED <<mode, upload, sender, unread, receiving, toReceiver, toSender>>
  BY DEF ChangeFile
<1>2. SenderType' BY <1>1 DEF Inv, SenderType
<1>3. Roles' /\ Waits'
  BY <1>1 DEF Inv, Roles, Waits, Asked, Offered, Taken, Settled, receiving, download
<1> QED BY <1>1, <1>2, <1>3, ReceiverKept DEF Inv

LEMMA CallReceiveFileStep == ASSUME Inv, CallReceiveFile PROVE Inv'
<1>1. /\ mode = "pull" /\ Quiet /\ receiver' = "waiting" /\ outcome' = "none"
      /\ toSender' = Append(toSender, Reply("RECEIVE_FILE", 0, "NONE"))
      /\ UNCHANGED <<mode, sending, download, keep, batch, done, toReceiver>>
  BY DEF CallReceiveFile
<1>2. SenderType' BY <1>1, ReplyType DEF Inv
<1>3. Asked' BY <1>1 DEF Quiet, Asked
<1>4. ReceiverType' /\ DestinationWhole' BY <1>1 DEF Inv, ReceiverType, DestinationWhole, download
<1>5. Roles' /\ Waits' /\ Keeps' /\ Loops'
  BY <1>1, <1>3 DEF Inv, Roles, Waits, Keeps, Loops, sending, download
<1> QED BY <1>2, <1>4, <1>5 DEF Inv

LEMMA CrashStep == ASSUME Inv, Crash PROVE Inv'
<1>1. /\ upload' = NoUpload /\ sender' = "idle" /\ unread' = 0 /\ handler' = NoHandler
      /\ receiver' = "idle" /\ keep' = FALSE /\ outcome' = "exception"
      /\ batch' = <<>> /\ done' = 0 /\ toReceiver' = <<>> /\ toSender' = <<>>
      /\ UNCHANGED <<mode, version, dest>>
  BY DEF Crash
<1>2. <<>> \in Seq(Wired) /\ \E A : <<>> \in Seq(A) OBVIOUS
<1>3. SenderType' BY <1>1, <1>2, NoUploadType DEF Inv, SenderType
<1>4. NoHandler \in Handlers BY DownloadAssumption, OpenedType DEF DownloadAssumption
<1>5. ReceiverType' BY <1>1, <1>2, <1>4 DEF ReceiverType
<1>6. Roles' /\ Waits' /\ Keeps' /\ Loops' /\ DestinationWhole'
  BY <1>1 DEF Inv, Roles, Waits, Keeps, Loops, DestinationWhole
<1> QED BY <1>3, <1>5, <1>6 DEF Inv

LEMMA InitStep == Init => Inv
<1> SUFFICES ASSUME Init PROVE Inv OBVIOUS
<1>1. <<>> \in Seq(Wired) /\ \E A : <<>> \in Seq(A) OBVIOUS
<1>2. NoHandler \in Handlers /\ 0 \in Versions BY DownloadAssumption, OpenedType DEF DownloadAssumption
<1>3. Len(toSender) \in Nat BY DEF Init
<1>4. SenderType BY <1>1, <1>2, <1>3, NoUploadType DEF Init, SenderType
<1>5. ReceiverType BY <1>1, <1>2 DEF Init, ReceiverType
<1>6. Roles /\ Waits /\ Keeps /\ Loops /\ DestinationWhole
  BY DEF Init, Roles, Waits, Keeps, Loops, DestinationWhole
<1> QED BY <1>4, <1>5, <1>6 DEF Inv

-----------------------------------------------------------------------------
\* One read: the first n messages of the wire go behind what is left in the buffer.
LEMMA ReadType ==
  ASSUME Inv, ReceiverPolls
  PROVE  /\ batch' \in Seq(Wired) /\ toReceiver' \in Seq(Wired) /\ batch' # <<>>
         /\ Offered => Taken'
<1>1. PICK n \in 1 .. MaxBatch :
        /\ n <= Len(toReceiver)
        /\ batch' = batch \o SubSeq(toReceiver, 1, n)
        /\ toReceiver' = SubSeq(toReceiver, n + 1, Len(toReceiver))
  BY DEF ReceiverPolls
<1>2. toReceiver \in Seq(Wired) /\ batch \in Seq(Wired) /\ Len(toReceiver) \in Nat /\ n \in Nat \ {0}
      /\ Len(batch) \in Nat
  BY DEF Inv, SenderType, ReceiverType
<1>3. SubSeq(toReceiver, 1, n) \in Seq(Wired) /\ Len(SubSeq(toReceiver, 1, n)) = n
  BY <1>1, <1>2, SubSeqProperties
<1>4. SubSeq(toReceiver, n + 1, Len(toReceiver)) \in Seq(Wired)
      /\ (n = Len(toReceiver) => SubSeq(toReceiver, n + 1, Len(toReceiver)) = <<>>)
  BY <1>1, <1>2, SubSeqProperties
<1>5. batch' \in Seq(Wired) /\ Len(batch') = Len(batch) + n
  BY <1>1, <1>2, <1>3, ConcatProperties
<1>6. batch' # <<>> BY <1>2, <1>5
<1>7. ASSUME Offered PROVE Taken'
  <2>1. n = 1 /\ batch = <<>> /\ toSender = <<>> BY <1>1, <1>2, <1>7 DEF Offered
  <2>2. batch' = SubSeq(toReceiver, 1, 1) BY <1>1, <1>3, <2>1
  <2>3. SubSeq(toReceiver, 1, 1)[1] = toReceiver[1] BY <1>2, <1>7 DEF Offered
  <2>4. toReceiver' = <<>> BY <1>1, <1>4, <1>7, <2>1 DEF Offered
  <2>5. toSender' = toSender /\ done' = 1 BY DEF ReceiverPolls
  <2>6. Len(batch') = 1 BY <1>3, <2>1, <2>2
  <2>7. batch'[1].kind = "SEND_FILE" BY <1>7, <2>2, <2>3 DEF Offered
  <2> QED BY <2>1, <2>4, <2>5, <2>6, <2>7 DEF Taken
<1> QED BY <1>1, <1>4, <1>5, <1>6, <1>7

LEMMA ReceiverPollsStep == ASSUME Inv, ReceiverPolls PROVE Inv'
<1>1. /\ done = 0 /\ done' = 1 /\ Len(toReceiver) # 0
      /\ UNCHANGED <<mode, sending, download, receiver, keep, outcome, toSender>>
  BY DEF ReceiverPolls, Inv, SenderType
<1>2. /\ batch' \in Seq(Wired) /\ toReceiver' \in Seq(Wired) /\ batch' # <<>>
      /\ Offered => Taken'
  BY ReadType
<1>3. SenderType' BY <1>1, <1>2 DEF Inv, SenderType, sending
<1>4. ReceiverType' /\ DestinationWhole'
  BY <1>1, <1>2 DEF Inv, ReceiverType, DestinationWhole, download
<1>5. Roles' /\ Keeps' /\ Loops'
  BY <1>1 DEF Inv, Roles, Keeps, Loops, Stored, sending, download
<1>6. Waits'
  <2>1. ~Asked /\ ~Taken BY <1>1 DEF Asked, Taken
  <2>2. ~Settled BY <1>1 DEF Settled, Inv, ReceiverType
  <2> QED BY <1>1, <1>2, <2>1, <2>2 DEF Inv, Waits
<1> QED BY <1>3, <1>4, <1>5, <1>6 DEF Inv

\* create_download opens a handler, or leaves what there is and says UP_TO_DATE.
LEMMA AcceptOutcome ==
  ASSUME Inv, NEW v \in Versions, Accept(v)
  PROVE  /\ handler' \in Handlers /\ dest' = dest
         /\ \/ handler'.live /\ (handler'.open \/ ~handler'.opened) /\ outcome' = outcome
            \/ handler' = handler /\ outcome' = "UP_TO_DATE"
         /\ \E x : toSender' = Append(toSender, x)
<1>1. CASE OpenDownload(v) /\ UNCHANGED outcome
              /\ toSender' = Append(toSender, Reply("SEND_FILE", 0, "STATUS_OK"))
  <2>1. PICK ok \in BOOLEAN : handler' = Opened(v, ok)
    BY <1>1 DEF OpenDownload, OpenResults
  <2>2. dest' = dest BY <1>1 DEF OpenDownload
  <2> QED BY <1>1, <2>1, <2>2, OpenedType
<1>2. CASE UNCHANGED download /\ outcome' = "UP_TO_DATE"
              /\ toSender' = Append(toSender, Reply("SEND_FILE", 0, "UP_TO_DATE"))
  BY <1>2 DEF Inv, ReceiverType, download
<1> QED BY <1>1, <1>2 DEF Accept

\* The message a poll is at, and what the wait of receive_file says of it.
LEMMA AtMessage ==
  ASSUME Inv, Polling
  PROVE  /\ batch[done] \in Wired /\ batch # <<>> /\ done \in Nat /\ Len(batch) \in Nat
         /\ receiver = "waiting" => Taken
<1>1. batch \in Seq(Wired) /\ done \in 1 .. Len(batch) /\ Len(batch) \in Nat
  BY DEF Inv, ReceiverType, Polling
<1>2. batch[done] \in Wired BY <1>1, ElementOfSeq
<1>3. batch # <<>> BY <1>1
<1>4. ~Asked /\ ~Offered /\ ~Settled BY <1>1, <1>3 DEF Asked, Offered, Settled
<1> QED BY <1>1, <1>2, <1>3, <1>4 DEF Inv, Waits

LEMMA OnSendFileStep == ASSUME Inv, ReceiverOnSendFile PROVE Inv'
<1>1. /\ Polling /\ batch[done].kind = "SEND_FILE" /\ done' = done + 1
      /\ UNCHANGED <<mode, sending, keep, batch, toReceiver>>
  BY DEF ReceiverOnSendFile
<1>2. batch[done].hash \in Versions BY <1>1, AtMessage, WireType
<1>3. CASE mode = "pull"
  <2>1. Accept(batch[done].hash) /\ UNCHANGED receiver BY <1>3 DEF ReceiverOnSendFile
  <2> DEFINE v == batch[done].hash
  <2>2. /\ handler' \in Handlers /\ dest' = dest
        /\ \/ handler'.live /\ (handler'.open \/ ~handler'.opened) /\ outcome' = outcome
           \/ handler' = handler /\ outcome' = "UP_TO_DATE"
        /\ \E x : toSender' = Append(toSender, x)
    <3> HIDE DEF v
    <3>1. v \in Versions /\ Accept(v) BY <1>2, <2>1 DEF v
    <3> QED BY <3>1, AcceptOutcome
  <2>3. SenderType' BY <1>1, <2>2, ReplyType DEF Inv
  <2>4. ReceiverType' BY <1>1, <2>2, AtMessage DEF Inv, ReceiverType
  <2>5. Roles' /\ Keeps' /\ DestinationWhole'
    <3>1. Roles' /\ DestinationWhole' BY <1>1, <2>1, <2>2 DEF Inv, Roles, DestinationWhole, sending
    <3>2. Keeps'
      <4>1. handler'.live \/ handler' = handler
        <5> HIDE DEF v
        <5> QED BY ONLY <2>2
      <4>2. keep' = keep BY <1>1
      <4>3. Keeps BY DEF Inv
      <4> HIDE DEF v
      <4> QED BY ONLY <4>1, <4>2, <4>3 DEF Keeps
    <3> QED BY <3>1, <3>2
  <2>6. Loops' BY <1>1, <2>1, <2>2 DEF Inv, Loops, Stored
  <2>7. Waits'
    <3>1. SUFFICES ASSUME receiver = "waiting" PROVE Settled' BY <2>1 DEF Waits
    <3>2. Taken BY <1>1, <3>1, AtMessage
    <3>3. batch' # <<>> /\ done' = Len(batch') + 1 BY <1>1, <3>2, AtMessage DEF Taken
    <3> QED BY <2>2, <3>3, <3>2 DEF Settled
  <2> QED BY <2>3, <2>4, <2>5, <2>6, <2>7 DEF Inv
<1>4. CASE mode # "pull"
  <2>1. receiver' = "asked" /\ UNCHANGED <<download, outcome, toSender>>
    BY <1>4 DEF ReceiverOnSendFile
  <2>2. SenderType' BY <1>1, <2>1 DEF Inv, SenderType, sending
  <2>3. ReceiverType' BY <1>1, <2>1, AtMessage DEF Inv, ReceiverType, download
  <2>4. Roles' /\ Waits' /\ Keeps' /\ Loops' /\ DestinationWhole'
    BY <1>1, <1>4, <2>1
    DEF Inv, Roles, Waits, Keeps, Loops, DestinationWhole, sending, download
  <2> QED BY <2>2, <2>3, <2>4 DEF Inv
<1> QED BY <1>3, <1>4

LEMMA ApproveStep == ASSUME Inv, Approve PROVE Inv'
<1>1. /\ receiver' = "idle" /\ Accept(upload.hash)
      /\ UNCHANGED <<mode, sending, keep, batch, done, toReceiver>>
  BY DEF Approve
<1>2. upload.hash \in Versions BY DEF Inv, SenderType, Uploads
<1>3. /\ handler' \in Handlers /\ dest' = dest
      /\ handler'.live \/ handler' = handler
      /\ \E x : toSender' = Append(toSender, x)
  BY <1>1, <1>2, AcceptOutcome
<1>4. SenderType' BY <1>1, <1>3, ReplyType DEF Inv
<1>5. ReceiverType' BY <1>1, <1>3 DEF Inv, ReceiverType
<1>6. Roles' /\ Waits' /\ Keeps' /\ Loops' /\ DestinationWhole'
  BY <1>1, <1>3 DEF Inv, Roles, Waits, Keeps, Loops, DestinationWhole, sending
<1> QED BY <1>4, <1>5, <1>6 DEF Inv

\* What a packet leaves behind: a whole file or what was there, and no file that
\* was stored is lost.
LEMMA DataOutcome ==
  ASSUME Inv, Polling, batch[done].kind = "DATA_PACKET"
  PROVE  LET out == ReceivePacket(batch[done].packet)
         IN  /\ Sound(handler, out)
             /\ dest' = out.dest => DestinationWhole' /\ (Stored => Stored')
             /\ dest' = out.dest /\ handler.open /\ ~out.handler.open /\ out.thrown = "nothing"
                  => Stored'
<1> DEFINE out == ReceivePacket(batch[done].packet)
<1>1. PICK i \in Nat, v \in Versions : batch[done].packet = Packet(i, v)
  BY AtMessage, WireType
<1>2. handler \in Handlers BY DEF Inv, ReceiverType
<1>3. Sound(handler, out) BY <1>1, <1>2, ReceiveOutcome
<1>4. handler.hash \in Versions BY <1>2 DEF Handlers
<1> HIDE DEF out
<1>5. dest' = out.dest => DestinationWhole' /\ (Stored => Stored')
  BY <1>3, <1>4 DEF Inv, DestinationWhole, Sound, Stored
<1>6. dest' = out.dest /\ handler.open /\ ~out.handler.open /\ out.thrown = "nothing" => Stored'
  BY <1>3, <1>4 DEF Sound, Stored
<1> QED BY <1>3, <1>5, <1>6 DEF out

LEMMA OnDataStep == ASSUME Inv, ReceiverOnData PROVE Inv'
<1> DEFINE out == ReceivePacket(batch[done].packet)
           x == Reply("DATA_PACKET", batch[done].packet.id, "STATUS_OK")
<1>1. /\ Polling /\ batch[done].kind = "DATA_PACKET" /\ handler.live
      /\ out.thrown = "nothing" /\ dest' = out.dest
      /\ handler' = IF Finished(out.handler) /\ ~keep THEN NoHandler ELSE out.handler
      /\ toSender' = Append(toSender, x) /\ done' = done + 1
      /\ UNCHANGED <<mode, sending, receiver, keep, outcome, batch, toReceiver>>
  BY DEF ReceiverOnData
<1>2. /\ Sound(handler, out) /\ DestinationWhole' /\ (Stored => Stored')
      /\ handler.open /\ ~out.handler.open => Stored'
  BY <1>1, DataOutcome
<1> HIDE DEF out, x
<1>3. SenderType' BY <1>1, ReplyType DEF Inv
<1>4. NoHandler \in Handlers BY DownloadAssumption, OpenedType DEF DownloadAssumption
<1>5. ReceiverType' BY <1>1, <1>2, <1>4, AtMessage DEF Inv, ReceiverType, Sound, SameTransfer
<1>6. Roles' /\ Keeps' BY <1>1, <1>2 DEF Inv, Roles, Keeps, Sound, SameTransfer, sending
<1>7. receiver # "waiting" BY <1>1, AtMessage DEF Taken
<1>8. Loops'
  <2> SUFFICES ASSUME receiver = "looping"
               PROVE  keep = TRUE /\ handler'.live /\ (handler'.opened => handler'.open \/ Stored')
    BY <1>1 DEF Loops
  <2>1. keep = TRUE /\ (handler.opened => handler.open \/ Stored) BY DEF Inv, Loops
  <2>2. handler' = out.handler /\ out.handler.live = handler.live /\ out.handler.opened = handler.opened
    BY <1>1, <1>2, <2>1 DEF Sound, SameTransfer
  <2> QED BY <1>1, <1>2, <2>1, <2>2
<1>9. Waits' BY <1>1, <1>7 DEF Waits
<1> QED BY <1>2, <1>3, <1>5, <1>6, <1>8, <1>9 DEF Inv

LEMMA ThrowsStep == ASSUME Inv, ReceiverThrows PROVE Inv'
<1> DEFINE out == ReceivePacket(batch[done].packet)
<1>1. /\ Polling /\ batch[done].kind = "DATA_PACKET" /\ dest' = out.dest /\ handler' = out.handler
      /\ done' = 0 /\ receiver' = "idle" /\ outcome' = "exception"
      /\ UNCHANGED <<mode, sending, keep, batch, toReceiver, toSender>>
  BY DEF ReceiverThrows
<1>2. Sound(handler, out) /\ DestinationWhole' BY <1>1, DataOutcome
<1> HIDE DEF out
<1>3. SenderType' BY <1>1 DEF Inv, SenderType, sending
<1>4. ReceiverType' BY <1>1, <1>2 DEF Inv, ReceiverType, Sound, SameTransfer
<1>5. Roles' /\ Waits' /\ Keeps' /\ Loops'
  BY <1>1, <1>2 DEF Inv, Roles, Waits, Keeps, Loops, Sound, SameTransfer, sending
<1> QED BY <1>2, <1>3, <1>4, <1>5 DEF Inv

LEMMA OnStrayStep == ASSUME Inv, ReceiverOnStray PROVE Inv'
<1> DEFINE x == Reply("DATA_PACKET", batch[done].packet.id, "INVALID_REQUEST_ID")
<1>1. /\ Polling /\ batch[done].kind = "DATA_PACKET" /\ done' = done + 1
      /\ toSender' = Append(toSender, x)
      /\ UNCHANGED <<mode, sending, download, receiver, keep, outcome, batch, toReceiver>>
  BY DEF ReceiverOnStray
<1> HIDE DEF x
<1>2. SenderType' BY <1>1, ReplyType DEF Inv
<1>3. ReceiverType' /\ DestinationWhole'
  BY <1>1, AtMessage DEF Inv, ReceiverType, DestinationWhole, download
<1>4. receiver # "waiting" BY <1>1, AtMessage DEF Taken
<1>5. Roles' /\ Waits' /\ Keeps' /\ Loops'
  BY <1>1, <1>4 DEF Inv, Roles, Waits, Keeps, Loops, Stored, sending, download
<1> QED BY <1>2, <1>3, <1>5 DEF Inv

\* The wait of receive_file ends with its download open or UP_TO_DATE, its loop
\* with the file stored.
LEMMA PollEndsStep == ASSUME Inv, PollEnds PROVE Inv'
<1>1. /\ batch # <<>> /\ done = Len(batch) + 1 /\ batch' = <<>> /\ done' = 0
      /\ UNCHANGED <<mode, sending, toReceiver, toSender>>
  BY DEF PollEnds
<1>2. SenderType' BY <1>1 DEF Inv, SenderType, sending
<1>3. batch' \in Seq(Wired) BY <1>1
<1>4. CASE receiver = "waiting"
  <2>1. ~Asked /\ ~Offered /\ ~Taken BY <1>1, <1>4 DEF Asked, Offered, Taken
  <2>2. Settled BY <1>4, <2>1 DEF Inv, Waits
  <2>3. /\ dest' = dest
        /\ \/ outcome = "UP_TO_DATE" /\ receiver' = "idle" /\ UNCHANGED <<download, keep>>
           \/ /\ outcome # "UP_TO_DATE" /\ handler.open /\ receiver' = "looping" /\ keep' = TRUE
              /\ UNCHANGED download
           \/ outcome # "UP_TO_DATE" /\ receiver' = "idle" /\ handler' = NoHandler /\ keep' = FALSE
    BY <1>4 DEF PollEnds, ReturnOk, Finished, download
  <2>4. ReceiverType'
    <3>1. NoHandler \in Handlers BY DownloadAssumption, OpenedType DEF DownloadAssumption
    <3> QED BY <1>1, <1>3, <2>3, <3>1 DEF Inv, ReceiverType, download
  <2> QED BY <1>1, <1>2, <1>4, <2>2, <2>3, <2>4
          DEF Inv, Roles, Waits, Keeps, Loops, Settled, DestinationWhole, sending, download
<1>5. CASE receiver = "looping" /\ Finished(handler)
  <2>1. handler' = NoHandler /\ keep' = FALSE /\ receiver' = "idle" /\ dest' = dest
    BY <1>5 DEF PollEnds, ReturnOk
  <2>3. NoHandler \in Handlers BY DownloadAssumption, OpenedType DEF DownloadAssumption
  <2>4. ReceiverType' BY <1>1, <1>3, <2>1, <2>3 DEF ReceiverType
  <2> QED BY <1>1, <1>2, <2>1, <2>4
          DEF Inv, Roles, Waits, Keeps, Loops, DestinationWhole, Stored, sending
<1>6. CASE receiver # "waiting" /\ ~(receiver = "looping" /\ Finished(handler))
  <2>1. UNCHANGED <<download, receiver, keep, outcome>> BY <1>6 DEF PollEnds
  <2>2. ReceiverType' BY <1>1, <1>3, <2>1 DEF Inv, ReceiverType, download
  <2> QED BY <1>1, <1>2, <1>6, <2>1, <2>2
          DEF Inv, Roles, Waits, Keeps, Loops, Stored, DestinationWhole, sending, download
<1> QED BY <1>4, <1>5, <1>6

-----------------------------------------------------------------------------
LEMMA NextStep == ASSUME Inv, [Next]_vars PROVE Inv'
<1>1. CASE Next
  <2>1. CASE SenderStep
    BY <2>1, SenderPollsStep, SenderHandles, SendFileLoopStep DEF SenderStep
  <2>2. CASE ReceiverStep
    BY <2>2, ReceiverPollsStep, OnSendFileStep, OnDataStep, ThrowsStep, OnStrayStep, PollEndsStep
       DEF ReceiverStep
  <2> QED BY <1>1, <2>1, <2>2, CallSendFileStep, CallReceiveFileStep, ApproveStep, ChangeFileStep,
             CrashStep DEF Next
<1>2. CASE UNCHANGED vars
  <2>1. UNCHANGED <<mode, sending, receiving, toReceiver, toSender>> BY <1>2 DEF vars
  <2>2. SenderType' /\ Roles' /\ Waits'
    BY <2>1 DEF Inv, SenderType, Roles, Waits, Asked, Offered, Taken, Settled,
                sending, receiving, download
  <2> QED BY <2>1, <2>2, ReceiverKept DEF Inv
<1> QED BY <1>1, <1>2

\* The invariant of both ends, on which the next three theorems rest: where the
\* request of receive_file is, and what its download has become (Peer.cpp:140-190).
THEOREM InvAlways == Spec => []Inv
<1>1. Init => Inv BY InitStep
<1>2. Inv /\ [Next]_vars => Inv' BY NextStep
<1> QED BY <1>1, <1>2, PTL DEF Spec

\* The destination is what it was before or one whole version of the file, through
\* every transfer, crash and retry (TransferHandler.cpp:84-92, Peer.cpp:119-190).
THEOREM DestinationAlwaysWhole == Spec => []DestinationWhole
<1>1. Inv => DestinationWhole BY DEF Inv
<1> QED BY <1>1, InvAlways, PTL

\* When receive_file returns STATUS_OK the file is in place, or the temporary file
\* did not open (Peer.cpp:178-186, TransferHandler.cpp:34, 84-96).
THEOREM OkAlwaysMeansStored == Spec => OkMeansStored
<1>1. Inv /\ [Next]_vars => [OkMeansStoredStep]_vars
  <2> SUFFICES ASSUME Inv, Next, outcome # "STATUS_OK", outcome' = "STATUS_OK", handler.opened
               PROVE  Stored'
    BY DEF OkMeansStoredStep, Stored
  <2>1. PollEnds
    BY DEF Next, SenderStep, ReceiverStep, CallSendFile, CallReceiveFile, Approve, ChangeFile,
           Crash, SenderPolls, SenderOnReceiveFile, SenderOnAccepted, SenderOnRefused, SenderOnAck,
           SenderOnNack, SendFileLoop, Handles, receiving, ReceiverPolls, ReceiverOnSendFile, Accept,
           ReceiverOnData, ReceiverThrows, ReceiverOnStray
  <2>2. ~handler.open /\ dest' = dest /\ receiver \in {"waiting", "looping"}
    BY <2>1 DEF PollEnds, ReturnOk, Finished
  <2>3. receiver # "waiting"
    <3>1. batch # <<>> /\ done = Len(batch) + 1 BY <2>1 DEF PollEnds
    <3>2. ~Asked /\ ~Offered /\ ~Taken BY <3>1 DEF Asked, Offered, Taken
    <3>3. receiver = "waiting" => outcome = "UP_TO_DATE"
      BY <2>2, <3>2 DEF Inv, Waits, Settled
    <3> QED BY <2>1, <3>3 DEF PollEnds
  <2> QED BY <2>2, <2>3 DEF Inv, Loops, Stored
<1> QED BY <1>1, InvAlways, PTL DEF Spec, OkMeansStored

\* receive_file finds its download when its wait for the reply is over
\* (Peer.cpp:152-179): m_keep is set in time.
THEOREM DownloadAlwaysFound == Spec => []DownloadFound
<1>1. Inv => DownloadFound
  <2> SUFFICES ASSUME Inv, receiver = "waiting", batch # <<>>, done = Len(batch) + 1,
                      outcome # "UP_TO_DATE"
               PROVE  handler.live
    BY DEF DownloadFound
  <2>1. ~Asked /\ ~Offered /\ ~Taken BY DEF Asked, Offered, Taken
  <2> QED BY <2>1 DEF Inv, Waits, Settled
<1> QED BY <1>1, InvAlways, PTL

-----------------------------------------------------------------------------
(***************************************************************************)
(* The slots.  From its first packet to its last an upload counts on the   *)
(* answers: each frees the slot that the next packet takes.                *)
(***************************************************************************)

\* A stream that is open belongs to a download that is there.
Attached == handler.open => handler.live

\* Where the answer to packet u is to come from: it is on its way back, the packet
\* is on the wire, or it is in what the receiver has read and will handle, again if
\* an exception put it back to the first.
InReplies(u) == \E i \in 1 .. Len(toSender) : toSender[i].re = "DATA_PACKET" /\ toSender[i].id = u
OnWire(u) ==
  \E i \in 1 .. Len(toReceiver) : toReceiver[i].kind = "DATA_PACKET" /\ toReceiver[i].packet.id = u
InBatch(u) ==
  \E i \in 1 .. Len(batch) : i >= done /\ batch[i].kind = "DATA_PACKET" /\ batch[i].packet.id = u
Located(u) == InReplies(u) \/ OnWire(u) \/ InBatch(u)

Accounted ==
  /\ IsFiniteSet(unanswered) /\ Cardinality(unanswered) <= Slots
  /\ \A u \in unanswered : Located(u)

\* Before the first packet there is one message of the transfer at a time.
Heard == toReceiver = <<>> /\ (batch = <<>> \/ (Len(batch) = 1 /\ done = 2))
Answered(s) == Len(toSender) = 1 /\ toSender[1].re = "SEND_FILE" /\ toSender[1].status = s
NotAsked == receiver # "asked"

\* The download waits for packet n; or its file did not open, and it is removed with
\* the first packet.
Ready(n) ==
  \/ handler.live /\ handler.open /\ handler.expected = n /\ handler.missing = {}
  \/ /\ ~handler.open
     /\ handler.live => n = 0 /\ handler.expected = 0 /\ handler.missing = {} /\ ~keep

Unaccepted ==
  /\ ~handler.live
  /\ \/ (Offered \/ Taken) /\ NotAsked
     \/ Heard /\ toSender = <<>>
     \/ Heard /\ Answered("UP_TO_DATE") /\ NotAsked
Accepted == Heard /\ Answered("STATUS_OK") /\ NotAsked /\ Ready(0)
Starting ==
  /\ unanswered = {} /\ sender # "pushing"
  /\ \/ Asked /\ ~upload.open /\ ~handler.live /\ NotAsked
     \/ upload.live /\ upload.open /\ upload.next = 0 /\ (Unaccepted \/ Accepted)

\* The packet the receiver handles next, counted from the end of the wire.
Left   == IF done = 0 THEN 0 ELSE Len(batch) + 1 - done
Top    == IF upload.open THEN upload.next ELSE LastId + 1
First  == Top - Len(toReceiver)
Coming == First - Left

\* The packets come in order, each once, and the handler, if there is one, is at the
\* one that comes.
WireInOrder == \A i \in 1 .. Len(toReceiver) : toReceiver[i].packet.id = First + i - 1
BatchInOrder ==
  done > 0 => \A i \in done .. Len(batch) : batch[i].packet.id = First + i - 1 - Len(batch)
HandlerAt(n) ==
  /\ n < Packets => Ready(n) /\ (done = 0 => batch = <<>>)
  /\ n >= Packets => ~handler.open
InOrder == Coming >= 0 /\ WireInOrder /\ BatchInOrder /\ HandlerAt(Coming)

\* The last packet has been sent and the stream is closed: packets that are handled
\* again come in any order.
Over == ~upload.open /\ ~handler.open

\* While there are packets to send, every answer on its way is the only one to its
\* packet; what an exception left is not read again before the last packet is sent.
Replies ==
  /\ \A i \in 1 .. Len(toSender) : toSender[i].id \in unanswered /\ toSender[i].id < Coming
  /\ \A i, j \in 1 .. Len(toSender) : toSender[i].id = toSender[j].id => i = j
Sending ==
  /\ InOrder /\ Replies /\ upload.live /\ upload.next <= LastId
  /\ Coming .. upload.next - 1 \subseteq unanswered /\ unanswered \subseteq 0 .. upload.next - 1
  /\ done = 0 /\ batch # <<>> => toReceiver = <<>>

OnlyData ==
  /\ NotAsked
  /\ \A i \in 1 .. Len(toSender) : toSender[i].re = "DATA_PACKET"
  /\ \A i \in 1 .. Len(toReceiver) : toReceiver[i].kind = "DATA_PACKET"
  /\ done <= Len(batch) => \A i \in 1 .. Len(batch) : batch[i].kind = "DATA_PACKET"

Running == OnlyData /\ (InOrder \/ Over) /\ (upload.open => Sending)

SlotInv == Attached /\ Accounted /\ (Starting \/ Running)

LEMMA Lengths ==
  ASSUME Inv
  PROVE  /\ Len(toSender) \in Nat /\ Len(toReceiver) \in Nat /\ Len(batch) \in Nat
         /\ done \in Nat /\ (batch = <<>> => done = 0) /\ upload.next \in Nat /\ LastId \in Nat
         /\ Left \in Int /\ Top \in Nat /\ First \in Int /\ Coming \in Int
<1>1. Len(toSender) \in Nat /\ Len(toReceiver) \in Nat /\ Len(batch) \in Nat BY DEF Inv, SenderType, ReceiverType
<1>2. done \in Nat /\ (batch = <<>> => done = 0) /\ upload.next \in Nat BY DEF Inv, SenderType, ReceiverType, Uploads
<1>3. LastId \in Nat BY LastIdType
<1>4. Left \in Int BY <1>1, <1>2 DEF Left
<1>5. Top \in Nat BY <1>2, <1>3 DEF Top
<1> QED BY <1>1, <1>2, <1>3, <1>4, <1>5 DEF First, Coming

\* A data packet has a number.
LEMMA DataId ==
  ASSUME NEW m \in Wired, m.kind = "DATA_PACKET"
  PROVE  m.packet.id \in Nat
<1>1. PICK i \in Nat, v \in Versions : m.packet = Packet(i, v) BY WireType
<1> QED BY <1>1, PacketType

\* Steps that leave all this alone.
LEMMA SlotsUntouched ==
  ASSUME SlotInv, UNCHANGED <<upload, unanswered, toReceiver, toSender, handler, keep, batch, done>>,
         NotAsked => NotAsked', sender' = "pushing" => sender = "pushing"
  PROVE  SlotInv'
<1>1. Attached' /\ Accounted'
  BY DEF SlotInv, Attached, Accounted, Located, InReplies, OnWire, InBatch
<1>2. Left' = Left /\ Top' = Top BY DEF Left, Top
<1>3. First' = First /\ Coming' = Coming BY <1>2 DEF First, Coming
<1>4. ASSUME Starting PROVE Starting'
  BY <1>4 DEF Starting, Unaccepted, Accepted, Asked, Offered, Taken, Heard, Answered, Ready, NotAsked
<1>5. InOrder => InOrder' BY <1>3 DEF InOrder, WireInOrder, BatchInOrder, HandlerAt, Ready
<1>6. Sending => Sending' BY <1>3, <1>5 DEF Sending, Replies
<1>7. OnlyData => OnlyData' BY DEF OnlyData
<1>8. Over => Over' BY DEF Over
<1>9. Running => Running' BY <1>5, <1>6, <1>7, <1>8 DEF Running
<1> QED BY <1>1, <1>4, <1>9 DEF SlotInv

\* Between two transfers nothing is left.
LEMMA QuietLeavesNothing ==
  ASSUME Inv, SlotInv, Quiet
  PROVE  unanswered = {} /\ ~handler.open /\ ~handler.live /\ ~upload.open
<1>1. Len(toSender) = 0 /\ Len(toReceiver) = 0 /\ Len(batch) = 0 /\ ~upload.live /\ ~handler.live
  BY DEF Quiet
<1>2. \A u : ~Located(u) BY <1>1 DEF Located, InReplies, OnWire, InBatch
<1>3. unanswered = {} BY <1>2 DEF SlotInv, Accounted
<1>4. ~upload.open BY <1>1 DEF SlotInv, Starting, Running, Sending
<1> QED BY <1>1, <1>3, <1>4 DEF SlotInv, Attached

LEMMA NoneUnanswered ==
  ASSUME unanswered' = {}
  PROVE  Accounted'
<1>1. IsFiniteSet({}) /\ Cardinality({}) = 0 BY FS_EmptySet
<1> QED BY <1>1 DEF Accounted

LEMMA SlotsCallSendFile == ASSUME Inv, SlotInv, CallSendFile PROVE SlotInv'
<1>1. /\ Quiet /\ receiver = "idle" /\ sender' = "waiting" /\ Offer
      /\ UNCHANGED <<unanswered, download, receiver, batch, done, toSender>>
  BY DEF CallSendFile
<1>2. unanswered = {} /\ ~handler.open /\ ~handler.live BY <1>1, QuietLeavesNothing
<1>3. Accounted' BY <1>1, <1>2, NoneUnanswered
<1>4. Offered'
  <2>1. toReceiver' = <<SendFile(version)>> /\ toSender' = <<>> /\ batch' = <<>>
    BY <1>1 DEF Quiet, Offer
  <2> QED BY <2>1 DEF Offered, SendFile
<1>5. upload'.live /\ upload'.open /\ upload'.next = 0 BY <1>1 DEF Offer
<1>6. handler' = handler /\ NotAsked' BY <1>1 DEF download, NotAsked
<1>7. Starting' BY <1>1, <1>2, <1>4, <1>5, <1>6 DEF Starting, Unaccepted
<1> QED BY <1>3, <1>6, <1>7 DEF SlotInv, Attached

LEMMA SlotsCallReceiveFile == ASSUME Inv, SlotInv, CallReceiveFile PROVE SlotInv'
<1>1. /\ mode = "pull" /\ Quiet /\ receiver' = "waiting"
      /\ toSender' = Append(toSender, Reply("RECEIVE_FILE", 0, "NONE"))
      /\ UNCHANGED <<sending, download, batch, done, toReceiver>>
  BY DEF CallReceiveFile
<1>2. unanswered = {} /\ ~handler.open /\ ~handler.live /\ ~upload.open BY <1>1, QuietLeavesNothing
<1>3. Accounted' BY <1>1, <1>2, NoneUnanswered DEF sending
<1>4. Asked' BY <1>1 DEF Quiet, Asked
<1>5. sender = "idle" BY <1>1 DEF Inv, Roles
<1>6. handler' = handler /\ NotAsked' /\ upload' = upload /\ sender' = sender /\ unanswered' = unanswered
  BY <1>1 DEF download, NotAsked, sending
<1>7. Starting' BY <1>2, <1>4, <1>5, <1>6 DEF Starting
<1> QED BY <1>3, <1>6, <1>7 DEF SlotInv, Attached

LEMMA SlotsInit == Init => SlotInv
<1> SUFFICES ASSUME Init PROVE SlotInv
  OBVIOUS
<1>1. /\ ~handler.open /\ ~upload.open /\ unanswered = {} /\ NotAsked
      /\ Len(toSender) = 0 /\ Len(toReceiver) = 0 /\ Len(batch) = 0
  BY DEF Init, NoHandler, NoUpload, NotAsked
<1>2. IsFiniteSet({}) /\ Cardinality({}) = 0 BY FS_EmptySet
<1>3. Accounted BY <1>1, <1>2 DEF Accounted
<1>4. Running BY <1>1 DEF Running, OnlyData, Over
<1> QED BY <1>1, <1>3, <1>4 DEF SlotInv, Attached

LEMMA SlotsCrash == ASSUME Inv, SlotInv, Crash PROVE SlotInv'
<1>1. /\ ~handler'.open /\ ~upload'.open /\ unanswered' = {} /\ NotAsked'
      /\ Len(toSender') = 0 /\ Len(toReceiver') = 0 /\ Len(batch') = 0
  BY DEF Crash, NoHandler, NoUpload, NotAsked
<1>2. Accounted' BY <1>1, NoneUnanswered
<1>3. Running' BY <1>1 DEF Running, OnlyData, Over
<1> QED BY <1>1, <1>2, <1>3 DEF SlotInv, Attached

LEMMA SlotsSenderPolls == ASSUME SlotInv, SenderPolls PROVE SlotInv'
BY SlotsUntouched DEF SenderPolls, receiving, download, NotAsked

LEMMA SlotsChangeFile == ASSUME SlotInv, ChangeFile PROVE SlotInv'
BY SlotsUntouched DEF ChangeFile, receiving, download, NotAsked

\* The request that is handled is the only message there is.
LEMMA AnswerTaken ==
  ASSUME Inv, SlotInv, NEW kind \in {"RECEIVE_FILE", "SEND_FILE"}, NEW statuses, Handles(kind, statuses)
  PROVE  /\ Starting /\ toSender # <<>> /\ toSender' = <<>> /\ unread = 1 /\ unread' = 0
         /\ toSender[1].re = kind /\ toSender[1].status \in statuses /\ Len(toSender) = 1
         /\ UNCHANGED <<receiver, download, keep, batch, done>>
<1>1. PICK A : toSender \in Seq(A) BY DEF Inv, SenderType
<1>2. /\ unread \in Nat /\ unread > 0 /\ unread <= Len(toSender) /\ toSender' = Tail(toSender)
      /\ Head(toSender).re = kind /\ Head(toSender).status \in statuses /\ unread' = unread - 1
      /\ UNCHANGED <<receiver, download, keep, batch, done>>
  BY DEF Inv, SenderType, Handles, receiving
<1>3. toSender # <<>> /\ Head(toSender) = toSender[1] /\ Len(toSender) \in Nat /\ Len(toSender) >= 1
  BY <1>1, <1>2
<1>4. ~Running BY <1>2, <1>3 DEF Running, OnlyData
<1>5. Starting BY <1>4 DEF SlotInv
<1>6. Len(toSender) = 1
  BY <1>3, <1>5 DEF Starting, Asked, Unaccepted, Accepted, Offered, Taken, Heard, Answered
<1>7. Tail(toSender) = <<>>
  <2>1. Tail(toSender) \in Seq(A) /\ Len(Tail(toSender)) = 0 BY <1>1, <1>3, <1>6, HeadTailProperties
  <2> QED BY <2>1, EmptySeq
<1> QED BY <1>2, <1>3, <1>5, <1>6, <1>7

LEMMA SlotsOnReceiveFile == ASSUME Inv, SlotInv, SenderOnReceiveFile PROVE SlotInv'
<1>1. Handles("RECEIVE_FILE", {"NONE"}) /\ Offer /\ UNCHANGED <<unanswered, sender>>
  BY DEF SenderOnReceiveFile
<1>2. /\ Starting /\ toSender' = <<>> /\ toSender[1].re = "RECEIVE_FILE"
      /\ UNCHANGED <<receiver, download, batch, done>>
  BY <1>1, AnswerTaken
<1>3. Asked /\ ~handler.live /\ ~handler.open /\ NotAsked /\ unanswered = {} /\ sender # "pushing"
  <2>1. toSender # <<>> /\ Len(toSender) = 1 /\ toSender[1].re = "RECEIVE_FILE" BY <1>1, AnswerTaken
  <2>2. ~Offered /\ ~Taken /\ ~Answered("UP_TO_DATE") /\ ~Answered("STATUS_OK")
    BY <2>1 DEF Offered, Taken, Answered
  <2> QED BY <1>2, <2>1, <2>2 DEF Starting, Unaccepted, Accepted, SlotInv, Attached
<1>4. Offered'
  <2>1. toReceiver' = <<SendFile(version)>> BY <1>1, <1>3 DEF Offer, Asked
  <2> QED BY <1>2, <1>3, <2>1 DEF Offered, SendFile, Asked
<1>5. upload'.live /\ upload'.open /\ upload'.next = 0 BY <1>1 DEF Offer
<1>6. handler' = handler /\ NotAsked' BY <1>2, <1>3 DEF download, NotAsked
<1>7. Accounted' BY <1>1, <1>3, NoneUnanswered
<1>8. Starting' BY <1>1, <1>3, <1>4, <1>5, <1>6 DEF Starting, Unaccepted
<1> QED BY <1>6, <1>7, <1>8 DEF SlotInv, Attached

LEMMA SlotsOnRefused == ASSUME Inv, SlotInv, SenderOnRefused PROVE SlotInv'
<1>1. /\ Handles("SEND_FILE", {"UP_TO_DATE"})
      /\ \/ upload' = NoUpload /\ sender' = "idle"
         \/ sender # "waiting" /\ UNCHANGED <<upload, sender>>
      /\ UNCHANGED <<unanswered, toReceiver>>
  BY DEF SenderOnRefused
<1>2. /\ Starting /\ toSender' = <<>> /\ toSender[1].re = "SEND_FILE" /\ toSender[1].status = "UP_TO_DATE"
      /\ UNCHANGED <<receiver, download, batch, done>>
  BY <1>1, AnswerTaken
<1>3. /\ upload.live /\ upload.open /\ upload.next = 0 /\ Heard /\ ~handler.live /\ ~handler.open /\ NotAsked
      /\ unanswered = {} /\ sender # "pushing"
  <2>1. toSender # <<>> BY <1>1, AnswerTaken
  <2>2. ~Asked /\ ~Offered /\ ~Taken /\ ~Answered("STATUS_OK")
    BY <1>2, <2>1 DEF Asked, Reply, Offered, Taken, Answered
  <2> QED BY <1>2, <2>1, <2>2 DEF Starting, Unaccepted, Accepted, SlotInv, Attached
<1>4. handler' = handler /\ NotAsked' /\ Heard'
  BY <1>1, <1>2, <1>3 DEF download, NotAsked, Heard
<1>5. Accounted' BY <1>1, <1>3, NoneUnanswered
<1>6. CASE upload' = NoUpload
  <2>1. ~upload'.open BY <1>6 DEF NoUpload
  <2>2. Len(toSender') = 0 /\ Len(toReceiver') = 0 BY <1>2, <1>4 DEF Heard
  <2>3. done' <= Len(batch') => \A i \in 1 .. Len(batch') : batch'[i].kind = "DATA_PACKET"
    <3>1. CASE batch' = <<>>
      <4>1. Len(batch') = 0 BY <3>1
      <4> QED BY <4>1
    <3>2. CASE Len(batch') = 1 /\ done' = 2 BY <3>2
    <3> QED BY <1>4, <3>1, <3>2 DEF Heard
  <2>4. Running' BY <1>3, <1>4, <2>1, <2>2, <2>3 DEF Running, OnlyData, Over
  <2> QED BY <1>3, <1>4, <1>5, <2>4 DEF SlotInv, Attached
<1>7. CASE UNCHANGED <<upload, sender>>
  BY <1>1, <1>2, <1>3, <1>4, <1>5, <1>7 DEF SlotInv, Attached, Starting, Unaccepted
<1> QED BY <1>1, <1>6, <1>7

\* create_download and its reply, before the first packet.
LEMMA SlotsAccept ==
  ASSUME Inv, SlotInv, NEW v \in Versions, Accept(v), toSender = <<>>, Heard', NotAsked',
         upload.live, upload.open, upload.next = 0, unanswered = {}, sender # "pushing", ~handler.live,
         UNCHANGED <<sending, keep>>
  PROVE  SlotInv'
<1>1. Accounted' BY NoneUnanswered DEF sending
<1>2. CASE /\ OpenDownload(v)
           /\ toSender' = Append(toSender, Reply("SEND_FILE", 0, "STATUS_OK"))
  <2>1. PICK ok \in BOOLEAN : handler' = Opened(v, ok) BY <1>2 DEF OpenDownload, OpenResults
  <2>2. ~keep' BY DEF Inv, Keeps
  <2>3. handler'.live /\ handler'.expected = 0 /\ handler'.missing = {} BY <2>1, OpenedType
  <2>4. Ready(0)' BY <2>2, <2>3 DEF Ready
  <2>5. Answered("STATUS_OK")' BY <1>2 DEF Answered, Reply
  <2>6. Starting' BY <2>4, <2>5 DEF Starting, Accepted, sending
  <2> QED BY <1>1, <2>3, <2>6 DEF SlotInv, Attached
<1>3. CASE /\ toSender' = Append(toSender, Reply("SEND_FILE", 0, "UP_TO_DATE"))
           /\ UNCHANGED download
  <2>1. handler' = handler BY <1>3 DEF download
  <2>2. Answered("UP_TO_DATE")' BY <1>3 DEF Answered, Reply
  <2>3. Starting' BY <2>1, <2>2 DEF Starting, Unaccepted, sending
  <2> QED BY <1>1, <2>1, <2>3 DEF SlotInv, Attached
<1> QED BY <1>2, <1>3 DEF Accept

LEMMA SlotsApprove == ASSUME Inv, SlotInv, Approve PROVE SlotInv'
<1>1. /\ receiver = "asked" /\ done = 0 /\ Accept(upload.hash) /\ receiver' = "idle"
      /\ UNCHANGED <<sending, keep, batch, done, toReceiver>>
  BY DEF Approve
<1>2. ~NotAsked BY <1>1 DEF NotAsked
<1>3. Starting /\ Heard /\ toSender = <<>> /\ ~handler.live
  BY <1>2 DEF SlotInv, Running, OnlyData, Starting, Unaccepted, Accepted
<1>4. upload.live /\ upload.open /\ upload.next = 0 /\ unanswered = {} /\ sender # "pushing"
  BY <1>2, <1>3 DEF Starting
<1>5. upload.hash \in Versions BY DEF Inv, SenderType, Uploads
<1>6. Heard' /\ NotAsked' BY <1>1, <1>3 DEF Heard, NotAsked
<1> QED BY <1>1, <1>3, <1>4, <1>5, <1>6, SlotsAccept

LEMMA SlotsOnSendFile == ASSUME Inv, SlotInv, ReceiverOnSendFile PROVE SlotInv'
<1>1. /\ Polling /\ batch[done].kind = "SEND_FILE" /\ done' = done + 1
      /\ UNCHANGED <<sending, keep, batch, toReceiver>>
      /\ \/ Accept(batch[done].hash) /\ UNCHANGED receiver
         \/ receiver' = "asked" /\ UNCHANGED <<download, toSender>>
  BY DEF ReceiverOnSendFile
<1>2. batch[done].hash \in Versions BY <1>1, AtMessage, WireType
<1>3. done \in 1 .. Len(batch) /\ batch # <<>> /\ Len(batch) \in Nat BY <1>1, AtMessage DEF Polling
<1>4. ~Running BY <1>1, <1>3 DEF Running, OnlyData
<1>5. Starting BY <1>4 DEF SlotInv
<1>6. Taken /\ ~handler.live /\ ~handler.open /\ NotAsked
  <2>1. ~Asked /\ ~Offered BY <1>3 DEF Asked, Offered
  <2>2. ~Heard
    <3>1. done \in Nat /\ done <= Len(batch) /\ Len(batch) \in Nat BY ONLY <1>3
    <3>2. ~(Len(batch) = 1 /\ done = 2) BY ONLY <3>1
    <3> QED BY <1>3, <3>2, Zenon DEF Heard
  <2> QED BY <1>5, <2>2, <2>1 DEF Starting, Unaccepted, Accepted, SlotInv, Attached
<1>7. upload.live /\ upload.open /\ upload.next = 0 /\ unanswered = {} /\ sender # "pushing"
  BY <1>3, <1>5 DEF Starting, Asked
<1>8. Heard' BY <1>1, <1>6 DEF Heard, Taken
<1>9. CASE Accept(batch[done].hash) /\ UNCHANGED receiver
  <2>1. toSender = <<>> /\ NotAsked' BY <1>6, <1>9 DEF Taken, NotAsked
  <2> QED BY <1>1, <1>2, <1>6, <1>7, <1>8, <1>9, <2>1, SlotsAccept
<1>10. CASE receiver' = "asked" /\ UNCHANGED <<download, toSender>>
  <2>1. handler' = handler /\ toSender' = <<>> /\ UNCHANGED <<upload, unanswered, sender>>
    BY <1>1, <1>6, <1>10 DEF download, Taken, sending
  <2>2. Starting' BY <1>6, <1>7, <1>8, <2>1 DEF Starting, Unaccepted
  <2>3. Accounted' BY <1>7, <2>1, NoneUnanswered
  <2> QED BY <1>6, <2>1, <2>2, <2>3 DEF SlotInv, Attached
<1> QED BY <1>1, <1>9, <1>10

LEMMA CountUpTo ==
  ASSUME NEW a \in Nat, NEW b \in Nat, a <= b
  PROVE  IsFiniteSet(a .. b) /\ Cardinality(a .. b) = b + 1 - a
<1>1. IsFiniteSet(a .. b) /\ Cardinality(a .. b) = IF a > b THEN 0 ELSE b - a + 1 BY FS_Interval
<1> QED BY <1>1

\* What sending does to the wire: the next packets go behind the others.
LEMMA SentPackets ==
  ASSUME SenderType, upload.next <= LastId, NEW n \in Nat \ {0}, NEW answered, SendPackets(n, answered)
  PROVE  \E last \in Nat :
           /\ upload.next <= last /\ last <= LastId /\ last <= upload.next + n - 1
           /\ unanswered' = (unanswered \ answered) \cup upload.next .. last
           /\ upload'.next = last + 1 /\ (upload'.open <=> last < LastId) /\ upload'.live = upload.live
           /\ Len(toReceiver') = Len(toReceiver) + (last + 1 - upload.next)
           /\ \A i \in 1 .. Len(toReceiver) : toReceiver'[i] = toReceiver[i]
           /\ \A i \in 1 .. Len(toReceiver') : i > Len(toReceiver) =>
                toReceiver'[i].kind = "DATA_PACKET"
                /\ toReceiver'[i].packet.id = upload.next + (i - Len(toReceiver)) - 1
<1> DEFINE last == IF upload.next + n - 1 < LastId THEN upload.next + n - 1 ELSE LastId
           ids == upload.next .. last
           packets == [i \in 1 .. Cardinality(ids) |-> DataPacket(Packet(upload.next + i - 1, version))]
<1>1. upload.next \in Nat /\ LastId \in Nat /\ upload \in Uploads /\ Len(toReceiver) \in Nat
      /\ toReceiver \in Seq(Wired)
  BY LastIdType DEF SenderType, Uploads
<1>2. last \in Nat /\ upload.next <= last /\ last <= LastId /\ last <= upload.next + n - 1 BY <1>1
<1>3. /\ toReceiver' = toReceiver \o packets
      /\ upload' = [upload EXCEPT !.next = last + 1, !.open = last < LastId]
      /\ unanswered' = (unanswered \ answered) \cup ids
  BY DEF SendPackets
<1> HIDE DEF last
<1>4. Cardinality(ids) = last + 1 - upload.next BY <1>1, <1>2, CountUpTo
<1>5. upload'.next = last + 1 /\ (upload'.open <=> last < LastId) /\ upload'.live = upload.live
  BY <1>1, <1>3 DEF Uploads
<1> DEFINE k == Cardinality(ids)
<1>6. k \in Nat BY <1>1, <1>2, <1>4
<1>7. packets \in Seq(Wired) /\ Len(packets) = k /\ \A i \in 1 .. k : packets[i] = DataPacket(Packet(upload.next + i - 1, version))
  <2>1. \A i \in Nat : DataPacket(Packet(i, version)) \in Wired BY DEF Wired, SenderType
  <2> HIDE DEF ids
  <2>2. \A i \in 1 .. k : DataPacket(Packet(upload.next + i - 1, version)) \in Wired
    <3>1. \A i \in 1 .. k : upload.next + i - 1 \in Nat BY <1>1, <1>6
    <3> QED BY <2>1, <3>1
  <2>3. packets \in Seq(Wired) BY <1>6, <2>2, IsASeq
  <2>4. DOMAIN packets = 1 .. k OBVIOUS
  <2>5. Len(packets) = k BY <1>6, <2>3, <2>4, LenProperties
  <2> QED BY <2>3, <2>5
<1> HIDE DEF packets, k, ids
<1>8. /\ Len(toReceiver') = Len(toReceiver) + k
      /\ \A i \in 1 .. Len(toReceiver') :
           toReceiver'[i] = IF i <= Len(toReceiver) THEN toReceiver[i] ELSE packets[i - Len(toReceiver)]
  <2>1. /\ Len(toReceiver \o packets) = Len(toReceiver) + k
        /\ \A i \in 1 .. Len(toReceiver) + k :
             (toReceiver \o packets)[i] = IF i <= Len(toReceiver) THEN toReceiver[i] ELSE packets[i - Len(toReceiver)]
    BY <1>1, <1>7, ConcatProperties, Zenon
  <2> QED BY <1>3, <2>1, Zenon
<1>9. k = last + 1 - upload.next BY <1>4 DEF k
<1>10. \A i \in 1 .. Len(toReceiver) : toReceiver'[i] = toReceiver[i]
  <2> SUFFICES ASSUME NEW i \in 1 .. Len(toReceiver) PROVE toReceiver'[i] = toReceiver[i] OBVIOUS
  <2>1. i \in 1 .. Len(toReceiver') /\ i <= Len(toReceiver) BY <1>1, <1>6, <1>8
  <2> QED BY <1>8, <2>1
<1>11. ASSUME NEW i \in 1 .. Len(toReceiver'), i > Len(toReceiver)
       PROVE  /\ toReceiver'[i].kind = "DATA_PACKET"
              /\ toReceiver'[i].packet.id = upload.next + (i - Len(toReceiver)) - 1
  <2>1. ~(i <= Len(toReceiver)) /\ i - Len(toReceiver) \in 1 .. k BY <1>1, <1>6, <1>8, <1>11
  <2>2. toReceiver'[i] = packets[i - Len(toReceiver)] BY <1>8, <2>1
  <2> DEFINE j == i - Len(toReceiver)
  <2>3. j \in 1 .. k /\ toReceiver'[i] = packets[j] BY <2>1, <2>2
  <2>4. upload.next + j - 1 \in Nat BY <1>1, <1>6, <2>3
  <2> HIDE DEF j
  <2>5. toReceiver'[i] = DataPacket(Packet(upload.next + j - 1, version)) BY <1>7, <2>3
  <2>6. Packet(upload.next + j - 1, version).id = upload.next + j - 1 BY DEF Packet
  <2> QED BY <2>5, <2>6 DEF DataPacket, j
<1>12. Len(toReceiver') = Len(toReceiver) + (last + 1 - upload.next) BY <1>8, <1>9
<1> QED BY <1>2, <1>3, <1>5, <1>10, <1>11, <1>12, Zenon DEF ids

LEMMA SentOne ==
  ASSUME SenderType, upload.next <= LastId, NEW answered, SendPackets(1, answered)
  PROVE  unanswered' = (unanswered \ answered) \cup {upload.next}
<1> DEFINE last == IF upload.next + 1 - 1 < LastId THEN upload.next + 1 - 1 ELSE LastId
<1>1. unanswered' = (unanswered \ answered) \cup upload.next .. last BY DEF SendPackets
<1>2. upload.next \in Nat /\ LastId \in Nat BY LastIdType DEF SenderType, Uploads
<1>3. last = upload.next BY <1>2
<1> HIDE DEF last
<1>4. upload.next .. last = {upload.next} BY <1>2, <1>3
<1> QED BY <1>1, <1>4

LEMMA SentFirst ==
  ASSUME SenderType, upload.next = 0, unanswered = {}, NEW n \in Nat \ {0}, SendPackets(n, {})
  PROVE  \E last \in Nat : last <= 0 + n - 1 /\ unanswered' = 0 .. last
<1> DEFINE last == IF upload.next + n - 1 < LastId THEN upload.next + n - 1 ELSE LastId
<1>1. unanswered' = 0 .. last BY DEF SendPackets
<1>2. LastId \in Nat BY LastIdType
<1>3. last \in Nat /\ last <= 0 + n - 1 BY <1>2
<1> HIDE DEF last
<1> QED BY <1>1, <1>3

\* Counting the slots: an answer makes room for one more.
LEMMA RoomForOne ==
  ASSUME NEW U, IsFiniteSet(U), NEW m \in Nat, NEW x
  PROVE  /\ \A u \in U : Cardinality(U) <= m => /\ IsFiniteSet(U \ {u}) /\ Cardinality(U \ {u}) < m
                                                /\ IsFiniteSet((U \ {u}) \cup {x})
                                                /\ Cardinality((U \ {u}) \cup {x}) <= m
         /\ Cardinality(U) < m => IsFiniteSet(U \cup {x}) /\ Cardinality(U \cup {x}) <= m
<1>1. ASSUME NEW V, IsFiniteSet(V), Cardinality(V) < m
      PROVE  IsFiniteSet(V \cup {x}) /\ Cardinality(V \cup {x}) <= m
  <2>1. IsFiniteSet(V \cup {x}) /\ Cardinality(V) \in Nat BY <1>1, FS_AddElement, FS_CardinalityType
  <2>2. Cardinality(V \cup {x}) = Cardinality(V) \/ Cardinality(V \cup {x}) = Cardinality(V) + 1
    BY <1>1, FS_AddElement
  <2> QED BY <1>1, <2>1, <2>2
<1>2. ASSUME NEW u \in U, Cardinality(U) <= m PROVE IsFiniteSet(U \ {u}) /\ Cardinality(U \ {u}) < m
  <2>1. Cardinality(U \ {u}) = Cardinality(U) - 1 /\ IsFiniteSet(U \ {u}) /\ Cardinality(U) \in Nat
    BY <1>2, FS_RemoveElement, FS_CardinalityType
  <2> QED BY <1>2, <2>1
<1> QED BY <1>1, <1>2

LEMMA FewerUnanswered ==
  ASSUME NEW U, IsFiniteSet(U), NEW m \in Nat, Cardinality(U) <= m, NEW x
  PROVE  IsFiniteSet(U \ {x}) /\ Cardinality(U \ {x}) <= m
<1>1. CASE x \in U
  <2>1. IsFiniteSet(U \ {x}) /\ Cardinality(U \ {x}) < m BY <1>1, RoomForOne
  <2>2. Cardinality(U \ {x}) \in Nat BY <2>1, FS_CardinalityType
  <2> QED BY <2>1, <2>2
<1>2. CASE x \notin U
  <2>1. U \ {x} = U BY <1>2
  <2> QED BY <2>1
<1> QED BY <1>1, <1>2

\* Sending keeps the packets in order, and the last one that is sent while an
\* exception waits is the last of the file.
LEMMA SendKeepsOrder ==
  ASSUME Inv, NEW n \in Nat \ {0}, NEW answered, SendPackets(n, answered),
         upload.open, upload.next <= LastId, InOrder, UNCHANGED <<handler, keep, batch, done>>
  PROVE  /\ InOrder' /\ Coming' = Coming
         /\ upload'.open => upload'.next <= LastId /\ (done = 0 => batch = <<>>)
<1>1. PICK last \in Nat :
        /\ upload.next <= last /\ last <= LastId /\ last <= upload.next + n - 1
        /\ unanswered' = (unanswered \ answered) \cup upload.next .. last
        /\ upload'.next = last + 1 /\ (upload'.open <=> last < LastId) /\ upload'.live = upload.live
        /\ Len(toReceiver') = Len(toReceiver) + (last + 1 - upload.next)
        /\ \A i \in 1 .. Len(toReceiver) : toReceiver'[i] = toReceiver[i]
        /\ \A i \in 1 .. Len(toReceiver') : i > Len(toReceiver) =>
             toReceiver'[i].kind = "DATA_PACKET"
             /\ toReceiver'[i].packet.id = upload.next + (i - Len(toReceiver)) - 1
  BY SentPackets DEF Inv
<1>2. /\ Len(toReceiver) \in Nat /\ Len(batch) \in Nat /\ done \in Nat /\ upload.next \in Nat /\ LastId \in Nat
      /\ Left \in Int /\ First \in Int /\ Coming \in Int
  BY Lengths
<1>3. Top = upload.next /\ Top' = last + 1
  <2>1. Top = upload.next BY Zenon DEF Top
  <2>2. upload'.open <=> last < LastId BY <1>1
  <2>6. last \in Nat /\ LastId \in Nat /\ last <= LastId BY <1>1, <1>2
  <2>3. ~upload'.open => last = LastId BY ONLY <2>2, <2>6
  <2>4. upload'.next = last + 1 BY <1>1
  <2>5. LastId' = LastId BY DEF LastId
  <2> QED BY <2>1, <2>3, <2>4, <2>5, Zenon DEF Top
<1>4. First = upload.next - Len(toReceiver) /\ First' = First
  <2> DEFINE w == Len(toReceiver)
  <2>1. w \in Nat /\ Len(toReceiver') = w + (last + 1 - upload.next) BY <1>1, <1>2
  <2>2. First = Top - w /\ First' = Top' - Len(toReceiver') BY DEF First
  <2> HIDE DEF w
  <2>4. upload.next \in Nat /\ last \in Nat /\ w \in Nat BY <1>1, <1>2, <2>1
  <2>5. (last + 1) - (w + (last + 1 - upload.next)) = upload.next - w BY ONLY <2>4
  <2>3. First' = First BY <1>3, <2>1, <2>2, <2>5, Zenon
  <2> QED BY <1>3, <2>2, <2>3 DEF w
<1>5. Left' = Left BY DEF Left
<1>6. Coming' = Coming BY <1>4, <1>5 DEF Coming
<1>7. WireInOrder'
  <2> SUFFICES ASSUME NEW i \in 1 .. Len(toReceiver') PROVE toReceiver'[i].packet.id = First + i - 1
    BY <1>4 DEF WireInOrder
  <2>1. CASE i <= Len(toReceiver)
    <3>1. i \in 1 .. Len(toReceiver) BY <1>1, <1>2, <2>1
    <3> QED BY <1>1, <3>1 DEF InOrder, WireInOrder
  <2>2. CASE i > Len(toReceiver)
    <3>1. toReceiver'[i].packet.id = upload.next + (i - Len(toReceiver)) - 1 BY <1>1, <2>2
    <3>2. i \in Int BY <1>1, <1>2
    <3> QED BY <1>2, <1>4, <3>1, <3>2
  <2> QED BY <1>2, <2>1, <2>2
<1>8. BatchInOrder' BY <1>4 DEF InOrder, BatchInOrder
<1>9. HandlerAt(Coming)' BY <1>6 DEF InOrder, HandlerAt, Ready
<1>10. InOrder' BY <1>6, <1>7, <1>8, <1>9 DEF InOrder
<1>11. ASSUME upload'.open PROVE upload'.next <= LastId /\ (done = 0 => batch = <<>>)
  <2>1. last + 1 <= LastId BY <1>1, <1>2, <1>11
  <2>2. ASSUME done = 0, batch # <<>> PROVE FALSE
    <3>1. ~(Coming < Packets) BY <2>2 DEF InOrder, HandlerAt
    <3>2. Left = 0 BY <2>2 DEF Left
    <3>3. Coming <= upload.next BY <1>2, <1>4, <3>2 DEF Coming
    <3>4. LastId <= Packets BY LastIdType
    <3> QED BY <1>1, <1>2, <2>1, <3>1, <3>3, <3>4, DownloadAssumption
  <2> QED BY <1>1, <2>1, <2>2
<1> QED BY <1>6, <1>10, <1>11

\* The answer to a packet is taken: the answers behind it move up.
LEMMA ReplyTaken ==
  ASSUME Inv, SlotInv, NEW statuses, Handles("DATA_PACKET", statuses)
  PROVE  /\ Running /\ Len(toSender) >= 1 /\ toSender[1] = Head(toSender)
         /\ toSender[1].status \in statuses /\ toSender[1].re = "DATA_PACKET"
         /\ Len(toSender') = Len(toSender) - 1
         /\ \A i \in 1 .. Len(toSender') : i + 1 \in 1 .. Len(toSender) /\ toSender'[i] = toSender[i + 1]
         /\ UNCHANGED <<receiver, handler, keep, download, batch, done>>
<1>1. PICK A : toSender \in Seq(A) BY DEF Inv, SenderType
<1>2. /\ unread \in Nat /\ unread > 0 /\ unread <= Len(toSender) /\ toSender' = Tail(toSender)
      /\ Head(toSender).re = "DATA_PACKET" /\ Head(toSender).status \in statuses
      /\ UNCHANGED <<receiver, handler, keep, download, batch, done>>
  BY DEF Inv, SenderType, Handles, receiving, download
<1>3. toSender # <<>> /\ Head(toSender) = toSender[1] /\ Len(toSender) \in Nat /\ Len(toSender) >= 1
  BY <1>1, <1>2
<1>4. /\ Len(toSender') = Len(toSender) - 1
      /\ \A i \in 1 .. Len(toSender') : i + 1 \in 1 .. Len(toSender) /\ toSender'[i] = toSender[i + 1]
  <2>1. Len(Tail(toSender)) = Len(toSender) - 1 BY <1>1, <1>3, HeadTailProperties
  <2>2. \A i \in 1 .. Len(Tail(toSender)) : Tail(toSender)[i] = toSender[i + 1]
    BY <1>1, <1>3, HeadTailProperties
  <2>3. \A i \in 1 .. Len(toSender) - 1 : i + 1 \in 1 .. Len(toSender) BY ONLY <1>3
  <2> QED BY <1>2, <2>1, <2>2, <2>3, Zenon
<1>5. ~Starting
  <2>1. ~Asked /\ ~Offered /\ ~Taken /\ ~Answered("STATUS_OK") /\ ~Answered("UP_TO_DATE")
    BY <1>2, <1>3 DEF Asked, Reply, Offered, Taken, Answered
  <2>2. toSender # <<>> BY <1>3
  <2> QED BY <2>1, <2>2 DEF Starting, Unaccepted, Accepted
<1> QED BY <1>2, <1>3, <1>4, <1>5 DEF SlotInv

\* The packets whose answer is not the one taken stay where they are.
LEMMA LocatedBehind ==
  ASSUME Inv, SlotInv, NEW statuses, Handles("DATA_PACKET", statuses),
         NEW u, u # toSender[1].id, Located(u), OnWire(u) => OnWire(u)'
  PROVE  Located(u)'
<1>1. /\ Len(toSender) \in Nat /\ Len(toSender') = Len(toSender) - 1
      /\ \A i \in 1 .. Len(toSender') : toSender'[i] = toSender[i + 1]
      /\ UNCHANGED <<batch, done>>
  BY ReplyTaken, Lengths
<1>2. InBatch(u) => InBatch(u)' BY <1>1 DEF InBatch
<1>3. ASSUME NEW i \in 1 .. Len(toSender), toSender[i].re = "DATA_PACKET", toSender[i].id = u
      PROVE  InReplies(u)'
  <2>1. i # 1 BY <1>3
  <2>2. i - 1 \in 1 .. Len(toSender') /\ (i - 1) + 1 = i BY <1>1, <2>1
  <2>3. toSender'[i - 1] = toSender[i] BY <1>1, <2>2
  <2> QED BY <1>3, <2>2, <2>3 DEF InReplies
<1> QED BY <1>2, <1>3 DEF Located, InReplies

\* What sending keeps, whether a poll or the loop of send_file does it: answered are
\* the packets whose answers have been taken, none of them still to come.
LEMMA SendGoesOn ==
  ASSUME Inv, NEW n \in Nat \ {0}, NEW answered, SendPackets(n, answered),
         upload.open, upload.live, upload.next <= LastId, InOrder, UNCHANGED <<handler, keep, batch, done>>,
         \A i \in 1 .. Len(toReceiver) : toReceiver[i].kind = "DATA_PACKET",
         \A i \in 1 .. Len(toSender') : /\ toSender'[i].id \in unanswered \ answered
                                        /\ toSender'[i].id < Coming,
         \A i, j \in 1 .. Len(toSender') : toSender'[i].id = toSender'[j].id => i = j,
         Coming .. upload.next - 1 \subseteq unanswered \ answered,
         unanswered \subseteq 0 .. upload.next - 1
  PROVE  /\ InOrder' /\ (upload'.open => Sending')
         /\ \A i \in 1 .. Len(toReceiver') : toReceiver'[i].kind = "DATA_PACKET"
         /\ \A u : OnWire(u) => OnWire(u)'
         /\ \A u \in unanswered' : u \in unanswered \ answered \/ OnWire(u)'
<1>1. PICK last \in Nat :
        /\ upload.next <= last /\ last <= LastId /\ last <= upload.next + n - 1
        /\ unanswered' = (unanswered \ answered) \cup upload.next .. last
        /\ upload'.next = last + 1 /\ (upload'.open <=> last < LastId) /\ upload'.live = upload.live
        /\ Len(toReceiver') = Len(toReceiver) + (last + 1 - upload.next)
        /\ \A i \in 1 .. Len(toReceiver) : toReceiver'[i] = toReceiver[i]
        /\ \A i \in 1 .. Len(toReceiver') : i > Len(toReceiver) =>
             toReceiver'[i].kind = "DATA_PACKET"
             /\ toReceiver'[i].packet.id = upload.next + (i - Len(toReceiver)) - 1
  <2>1. SenderType BY DEF Inv
  <2> QED BY <2>1, SentPackets, ZenonT(60)
<1>2. /\ InOrder' /\ Coming' = Coming
      /\ upload'.open => upload'.next <= LastId /\ (done = 0 => batch = <<>>)
  BY SendKeepsOrder
<1>3. Len(toReceiver) \in Nat /\ upload.next \in Nat /\ Coming \in Int BY Lengths
<1>4. \A i \in 1 .. Len(toReceiver) : i \in 1 .. Len(toReceiver') /\ toReceiver'[i] = toReceiver[i]
  BY <1>1, <1>3
<1>5. \A i \in 1 .. Len(toReceiver') : toReceiver'[i].kind = "DATA_PACKET"
  <2> SUFFICES ASSUME NEW i \in 1 .. Len(toReceiver') PROVE toReceiver'[i].kind = "DATA_PACKET" OBVIOUS
  <2>1. CASE i > Len(toReceiver) BY <1>1, <2>1
  <2>2. CASE ~(i > Len(toReceiver))
    <3>1. i \in 1 .. Len(toReceiver) BY <1>1, <1>3, <2>2
    <3> QED BY <1>1, <3>1
  <2> QED BY <2>1, <2>2
<1>6. \A u : OnWire(u) => OnWire(u)' BY <1>4 DEF OnWire
<1>7. ASSUME NEW u \in upload.next .. last PROVE OnWire(u)'
  <2> DEFINE i == Len(toReceiver) + (u - upload.next) + 1
  <2>1. i \in 1 .. Len(toReceiver') /\ i > Len(toReceiver) /\ upload.next + (i - Len(toReceiver)) - 1 = u
    <3>1. u \in Int /\ upload.next <= u /\ u <= last BY <1>1, <1>3
    <3>2. Len(toReceiver') = Len(toReceiver) + (last + 1 - upload.next) BY <1>1
    <3>3. Len(toReceiver) \in Nat /\ last \in Nat /\ upload.next \in Nat BY <1>1, <1>3
    <3>4. i \in 1 .. Len(toReceiver) + (last + 1 - upload.next) BY ONLY <3>1, <3>3
    <3>5. i > Len(toReceiver) /\ upload.next + (i - Len(toReceiver)) - 1 = u BY ONLY <3>1, <3>3
    <3> HIDE DEF i
    <3> QED BY <3>2, <3>4, <3>5, Zenon
  <2> HIDE DEF i
  <2>2. toReceiver'[i].kind = "DATA_PACKET" /\ toReceiver'[i].packet.id = u BY <1>1, <2>1
  <2> QED BY <2>1, <2>2 DEF OnWire
<1>8. \A u \in unanswered' : u \in unanswered \ answered \/ OnWire(u)' BY <1>1, <1>7
<1>9. ASSUME upload'.open PROVE Sending'
  <2>1. Replies'
    <3>1. unanswered \ answered \subseteq unanswered' BY <1>1
    <3> QED BY <1>2, <3>1 DEF Replies
  <2>2. Coming' .. upload'.next - 1 \subseteq unanswered'
    <3>1. upload'.next - 1 = last /\ Coming' = Coming BY <1>1, <1>2
    <3>2. upload.next \in Nat /\ last \in Nat /\ Coming \in Int BY <1>1, <1>3
    <3>3. Coming .. last \subseteq (Coming .. upload.next - 1) \cup (upload.next .. last) BY ONLY <3>2
    <3>4. Coming .. upload.next - 1 \subseteq unanswered' /\ upload.next .. last \subseteq unanswered' BY <1>1
    <3> QED BY <3>1, <3>3, <3>4, Zenon
  <2>3. unanswered' \subseteq 0 .. upload'.next - 1
    <3>3. upload.next \in Nat /\ last \in Nat /\ upload.next <= last BY <1>1, <1>3
    <3>1. 0 .. upload.next - 1 \subseteq 0 .. last /\ upload.next .. last \subseteq 0 .. last BY ONLY <3>3
    <3>2. upload'.next - 1 = last BY <1>1
    <3> QED BY <1>1, <3>1, <3>2
  <2>4. upload'.live BY <1>1
  <2> QED BY <1>2, <1>9, <2>1, <2>2, <2>3, <2>4 DEF Sending
<1> QED BY <1>2, <1>5, <1>6, <1>8, <1>9

\* An answer that comes when the last packet has been sent only frees its slot.
LEMMA ReplyAfterLast ==
  ASSUME Inv, SlotInv, NEW statuses, Handles("DATA_PACKET", statuses), ~upload.open, ~upload'.open,
         unanswered' = unanswered \ {toSender[1].id}, UNCHANGED toReceiver
  PROVE  SlotInv'
<1> DEFINE u == toSender[1].id
<1>1. /\ Running /\ Len(toSender) >= 1
      /\ Len(toSender') = Len(toSender) - 1
      /\ \A i \in 1 .. Len(toSender') : i + 1 \in 1 .. Len(toSender) /\ toSender'[i] = toSender[i + 1]
      /\ UNCHANGED <<receiver, handler, keep, download, batch, done>>
  BY ReplyTaken
<1>2. unanswered' = unanswered \ {u} OBVIOUS
<1>3. Attached' BY <1>1 DEF SlotInv, Attached
<1>4. OnlyData /\ Accounted /\ (InOrder \/ Over) BY <1>1 DEF Running, SlotInv
<1>5. OnlyData' BY <1>1, <1>4 DEF OnlyData, NotAsked
<1>6. IsFiniteSet(unanswered) /\ Cardinality(unanswered) <= Slots /\ Slots \in Nat BY <1>4 DEF Accounted
<1>7. Left' = Left /\ Top' = Top BY <1>1 DEF Left, Top
<1>8. First' = First /\ Coming' = Coming BY <1>7 DEF First, Coming
<1>9. InOrder => InOrder' BY <1>1, <1>8 DEF InOrder, WireInOrder, BatchInOrder, HandlerAt, Ready
<1>10. Over => Over' BY <1>1 DEF Over
<1>11. Running' BY <1>4, <1>5, <1>9, <1>10 DEF Running
<1>12. \A x \in unanswered' : Located(x)'
  <2> SUFFICES ASSUME NEW x \in unanswered' PROVE Located(x)' OBVIOUS
  <2>1. x # toSender[1].id /\ Located(x) BY <1>4 DEF Accounted
  <2>2. OnWire(x) => OnWire(x)' BY DEF OnWire
  <2> QED BY <2>1, <2>2, LocatedBehind
<1> HIDE DEF u
<1>13. IsFiniteSet(unanswered') /\ Cardinality(unanswered') <= Slots BY <1>2, <1>6, FewerUnanswered
<1> QED BY <1>3, <1>11, <1>12, <1>13 DEF SlotInv, Accounted

\* While there are packets to send, the other answers are to other packets.
LEMMA RepliesBehind ==
  ASSUME Inv, SlotInv, NEW statuses, Handles("DATA_PACKET", statuses), Sending
  PROVE  /\ \A i \in 1 .. Len(toSender') : /\ toSender'[i].id \in unanswered \ {toSender[1].id}
                                           /\ toSender'[i].id < Coming
         /\ \A i, j \in 1 .. Len(toSender') : toSender'[i].id = toSender'[j].id => i = j
         /\ Coming .. upload.next - 1 \subseteq unanswered \ {toSender[1].id}
<1> DEFINE u == toSender[1].id
<1>1. /\ Len(toSender) >= 1 /\ Len(toSender') = Len(toSender) - 1
      /\ \A i \in 1 .. Len(toSender') : i + 1 \in 1 .. Len(toSender) /\ toSender'[i] = toSender[i + 1]
  BY ReplyTaken
<1>2. 1 \in 1 .. Len(toSender) /\ Len(toSender) \in Nat /\ Coming \in Int /\ upload.next \in Nat
  BY <1>1, Lengths
<1>3. u \in unanswered /\ u < Coming /\ u \in Int
  <2>1. u \in unanswered /\ u < Coming BY <1>2 DEF Sending, Replies
  <2> HIDE DEF u
  <2>2. unanswered \subseteq Int BY DEF Sending
  <2> QED BY <2>1, <2>2
<1>4. ASSUME NEW i \in 1 .. Len(toSender')
      PROVE  toSender'[i].id \in unanswered /\ toSender'[i].id # u /\ toSender'[i].id < Coming
  <2>1. i + 1 \in 1 .. Len(toSender) /\ toSender'[i] = toSender[i + 1] /\ i + 1 # 1 BY <1>1, <1>2
  <2>2. toSender[i + 1].id # toSender[1].id BY <1>2, <2>1 DEF Sending, Replies
  <2> QED BY <2>1, <2>2 DEF Sending, Replies
<1>5. ASSUME NEW i \in 1 .. Len(toSender'), NEW j \in 1 .. Len(toSender'),
             toSender'[i].id = toSender'[j].id
      PROVE  i = j
  <2>1. i + 1 \in 1 .. Len(toSender) /\ j + 1 \in 1 .. Len(toSender) BY <1>1
  <2>2. toSender[i + 1].id = toSender[j + 1].id BY <1>1, <1>5
  <2>3. i + 1 = j + 1 BY <2>1, <2>2 DEF Sending, Replies
  <2> QED BY <1>1, <1>2, <2>3
<1> HIDE DEF u
<1>6. Coming .. upload.next - 1 \subseteq unanswered \ {u}
  BY <1>2, <1>3 DEF Sending
<1> QED BY <1>4, <1>5, <1>6 DEF u

\* The next packet takes the slot the answer has freed; the answer after the last
\* packet ends the upload.
LEMMA SlotsOnAck == ASSUME Inv, SlotInv, SenderOnAck PROVE SlotInv'
<1> DEFINE u == toSender[1].id
<1>1. /\ Running /\ Len(toSender) >= 1 /\ toSender[1] = Head(toSender)
      /\ toSender[1].re = "DATA_PACKET"
      /\ Len(toSender') = Len(toSender) - 1
      /\ \A i \in 1 .. Len(toSender') : i + 1 \in 1 .. Len(toSender) /\ toSender'[i] = toSender[i + 1]
      /\ UNCHANGED <<receiver, handler, keep, download, batch, done>>
  BY ReplyTaken DEF SenderOnAck
<1>2. /\ Handles("DATA_PACKET", {"STATUS_OK"}) /\ upload.live /\ UNCHANGED sender
      /\ \/ upload.open /\ SendPackets(1, {u})
         \/ /\ ~upload.open /\ upload' = NoUpload /\ unanswered' = unanswered \ {u}
            /\ UNCHANGED toReceiver
  BY <1>1, Zenon DEF SenderOnAck
<1>3. Attached' BY <1>1 DEF SlotInv, Attached
<1>4. OnlyData /\ Accounted /\ (InOrder \/ Over) BY <1>1 DEF Running, SlotInv
<1>5. NotAsked' /\ \A i \in 1 .. Len(toSender') : toSender'[i].re = "DATA_PACKET"
  BY <1>1, <1>4 DEF OnlyData, NotAsked
<1>6. done' <= Len(batch') => \A i \in 1 .. Len(batch') : batch'[i].kind = "DATA_PACKET"
  BY <1>1, <1>4 DEF OnlyData
<1>7. IsFiniteSet(unanswered) /\ Cardinality(unanswered) <= Slots /\ Slots \in Nat BY <1>4 DEF Accounted
<1> HIDE DEF u
<1>8. CASE upload.open /\ SendPackets(1, {u})
  <2>1. Sending BY <1>1, <1>8 DEF Running
  <2>2. 1 \in 1 .. Len(toSender) /\ Len(toSender) \in Nat /\ Coming \in Int /\ upload.next \in Nat
    BY <1>1, Lengths
  <2>3. u \in unanswered /\ u < Coming /\ u \in Int
    <3>1. u \in unanswered /\ u < Coming BY <2>1, <2>2 DEF Sending, Replies, u
    <3> QED BY <2>1, <3>1 DEF Sending
  <2>4. /\ \A i \in 1 .. Len(toSender') : /\ toSender'[i].id \in unanswered \ {u}
                                          /\ toSender'[i].id < Coming
        /\ \A i, j \in 1 .. Len(toSender') : toSender'[i].id = toSender'[j].id => i = j
        /\ Coming .. upload.next - 1 \subseteq unanswered \ {u}
    BY <1>2, <2>1, RepliesBehind DEF u
  <2>7. /\ unanswered \subseteq 0 .. upload.next - 1 /\ InOrder /\ upload.live /\ upload.next <= LastId
        /\ \A i \in 1 .. Len(toReceiver) : toReceiver[i].kind = "DATA_PACKET"
    BY <1>4, <2>1 DEF Sending, OnlyData
  <2>8. /\ InOrder' /\ (upload'.open => Sending')
        /\ \A i \in 1 .. Len(toReceiver') : toReceiver'[i].kind = "DATA_PACKET"
        /\ \A x : OnWire(x) => OnWire(x)'
        /\ \A x \in unanswered' : x \in unanswered \ {u} \/ OnWire(x)'
    BY <1>1, <1>8, <2>4, <2>7, SendGoesOn
  <2>9. Running' BY <1>5, <1>6, <2>8 DEF Running, OnlyData
  <2>10. \A x \in unanswered' : Located(x)'
    <3> SUFFICES ASSUME NEW x \in unanswered', ~OnWire(x)' PROVE Located(x)' BY DEF Located
    <3>1. x # u /\ Located(x) BY <1>4, <2>8 DEF Accounted
    <3> QED BY <1>2, <2>8, <3>1, LocatedBehind DEF u
  <2>11. IsFiniteSet(unanswered') /\ Cardinality(unanswered') <= Slots
    <3>1. unanswered' = (unanswered \ {u}) \cup {upload.next} BY <1>8, <2>7, SentOne DEF Inv
    <3> QED BY <1>7, <2>3, <3>1, RoomForOne
  <2> QED BY <1>3, <2>9, <2>10, <2>11 DEF SlotInv, Accounted
<1>9. CASE /\ ~upload.open /\ upload' = NoUpload /\ unanswered' = unanswered \ {u}
           /\ UNCHANGED toReceiver
  <2>1. ~upload'.open BY <1>9 DEF NoUpload
  <2> QED BY <1>2, <1>9, <2>1, ReplyAfterLast DEF u
<1> QED BY <1>2, <1>8, <1>9

\* A packet that is refused frees its slot and brings no other.
LEMMA SlotsOnNack == ASSUME Inv, SlotInv, SenderOnNack PROVE SlotInv'
<1> DEFINE u == toSender[1].id
<1>1. PICK statuses : Handles("DATA_PACKET", statuses) BY DEF SenderOnNack
<1>2. /\ Running /\ Len(toSender) >= 1 /\ toSender[1] = Head(toSender)
      /\ toSender[1].re = "DATA_PACKET" /\ Len(toSender') = Len(toSender) - 1
      /\ \A i \in 1 .. Len(toSender') : i + 1 \in 1 .. Len(toSender) /\ toSender'[i] = toSender[i + 1]
      /\ UNCHANGED <<receiver, handler, keep, download, batch, done>>
  BY <1>1, ReplyTaken
<1>3. /\ unanswered' = unanswered \ {u} /\ UNCHANGED <<upload, toReceiver>>
  BY <1>2 DEF SenderOnNack
<1>4. CASE ~upload.open BY <1>1, <1>3, <1>4, ReplyAfterLast
<1>5. CASE upload.open
  <2>1. Sending /\ Accounted /\ OnlyData BY <1>2, <1>5 DEF Running, SlotInv
  <2>2. /\ \A i \in 1 .. Len(toSender') : /\ toSender'[i].id \in unanswered \ {u}
                                          /\ toSender'[i].id < Coming
        /\ \A i, j \in 1 .. Len(toSender') : toSender'[i].id = toSender'[j].id => i = j
        /\ Coming .. upload.next - 1 \subseteq unanswered \ {u}
    BY <1>1, <2>1, RepliesBehind
  <2> HIDE DEF u
  <2>3. Left' = Left /\ Top' = Top BY <1>2, <1>3 DEF Left, Top
  <2>4. First' = First /\ Coming' = Coming BY <1>3, <2>3 DEF First, Coming
  <2>5. InOrder' BY <1>2, <1>3, <2>1, <2>4 DEF Sending, InOrder, WireInOrder, BatchInOrder, HandlerAt, Ready
  <2>6. Replies' BY <1>3, <2>2, <2>4 DEF Replies
  <2>7. Sending' BY <1>2, <1>3, <2>1, <2>2, <2>4, <2>5, <2>6 DEF Sending
  <2>8. OnlyData' BY <1>2, <1>3, <2>1 DEF OnlyData, NotAsked
  <2>9. Running' BY <2>5, <2>7, <2>8 DEF Running
  <2>10. \A x \in unanswered' : Located(x)'
    <3> SUFFICES ASSUME NEW x \in unanswered' PROVE Located(x)' OBVIOUS
    <3>1. x # toSender[1].id /\ Located(x) BY <1>3, <2>1 DEF Accounted, u
    <3>2. OnWire(x) => OnWire(x)' BY <1>3 DEF OnWire
    <3> QED BY <1>1, <3>1, <3>2, LocatedBehind
  <2>11. IsFiniteSet(unanswered') /\ Cardinality(unanswered') <= Slots
    BY <1>3, <2>1, FewerUnanswered DEF Accounted
  <2>12. Attached' BY <1>2 DEF SlotInv, Attached
  <2> QED BY <2>9, <2>10, <2>11, <2>12 DEF SlotInv, Accounted
<1> QED BY <1>4, <1>5

\* The loop of send_file takes a free slot.
LEMMA SlotsLoop == ASSUME Inv, SlotInv, SendFileLoop PROVE SlotInv'
<1>1. /\ sender = "pushing" /\ UNCHANGED <<receiver, handler, keep, download, batch, done, toSender>>
      /\ \/ /\ upload.live /\ upload.open /\ Cardinality(unanswered) < Slots
            /\ SendPackets(1, {})
         \/ sender' # "pushing" /\ UNCHANGED <<upload, unanswered, toReceiver>>
  BY DEF SendFileLoop, receiving, download
<1>2. Running BY <1>1 DEF SlotInv, Starting
<1>3. Attached' BY <1>1 DEF SlotInv, Attached
<1>4. OnlyData /\ Accounted BY <1>2 DEF Running, SlotInv
<1>5. CASE upload.open /\ Cardinality(unanswered) < Slots /\ SendPackets(1, {})
  <2>1. Sending BY <1>2, <1>5 DEF Running
  <2>2. unanswered \ {} = unanswered OBVIOUS
  <2>3. /\ \A i \in 1 .. Len(toSender') : /\ toSender'[i].id \in unanswered \ {}
                                          /\ toSender'[i].id < Coming
        /\ \A i, j \in 1 .. Len(toSender') : toSender'[i].id = toSender'[j].id => i = j
        /\ Coming .. upload.next - 1 \subseteq unanswered \ {}
        /\ unanswered \subseteq 0 .. upload.next - 1 /\ InOrder /\ upload.live /\ upload.next <= LastId
    BY <1>1, <2>1, <2>2 DEF Sending, Replies
  <2>4. \A i \in 1 .. Len(toReceiver) : toReceiver[i].kind = "DATA_PACKET" BY <1>4 DEF OnlyData
  <2>5. /\ InOrder' /\ (upload'.open => Sending')
        /\ \A i \in 1 .. Len(toReceiver') : toReceiver'[i].kind = "DATA_PACKET"
        /\ \A x : OnWire(x) => OnWire(x)'
        /\ \A x \in unanswered' : x \in unanswered \ {} \/ OnWire(x)'
    BY <1>1, <1>5, <2>3, <2>4, SendGoesOn
  <2>6. Running' BY <1>1, <1>4, <2>5 DEF Running, OnlyData, NotAsked
  <2>7. \A x \in unanswered' : Located(x)'
    <3> SUFFICES ASSUME NEW x \in unanswered', ~OnWire(x)' PROVE Located(x)' BY DEF Located
    <3>1. Located(x) BY <1>4, <2>5 DEF Accounted
    <3> QED BY <1>1, <2>5, <3>1 DEF Located, InReplies, InBatch
  <2>8. IsFiniteSet(unanswered') /\ Cardinality(unanswered') <= Slots
    <3>1. unanswered' = (unanswered \ {}) \cup {upload.next} BY <1>5, <2>3, SentOne DEF Inv
    <3>2. IsFiniteSet(unanswered) /\ Slots \in Nat BY <1>4 DEF Accounted
    <3> QED BY <1>5, <2>2, <3>1, <3>2, RoomForOne
  <2> QED BY <1>3, <2>6, <2>7, <2>8 DEF SlotInv, Accounted
<1>6. CASE sender' # "pushing" /\ UNCHANGED <<upload, unanswered, toReceiver>>
  BY <1>1, <1>6, SlotsUntouched DEF NotAsked
<1> QED BY <1>1, <1>5, <1>6

\* When the transfer is accepted the packets are in order: there is none.
LEMMA AcceptedInOrder ==
  ASSUME Inv, SlotInv, SenderOnAccepted
  PROVE  /\ InOrder /\ upload.live /\ upload.open /\ upload.next = 0 /\ upload.next <= LastId
         /\ unanswered = {} /\ Coming = 0
         /\ Heard /\ NotAsked /\ Ready(0) /\ Len(toReceiver) = 0
<1>1. /\ Starting /\ toSender # <<>> /\ toSender[1].re = "SEND_FILE"
      /\ toSender[1].status = "STATUS_OK" /\ Len(toSender) = 1
  BY AnswerTaken DEF SenderOnAccepted
<1>2. /\ upload.live /\ upload.open /\ upload.next = 0 /\ unanswered = {}
      /\ Heard /\ NotAsked /\ Ready(0)
  <2>1. ~Asked /\ ~Offered /\ ~Taken /\ ~Answered("UP_TO_DATE")
    BY <1>1 DEF Asked, Reply, Offered, Taken, Answered
  <2> QED BY <1>1, <2>1 DEF Starting, Unaccepted, Accepted
<1>3. Len(toReceiver) = 0 BY <1>2 DEF Heard
<1>4. Left = 0 /\ (\A i \in 1 .. Len(batch) : ~(i >= done)) /\ (done = 0 => batch = <<>>)
  <2>1. CASE batch = <<>>
    <3>1. done = 0 /\ Len(batch) = 0 BY <2>1, Lengths
    <3> QED BY <2>1, <3>1 DEF Left
  <2>2. CASE Len(batch) = 1 /\ done = 2 BY <2>2 DEF Left
  <2> QED BY <1>2, <2>1, <2>2 DEF Heard
<1>5. First = 0 /\ Coming = 0 BY <1>2, <1>3, <1>4 DEF First, Top, Coming
<1>6. WireInOrder BY <1>3 DEF WireInOrder
<1>7. BatchInOrder BY <1>4, Lengths DEF BatchInOrder
<1>8. HandlerAt(0) BY <1>2, <1>4, DownloadAssumption DEF HandlerAt
<1>9. InOrder BY <1>5, <1>6, <1>7, <1>8 DEF InOrder
<1>10. upload.next <= LastId BY <1>2, LastIdType
<1> QED BY <1>2, <1>3, <1>5, <1>9, <1>10

\* The first packets are sent.
LEMMA SlotsOnAccepted == ASSUME Inv, SlotInv, SenderOnAccepted PROVE SlotInv'
<1> DEFINE n == IF Burst < Slots THEN Burst ELSE Slots
<1>1. Handles("SEND_FILE", {"STATUS_OK"}) /\ SendPackets(n, {}) BY DEF SenderOnAccepted
<1>2. /\ Starting /\ toSender # <<>> /\ toSender' = <<>> /\ toSender[1].re = "SEND_FILE"
      /\ toSender[1].status = "STATUS_OK" /\ Len(toSender) = 1
      /\ UNCHANGED <<receiver, download, keep, batch, done>>
  BY <1>1, AnswerTaken
<1>3. /\ InOrder /\ upload.live /\ upload.open /\ upload.next = 0 /\ upload.next <= LastId
      /\ unanswered = {} /\ Coming = 0 /\ Heard /\ NotAsked /\ Ready(0) /\ Len(toReceiver) = 0
  BY AcceptedInOrder
<1>4. n \in Nat \ {0} /\ n <= Slots OBVIOUS
<1> HIDE DEF n
<1>5. handler' = handler /\ NotAsked' BY <1>2, <1>3 DEF download, NotAsked
<1>6. Len(toSender') = 0 BY <1>2
<1>11. Coming .. upload.next - 1 = {} /\ 0 .. upload.next - 1 = {} BY <1>3
<1>12. /\ InOrder' /\ (upload'.open => Sending')
       /\ \A i \in 1 .. Len(toReceiver') : toReceiver'[i].kind = "DATA_PACKET"
       /\ \A x \in unanswered' : x \in unanswered \ {} \/ OnWire(x)'
  BY <1>1, <1>2, <1>3, <1>4, <1>5, <1>6, <1>11, SendGoesOn
<1>13. done' <= Len(batch') => \A i \in 1 .. Len(batch') : batch'[i].kind = "DATA_PACKET"
  <2>1. CASE batch = <<>>
    <3>1. Len(batch') = 0 BY <1>2, <2>1
    <3> QED BY <3>1
  <2>2. CASE Len(batch) = 1 /\ done = 2 BY <1>2, <2>2
  <2> QED BY <1>3, <2>1, <2>2 DEF Heard
<1>14. Running' BY <1>5, <1>6, <1>12, <1>13 DEF Running, OnlyData
<1>15. \A x \in unanswered' : Located(x)' BY <1>3, <1>12 DEF Located
<1>16. IsFiniteSet(unanswered') /\ Cardinality(unanswered') <= Slots
  <2>1. PICK last \in Nat : last <= 0 + n - 1 /\ unanswered' = 0 .. last BY <1>1, <1>3, <1>4, SentFirst DEF Inv
  <2>2. IsFiniteSet(0 .. last) /\ Cardinality(0 .. last) = last + 1 - 0 BY <2>1, CountUpTo
  <2> QED BY <1>4, <2>1, <2>2
<1> QED BY <1>3, <1>5, <1>14, <1>15, <1>16 DEF SlotInv, Accounted, Attached

-----------------------------------------------------------------------------
\* One read: where each message of the wire is afterwards.
LEMMA ReadSplit ==
  ASSUME Inv, ReceiverPolls
  PROVE  \E n \in Nat \ {0} :
           /\ n <= Len(toReceiver)
           /\ Len(batch') = Len(batch) + n /\ Len(toReceiver') = Len(toReceiver) - n
           /\ \A i \in 1 .. Len(batch) : batch'[i] = batch[i]
           /\ \A i \in 1 .. n : batch'[Len(batch) + i] = toReceiver[i]
           /\ \A i \in 1 .. Len(toReceiver) - n : toReceiver'[i] = toReceiver[n + i]
<1>1. PICK n \in 1 .. MaxBatch :
        /\ n <= Len(toReceiver)
        /\ batch' = batch \o SubSeq(toReceiver, 1, n)
        /\ toReceiver' = SubSeq(toReceiver, n + 1, Len(toReceiver))
  BY DEF ReceiverPolls
<1>2. toReceiver \in Seq(Wired) /\ batch \in Seq(Wired) /\ Len(toReceiver) \in Nat /\ n \in Nat \ {0}
      /\ Len(batch) \in Nat
  BY DEF Inv, SenderType, ReceiverType
<1> DEFINE s == SubSeq(toReceiver, 1, n)
<1>3. s \in Seq(Wired) /\ Len(s) = n /\ \A i \in 1 .. n : s[i] = toReceiver[i]
  BY <1>1, <1>2, SubSeqProperties
<1>4. /\ Len(toReceiver') = Len(toReceiver) - n
      /\ \A i \in 1 .. Len(toReceiver) - n : toReceiver'[i] = toReceiver[n + i]
  <2> DEFINE m == n + 1
             l == Len(toReceiver)
  <2>1. m \in Int /\ l \in Int /\ m <= l + 1 /\ 1 <= m /\ l - m + 1 = l - n BY ONLY <1>1, <1>2
  <2> HIDE DEF m
  <2>2. /\ Len(SubSeq(toReceiver, m, l)) = IF m <= l THEN l - m + 1 ELSE 0
        /\ \A i \in 1 .. l - m + 1 : SubSeq(toReceiver, m, l)[i] = toReceiver[m + i - 1]
    BY <1>2, <2>1, SubSeqProperties
  <2> USE DEF m
  <2>3. toReceiver' = SubSeq(toReceiver, m, l) BY <1>1
  <2>4. \A i \in 1 .. l - n : m + i - 1 = n + i BY ONLY <1>2
  <2>5. (IF m <= l THEN l - m + 1 ELSE 0) = l - n BY ONLY <1>1, <1>2
  <2> HIDE DEF m
  <2> QED BY <2>1, <2>2, <2>3, <2>4, <2>5
<1> HIDE DEF s
<1>5. /\ Len(batch \o s) = Len(batch) + n
      /\ \A i \in 1 .. Len(batch) + n : (batch \o s)[i] = IF i <= Len(batch) THEN batch[i] ELSE s[i - Len(batch)]
  BY <1>2, <1>3, ConcatProperties
<1>6. \A i \in 1 .. Len(batch) : (batch \o s)[i] = batch[i] BY <1>2, <1>5
<1>7. \A i \in 1 .. n : (batch \o s)[Len(batch) + i] = s[i]
  <2> SUFFICES ASSUME NEW i \in 1 .. n PROVE (batch \o s)[Len(batch) + i] = s[i] OBVIOUS
  <2>1. /\ Len(batch) + i \in 1 .. Len(batch) + n /\ ~(Len(batch) + i <= Len(batch))
        /\ (Len(batch) + i) - Len(batch) = i
    BY ONLY <1>2
  <2> QED BY <1>5, <2>1
<1>8. batch' = batch \o s BY <1>1 DEF s
<1>9. /\ Len(batch') = Len(batch) + n
      /\ \A i \in 1 .. Len(batch) : batch'[i] = batch[i]
      /\ \A i \in 1 .. n : batch'[Len(batch) + i] = toReceiver[i]
  BY <1>3, <1>5, <1>6, <1>7, <1>8
<1> QED BY <1>1, <1>2, <1>4, <1>9, Zenon

\* A packet that was on the wire is still there or has been read.
LEMMA ReadLocated ==
  ASSUME Inv, ReceiverPolls, NEW u, Located(u)
  PROVE  Located(u)'
<1>1. PICK n \in Nat \ {0} :
           /\ n <= Len(toReceiver)
           /\ Len(batch') = Len(batch) + n /\ Len(toReceiver') = Len(toReceiver) - n
           /\ \A i \in 1 .. Len(batch) : batch'[i] = batch[i]
           /\ \A i \in 1 .. n : batch'[Len(batch) + i] = toReceiver[i]
           /\ \A i \in 1 .. Len(toReceiver) - n : toReceiver'[i] = toReceiver[n + i]
  BY ReadSplit, Zenon
<1>2. Len(toReceiver) \in Nat /\ Len(batch) \in Nat BY Lengths
<1>3. toSender' = toSender /\ done' = 1 BY DEF ReceiverPolls
<1>4. InReplies(u) => InReplies(u)' BY <1>3 DEF InReplies
<1>5. ASSUME NEW i \in 1 .. Len(toReceiver), toReceiver[i].kind = "DATA_PACKET", toReceiver[i].packet.id = u
      PROVE  InBatch(u)' \/ OnWire(u)'
  <2>1. CASE i <= n
    <3>1. i \in 1 .. n /\ Len(batch) + i \in 1 .. Len(batch) + n /\ Len(batch) + i >= 1
      BY ONLY <1>2, <2>1
    <3>2. batch'[Len(batch) + i] = toReceiver[i] BY <1>1, <3>1
    <3> QED BY <1>1, <1>3, <1>5, <3>1, <3>2 DEF InBatch
  <2>2. CASE ~(i <= n)
    <3>1. i - n \in 1 .. Len(toReceiver) - n /\ n + (i - n) = i BY ONLY <1>2, <2>2
    <3>2. toReceiver'[i - n] = toReceiver[i] BY <1>1, <3>1
    <3> QED BY <1>1, <1>5, <3>1, <3>2 DEF OnWire
  <2> QED BY <2>1, <2>2
<1>6. ASSUME NEW i \in 1 .. Len(batch), batch[i].kind = "DATA_PACKET", batch[i].packet.id = u
      PROVE  InBatch(u)'
  <2>1. i \in 1 .. Len(batch') /\ i >= 1 BY <1>1, <1>2
  <2> QED BY <1>1, <1>3, <1>6, <2>1 DEF InBatch
<1> QED BY <1>4, <1>5, <1>6 DEF Located, OnWire, InBatch

LEMMA SlotsReceiverPolls == ASSUME Inv, SlotInv, ReceiverPolls PROVE SlotInv'
<1>1. PICK n \in Nat \ {0} :
           /\ n <= Len(toReceiver)
           /\ Len(batch') = Len(batch) + n /\ Len(toReceiver') = Len(toReceiver) - n
           /\ \A i \in 1 .. Len(batch) : batch'[i] = batch[i]
           /\ \A i \in 1 .. n : batch'[Len(batch) + i] = toReceiver[i]
           /\ \A i \in 1 .. Len(toReceiver) - n : toReceiver'[i] = toReceiver[n + i]
  BY ReadSplit, Zenon
<1>2. /\ Len(toReceiver) \in Nat /\ Len(batch) \in Nat /\ First \in Int /\ Top \in Nat
      /\ done = 0 /\ done' = 1 /\ toReceiver # <<>>
      /\ UNCHANGED <<upload, unanswered, sender, receiver, handler, keep, toSender>>
  BY Lengths DEF ReceiverPolls, sending, download
<1>3. Attached' BY <1>2 DEF SlotInv, Attached
<1>4. Accounted'
  <2>1. \A u \in unanswered' : Located(u)' BY <1>2, ReadLocated DEF SlotInv, Accounted
  <2> QED BY <1>2, <2>1 DEF SlotInv, Accounted
<1>5. CASE Starting
  <2>1. ~Asked /\ ~Taken /\ ~Heard BY <1>2 DEF Asked, Taken, Heard
  <2>2. Offered /\ ~handler.live /\ NotAsked BY <1>5, <2>1 DEF Starting, Unaccepted, Accepted
  <2>3. Taken' BY <2>2, ReadType
  <2>4. Unaccepted' BY <1>2, <2>2, <2>3 DEF Unaccepted, NotAsked
  <2>5. Starting' BY <1>2, <1>5, <2>1, <2>4 DEF Starting
  <2> QED BY <1>3, <1>4, <2>5 DEF SlotInv
<1>6. CASE Running
  <2>1. OnlyData'
    <3>1. \A i \in 1 .. Len(batch') : batch'[i].kind = "DATA_PACKET"
      <4> SUFFICES ASSUME NEW i \in 1 .. Len(batch') PROVE batch'[i].kind = "DATA_PACKET" OBVIOUS
      <4>1. CASE i <= Len(batch)
        <5>1. i \in 1 .. Len(batch) /\ 0 <= Len(batch) BY <1>2, <4>1
        <5> QED BY <1>1, <1>2, <1>6, <5>1 DEF Running, OnlyData
      <4>2. CASE ~(i <= Len(batch))
        <5>1. i \in 1 .. Len(batch) + n BY <1>1
        <5>2. i - Len(batch) \in 1 .. n /\ Len(batch) + (i - Len(batch)) = i BY ONLY <1>2, <4>2, <5>1
        <5>3. i - Len(batch) \in 1 .. Len(toReceiver) BY <1>1, <1>2, <5>2
        <5>4. batch'[i] = toReceiver[i - Len(batch)] BY <1>1, <5>2
        <5> QED BY <1>6, <5>3, <5>4 DEF Running, OnlyData
      <4> QED BY <4>1, <4>2
    <3>2. \A i \in 1 .. Len(toReceiver') : toReceiver'[i].kind = "DATA_PACKET"
      <4> SUFFICES ASSUME NEW i \in 1 .. Len(toReceiver') PROVE toReceiver'[i].kind = "DATA_PACKET" OBVIOUS
      <4>1. i \in 1 .. Len(toReceiver) - n BY <1>1
      <4>2. n + i \in 1 .. Len(toReceiver) BY ONLY <1>2, <4>1
      <4>3. toReceiver'[i] = toReceiver[n + i] BY <1>1, <4>1
      <4> QED BY <1>6, <4>2, <4>3 DEF Running, OnlyData
    <3> QED BY <1>2, <1>6, <3>1, <3>2 DEF Running, OnlyData, NotAsked
  <2>2. Over => Over' BY <1>2 DEF Over
  <2>3. CASE batch # <<>> \/ ~InOrder
    <3>1. ~upload.open
      <4> SUFFICES ASSUME upload.open PROVE FALSE OBVIOUS
      <4>1. Sending BY <1>6 DEF Running
      <4> QED BY <1>2, <2>3, <4>1 DEF Sending
    <3>2. ~handler.open
      <4>1. CASE Over BY <4>1 DEF Over
      <4>2. CASE InOrder
        <5>1. HandlerAt(Coming) /\ Coming \in Int BY <4>2, Lengths DEF InOrder
        <5> QED BY <1>2, <2>3, <4>2, <5>1, DownloadAssumption DEF HandlerAt
      <4> QED BY <1>6, <4>1, <4>2 DEF Running
    <3>3. Over' BY <1>2, <3>1, <3>2 DEF Over
    <3>4. Running' BY <1>2, <2>1, <3>1, <3>3 DEF Running
    <3> QED BY <1>3, <1>4, <3>4 DEF SlotInv
  <2>4. CASE batch = <<>> /\ InOrder
    <3>1. Len(batch) = 0 /\ Left = 0 BY <1>2, <2>4 DEF Left
    <3>2. Len(batch') = n BY <1>1, <3>1
    <3>3. Left' = n BY <1>2, <3>2 DEF Left
    <3>4. Top' = Top BY <1>2 DEF Top
    <3>5. First' = First + n BY <1>1, <1>2, <3>4 DEF First
    <3>6. Coming' = Coming BY <1>2, <3>1, <3>3, <3>5 DEF Coming
    <3>7. WireInOrder'
      <4> SUFFICES ASSUME NEW i \in 1 .. Len(toReceiver')
                   PROVE  toReceiver'[i].packet.id = First' + i - 1
        BY DEF WireInOrder
      <4>1. i \in 1 .. Len(toReceiver) - n BY <1>1
      <4>2. n + i \in 1 .. Len(toReceiver) BY ONLY <1>2, <4>1
      <4>3. toReceiver'[i].packet.id = First + (n + i) - 1 BY <1>1, <2>4, <4>1, <4>2 DEF InOrder, WireInOrder
      <4>4. First + (n + i) - 1 = (First + n) + i - 1 BY ONLY <1>2, <4>1
      <4> QED BY <3>5, <4>3, <4>4
    <3>8. BatchInOrder'
      <4> SUFFICES ASSUME NEW i \in 1 .. Len(batch')
                   PROVE  batch'[i].packet.id = First' + i - 1 - Len(batch')
        BY <1>2 DEF BatchInOrder
      <4>1. i \in 1 .. n BY <3>2
      <4>2. i \in 1 .. Len(toReceiver) BY <1>1, <1>2, <4>1
      <4>3. 0 + i = i BY <4>1
      <4>4. batch'[i] = toReceiver[i] BY <1>1, <3>1, <4>1, <4>3
      <4>5. toReceiver[i].packet.id = First + i - 1 BY <2>4, <4>2 DEF InOrder, WireInOrder
      <4>6. First + i - 1 = (First + n) + i - 1 - n BY ONLY <1>2, <4>1
      <4> QED BY <3>2, <3>5, <4>4, <4>5, <4>6
    <3>9. InOrder'
      <4>1. HandlerAt(Coming)' BY <1>2, <2>4, <3>6 DEF InOrder, HandlerAt, Ready
      <4> QED BY <2>4, <3>6, <3>7, <3>8, <4>1 DEF InOrder
    <3>10. Sending => Sending' BY <1>2, <3>6, <3>9 DEF Sending, Replies
    <3>11. Running' BY <1>2, <1>6, <2>1, <3>9, <3>10 DEF Running
    <3> QED BY <1>3, <1>4, <3>11 DEF SlotInv
  <2> QED BY <2>3, <2>4
<1> QED BY <1>5, <1>6 DEF SlotInv

-----------------------------------------------------------------------------
\* A poll that is at a data packet: the transfer runs, and in order the packet is
\* the one that comes.
LEMMA AtData ==
  ASSUME Inv, SlotInv, Polling, batch[done].kind = "DATA_PACKET"
  PROVE  /\ Running /\ done \in 1 .. Len(batch) /\ batch # <<>>
         /\ batch[done].packet.id \in Nat
         /\ \E i \in Nat, v \in Versions : batch[done].packet = Packet(i, v)
         /\ Left = Len(batch) + 1 - done /\ Left >= 1
         /\ InOrder => batch[done].packet.id = Coming
         /\ upload.open => Coming < upload.next /\ Coming < LastId /\ Coming < Packets /\ Coming \in Nat
<1>1. /\ done \in 1 .. Len(batch) /\ Len(batch) \in Nat /\ batch[done] \in Wired /\ batch # <<>>
      /\ First \in Int /\ Len(toReceiver) \in Nat /\ upload.next \in Nat
  BY AtMessage, Lengths DEF Polling
<1>2. ~Starting
  <2>1. ~Asked /\ ~Offered /\ ~Heard BY <1>1 DEF Asked, Offered, Heard
  <2>2. ~Taken BY DEF Taken
  <2> QED BY <2>1, <2>2 DEF Starting, Unaccepted, Accepted
<1>3. Left = Len(batch) + 1 - done /\ Left >= 1 /\ Left \in Nat BY <1>1 DEF Left
<1>4. ASSUME InOrder PROVE batch[done].packet.id = Coming
  <2>1. batch[done].packet.id = First + done - 1 - Len(batch) BY <1>1, <1>4 DEF InOrder, BatchInOrder
  <2>2. First + done - 1 - Len(batch) = First - (Len(batch) + 1 - done) BY ONLY <1>1
  <2> QED BY <1>3, <2>1, <2>2 DEF Coming
<1>5. Running BY <1>2 DEF SlotInv
<1>6. ASSUME upload.open PROVE Coming < upload.next /\ Coming < LastId /\ Coming < Packets /\ Coming \in Nat
  <2>1. Sending BY <1>5, <1>6 DEF Running
  <2>2. Coming = upload.next - Len(toReceiver) - Left BY <1>6 DEF Coming, First, Top
  <2>3. upload.next <= LastId /\ Coming >= 0 BY <2>1 DEF Sending, InOrder
  <2>4. LastId <= Packets /\ LastId \in Nat /\ Packets \in Nat BY LastIdType, DownloadAssumption
  <2>5. /\ Len(toReceiver) \in Nat /\ upload.next \in Nat /\ Left \in Nat /\ Left >= 1
        /\ Coming \in Int
    BY <1>1, <1>3, Lengths
  <2> QED BY ONLY <2>2, <2>3, <2>4, <2>5
<1>7. batch[done].packet.id \in Nat BY <1>1, DataId
<1>8. \E i \in Nat, v \in Versions : batch[done].packet = Packet(i, v) BY <1>1, WireType
<1> QED BY <1>1, <1>3, <1>4, <1>5, <1>6, <1>7, <1>8

\* A reply goes behind those on their way.
LEMMA Replied ==
  ASSUME Inv, NEW x, toSender' = Append(toSender, x)
  PROVE  /\ Len(toSender') = Len(toSender) + 1 /\ toSender'[Len(toSender) + 1] = x
         /\ \A i \in 1 .. Len(toSender) : toSender'[i] = toSender[i]
<1>1. PICK A : toSender \in Seq(A) BY DEF Inv, SenderType
<1> QED BY <1>1

\* What handling a data packet leaves as it should be, whatever the reply says.
LEMMA DataHandled ==
  ASSUME Inv, SlotInv, Polling, batch[done].kind = "DATA_PACKET", NEW s,
         toSender' = Append(toSender, Reply("DATA_PACKET", batch[done].packet.id, s)),
         done' = done + 1, UNCHANGED <<upload, unanswered, receiver, batch, toReceiver>>
  PROVE  /\ Accounted' /\ OnlyData' /\ First' = First /\ Coming' = Coming + 1
         /\ InOrder => WireInOrder' /\ BatchInOrder' /\ Coming' >= 0
<1> DEFINE x == Reply("DATA_PACKET", batch[done].packet.id, s)
<1>1. /\ Running /\ done \in 1 .. Len(batch) /\ Left = Len(batch) + 1 - done BY AtData
<1>2. /\ Len(toSender') = Len(toSender) + 1 /\ toSender'[Len(toSender) + 1] = x
      /\ \A i \in 1 .. Len(toSender) : toSender'[i] = toSender[i]
  BY Replied
<1>3. x.re = "DATA_PACKET" /\ x.id = batch[done].packet.id BY DEF Reply
<1> HIDE DEF x
<1>4. Len(toSender) \in Nat /\ Len(batch) \in Nat /\ First \in Int /\ Coming \in Int BY Lengths
<1>5. Len(toSender) + 1 \in 1 .. Len(toSender') /\ \A i \in 1 .. Len(toSender) : i \in 1 .. Len(toSender')
  BY <1>2, <1>4
<1>6. OnlyData'
  <2>1. ASSUME NEW i \in 1 .. Len(toSender') PROVE toSender'[i].re = "DATA_PACKET"
    <3>1. i \in 1 .. Len(toSender) \/ i = Len(toSender) + 1 BY <1>2, <1>4
    <3> QED BY <1>1, <1>2, <1>3, <3>1 DEF Running, OnlyData
  <2>2. done' <= Len(batch') => \A i \in 1 .. Len(batch') : batch'[i].kind = "DATA_PACKET"
    BY <1>1 DEF Running, OnlyData
  <2> QED BY <1>1, <2>1, <2>2 DEF Running, OnlyData, NotAsked
<1>7. ASSUME NEW u, Located(u) PROVE Located(u)'
  <2>1. InReplies(u) => InReplies(u)' BY <1>2, <1>5 DEF InReplies
  <2>2. OnWire(u) => OnWire(u)' BY DEF OnWire
  <2>3. ASSUME NEW i \in 1 .. Len(batch), i >= done, batch[i].kind = "DATA_PACKET", batch[i].packet.id = u
        PROVE  InBatch(u)' \/ InReplies(u)'
    <3>1. CASE i = done BY <1>2, <1>3, <1>5, <2>3, <3>1 DEF InReplies
    <3>2. CASE i # done
      <4>1. i >= done + 1 BY <1>1, <1>4, <2>3, <3>2
      <4> QED BY <2>3, <4>1 DEF InBatch
    <3> QED BY <3>1, <3>2
  <2> QED BY <1>7, <2>1, <2>2, <2>3 DEF Located, InBatch
<1>8. Accounted' BY <1>7 DEF SlotInv, Accounted
<1>9. Left' = Left - 1 BY <1>1, <1>4 DEF Left
<1>10. Top' = Top BY DEF Top
<1>11. First' = First BY <1>10 DEF First
<1>12. Coming' = Coming + 1
  <2>1. Coming' = First - (Left - 1) BY <1>9, <1>11 DEF Coming
  <2>2. First - (Left - 1) = (First - Left) + 1 BY <1>1, <1>4
  <2> QED BY <2>1, <2>2 DEF Coming
<1>13. ASSUME InOrder PROVE WireInOrder' /\ BatchInOrder' /\ Coming' >= 0
  <2>1. WireInOrder' BY <1>11, <1>13 DEF InOrder, WireInOrder
  <2>2. \A i \in done + 1 .. Len(batch) : i \in done .. Len(batch) BY <1>1
  <2>3. BatchInOrder' BY <1>1, <1>11, <1>13, <2>2 DEF InOrder, BatchInOrder
  <2> QED BY <1>4, <1>12, <1>13, <2>1, <2>3 DEF InOrder
<1> QED BY <1>6, <1>8, <1>11, <1>12, <1>13

\* A closed stream stays closed, and in order the packet that comes is taken.
LEMMA DataTaken ==
  ASSUME Inv, SlotInv, Polling, batch[done].kind = "DATA_PACKET", handler.live
  PROVE  LET out == ReceivePacket(batch[done].packet)
         IN  /\ out.handler.live = handler.live
             /\ ~handler.open => ~out.handler.open
             /\ out.thrown # "nothing" => ~out.handler.open \/ ~InOrder
             /\ InOrder /\ Coming < Packets =>
                  /\ out.handler.expected = Coming + 1 /\ out.handler.missing = {}
                  /\ Coming + 1 < Packets => out.handler.open = handler.open /\ out.thrown = "nothing"
                  /\ Coming + 1 >= Packets => ~out.handler.open
             /\ InOrder /\ Coming >= Packets => ~out.handler.open
<1> DEFINE out == ReceivePacket(batch[done].packet)
<1>1. PICK i \in Nat, v \in Versions : batch[done].packet = Packet(i, v) BY AtData
<1>2. batch[done].packet.id = i BY <1>1, PacketType
<1>3. handler \in Handlers BY DEF Inv, ReceiverType
<1>4. out.handler.live = handler.live BY DataOutcome DEF Sound, SameTransfer
<1>5. ~handler.open => ~out.handler.open BY <1>1, <1>3, ClosedStays
<1>6. Coming \in Int /\ Packets \in Nat BY Lengths, DownloadAssumption
<1>7. ASSUME InOrder, Coming < Packets
      PROVE  /\ out.handler.expected = Coming + 1 /\ out.handler.missing = {}
             /\ Coming + 1 < Packets => out.handler.open = handler.open /\ out.thrown = "nothing"
             /\ Coming + 1 >= Packets => ~out.handler.open
  <2>1. i = Coming BY <1>2, <1>7, AtData
  <2>2. handler.expected = i /\ handler.missing = {}
    BY <1>7, <2>1 DEF InOrder, HandlerAt, Ready
  <2>3. /\ out.handler.expected = i + 1 /\ out.handler.missing = {}
        /\ i + 1 < Packets => out.handler.open = handler.open /\ out.thrown = "nothing"
        /\ i + 1 = Packets => ~out.handler.open
    <3> DEFINE next == ReceivePacket(Packet(i, v))
    <3>1. handler.expected = i /\ handler.missing = {} BY <2>2
    <3>2. /\ next.handler.expected = i + 1 /\ next.handler.missing = {}
          /\ i + 1 < Packets => next.handler.open = handler.open /\ next.thrown = "nothing"
          /\ i + 1 = Packets => ~next.handler.open
      BY <1>3, <3>1, NextPacket
    <3>3. out = next BY <1>1
    <3> HIDE DEF next, out
    <3> QED BY <3>2, <3>3
  <2> HIDE DEF out
  <2>4. i + 1 >= Packets => i + 1 = Packets BY <1>6, <1>7, <2>1
  <2> QED BY <2>1, <2>2, <2>3, <2>4
<1> HIDE DEF out
<1>8. ASSUME InOrder, Coming >= Packets PROVE ~out.handler.open
  BY <1>5, <1>8 DEF InOrder, HandlerAt
<1>9. ASSUME InOrder, out.thrown # "nothing" PROVE ~out.handler.open
  BY <1>6, <1>7, <1>8, <1>9
<1> QED BY <1>4, <1>5, <1>7, <1>8, <1>9 DEF out

\* While there are packets to send, the reply is the only one to its packet.
LEMMA DataSending ==
  ASSUME Inv, SlotInv, Polling, batch[done].kind = "DATA_PACKET", NEW s,
         toSender' = Append(toSender, Reply("DATA_PACKET", batch[done].packet.id, s)),
         done' = done + 1, UNCHANGED <<upload, unanswered, receiver, batch, toReceiver>>,
         upload.open, InOrder => InOrder'
  PROVE  Sending'
<1> DEFINE id == batch[done].packet.id
<1>5. Coming' = Coming + 1 BY DataHandled
<1>6. /\ Running /\ id \in Nat /\ done \in 1 .. Len(batch) /\ Len(batch) \in Nat /\ Coming \in Int
      /\ InOrder => id = Coming
      /\ Coming < upload.next
  BY AtData, Lengths
<1> HIDE DEF id
<1>7. Sending'
  <2>1. Sending /\ Coming < upload.next BY <1>6 DEF Running
  <2>2. InOrder /\ id = Coming BY <1>6, <2>1 DEF Sending
  <2>3. upload.next \in Nat /\ Len(toSender) \in Nat BY Lengths
  <2>4. id \in unanswered
    <3>1. Coming \in Coming .. upload.next - 1 BY ONLY <1>6, <2>1, <2>3
    <3> QED BY <2>1, <2>2, <3>1 DEF Sending
  <2>5. /\ Len(toSender') = Len(toSender) + 1
        /\ toSender'[Len(toSender) + 1] = Reply("DATA_PACKET", id, s)
        /\ \A i \in 1 .. Len(toSender) : toSender'[i] = toSender[i]
    BY Replied DEF id
  <2>6. toSender'[Len(toSender) + 1].id = id
    BY <2>5 DEF Reply
  <2>7. \A i \in 1 .. Len(toSender') : i \in 1 .. Len(toSender) \/ i = Len(toSender) + 1
    BY <2>3, <2>5
  <2>8. unanswered \subseteq Int BY <2>1 DEF Sending
  <2>9. Replies'
    <3>1. ASSUME NEW i \in 1 .. Len(toSender')
          PROVE  toSender'[i].id \in unanswered' /\ toSender'[i].id < Coming'
      <4>1. CASE i \in 1 .. Len(toSender)
        <5>1. toSender[i].id \in unanswered /\ toSender[i].id < Coming
          BY <2>1, <4>1 DEF Sending, Replies
        <5>2. toSender'[i] = toSender[i] /\ unanswered' = unanswered BY <2>5, <4>1
        <5>3. toSender[i].id \in Int BY <2>8, <5>1
        <5>4. toSender[i].id < Coming + 1 BY ONLY <1>6, <5>1, <5>3
        <5> QED BY <1>5, <5>1, <5>2, <5>4
      <4>2. CASE i = Len(toSender) + 1
        <5>1. toSender'[i].id = id BY <2>6, <4>2
        <5>2. id < Coming' BY <1>5, <1>6, <2>2
        <5> QED BY <2>4, <5>1, <5>2
      <4> QED BY <2>7, <4>1, <4>2
    <3>2. ASSUME NEW i \in 1 .. Len(toSender'), NEW j \in 1 .. Len(toSender'),
                 toSender'[i].id = toSender'[j].id
          PROVE  i = j
      <4>1. \A k \in 1 .. Len(toSender) : toSender'[k] = toSender[k] /\ toSender[k].id # id
        <5> SUFFICES ASSUME NEW k \in 1 .. Len(toSender) PROVE toSender[k].id # id BY <2>5
        <5>1. toSender[k].id \in unanswered /\ toSender[k].id < Coming BY <2>1 DEF Sending, Replies
        <5> QED BY <1>6, <2>2, <2>8, <5>1
      <4>2. CASE i \in 1 .. Len(toSender) /\ j \in 1 .. Len(toSender)
        <5>1. toSender[i].id = toSender[j].id BY <3>2, <4>1, <4>2
        <5> QED BY <2>1, <4>2, <5>1 DEF Sending, Replies
      <4>3. CASE i = Len(toSender) + 1 \/ j = Len(toSender) + 1
        BY <2>6, <2>7, <3>2, <4>1, <4>3
      <4> QED BY <2>7, <4>2, <4>3
    <3> QED BY <3>1, <3>2 DEF Replies
  <2>10. Coming' .. upload'.next - 1 \subseteq unanswered'
    <3>1. (Coming + 1) .. upload.next - 1 \subseteq Coming .. upload.next - 1 BY ONLY <1>6, <2>3
    <3> QED BY <1>5, <2>1, <3>1 DEF Sending
  <2>11. done' # 0 BY <1>6
  <2> QED BY <2>1, <2>2, <2>9, <2>10, <2>11 DEF Sending
<1> QED BY <1>7

LEMMA SlotsOnData == ASSUME Inv, SlotInv, ReceiverOnData PROVE SlotInv'
<1> DEFINE out == ReceivePacket(batch[done].packet)
           id  == batch[done].packet.id
<1>1. /\ Polling /\ batch[done].kind = "DATA_PACKET" /\ handler.live
      /\ handler' = IF Finished(out.handler) /\ ~keep THEN NoHandler ELSE out.handler
      /\ toSender' = Append(toSender, Reply("DATA_PACKET", id, "STATUS_OK"))
      /\ done' = done + 1 /\ UNCHANGED <<upload, unanswered, receiver, batch, toReceiver>>
  BY DEF ReceiverOnData, sending
<1>2. /\ out.handler.live = handler.live
      /\ ~handler.open => ~out.handler.open
      /\ InOrder /\ Coming < Packets =>
           /\ out.handler.expected = Coming + 1 /\ out.handler.missing = {}
           /\ Coming + 1 < Packets => out.handler.open = handler.open
           /\ Coming + 1 >= Packets => ~out.handler.open
      /\ InOrder /\ Coming >= Packets => ~out.handler.open
  BY <1>1, DataTaken
<1> HIDE DEF out
<1>3. (handler'.open => handler' = out.handler) /\ (out.handler.open => handler' = out.handler)
  BY <1>1 DEF Finished, NoHandler
<1>4. Attached' BY <1>1, <1>2, <1>3 DEF Attached
<1>5. /\ Accounted' /\ OnlyData' /\ First' = First /\ Coming' = Coming + 1
      /\ InOrder => WireInOrder' /\ BatchInOrder' /\ Coming' >= 0
  BY <1>1, DataHandled
<1>6. /\ Running /\ id \in Nat /\ done \in 1 .. Len(batch) /\ Len(batch) \in Nat /\ Coming \in Int
      /\ Packets \in Nat
      /\ InOrder => id = Coming
      /\ upload.open => Coming < upload.next
  BY <1>1, AtData, Lengths, DownloadAssumption
<1> HIDE DEF id
<1>7. InOrder => InOrder'
  <2> SUFFICES ASSUME InOrder PROVE HandlerAt(Coming)' BY <1>5 DEF InOrder
  <2>1. done' # 0 BY <1>1, <1>6
  <2>2. ASSUME Coming + 1 < Packets PROVE Ready(Coming)'
    <3>1. Coming < Packets BY <1>6, <2>2
    <3>2. CASE handler.open BY <1>1, <1>2, <1>3, <1>5, <2>2, <3>1, <3>2 DEF Ready
    <3>3. CASE ~handler.open
      <4>1. ~keep BY <1>1, <3>1, <3>3 DEF InOrder, HandlerAt, Ready
      <4>2. handler' = NoHandler BY <1>1, <1>2, <3>3, <4>1 DEF Finished
      <4> QED BY <4>2 DEF Ready, NoHandler
    <3> QED BY <3>2, <3>3
  <2>3. ASSUME Coming + 1 >= Packets PROVE ~handler'.open
    <3>1. Coming < Packets \/ Coming >= Packets BY <1>6
    <3> QED BY <1>2, <1>3, <2>3, <3>1
  <2> QED BY <1>5, <1>6, <2>1, <2>2, <2>3 DEF HandlerAt
<1>8. Over => Over' BY <1>1, <1>2, <1>3 DEF Over
<1>9. upload'.open => Sending' BY <1>1, <1>7, DataSending DEF id
<1>10. Running' BY <1>5, <1>6, <1>7, <1>8, <1>9 DEF Running
<1> QED BY <1>4, <1>5, <1>10 DEF SlotInv

\* A packet of a transfer that is not there: the file of its download did not open,
\* or the last packet was sent.
LEMMA SlotsOnStray == ASSUME Inv, SlotInv, ReceiverOnStray PROVE SlotInv'
<1>1. /\ Polling /\ batch[done].kind = "DATA_PACKET" /\ ~handler.live /\ handler' = handler
      /\ toSender' = Append(toSender, Reply("DATA_PACKET", batch[done].packet.id, "INVALID_REQUEST_ID"))
      /\ done' = done + 1 /\ UNCHANGED <<upload, unanswered, receiver, batch, toReceiver>>
  BY DEF ReceiverOnStray, sending, download
<1>2. /\ Accounted' /\ OnlyData'
      /\ InOrder => WireInOrder' /\ BatchInOrder' /\ Coming' >= 0
  BY <1>1, DataHandled
<1>3. ~handler.open BY <1>1 DEF SlotInv, Attached
<1>4. InOrder => InOrder'
  <2> SUFFICES ASSUME InOrder PROVE HandlerAt(Coming)' BY <1>2 DEF InOrder
  <2>1. Ready(Coming)' BY <1>1, <1>3 DEF Ready
  <2>2. done' # 0 BY <1>1 DEF Polling
  <2> QED BY <1>1, <1>3, <2>1, <2>2 DEF HandlerAt
<1>5. Over => Over' BY <1>1 DEF Over
<1>6. upload.open => Sending' BY <1>1, <1>4, DataSending
<1>7. Running' BY <1>1, <1>2, <1>4, <1>5, <1>6, AtData DEF Running
<1> QED BY <1>1, <1>2, <1>3, <1>7 DEF SlotInv, Attached

\* An exception puts the poll back to its first message, and only the last packets
\* raise one: the handler is closed, and no packet is left to send but an empty one.
LEMMA SlotsThrows == ASSUME Inv, SlotInv, ReceiverThrows PROVE SlotInv'
<1> DEFINE out == ReceivePacket(batch[done].packet)
<1>1. /\ Polling /\ batch[done].kind = "DATA_PACKET" /\ handler.live
      /\ out.thrown # "nothing" /\ handler' = out.handler
      /\ done' = 0 /\ receiver' = "idle"
      /\ UNCHANGED <<upload, unanswered, batch, toReceiver, toSender>>
  BY DEF ReceiverThrows, sending
<1>2. /\ out.handler.live = handler.live
      /\ ~handler.open => ~out.handler.open
      /\ out.thrown # "nothing" => ~out.handler.open \/ ~InOrder
      /\ InOrder /\ Coming < Packets => (Coming + 1 < Packets => out.thrown = "nothing")
  BY <1>1, DataTaken
<1> HIDE DEF out
<1>3. /\ Running /\ done \in 1 .. Len(batch) /\ Left = Len(batch) + 1 - done
      /\ upload.open => Coming < upload.next /\ Coming < Packets /\ Coming \in Nat
  BY <1>1, AtData
<1>4. Len(batch) \in Nat /\ Len(toReceiver) \in Nat /\ upload.next \in Nat /\ Packets \in Nat
  BY Lengths, DownloadAssumption
<1>5. ~handler'.open
  <2>1. CASE Over BY <1>1, <1>2, <2>1 DEF Over
  <2>2. CASE InOrder BY <1>1, <1>2, <2>2
  <2> QED BY <1>3, <2>1, <2>2 DEF Running
<1>6. OnlyData'
  <2>1. \A i \in 1 .. Len(batch) : batch[i].kind = "DATA_PACKET"
    <3>1. done <= Len(batch) BY <1>3, <1>4
    <3> QED BY <1>3, <3>1 DEF Running, OnlyData
  <2> QED BY <1>1, <1>3, <2>1 DEF Running, OnlyData, NotAsked
<1>7. Accounted'
  <2>1. \A i \in 1 .. Len(batch) : i >= 0 BY <1>4
  <2>2. \A u : InBatch(u) => InBatch(u)' BY <1>1, <2>1 DEF InBatch
  <2>3. \A u : Located(u) => Located(u)' BY <1>1, <2>2 DEF Located, InReplies, OnWire
  <2> QED BY <1>1, <2>3 DEF SlotInv, Accounted
<1>8. CASE ~upload.open
  <2>1. Over' BY <1>1, <1>5, <1>8 DEF Over
  <2>2. Running' BY <1>1, <1>6, <1>8, <2>1 DEF Running
  <2> QED BY <1>5, <1>7, <2>2 DEF SlotInv, Attached
<1>9. CASE upload.open
  <2>1. Sending /\ Coming < upload.next /\ Coming < Packets /\ Coming \in Nat BY <1>3, <1>9 DEF Running
  <2>2. Coming = upload.next - Len(toReceiver) - Left BY <1>9 DEF Coming, First, Top
  <2>3. Left \in Nat /\ Left >= 1 BY <1>3, <1>4
  <2>4. Coming + 1 >= Packets
    <3>1. ~(Coming + 1 < Packets) BY <1>1, <1>2, <2>1 DEF Sending
    <3> QED BY <1>4, <2>1, <3>1
  <2>5. upload.next <= LastId /\ LastId <= Packets /\ LastId \in Nat BY <2>1, LastIdType DEF Sending
  <2>6. upload.next = Packets /\ Len(toReceiver) = 0
    BY ONLY <1>4, <2>1, <2>2, <2>3, <2>4, <2>5
  <2>7. toReceiver = <<>>
    <3>1. toReceiver \in Seq(Wired) BY DEF Inv, SenderType
    <3> QED BY <2>6, <3>1, EmptySeq
  <2>8. Left' = 0 BY <1>1 DEF Left
  <2>9. First' = Packets /\ Coming' = Packets
    <3>1. Top' = Packets BY <1>1, <1>9, <2>6 DEF Top
    <3>2. First' = Packets BY <1>1, <1>4, <2>6, <3>1 DEF First
    <3> QED BY <1>4, <2>8, <3>2 DEF Coming
  <2>10. InOrder'
    <3>1. WireInOrder' BY <1>1, <2>6 DEF WireInOrder
    <3>2. BatchInOrder' BY <1>1 DEF BatchInOrder
    <3>3. HandlerAt(Coming)' BY <1>4, <1>5, <2>9 DEF HandlerAt
    <3> QED BY <1>4, <2>9, <3>1, <3>2, <3>3 DEF InOrder
  <2>11. Replies'
    <3>1. \A i \in 1 .. Len(toSender) : toSender[i].id < Packets
      <4> SUFFICES ASSUME NEW i \in 1 .. Len(toSender) PROVE toSender[i].id < Packets OBVIOUS
      <4>1. toSender[i].id < Coming /\ toSender[i].id \in 0 .. upload.next - 1
        BY <2>1 DEF Sending, Replies
      <4> QED BY <1>4, <2>1, <4>1
    <3> QED BY <1>1, <2>1, <2>9, <3>1 DEF Sending, Replies
  <2>12. Coming' .. upload'.next - 1 = {} BY <1>1, <1>4, <2>6, <2>9
  <2>13. Sending' BY <1>1, <2>1, <2>7, <2>10, <2>11, <2>12 DEF Sending
  <2>14. Running' BY <1>6, <2>10, <2>13 DEF Running
  <2> QED BY <1>5, <1>7, <2>14 DEF SlotInv, Attached
<1> QED BY <1>8, <1>9

LEMMA SlotsPollEnds == ASSUME Inv, SlotInv, PollEnds PROVE SlotInv'
<1>1. /\ batch # <<>> /\ done = Len(batch) + 1 /\ batch' = <<>> /\ done' = 0
      /\ UNCHANGED <<upload, unanswered, sender, toReceiver, toSender>>
  BY DEF PollEnds, sending
<1>2. /\ handler.open => handler' = handler
      /\ ~handler.open => ~handler'.open /\ (~handler'.live \/ (handler' = handler /\ keep' = keep))
      /\ NotAsked => NotAsked'
  <2>1. CASE ReturnOk /\ ~handler.open BY <2>1 DEF ReturnOk, NoHandler, NotAsked
  <2>2. CASE handler' = handler /\ (keep' = keep \/ handler.open) /\ (receiver' = "asked" => receiver = "asked")
    BY <2>2 DEF NotAsked
  <2> QED BY <2>1, <2>2 DEF PollEnds, Finished, download
<1>3. Len(batch) \in Nat /\ Coming \in Int /\ First \in Int BY Lengths
<1>4. Attached' BY <1>2 DEF SlotInv, Attached
<1>5. Accounted'
  <2>1. \A i \in 1 .. Len(batch) : ~(i >= done) BY <1>1, <1>3
  <2>2. \A u : Located(u) => Located(u)' BY <1>1, <2>1 DEF Located, InReplies, OnWire, InBatch
  <2> QED BY <1>1, <2>2 DEF SlotInv, Accounted
<1>6. CASE Starting
  <2>1. ~Asked /\ ~Offered BY <1>1 DEF Asked, Offered
  <2>2. ~Taken BY <1>1 DEF Taken
  <2>3. Unaccepted \/ Accepted BY <1>6, <2>1 DEF Starting
  <2>4. Heard => Heard' BY <1>1 DEF Heard
  <2>5. Unaccepted => Unaccepted' BY <1>1, <1>2, <2>1, <2>2, <2>4 DEF Unaccepted, Answered, SlotInv, Attached
  <2>6. Accepted => Accepted' BY <1>1, <1>2, <2>4 DEF Accepted, Answered, Ready
  <2>7. Starting' BY <1>1, <1>6, <2>1, <2>3, <2>5, <2>6 DEF Starting
  <2> QED BY <1>4, <1>5, <2>7 DEF SlotInv
<1>7. CASE Running
  <2>1. Left = 0 /\ Left' = 0 BY <1>1, <1>3 DEF Left
  <2>2. Top' = Top BY <1>1 DEF Top
  <2>3. First' = First BY <1>1, <2>2 DEF First
  <2>4. Coming' = Coming BY <1>3, <2>1, <2>3 DEF Coming
  <2>5. ASSUME InOrder PROVE InOrder'
    <3>1. HandlerAt(Coming)' BY <1>1, <1>2, <1>3, <2>4, <2>5, DownloadAssumption DEF InOrder, HandlerAt, Ready
    <3>2. WireInOrder' BY <1>1, <2>3, <2>5 DEF InOrder, WireInOrder
    <3> QED BY <1>1, <2>4, <2>5, <3>1, <3>2 DEF InOrder, BatchInOrder
  <2>6. Over => Over' BY <1>1, <1>2 DEF Over
  <2>7. Sending => Sending' BY <1>1, <2>4, <2>5 DEF Sending, Replies
  <2>8. OnlyData'
    <3>1. Len(batch') = 0 BY <1>1
    <3> QED BY <1>1, <1>2, <1>7, <3>1 DEF Running, OnlyData
  <2>9. Running' BY <1>1, <1>7, <2>5, <2>6, <2>7, <2>8 DEF Running
  <2> QED BY <1>4, <1>5, <2>9 DEF SlotInv
<1> QED BY <1>6, <1>7 DEF SlotInv

-----------------------------------------------------------------------------
LEMMA SlotsStep == ASSUME Inv, SlotInv, [Next]_vars PROVE SlotInv'
<1>1. CASE SenderStep
  BY <1>1, SlotsSenderPolls, SlotsOnReceiveFile, SlotsOnAccepted, SlotsOnRefused, SlotsOnAck, SlotsOnNack,
     SlotsLoop DEF SenderStep
<1>2. CASE ReceiverStep
  BY <1>2, SlotsReceiverPolls, SlotsOnSendFile, SlotsOnData, SlotsThrows, SlotsOnStray, SlotsPollEnds
     DEF ReceiverStep
<1>3. CASE UNCHANGED vars
  BY <1>3, SlotsUntouched DEF vars, sending, receiving, download, NotAsked
<1> QED BY <1>1, <1>2, <1>3, SlotsCallSendFile, SlotsCallReceiveFile, SlotsApprove, SlotsChangeFile, SlotsCrash
        DEF Next

\* The packets are in order, each answer belongs to one of them, and no slot is used
\* twice, from the first packet to the last and through every exception
\* (Peer.cpp:119-190, Peer_private.cpp:140-156, TransferHandler.cpp:61-107).
THEOREM SlotInvAlways == Spec => []SlotInv
<1>1. Init => SlotInv BY SlotsInit
<1>2. Inv /\ SlotInv /\ [Next]_vars => SlotInv' BY SlotsStep
<1> QED BY <1>1, <1>2, InvAlways, PTL DEF Spec

\* An answer to a packet always frees the slot that the next packet takes, whatever
\* the size of the file, the burst and the slots: send_request does not throw inside
\* receive_reply (Peer_private.cpp:147-150, MessageQueue.cpp:18).
THEOREM SlotAlwaysFree == Spec => []SlotForNextPacket
<1>1. Inv /\ SlotInv => SlotForNextPacket
  <2> SUFFICES ASSUME Inv, SlotInv, unread > 0, Head(toSender).re = "DATA_PACKET",
                      Head(toSender).status = "STATUS_OK", upload.live, upload.open
               PROVE  Cardinality(unanswered \ {Head(toSender).id}) < Slots
    BY DEF SlotForNextPacket
  <2>1. PICK A : toSender \in Seq(A) BY DEF Inv, SenderType
  <2>2. unread \in Nat /\ unread <= Len(toSender) BY DEF Inv, SenderType
  <2>3. Len(toSender) >= 1 /\ Len(toSender) \in Nat /\ Head(toSender) = toSender[1] BY <2>1, <2>2
  <2>4. ~Starting
    <3>1. ~Asked /\ ~Offered /\ ~Taken /\ ~Answered("STATUS_OK") /\ ~Answered("UP_TO_DATE")
      BY <2>3 DEF Asked, Reply, Offered, Taken, Answered
    <3>2. toSender # <<>> BY <2>3
    <3> QED BY <3>1, <3>2 DEF Starting, Unaccepted, Accepted
  <2>5. Sending BY <2>4 DEF SlotInv, Running
  <2>6. Head(toSender).id \in unanswered
    <3>1. 1 \in 1 .. Len(toSender) BY <2>3
    <3> QED BY <2>3, <2>5, <3>1 DEF Sending, Replies
  <2>7. IsFiniteSet(unanswered) /\ Cardinality(unanswered) <= Slots BY DEF SlotInv, Accounted
  <2>8. /\ Cardinality(unanswered \ {Head(toSender).id}) = Cardinality(unanswered) - 1
        /\ Cardinality(unanswered) \in Nat
    BY <2>6, <2>7, FS_RemoveElement, FS_CardinalityType
  <2> QED BY <2>7, <2>8
<1> QED BY <1>1, InvAlways, SlotInvAlways, PTL

-----------------------------------------------------------------------------
(***************************************************************************)
(* The order of the packets.  Those the receiver has read and those on the *)
(* wire follow each other, and the handler expects the next one it is to   *)
(* handle or, when an exception has put that back, one behind it.          *)
(***************************************************************************)
Upcoming == First - (IF done = 0 THEN Len(batch) ELSE Len(batch) + 1 - done)

WireSequence ==
  \A i \in 1 .. Len(toReceiver) :
    toReceiver[i].kind = "DATA_PACKET" => toReceiver[i].packet.id = First + i - 1
BatchSequence ==
  done <= Len(batch) => \A i \in 1 .. Len(batch) :
    batch[i].kind = "DATA_PACKET" => batch[i].packet.id = First + i - 1 - Len(batch)
HandlerSequence == handler.live => handler.missing = {} /\ handler.expected >= Upcoming

InSequence == WireSequence /\ BatchSequence /\ HandlerSequence

\* A packet that is expected or was handled before leaves no gap.
LEMMA NoGap ==
  ASSUME handler \in Handlers, handler.missing = {},
         NEW n \in Nat, NEW v \in Versions, n <= handler.expected
  PROVE  LET out == ReceivePacket(Packet(n, v))
         IN  out.handler.missing = {} /\ out.handler.expected >= n + 1
<1>1. handler.expected \in Nat BY DEF Handlers
<1>2. CASE handler.expected = n
  <2> DEFINE out == ReceivePacket(Packet(n, v))
  <2>1. out.handler.expected = n + 1 /\ out.handler.missing = {} BY <1>2, NextPacket
  <2> QED BY <2>1
<1>3. CASE n < handler.expected
  <2> DEFINE p == Packet(n, v)
             file == Written(handler, WriteAt(temp.blocks, p.id, p))
  <2>1. p.id = n BY PacketType
  <2>2. [handler EXCEPT !.missing = @ \ {n}] = handler BY DEF Handlers
  <2>3. ReceivePacket(p) = CASE n > handler.expected -> SkipAhead(handler, p)
                             [] n < handler.expected -> FillIn(handler, p)
                             [] OTHER                -> TakeNext(handler, p)
    BY <2>1, <2>2, Zenon DEF ReceivePacket
  <2> HIDE DEF p
  <2>4. ReceivePacket(p) = FillIn(handler, p) BY <1>1, <1>3, <2>3
  <2>5. FillIn(handler, p).handler = [handler EXCEPT !.open = FALSE] \/ FillIn(handler, p).handler = handler
    <3>1. FillIn(handler, p) = FinishTransfer(handler, file) \/ FillIn(handler, p) = Outcome(handler, dest, file, "nothing")
      BY DEF FillIn
    <3> HIDE DEF file
    <3> QED BY <3>1, FinishedHandler DEF Outcome
  <2>6. /\ [handler EXCEPT !.open = FALSE].missing = {}
        /\ [handler EXCEPT !.open = FALSE].expected = handler.expected
    BY DEF Handlers
  <2>7. handler.expected >= n + 1 BY <1>1, <1>3
  <2> QED BY <2>4, <2>5, <2>6, <2>7 DEF p
<1> QED BY <1>1, <1>2, <1>3

\* Steps that leave all this alone: a download that goes is none at all.
LEMMA SequenceUntouched ==
  ASSUME InSequence, Top' = Top, UNCHANGED <<toReceiver, batch, done>>,
         handler' = handler \/ ~handler'.live
  PROVE  InSequence'
<1>1. First' = First BY DEF First
<1>2. Upcoming' = Upcoming BY <1>1 DEF Upcoming
<1> QED BY <1>1, <1>2 DEF InSequence, WireSequence, BatchSequence, HandlerSequence

\* Where there is no message and no download there is nothing to be out of order.
LEMMA SequenceEmpty ==
  ASSUME batch' = <<>>, done' = 0, ~handler'.live,
         \A i \in 1 .. Len(toReceiver') : toReceiver'[i].kind # "DATA_PACKET"
  PROVE  InSequence'
<1>1. Len(batch') = 0 BY Zenon, EmptySeq
<1> QED BY <1>1 DEF InSequence, WireSequence, BatchSequence, HandlerSequence

LEMMA SequenceOffer ==
  ASSUME Offer, toReceiver = <<>>, batch' = <<>>, done' = 0, ~handler'.live
  PROVE  InSequence'
<1>1. toReceiver' = <<SendFile(version)>> BY DEF Offer
<1>2. \A i \in 1 .. Len(toReceiver') : toReceiver'[i].kind # "DATA_PACKET" BY <1>1 DEF SendFile
<1> QED BY <1>2, SequenceEmpty

\* The packets that are sent go behind the others.
LEMMA SequenceSends ==
  ASSUME Inv, InSequence, NEW n \in Nat \ {0}, NEW answered, SendPackets(n, answered),
         upload.open, upload.next <= LastId, InOrder, UNCHANGED <<handler, keep, batch, done>>
  PROVE  InSequence'
<1>1. InOrder' /\ Coming' = Coming BY SendKeepsOrder
<1>2. Coming \in Int /\ First \in Int /\ Left \in Int BY Lengths
<1>3. First' \in Int /\ Left' = Left
  <2>1. Left' = Left BY DEF Left
  <2>2. toReceiver' \in Seq(Wired) /\ upload' \in Uploads BY SendPacketsType DEF Inv
  <2>3. Len(toReceiver') \in Nat /\ upload'.next \in Nat /\ LastId' \in Nat
    BY <2>2, LastIdType DEF Uploads, LastId
  <2> QED BY <2>1, <2>3 DEF First, Top
<1>4. First' = First
  <2>1. Coming' = Coming BY <1>1
  <2>2. First' - Left' = First - Left BY <2>1 DEF Coming
  <2>3. \A a, b, c \in Int : a - c = b - c => a = b OBVIOUS
  <2> QED BY <1>2, <1>3, <2>2, <2>3
<1>5. Upcoming' = Upcoming BY <1>4 DEF Upcoming
<1>6. WireSequence' BY <1>1 DEF InOrder, WireInOrder, WireSequence
<1> QED BY <1>4, <1>5, <1>6 DEF InSequence, BatchSequence, HandlerSequence

LEMMA SequenceSender == ASSUME Inv, SlotInv, InSequence, SenderStep PROVE InSequence'
<1>1. CASE SenderPolls BY <1>1, SequenceUntouched DEF SenderPolls, receiving, download, Top
<1>2. CASE SenderOnReceiveFile
  <2>1. /\ Starting /\ toSender # <<>> /\ toSender[1].re = "RECEIVE_FILE"
        /\ UNCHANGED <<download, batch, done>> /\ Offer
    BY <1>2, AnswerTaken DEF SenderOnReceiveFile
  <2>2. ~Offered /\ ~Taken /\ ~Answered("UP_TO_DATE") /\ ~Answered("STATUS_OK")
    BY <2>1 DEF Offered, Taken, Answered
  <2>3. toReceiver = <<>> /\ batch = <<>> /\ ~handler.live
    BY <2>1, <2>2 DEF Starting, Unaccepted, Accepted, Asked
  <2>4. done = 0 BY <2>3, Lengths
  <2> QED BY <2>1, <2>3, <2>4, SequenceOffer DEF download
<1>3. CASE SenderOnAccepted
  <2> DEFINE n == IF Burst < Slots THEN Burst ELSE Slots
  <2>1. SendPackets(n, {}) /\ UNCHANGED <<handler, keep, batch, done>>
    BY <1>3, AnswerTaken DEF SenderOnAccepted, download
  <2>2. n \in Nat \ {0} OBVIOUS
  <2>3. InOrder /\ upload.open /\ upload.next <= LastId BY <1>3, AcceptedInOrder
  <2> HIDE DEF n
  <2> QED BY <2>1, <2>2, <2>3, SequenceSends
<1>4. CASE SenderOnRefused
  <2>1. /\ Starting /\ toSender # <<>> /\ toSender[1].re = "SEND_FILE" /\ toSender[1].status = "UP_TO_DATE"
        /\ UNCHANGED <<download, batch, done>>
    BY <1>4, AnswerTaken DEF SenderOnRefused
  <2>2. ~Asked /\ ~Offered /\ ~Taken /\ ~Answered("STATUS_OK")
    BY <2>1 DEF Asked, Reply, Offered, Taken, Answered
  <2>3. Heard /\ ~handler.live BY <2>1, <2>2 DEF Starting, Unaccepted, Accepted
  <2>4. toReceiver' = toReceiver BY <1>4 DEF SenderOnRefused
  <2>5. Len(toReceiver') = 0 /\ (done' <= Len(batch') => Len(batch') = 0)
    <3>1. Len(toReceiver') = 0 BY <2>3, <2>4 DEF Heard
    <3>2. CASE batch = <<>>
      <4>1. Len(batch') = 0 BY <2>1, <3>2
      <4> QED BY <3>1, <4>1
    <3>3. CASE Len(batch) = 1 /\ done = 2 BY <2>1, <3>1, <3>3
    <3> QED BY <2>3, <3>2, <3>3 DEF Heard
  <2> QED BY <2>1, <2>3, <2>5 DEF InSequence, WireSequence, BatchSequence, HandlerSequence, download
<1>5. CASE SenderOnAck
  <2>1. Running /\ UNCHANGED <<handler, keep, batch, done>> /\ toSender[1] = Head(toSender)
    BY <1>5, ReplyTaken DEF SenderOnAck
  <2>2. CASE upload.open
    <3>1. SendPackets(1, {Head(toSender).id}) BY <1>5, <2>2 DEF SenderOnAck
    <3>2. InOrder /\ upload.next <= LastId BY <2>1, <2>2 DEF Running, Sending
    <3> QED BY <2>1, <2>2, <3>1, <3>2, SequenceSends
  <2>3. CASE ~upload.open
    <3>1. upload' = NoUpload /\ toReceiver' = toReceiver BY <1>5, <2>3 DEF SenderOnAck
    <3>2. Top' = Top BY <2>3, <3>1 DEF Top, NoUpload, LastId
    <3> QED BY <2>1, <3>1, <3>2, SequenceUntouched
  <2> QED BY <2>2, <2>3
<1>6. CASE SenderOnNack
  <2>1. UNCHANGED <<upload, toReceiver, handler, batch, done>>
    BY <1>6 DEF SenderOnNack, Handles, receiving, download
  <2> QED BY <2>1, SequenceUntouched DEF Top
<1>7. CASE SendFileLoop
  <2>1. /\ sender = "pushing" /\ UNCHANGED <<handler, keep, batch, done>>
        /\ \/ upload.open /\ SendPackets(1, {})
           \/ UNCHANGED <<upload, toReceiver>>
    BY <1>7 DEF SendFileLoop, receiving, download
  <2>2. Running BY <2>1 DEF SlotInv, Starting
  <2>3. CASE upload.open /\ SendPackets(1, {})
    <3>1. InOrder /\ upload.next <= LastId BY <2>2, <2>3 DEF Running, Sending
    <3> QED BY <2>1, <2>3, <3>1, SequenceSends
  <2>4. CASE UNCHANGED <<upload, toReceiver>> BY <2>1, <2>4, SequenceUntouched DEF Top
  <2> QED BY <2>1, <2>3, <2>4
<1> QED BY <1>1, <1>2, <1>3, <1>4, <1>5, <1>6, <1>7 DEF SenderStep

\* Before the first packet a download that is made is where it should be.
LEMMA SequenceAccept ==
  ASSUME Inv, InSequence, NEW v \in Versions, Accept(v), upload.open, upload.next = 0,
         toReceiver = <<>>, done' = 0 \/ done' = Len(batch') + 1,
         done' <= Len(batch') => Len(batch') = 0, UNCHANGED <<upload, toReceiver, batch>>
  PROVE  handler.live \/ InSequence'
<1> SUFFICES ASSUME ~handler.live PROVE InSequence' OBVIOUS
<1>1. Len(toReceiver') = 0 /\ Len(batch') \in Nat BY Lengths
<1>2. First' = 0 BY <1>1 DEF First, Top
<1>3. Upcoming' <= 0 BY <1>1, <1>2 DEF Upcoming
<1>4. Upcoming' \in Int BY <1>1, <1>2 DEF Upcoming
<1>5. HandlerSequence'
  <2>1. CASE OpenDownload(v)
    <3>1. PICK ok \in BOOLEAN : handler' = Opened(v, ok) BY <2>1 DEF OpenDownload, OpenResults
    <3>2. handler'.expected = 0 /\ handler'.missing = {} BY <3>1, OpenedType
    <3> QED BY <1>3, <1>4, <3>2 DEF HandlerSequence
  <2>2. CASE UNCHANGED download BY <2>2 DEF HandlerSequence, download
  <2> QED BY <2>1, <2>2 DEF Accept
<1> QED BY <1>1, <1>5 DEF InSequence, WireSequence, BatchSequence

LEMMA SequenceApprove == ASSUME Inv, SlotInv, InSequence, Approve PROVE InSequence'
<1>1. /\ receiver = "asked" /\ done = 0 /\ Accept(upload.hash)
      /\ UNCHANGED <<upload, batch, done, toReceiver>>
  BY DEF Approve, sending
<1>2. ~NotAsked BY <1>1 DEF NotAsked
<1>3. Starting /\ Heard /\ ~handler.live /\ upload.open /\ upload.next = 0
  BY <1>2 DEF SlotInv, Running, OnlyData, Starting, Unaccepted, Accepted
<1>4. upload.hash \in Versions BY DEF Inv, SenderType, Uploads
<1>5. batch = <<>> /\ toReceiver = <<>> BY <1>1, <1>3 DEF Heard
<1>6. Len(batch') = 0 BY <1>1, <1>5
<1> QED BY <1>1, <1>3, <1>4, <1>5, <1>6, SequenceAccept

LEMMA SequenceOnSendFile == ASSUME Inv, SlotInv, InSequence, ReceiverOnSendFile PROVE InSequence'
<1>1. /\ Polling /\ batch[done].kind = "SEND_FILE" /\ done' = done + 1
      /\ UNCHANGED <<upload, batch, toReceiver>>
      /\ Accept(batch[done].hash) \/ UNCHANGED download
  BY DEF ReceiverOnSendFile, sending
<1>2. batch[done].hash \in Versions BY <1>1, AtMessage, WireType
<1>3. done \in 1 .. Len(batch) /\ batch # <<>> /\ Len(batch) \in Nat BY <1>1, AtMessage DEF Polling
<1>4. ~Running BY <1>1, <1>3 DEF Running, OnlyData
<1>5. ~Asked /\ ~Offered /\ ~Heard
  <2>1. done \in Nat /\ done <= Len(batch) /\ Len(batch) \in Nat BY ONLY <1>3
  <2>2. ~(Len(batch) = 1 /\ done = 2) BY ONLY <2>1
  <2> QED BY <1>3, <2>2, Zenon DEF Asked, Offered, Heard
<1>6. Taken /\ ~handler.live /\ upload.open /\ upload.next = 0
  BY <1>4, <1>5 DEF SlotInv, Starting, Unaccepted, Accepted
<1>7. toReceiver = <<>> /\ done' = Len(batch') + 1 /\ Len(batch') = 1 BY <1>1, <1>6 DEF Taken
<1>8. CASE Accept(batch[done].hash)
  <2> DEFINE v == batch[done].hash
  <2>1. v \in Versions /\ Accept(v) BY <1>2, <1>8
  <2> HIDE DEF v
  <2> QED BY <1>1, <1>6, <1>7, <2>1, SequenceAccept
<1>9. CASE UNCHANGED download
  BY <1>1, <1>6, <1>7, <1>9 DEF InSequence, WireSequence, BatchSequence, HandlerSequence, download, First, Top
<1> QED BY <1>1, <1>8, <1>9

LEMMA SequenceReceiverPolls == ASSUME Inv, InSequence, ReceiverPolls PROVE InSequence'
<1>1. PICK n \in Nat \ {0} :
           /\ n <= Len(toReceiver)
           /\ Len(batch') = Len(batch) + n /\ Len(toReceiver') = Len(toReceiver) - n
           /\ \A i \in 1 .. Len(batch) : batch'[i] = batch[i]
           /\ \A i \in 1 .. n : batch'[Len(batch) + i] = toReceiver[i]
           /\ \A i \in 1 .. Len(toReceiver) - n : toReceiver'[i] = toReceiver[n + i]
  BY ReadSplit, Zenon
<1>2. /\ Len(toReceiver) \in Nat /\ Len(batch) \in Nat /\ First \in Int /\ Top \in Nat
      /\ done = 0 /\ done' = 1 /\ UNCHANGED <<upload, handler>>
  BY Lengths DEF ReceiverPolls, sending, download
<1>3. First' = First + n
  <2>1. Top' = Top BY <1>2 DEF Top
  <2>2. Top - (Len(toReceiver) - n) = (Top - Len(toReceiver)) + n BY ONLY <1>2
  <2> QED BY <1>1, <2>1, <2>2 DEF First
<1>4. Upcoming' = Upcoming
  <2>1. Upcoming = First - Len(batch) /\ Upcoming' = First' - (Len(batch') + 1 - 1)
    BY <1>2 DEF Upcoming
  <2> QED BY <1>1, <1>2, <1>3, <2>1
<1>5. WireSequence'
  <2> SUFFICES ASSUME NEW i \in 1 .. Len(toReceiver'), toReceiver'[i].kind = "DATA_PACKET"
               PROVE  toReceiver'[i].packet.id = First' + i - 1
    BY DEF WireSequence
  <2>1. i \in 1 .. Len(toReceiver) - n BY <1>1
  <2>2. n + i \in 1 .. Len(toReceiver) BY ONLY <1>2, <2>1
  <2>3. toReceiver'[i] = toReceiver[n + i] BY <1>1, <2>1
  <2>4. toReceiver[n + i].packet.id = First + (n + i) - 1 BY <2>2, <2>3 DEF InSequence, WireSequence
  <2>5. First + (n + i) - 1 = (First + n) + i - 1 BY ONLY <1>2, <2>1
  <2> QED BY <1>3, <2>3, <2>4, <2>5
<1>6. BatchSequence'
  <2> SUFFICES ASSUME NEW i \in 1 .. Len(batch'), batch'[i].kind = "DATA_PACKET"
               PROVE  batch'[i].packet.id = First' + i - 1 - Len(batch')
    BY DEF BatchSequence
  <2>1. i \in 1 .. Len(batch) + n BY <1>1
  <2>2. CASE i <= Len(batch)
    <3>1. i \in 1 .. Len(batch) /\ 0 <= Len(batch) BY ONLY <1>2, <2>1, <2>2
    <3>2. batch[i].packet.id = First + i - 1 - Len(batch)
      BY <1>1, <1>2, <3>1 DEF InSequence, BatchSequence
    <3>3. First + i - 1 - Len(batch) = (First + n) + i - 1 - (Len(batch) + n) BY ONLY <1>2, <3>1
    <3>4. batch'[i] = batch[i] BY <1>1, <3>1
    <3> QED BY <1>1, <1>3, <3>2, <3>3, <3>4
  <2>3. CASE ~(i <= Len(batch))
    <3> DEFINE j == i - Len(batch)
    <3>1. j \in 1 .. n /\ Len(batch) + j = i BY ONLY <1>2, <2>1, <2>3
    <3> HIDE DEF j
    <3>2. j \in 1 .. Len(toReceiver) /\ batch'[i] = toReceiver[j] BY <1>1, <1>2, <3>1
    <3>3. toReceiver[j].packet.id = First + j - 1 BY <3>2 DEF InSequence, WireSequence
    <3>4. First + j - 1 = (First + n) + (Len(batch) + j) - 1 - (Len(batch) + n) BY ONLY <1>2, <3>1
    <3> QED BY <1>1, <1>3, <3>1, <3>2, <3>3, <3>4
  <2> QED BY <2>2, <2>3
<1>7. HandlerSequence' BY <1>2, <1>4 DEF InSequence, HandlerSequence
<1> QED BY <1>5, <1>6, <1>7 DEF InSequence

\* A packet is handled: the one that is upcoming.
LEMMA SequenceData ==
  ASSUME Inv, InSequence, Polling, batch[done].kind = "DATA_PACKET",
         UNCHANGED <<upload, batch, toReceiver>>, done' \in {0, done + 1},
         \/ handler.live /\ handler' = ReceivePacket(batch[done].packet).handler
         \/ ~handler'.live
  PROVE  InSequence'
<1> DEFINE out == ReceivePacket(batch[done].packet)
<1>1. /\ done \in 1 .. Len(batch) /\ Len(batch) \in Nat /\ batch[done] \in Wired /\ First \in Int
  BY AtMessage, Lengths DEF Polling
<1>2. First' = First BY DEF First, Top, LastId
<1>3. WireSequence' BY <1>2 DEF InSequence, WireSequence
<1> HIDE DEF out
<1>4. done <= Len(batch) /\ ~(done = 0) BY ONLY <1>1
<1>9. \A i \in 1 .. Len(batch) :
        batch[i].kind = "DATA_PACKET" => batch[i].packet.id = First + i - 1 - Len(batch)
  BY ONLY InSequence, <1>4 DEF InSequence, BatchSequence
<1>10. BatchSequence'
  <2>1. batch' = batch OBVIOUS
  <2> QED BY ONLY <1>2, <1>9, <2>1 DEF BatchSequence
<1>5. batch[done].packet.id = Upcoming /\ Upcoming \in Int
  <2>1. batch[done].packet.id = First + done - 1 - Len(batch) BY <1>1, <1>9
  <2>2. First + done - 1 - Len(batch) = First - (Len(batch) + 1 - done) BY ONLY <1>1
  <2>3. Upcoming = First - (Len(batch) + 1 - done) BY ONLY <1>4 DEF Upcoming
  <2> QED BY <1>1, <2>1, <2>2, <2>3
<1>6. Upcoming' <= Upcoming + 1 /\ Upcoming' \in Int
  <2>1. batch' = batch /\ done' \in {0, done + 1} OBVIOUS
  <2>2. CASE done' = 0
    <3>1. Upcoming' = First - Len(batch) BY ONLY <1>2, <2>1, <2>2 DEF Upcoming
    <3>2. Upcoming = First - (Len(batch) + 1 - done) BY ONLY <1>4 DEF Upcoming
    <3> QED BY ONLY <1>1, <3>1, <3>2
  <2>3. CASE done' = done + 1
    <3>1. done + 1 # 0 BY ONLY <1>1
    <3>2. Upcoming' = First - (Len(batch) + 1 - (done + 1)) BY ONLY <1>2, <2>1, <2>3, <3>1 DEF Upcoming
    <3>3. Upcoming = First - (Len(batch) + 1 - done) BY ONLY <1>4 DEF Upcoming
    <3> QED BY ONLY <1>1, <3>2, <3>3
  <2> QED BY <2>1, <2>2, <2>3
<1>7. ASSUME handler.live, handler' = out.handler PROVE HandlerSequence'
  <2>1. PICK i \in Nat, v \in Versions : batch[done].packet = Packet(i, v) BY <1>1, WireType
  <2>2. i = Upcoming BY <1>5, <2>1, PacketType
  <2>3. handler \in Handlers /\ handler.missing = {} /\ i <= handler.expected
    BY <1>7, <2>2 DEF InSequence, HandlerSequence, Inv, ReceiverType, Handlers
  <2>4. out.handler.missing = {} /\ out.handler.expected >= i + 1 BY <2>1, <2>3, NoGap DEF out
  <2>5. out.handler.expected \in Nat
    <3>1. Sound(handler, ReceivePacket(Packet(i, v))) BY <2>3, ReceiveOutcome
    <3> QED BY <2>1, <3>1 DEF Sound, SameTransfer, Handlers, out
  <2>6. handler'.expected >= Upcoming' BY <1>6, <1>7, <2>2, <2>4, <2>5
  <2> QED BY <1>7, <2>4, <2>6 DEF HandlerSequence
<1>8. HandlerSequence' BY <1>7 DEF HandlerSequence, out
<1> QED BY <1>3, <1>10, <1>8 DEF InSequence

LEMMA SequenceReceiver == ASSUME Inv, SlotInv, InSequence, ReceiverStep PROVE InSequence'
<1>1. CASE ReceiverPolls BY <1>1, SequenceReceiverPolls
<1>2. CASE ReceiverOnSendFile BY <1>2, SequenceOnSendFile
<1>3. CASE ReceiverOnData
  BY <1>3, SequenceData DEF ReceiverOnData, sending, NoHandler
<1>4. CASE ReceiverThrows
  BY <1>4, SequenceData DEF ReceiverThrows, sending
<1>5. CASE ReceiverOnStray
  BY <1>5, SequenceData DEF ReceiverOnStray, sending, download
<1>6. CASE PollEnds
  <2>1. /\ batch # <<>> /\ done = Len(batch) + 1 /\ batch' = <<>> /\ done' = 0
        /\ UNCHANGED <<upload, toReceiver>> /\ (handler' = handler \/ ~handler'.live)
    BY <1>6 DEF PollEnds, ReturnOk, sending, download, NoHandler
  <2>2. Len(batch) \in Nat /\ First \in Int /\ Len(batch') = 0 BY <2>1, Lengths
  <2>3. First' = First BY <2>1 DEF First, Top, LastId
  <2>4. Upcoming' = Upcoming BY <2>1, <2>2, <2>3 DEF Upcoming
  <2> QED BY <2>1, <2>2, <2>3, <2>4 DEF InSequence, WireSequence, BatchSequence, HandlerSequence
<1> QED BY <1>1, <1>2, <1>3, <1>4, <1>5, <1>6 DEF ReceiverStep

LEMMA SequenceStep == ASSUME Inv, SlotInv, InSequence, [Next]_vars PROVE InSequence'
<1>1. CASE CallSendFile
  <2>1. Offer /\ Quiet /\ UNCHANGED <<handler, batch, done>> BY <1>1 DEF CallSendFile, download
  <2>2. done = 0 BY <2>1, Lengths DEF Quiet
  <2> QED BY <2>1, <2>2, SequenceOffer DEF Quiet
<1>2. CASE CallReceiveFile
  BY <1>2, SequenceUntouched DEF CallReceiveFile, sending, download, Top
<1>3. CASE ChangeFile BY <1>3, SequenceUntouched DEF ChangeFile, receiving, download, Top
<1>4. CASE Crash
  <2>1. batch' = <<>> /\ done' = 0 /\ ~handler'.live /\ toReceiver' = <<>> BY <1>4 DEF Crash, NoHandler
  <2>2. Len(toReceiver') = 0 BY <2>1
  <2> QED BY <2>1, <2>2, SequenceEmpty
<1>5. CASE UNCHANGED vars BY <1>5, SequenceUntouched DEF vars, sending, receiving, download, Top
<1> QED BY <1>1, <1>2, <1>3, <1>4, <1>5, SequenceSender, SequenceReceiver, SequenceApprove DEF Next

\* The download never passes over a packet, for every size of the file, burst and
\* read, through exceptions, crashes and changes of the file: no block is written
\* anywhere but at its place (Peer.cpp:119-136, Peer_private.cpp:140-156, 206-222,
\* TransferHandler.cpp:44-54).
THEOREM NothingEverSkipped == Spec => []NothingSkipped
<1>1. Init => InSequence
  <2> SUFFICES ASSUME Init PROVE InSequence OBVIOUS
  <2>1. Len(toReceiver) = 0 /\ Len(batch) = 0 /\ ~handler.live BY DEF Init, NoHandler
  <2> QED BY <2>1 DEF InSequence, WireSequence, BatchSequence, HandlerSequence
<1>2. Inv /\ SlotInv /\ InSequence /\ [Next]_vars => InSequence' BY SequenceStep
<1>3. InSequence => NothingSkipped BY DEF InSequence, HandlerSequence, NothingSkipped
<1> QED BY <1>1, <1>2, <1>3, InvAlways, SlotInvAlways, PTL DEF Spec

-----------------------------------------------------------------------------
(***************************************************************************)
(* What the temporary file holds while nothing goes wrong: the blocks      *)
(* received so far, and it is there as long as the stream is open.         *)
(***************************************************************************)
TempInv ==
  /\ ~handler.open => ~temp.exists
  /\ handler.open => /\ handler.pos = handler.expected /\ handler.hash = 0
                     /\ temp = File(FirstBlocks(handler.expected)) /\ handler.expected < Packets

\* The same of what a packet leaves behind.
TempAfter(out) ==
  /\ ~out.handler.open => ~out.temp.exists
  /\ out.handler.open => /\ out.handler.pos = out.handler.expected /\ out.handler.hash = 0
                         /\ out.temp = File(FirstBlocks(out.handler.expected))
                         /\ out.handler.expected < Packets

LEMMA TempAfterData ==
  ASSUME Versions = {0}, Inv, SlotInv, TempInv, Polling, batch[done].kind = "DATA_PACKET"
  PROVE  TempAfter(ReceivePacket(batch[done].packet))
<1>1. PICK i \in Nat : batch[done].packet = Packet(i, 0)
  <2>1. PICK i \in Nat, v \in Versions : batch[done].packet = Packet(i, v) BY AtData
  <2>2. v = 0 BY <2>1
  <2> QED BY <2>1, <2>2
<1> DEFINE out == ReceivePacket(Packet(i, 0))
<1>2. batch[done].packet.id = i BY <1>1, PacketType, DownloadAssumption
<1>3. handler \in Handlers BY DEF Inv, ReceiverType
<1>4. CASE ~handler.open
  <2>1. ~out.handler.open /\ (~temp.exists => ~out.temp.exists)
    BY <1>3, <1>4, ClosedStays, DownloadAssumption
  <2> HIDE DEF out
  <2>2. TempAfter(out) BY <1>4, <2>1 DEF TempAfter, TempInv
  <2> QED BY <1>1, <2>2 DEF out
<1>5. CASE handler.open
  <2>1. InOrder BY <1>5, AtData DEF Running, Over
  <2>2. i = Coming /\ Coming < Packets
    <3>1. i = Coming BY <1>2, <2>1, AtData
    <3>2. ~(Coming >= Packets) BY <1>5, <2>1 DEF InOrder, HandlerAt
    <3> QED BY <3>1, <3>2, DownloadAssumption
  <2>3. handler.expected = i /\ handler.missing = {}
    BY <1>5, <2>1, <2>2 DEF InOrder, HandlerAt, Ready
  <2>4. AtBlock(i) /\ handler.hash = 0
    <3>1. ~(i >= Packets) BY <2>2, DownloadAssumption
    <3> QED BY <1>3, <1>5, <2>3, <3>1 DEF AtBlock, TempInv
  <2>5. i \in 0 .. LastId BY <2>2, LastIdType, DownloadAssumption
  <2>6. /\ out.handler.expected = i + 1
        /\ i + 1 < Packets => /\ out.handler.open /\ out.handler.pos = i + 1
                              /\ out.temp = File(FirstBlocks(i + 1))
        /\ i + 1 >= Packets => ~out.handler.open
        /\ i + 1 = Packets => out.temp = NoFile
    BY <2>4, <2>5, BlockOutcome
  <2>7. out.handler.hash = 0
    <3>1. Sound(handler, ReceivePacket(batch[done].packet)) BY DataOutcome
    <3>2. Sound(handler, out) BY <1>1, <3>1
    <3> QED BY <2>4, <3>2 DEF Sound, SameTransfer
  <2> HIDE DEF out
  <2>8. i + 1 < Packets \/ i + 1 = Packets BY <2>2, DownloadAssumption
  <2>9. TempAfter(out)
    <3>1. CASE i + 1 < Packets BY <2>6, <2>7, <3>1 DEF TempAfter
    <3>2. CASE i + 1 = Packets
      <4>1. ~out.handler.open /\ ~out.temp.exists BY <2>6, <3>2, DownloadAssumption DEF NoFile
      <4> QED BY <4>1 DEF TempAfter
    <3> QED BY <2>8, <3>1, <3>2
  <2> QED BY <1>1, <2>9 DEF out
<1> QED BY <1>4, <1>5

LEMMA TempAccept ==
  ASSUME TempInv, NEW v \in {0}, Accept(v)
  PROVE  TempInv'
<1>1. CASE OpenDownload(v)
  <2>1. PICK ok \in BOOLEAN : handler' = Opened(v, ok) /\ temp' = (IF ok THEN File(<<>>) ELSE temp)
    BY <1>1 DEF OpenDownload, OpenResults
  <2>2. handler'.open = ok /\ handler'.pos = 0 /\ handler'.expected = 0 /\ handler'.hash = 0
    BY <2>1 DEF Opened, NoHandler
  <2>3. ~temp.exists BY <1>1 DEF OpenDownload, UpToDate
  <2>4. FirstBlocks(0) = <<>> BY DEF FirstBlocks
  <2> QED BY <2>1, <2>2, <2>3, <2>4, DownloadAssumption DEF TempInv
<1>2. CASE UNCHANGED download BY <1>2 DEF TempInv, download
<1> QED BY <1>1, <1>2 DEF Accept

LEMMA TempStep ==
  ASSUME ~Crashes, Versions = {0}, Inv, SlotInv, TempInv, [Next]_vars
  PROVE  TempInv'
<1>1. CASE UNCHANGED download BY <1>1 DEF TempInv, download
<1>2. CASE ReceiverOnSendFile
  <2>1. CASE Accept(batch[done].hash)
    <3>1. batch[done].hash \in {0} BY <1>2, AtMessage, WireType DEF ReceiverOnSendFile
    <3> QED BY <2>1, <3>1, TempAccept
  <2> QED BY <1>1, <1>2, <2>1 DEF ReceiverOnSendFile
<1>3. CASE Approve
  <2>1. upload.hash \in {0} BY DEF Inv, SenderType, Uploads
  <2> QED BY <1>3, <2>1, TempAccept DEF Approve
<1>4. CASE ReceiverOnData
  <2> DEFINE out == ReceivePacket(batch[done].packet)
  <2>1. /\ temp' = out.temp
        /\ handler' = IF Finished(out.handler) /\ ~keep THEN NoHandler ELSE out.handler
    BY <1>4 DEF ReceiverOnData
  <2>2. TempAfter(out) BY <1>4, TempAfterData DEF ReceiverOnData
  <2> HIDE DEF out
  <2> QED BY <2>1, <2>2 DEF TempAfter, TempInv, Finished, NoHandler
<1>5. CASE ReceiverThrows
  <2> DEFINE out == ReceivePacket(batch[done].packet)
  <2>1. temp' = out.temp /\ handler' = out.handler BY <1>5 DEF ReceiverThrows
  <2>2. TempAfter(out) BY <1>5, TempAfterData DEF ReceiverThrows
  <2> HIDE DEF out
  <2> QED BY <2>1, <2>2 DEF TempAfter, TempInv
<1>6. CASE PollEnds
  <2>1. CASE handler' = NoHandler /\ Finished(handler) /\ temp' = temp
    BY <2>1 DEF Finished, NoHandler, TempInv
  <2> QED BY <1>1, <1>6, <2>1 DEF PollEnds, ReturnOk, download
<1>7. CASE ReceiverPolls \/ ReceiverOnStray BY <1>1, <1>7 DEF ReceiverPolls, ReceiverOnStray
<1>8. CASE SenderStep
  BY <1>1, <1>8 DEF SenderStep, SenderPolls, SenderOnReceiveFile, SenderOnAccepted, SenderOnRefused,
                    SenderOnAck, SenderOnNack, SendFileLoop, Handles, receiving
<1>9. CASE CallSendFile \/ CallReceiveFile \/ ChangeFile
  BY <1>1, <1>9 DEF CallSendFile, CallReceiveFile, ChangeFile, receiving
<1>10. ~Crash BY DEF Crash
<1>11. CASE UNCHANGED vars BY <1>1, <1>11 DEF vars, receiving
<1> QED BY <1>2, <1>3, <1>4, <1>5, <1>6, <1>7, <1>8, <1>9, <1>10, <1>11 DEF Next, ReceiverStep

\* No temporary file is left behind by a transfer that neither a crash nor a change
\* of the file disturbs, so none makes a later transfer of it fail
\* (TransferHandler.cpp:24-27, 84-92).  Either of the two leaves one.
THEOREM NeverOrphaned ==
  ASSUME ~Crashes, Versions = {0}
  PROVE  Spec => []NoOrphanedTemp
<1>1. Init => TempInv BY DEF Init, TempInv, NoFile, NoHandler
<1>2. Inv /\ SlotInv /\ TempInv /\ [Next]_vars => TempInv' BY TempStep
<1>3. SlotInv /\ TempInv => NoOrphanedTemp BY DEF SlotInv, Attached, TempInv, NoOrphanedTemp
<1> QED BY <1>1, <1>2, <1>3, InvAlways, SlotInvAlways, PTL DEF Spec
===============================================================================
