---------------------------- MODULE FileTransfer ----------------------------
(***************************************************************************)
(* One file on its way from one peer to the other: the upload handler and  *)
(* the calls that feed it, the two directions of the connection, and the   *)
(* download handler with the disk under it (module DownloadTransfer).      *)
(*                                                                         *)
(* There are two ways to start a transfer, and they drive it differently:  *)
(*   "push"  the sender's application calls send_file, which fills the     *)
(*           send slots itself; the receiver accepts and then only polls;  *)
(*   "pull"  the receiver's application calls receive_file, which polls    *)
(*           until the file is there; the sender only polls.               *)
(* In both the sender also sends a packet for each packet acknowledged.    *)
(*                                                                         *)
(* A poll handles all the messages that one read returned.  An exception   *)
(* leaves it in the middle, and the next poll handles the same messages    *)
(* from the first one on (PeerBase.cpp:97-103).                            *)
(***************************************************************************)
EXTENDS DownloadTransfer

CONSTANTS
  Burst,      \* packets sent when the transfer is accepted, 5 in the code
  Slots,      \* MAX_ID, the number of requests that may be unanswered
  Modes,      \* subset of {"push", "pull"}
  Crashes,    \* the receiver may crash and lose the connection
  Attempts,   \* bound: transfers of the file in a behaviour
  MaxBatch    \* bound: messages one read returns

ASSUME TransferAssumption ==
  /\ Burst \in Nat \ {0} /\ Slots \in Nat \ {0}
  /\ Attempts \in Nat /\ MaxBatch \in Nat \ {0}
  /\ Modes \subseteq {"push", "pull"} /\ Crashes \in BOOLEAN

VARIABLES
  mode,       \* how transfers are started
  attempts,   \* transfers started
  version,    \* the version of the sender's file
  upload,     \* the UploadTransferHandler, live while it is in m_upload_transfers
  unanswered, \* ids of the packets without an answer, each takes a send slot
  sender,     \* the send_file call
  unread,     \* messages of the sender's current poll still to be handled
  receiver,   \* the receive_file call, or the request for approval
  keep,       \* m_keep of the download handler
  outcome,    \* how the last attempt ended for the receiver
  batch,      \* the receiver's m_buffer: messages read and not yet truncated
  done,       \* how many messages of the batch are handled
  toReceiver, \* requests on the wire
  toSender    \* answers, and RECEIVE_FILE, on the wire

sending   == <<version, upload, unanswered, sender, unread>>
receiving == <<download, receiver, keep, outcome, batch, done>>
vars      == <<mode, attempts, sending, receiving, toReceiver, toSender>>

NoUpload == [live |-> FALSE, open |-> FALSE, next |-> 0, hash |-> 0]

SendFile(v)    == [kind |-> "SEND_FILE", hash |-> v]
DataPacket(p)  == [kind |-> "DATA_PACKET", packet |-> p]
Reply(re, i, s) == [re |-> re, id |-> i, status |-> s]

Init ==
  /\ dest \in {NoFile, Other} /\ temp = NoFile
  /\ handler = NoHandler /\ thrown = "nothing"
  /\ mode \in Modes /\ attempts = 0
  /\ version = 0 /\ upload = NoUpload /\ unanswered = {} /\ sender = "idle" /\ unread = 0
  /\ receiver = "idle" /\ keep = FALSE /\ outcome = "none"
  /\ batch = <<>> /\ done = 0 /\ toReceiver = <<>> /\ toSender = <<>>

\* Bound: an attempt starts when nothing is left of the one before.
Quiet == ~upload.live /\ ~handler.live /\ toReceiver = <<>> /\ toSender = <<>> /\ batch = <<>>

-----------------------------------------------------------------------------
\* The sender.

\* prepare_upload and create_upload: the file is hashed and SEND_FILE sent.
Offer ==
  /\ upload' = [live |-> TRUE, open |-> TRUE, next |-> 0, hash |-> version]
  /\ toReceiver' = Append(toReceiver, SendFile(version))

\* Mutated SendPackets: an id is skipped between two calls.
SendPacketsMiscounting(n, answered) ==
  LET last == IF upload.next + n - 1 < LastId THEN upload.next + n - 1 ELSE LastId
      ids  == upload.next .. last
  IN  /\ toReceiver' = toReceiver \o
           [i \in 1 .. Cardinality(ids) |-> DataPacket(Packet(upload.next + i - 1, version))]
      /\ upload' = [upload EXCEPT !.next = IF last < LastId THEN last + 2 ELSE last + 1,
                                  !.open = last + 1 < LastId]
      /\ unanswered' = (unanswered \ answered) \cup ids

\* get_next_packet and send_request, n times or until the file is closed: a
\* packet reads the file as it is now, the first that is not whole closes it.
\* The packets in answered have just freed their slots.
SendPackets(n, answered) ==
  LET last == IF upload.next + n - 1 < LastId THEN upload.next + n - 1 ELSE LastId
      ids  == upload.next .. last
  IN  /\ toReceiver' = toReceiver \o
           [i \in 1 .. Cardinality(ids) |-> DataPacket(Packet(upload.next + i - 1, version))]
      /\ upload' = [upload EXCEPT !.next = last + 1, !.open = last < LastId]
      /\ unanswered' = (unanswered \ answered) \cup ids

\* The application calls send_file.
CallSendFile ==
  /\ mode = "push" /\ sender = "idle" /\ receiver = "idle"
  /\ attempts < Attempts /\ Quiet
  /\ attempts' = attempts + 1
  /\ sender' = "waiting" /\ outcome' = "none"
  /\ Offer
  /\ UNCHANGED <<mode, version, unanswered, unread, download, receiver, keep, batch, done, toSender>>

\* The sender polls where its code does: in wait_for_status, in the loop of
\* send_file when no slot is left, and whenever send_file does not run.
SenderPolls ==
  /\ unread = 0 /\ toSender # <<>>
  /\ sender = "pushing" => upload.live /\ upload.open /\ Cardinality(unanswered) = Slots
  /\ sender # "dangling"
  /\ \E n \in 1 .. MaxBatch : n <= Len(toSender) /\ unread' = n
  /\ UNCHANGED <<mode, attempts, version, upload, unanswered, sender, receiving, toReceiver, toSender>>

\* The first message of the poll is an answer to a request of this kind.
Handles(kind, statuses) ==
  /\ unread > 0 /\ Head(toSender).re = kind /\ Head(toSender).status \in statuses
  /\ unread' = unread - 1
  /\ toSender' = Tail(toSender)
  /\ UNCHANGED <<mode, attempts, version, receiving>>

\* respond_to_request, RECEIVE_FILE
SenderOnReceiveFile ==
  /\ Handles("RECEIVE_FILE", {"NONE"})
  /\ Offer
  /\ UNCHANGED <<unanswered, sender>>

\* receive_reply, SEND_FILE, on which wait_for_status returns to send_file.
SenderOnAccepted ==
  /\ Handles("SEND_FILE", {"STATUS_OK"})
  /\ SendPackets(IF Burst < Slots THEN Burst ELSE Slots, {})
  /\ sender' = IF sender = "waiting" THEN "pushing" ELSE sender

\* wait_for_status returns another status and send_file drops the handler; when
\* there is no such call nobody does.
SenderOnRefused ==
  /\ Handles("SEND_FILE", {"UP_TO_DATE"})
  /\ IF sender = "waiting" THEN upload' = NoUpload /\ sender' = "idle"
                           ELSE UNCHANGED <<upload, sender>>
  /\ UNCHANGED <<unanswered, toReceiver>>

\* Mutated SenderOnAck: two packets for each answer.
SenderOnAckTwo ==
  /\ Handles("DATA_PACKET", {"STATUS_OK"})
  /\ upload.live
  /\ IF upload.open
     THEN SendPackets(2, {Head(toSender).id})
     ELSE /\ upload' = NoUpload
          /\ unanswered' = unanswered \ {Head(toSender).id}
          /\ UNCHANGED toReceiver
  /\ UNCHANGED sender

\* Mutated SenderOnAck: an answer brings no further packet.
SenderOnAckSilent ==
  /\ Handles("DATA_PACKET", {"STATUS_OK"})
  /\ upload.live
  /\ upload' = IF upload.open THEN upload ELSE NoUpload
  /\ unanswered' = unanswered \ {Head(toSender).id}
  /\ UNCHANGED <<sender, toReceiver>>

\* Mutated SenderOnAck: the upload stays in the map when it is finished.
SenderOnAckKeeping ==
  /\ Handles("DATA_PACKET", {"STATUS_OK"})
  /\ upload.live
  /\ IF upload.open
     THEN SendPackets(1, {Head(toSender).id})
     ELSE /\ unanswered' = unanswered \ {Head(toSender).id}
          /\ UNCHANGED <<upload, toReceiver>>
  /\ UNCHANGED sender

\* receive_reply, DATA_PACKET: the next packet, or the end of the upload.
SenderOnAck ==
  /\ Handles("DATA_PACKET", {"STATUS_OK"})
  /\ upload.live
  /\ IF upload.open
     THEN SendPackets(1, {Head(toSender).id})
     ELSE /\ upload' = NoUpload
          /\ unanswered' = unanswered \ {Head(toSender).id}
          /\ UNCHANGED toReceiver
  /\ UNCHANGED sender

\* receive_reply, DATA_PACKET, refused or for an upload that is gone.
SenderOnNack ==
  /\ \/ Handles("DATA_PACKET", {"INVALID_REQUEST_ID"})
     \/ Handles("DATA_PACKET", {"STATUS_OK"}) /\ ~upload.live
  /\ unanswered' = unanswered \ {Head(toSender).id}
  /\ UNCHANGED <<upload, sender, toReceiver>>

\* The loop of send_file, when the poll it was in is over: a packet into a free
\* slot, or return.  It looks at the handler by a reference that stays behind
\* when a poll removes the handler from the map.
SendFileLoop ==
  /\ sender = "pushing" /\ unread = 0
  /\ \/ /\ upload.live /\ upload.open /\ Cardinality(unanswered) < Slots
        /\ SendPackets(1, {})
        /\ UNCHANGED sender
     \/ /\ upload.live => ~upload.open
        /\ sender' = IF upload.live THEN "idle" ELSE "dangling"
        /\ UNCHANGED <<upload, unanswered, toReceiver>>
  /\ UNCHANGED <<mode, attempts, version, unread, receiving, toSender>>

\* Another program changes the file while it is sent.
ChangeFile ==
  /\ version + 1 \in Versions /\ upload.live
  /\ version' = version + 1
  /\ UNCHANGED <<mode, attempts, upload, unanswered, sender, unread, receiving, toReceiver, toSender>>

SenderStep ==
  \/ SenderPolls \/ SenderOnReceiveFile \/ SenderOnAccepted \/ SenderOnRefused
  \/ SenderOnAck \/ SenderOnNack \/ SendFileLoop

-----------------------------------------------------------------------------
\* The receiver.

\* The application calls receive_file.
CallReceiveFile ==
  /\ mode = "pull" /\ receiver = "idle" /\ attempts < Attempts /\ Quiet
  /\ attempts' = attempts + 1
  /\ receiver' = "waiting" /\ outcome' = "none"
  /\ toSender' = Append(toSender, Reply("RECEIVE_FILE", 0, "NONE"))
  /\ UNCHANGED <<mode, sending, download, keep, batch, done, toReceiver>>

\* poll_requests, once there is something to read; what an exception left in the
\* buffer comes first.
ReceiverPolls ==
  /\ done = 0
  /\ \E n \in 1 .. MaxBatch :
       /\ n <= Len(toReceiver)
       /\ batch' = batch \o SubSeq(toReceiver, 1, n)
       /\ toReceiver' = SubSeq(toReceiver, n + 1, Len(toReceiver))
  /\ done' = 1
  /\ UNCHANGED <<mode, attempts, sending, download, receiver, keep, outcome, toSender>>

Polling == done \in 1 .. Len(batch)

\* Mutated Accept: UP_TO_DATE is not replied.
AcceptUnanswered(v) ==
  \/ /\ OpenDownload(v)
     /\ toSender' = Append(toSender, Reply("SEND_FILE", 0, "STATUS_OK"))
     /\ UNCHANGED outcome
  \/ /\ UpToDate(v)
     /\ outcome' = "UP_TO_DATE"
     /\ UNCHANGED <<download, toSender>>

\* Mutated Accept: receive_file is not told of UP_TO_DATE.
AcceptUntold(v) ==
  \/ /\ OpenDownload(v)
     /\ toSender' = Append(toSender, Reply("SEND_FILE", 0, "STATUS_OK"))
     /\ UNCHANGED outcome
  \/ /\ UpToDate(v)
     /\ toSender' = Append(toSender, Reply("SEND_FILE", 0, "UP_TO_DATE"))
     /\ UNCHANGED <<download, outcome>>

\* create_download and its reply.
Accept(v) ==
  \/ /\ OpenDownload(v)
     /\ toSender' = Append(toSender, Reply("SEND_FILE", 0, "STATUS_OK"))
     /\ UNCHANGED outcome
  \/ /\ UpToDate(v)
     /\ toSender' = Append(toSender, Reply("SEND_FILE", 0, "UP_TO_DATE"))
     /\ outcome' = "UP_TO_DATE"
     /\ UNCHANGED download

\* authorize_request, SEND_FILE: accepted at once when receive_file asked for it,
\* else kept for the application.
ReceiverOnSendFile ==
  /\ Polling /\ batch[done].kind = "SEND_FILE"
  /\ IF mode = "pull"
     THEN Accept(batch[done].hash) /\ UNCHANGED receiver
     ELSE receiver' = "asked" /\ UNCHANGED <<download, outcome, toSender>>
  /\ done' = done + 1
  /\ UNCHANGED <<mode, attempts, sending, keep, batch, toReceiver>>

\* The application accepts.
Approve ==
  /\ receiver = "asked" /\ done = 0
  /\ Accept(upload.hash)
  /\ receiver' = "idle"
  /\ UNCHANGED <<mode, attempts, sending, keep, batch, done, toReceiver>>

\* respond_to_request, DATA_PACKET: receive_packet, then the handler is removed if
\* it is finished and not kept, then the reply.
ReceiverOnData ==
  /\ Polling /\ batch[done].kind = "DATA_PACKET" /\ handler.live
  /\ LET p   == batch[done].packet
         out == ReceivePacket(p)
     IN  /\ out.thrown = "nothing"
         /\ dest' = out.dest /\ temp' = out.temp /\ thrown' = out.thrown
         /\ handler' = IF Finished(out.handler) /\ ~keep THEN NoHandler ELSE out.handler
         /\ toSender' = Append(toSender, Reply("DATA_PACKET", p.id, "STATUS_OK"))
  /\ done' = done + 1
  /\ UNCHANGED <<mode, attempts, sending, receiver, keep, outcome, batch, toReceiver>>

\* The same when receive_packet throws: through poll_requests and receive_file to
\* the application, with the batch still in the buffer.
ReceiverThrows ==
  /\ Polling /\ batch[done].kind = "DATA_PACKET" /\ handler.live
  /\ LET out == ReceivePacket(batch[done].packet)
     IN  /\ out.thrown # "nothing"
         /\ dest' = out.dest /\ temp' = out.temp /\ thrown' = out.thrown
         /\ handler' = out.handler
  /\ done' = 0
  /\ receiver' = "idle" /\ outcome' = "exception"
  /\ UNCHANGED <<mode, attempts, sending, keep, batch, toReceiver, toSender>>

\* authorize_request, DATA_PACKET of a transfer that is not there.
ReceiverOnStray ==
  /\ Polling /\ batch[done].kind = "DATA_PACKET" /\ ~handler.live
  /\ toSender' = Append(toSender, Reply("DATA_PACKET", batch[done].packet.id, "INVALID_REQUEST_ID"))
  /\ done' = done + 1
  /\ UNCHANGED <<mode, attempts, sending, download, receiver, keep, outcome, batch, toReceiver>>

\* receive_file returns for a download that is finished, and drops it.
ReturnOk ==
  /\ handler' = NoHandler /\ keep' = FALSE
  /\ receiver' = "idle" /\ outcome' = "STATUS_OK"
  /\ UNCHANGED <<dest, temp, thrown>>

\* The end of the poll, and what the call it was made from does next: receive_file
\* returns when the wait came to UP_TO_DATE or the download is finished, which one
\* whose file did not open is before it begins.
PollEnds ==
  /\ batch # <<>> /\ done = Len(batch) + 1
  /\ batch' = <<>> /\ done' = 0
  /\ CASE receiver = "waiting" /\ outcome = "UP_TO_DATE" ->
            receiver' = "idle" /\ UNCHANGED <<download, keep, outcome>>
       [] receiver = "waiting" /\ outcome # "UP_TO_DATE" /\ ~Finished(handler) ->
            receiver' = "looping" /\ keep' = TRUE /\ UNCHANGED <<download, outcome>>
       [] \/ receiver = "waiting" /\ outcome # "UP_TO_DATE" /\ Finished(handler)
          \/ receiver = "looping" /\ Finished(handler) ->
            ReturnOk
       [] OTHER -> UNCHANGED <<download, receiver, keep, outcome>>
  /\ UNCHANGED <<mode, attempts, sending, toReceiver, toSender>>

ReceiverStep ==
  \/ ReceiverPolls \/ ReceiverOnSendFile \/ ReceiverOnData \/ ReceiverThrows
  \/ ReceiverOnStray \/ PollEnds

-----------------------------------------------------------------------------

\* The receiver's process ends: only its disk is left, and the sender drops the
\* peer with all its transfers.
Crash ==
  /\ Crashes /\ upload.live
  /\ upload' = NoUpload /\ unanswered' = {} /\ sender' = "idle" /\ unread' = 0
  /\ handler' = NoHandler /\ thrown' = "nothing" /\ receiver' = "idle" /\ keep' = FALSE
  /\ outcome' = "exception"
  /\ batch' = <<>> /\ done' = 0 /\ toReceiver' = <<>> /\ toSender' = <<>>
  /\ UNCHANGED <<mode, attempts, version, dest, temp>>

Next ==
  \/ CallSendFile \/ CallReceiveFile \/ Approve
  \/ SenderStep \/ ReceiverStep \/ ChangeFile \/ Crash

\* Both sides keep polling and the application accepts what it is asked.
Fairness == WF_vars(SenderStep) /\ WF_vars(ReceiverStep) /\ WF_vars(Approve)

Spec == Init /\ [][Next]_vars /\ Fairness

-----------------------------------------------------------------------------

Wire == [kind : {"SEND_FILE"}, hash : Versions]
        \cup [kind : {"DATA_PACKET"}, packet : {Packet(i, v) : i \in 0 .. LastId, v \in Versions}]

\* Every variable has its type, no slot beyond the last is used, and a poll is
\* never past its batch.
TransferTypeOK ==
  /\ DownloadTypeOK
  /\ mode \in Modes /\ attempts \in 0 .. Attempts /\ version \in Versions
  /\ upload \in [live : BOOLEAN, open : BOOLEAN, next : 0 .. LastId + 1, hash : Versions]
  /\ unanswered \subseteq 0 .. LastId /\ Cardinality(unanswered) <= Slots
  /\ sender \in {"idle", "waiting", "pushing", "dangling"}
  /\ unread \in 0 .. Len(toSender)
  /\ receiver \in {"idle", "asked", "waiting", "looping"} /\ keep \in BOOLEAN
  /\ outcome \in {"none", "STATUS_OK", "UP_TO_DATE", "exception"}
  /\ batch \in Seq(Wire) /\ done \in 0 .. Len(batch) + 1
  /\ toReceiver \in Seq(Wire)

\* When receive_file returns STATUS_OK the file is in place, unless its temporary
\* file did not open: then it returns STATUS_OK with nothing stored
\* (Peer.cpp:178-186, TransferHandler.cpp:34, 84-96).
OkMeansStoredStep ==
  outcome # "STATUS_OK" /\ outcome' = "STATUS_OK" /\ handler.opened
    => dest' \in {Version(v) : v \in Versions}
OkMeansStored == [][OkMeansStoredStep]_vars

\* receive_file finds the download it asked for when its wait is over, and never
\* throws for want of it: the packets that could finish and remove it come only
\* after m_keep is set, and whatever makes none is told to it (Peer.cpp:152-179, 58).
DownloadFound ==
  receiver = "waiting" /\ batch # <<>> /\ done = Len(batch) + 1 /\ outcome # "UP_TO_DATE"
    => handler.live

\* The packets are handled in the order of their ids, though the burst, every answer
\* and the loop of send_file send them and what an exception left in the buffer is
\* handled again: the receiver never passes over one, which would put the blocks
\* after it at the wrong place (Peer.cpp:119-136, Peer_private.cpp:140-156, 206-222,
\* TransferHandler.cpp:44-54).
NothingSkipped == handler.live => handler.missing = {}

\* The answer to a packet frees the slot the next packet takes: send_request does
\* not throw inside receive_reply (Peer_private.cpp:147-150, MessageQueue.cpp:18).
SlotForNextPacket ==
  unread > 0 /\ Head(toSender).re = "DATA_PACKET" /\ Head(toSender).status = "STATUS_OK"
             /\ upload.live /\ upload.open
    => Cardinality(unanswered \ {Head(toSender).id}) < Slots

\* A temporary file belongs to a transfer that goes on: one that is left behind
\* makes every later transfer of the file fail (TransferHandler.cpp:24-27).
NoOrphanedTemp == temp.exists => handler.live

\* A receiver that answers UP_TO_DATE has a version of the file
\* (TransferHandler.cpp:24-31, TransferErrors.cpp:20).
UpToDateIsTrue == outcome = "UP_TO_DATE" => dest \in {Version(v) : v \in Versions}

\* Every transfer that starts brings the file to the receiver.
Delivered == (attempts > 0) ~> (dest \in {Version(v) : v \in Versions})

\* Every call of the application returns.
CallsReturn == /\ (receiver = "waiting") ~> (receiver = "idle")
               /\ (sender = "waiting") ~> (sender = "idle")

\* The upload handler of an accepted transfer is released in the end, though only
\* the answer to a packet sent before the last does it (Peer_private.cpp:146-153).
UploadReleased == (upload.next > 0) ~> ~upload.live
=============================================================================
