---------------------------- MODULE DownloadOrder ----------------------------
(***************************************************************************)
(* A DownloadTransferHandler fed with the packets of one file in any order *)
(* and any number of times.  The handler has code for that: receive_packet *)
(* keeps the ids it passed over and seeks back for them.                   *)
(***************************************************************************)
EXTENDS DownloadTransfer

VARIABLES
  arrived,    \* the ids of the packets received
  inOrder     \* history: they came in order, each once

alone == <<download, arrived, inOrder>>

AloneInit ==
  /\ dest \in {NoFile, Other}
  /\ \E ok \in OpenResults : /\ handler = Opened(0, ok)
                              /\ temp = IF ok THEN File(<<>>) ELSE NoFile
  /\ thrown = "nothing"
  /\ arrived = {}
  /\ inOrder = TRUE

Arrive(i) ==
  /\ LET out == ReceivePacket(Packet(i, 0))
     IN  /\ handler' = out.handler
         /\ dest' = out.dest
         /\ temp' = out.temp
         /\ thrown' = out.thrown
  /\ arrived' = arrived \cup {i}
  /\ inOrder' = (inOrder /\ arrived = 0 .. (i - 1))

AloneNext == \E i \in 0 .. LastId : Arrive(i)

AloneSpec == AloneInit /\ [][AloneNext]_alone

-----------------------------------------------------------------------------

\* A stream that was open and closes without an exception leaves the new file in place, which
\* is what receive_file takes finished() for (Peer.cpp:180-186).
ClosedMeansStoredStep ==
  handler.open /\ Finished(handler') /\ thrown' = "nothing" => dest' = Version(0)
ClosedMeansStored == [][ClosedMeansStoredStep]_alone

\* Packets that come in order, each once, complete the file with its last block,
\* and none of them is refused before that (TransferHandler.cpp:66-81), if there is
\* a stream to write them to.
InOrderStores ==
  inOrder /\ handler.opened =>
    /\ 0 .. Packets - 1 \subseteq arrived => dest = Version(0) /\ Finished(handler)
    /\ ~Finished(handler) => thrown = "nothing"
=============================================================================
