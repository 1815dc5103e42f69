# A specification of libfsp

libfsp is the C++ library behind FileShare: two programs connect over TLS, each
shares a tree of virtual paths, and each may send a file to the other
(`send_file`), fetch one from it (`receive_file`) or list a folder
(`list_files`). Paths below are relative to `src/`; `Peer.cpp` stands for
`source/Peer/Peer.cpp`, and so on. The repository has no protocol document, so
the code and its comments are the reference.

1. [Inventory](#inventory)
2. [Modules and how they follow the code](#modules)
3. [Runs](#runs)
4. [Fairness](#fairness)
5. [Proofs](#proofs)
6. [What the runs found](#findings)
7. [What is not modelled](#not-modelled)
8. [Plan](#plan)

<a name="inventory"></a>
## 1. Inventory

One thread runs a program: the application calls the library, and the library
reads a socket only inside `poll_events` (server) or inside a blocking call of a
peer. What is concurrent are the two programs, the messages between them, and
calls that re-enter the library from a poll. This is where the hard behaviour
is: a reply handled in the middle of the loop of a call, a batch of messages
left half handled by an exception, ids of one byte that are used again.

| Component | State | Operations | What makes it correct |
|---|---|---|---|
| **Message queue** (`MessageQueue.cpp`) | next id, free send slots, requests sent and requests received, by id | `send_request`, `receive_request`, `send_reply`, `receive_reply` | an id is not used again while its request waits; slots are neither lost nor made up; the search for an id ends; a reply is recorded for the request it answers |
| **Upload handler** (`TransferHandler.cpp`) | open file, next packet id | `get_next_packet`, `finished` | ends with a packet that is not full; lives as long as somebody looks at it |
| **Download handler** (`TransferHandler.cpp`) | stream into `x.fsdownload`, expected id, ids passed over | constructor, `receive_packet`, `finish_transfer`, `finished` | the destination is the old file or the whole new one; no temporary file survives the transfer; finished means stored |
| **Listing handlers** (`TransferHandler.cpp`) | position in a folder; entries received | `get_next_packet`, `receive_packet`, `finished` | the entries sent are those received, the listing ends |
| **Peer** (`Peer.cpp`, `Peer_private.cpp`) | queue, four maps of transfers by id, requests awaiting approval | `authorize_request`, `respond_to_request`, `receive_reply`, `send_file`, `receive_file`, `list_files`, `wait_for_status` | a call returns; a SEND_FILE settles the RECEIVE_FILE it answers; only such a SEND_FILE is accepted unasked; a transfer's id is its own |
| **Peer base** (`PeerBase.cpp`) | read buffer | `poll_requests`, `disconnect` | each message is handled once, in order |
| **Version negotiation** (`PreAuthPeer.cpp`, `IProtocolHandler.cpp`) | protocol version, read buffer | client hello, version reply | both ends agree; bytes read early are not lost; a known device is not refused |
| **Server** (`Server.cpp`) | descriptors, three maps of peers, event queue, known peers | `connect`, `poll_events`, `pull_event`, `accept_peer`, `delete_peer` | requests come only from trusted devices, whatever descriptors are used again; every connection is in one map and is polled; no request is lost |
| **Known peers, configuration, keys** (`Config/`, `Server.cpp`) | key, certificate, configuration file, keys by uuid | `initialize_private_key`, `load`, `save`, `insert`, `contains` | a crash between two writes leaves something that loads or is refused; a key in use is never replaced |
| **File mapping** (`FileMapping.cpp`, `Path.cpp`) | a tree of virtual nodes | the setters of a node, `host_to_virtual`, `virtual_to_host`, `is_forbidden` | a node keeps its shape; the two directions are inverse; only what is visible and not forbidden is reachable |
| **Message format** (`ProtocolHandler.cpp`, `VarInt.cpp`, `Serialize.cpp`) | none | format, parse | parse inverts format, for a message cut anywhere |

How they interact: the server polls all sockets and hands each readable one to
its peer. The peer appends what it read to its buffer and parses message after
message; a REQUEST goes to `authorize_request`, which answers at once or keeps it
for the application (the server turns kept requests into events), a RESPONSE goes
to `receive_reply`, which settles the request in the queue and drives the
transfer on: each acknowledged packet sends the next. The blocking calls do their
own polling in `wait_for_status` and in their loops, so every handler may run in
the middle of any of them.

The hazards this gives rise to are listed, each with its line, in `PROJECT.json`.

<a name="modules"></a>
## 2. Modules and how they follow the code

    MessageIds ──┬── MessageQueue ── MessageExchange ── MessageExchangeProofs
                 │                        └──implements──▶ RequestWindow
                 └── PeerSession ── PeerSessionProofs ── PeerWaitingProofs
    DownloadTransfer ──┬── DownloadOrder ── DownloadTransferProofs ──┐
                       └── FileTransfer ─────────────────────────────┴── FileTransferProofs
    VarInt ── VersionMessage ── MessageFormat ── ByteStream ──implements──▶ MessageStream
    Server ── ServerProofs
    DeviceFiles ── DeviceFilesProofs
    FileMapping ── FileListing ── FileMappingProofs

`MessageStream` is what lets the other modules take a message as a whole: it is the abstract
specification of a connection, and `ByteStream` implements it. Two things it says about polls are used by
them: a batch whose handler throws is handed over again (`FileTransfer`), and the
first request behind the version message waits for the next read (`Server`).

An `MC` module instantiates the module it is named after for TLC.

**MessageIds** has what `MessageQueue` and `PeerSession` share and no state: ids
`0 .. MaxId` that wrap (`Succ`), statuses, the outcome of the id search (`Finds`:
the first id, going up from the counter, that is absent or has a final status)
and the rule for counting slots (`SlotsAfterReply`). `MAX_ID` is 0xFF in the code
and any positive number here.

**MessageQueue** is the sending half of the class. `nextId`, `slots` and `outgoing`
are `m_message_id`, `m_available_send_slots` and `m_outgoing_requests`. The search
loop of `send_request` has no bound in the code; when it would not end, the action
is `SendRequestHangs` and `hung` says so. `ReceiveReply` takes any reply for any id
the map holds, because a batch that is handled again delivers old replies again;
the history variable `reopened` records the one thing such a replay can do that
an orderly peer cannot, an APPROVAL_PENDING for a settled request.

**MessageExchange** adds the other peer's half (`incoming`, `approvals`) and the two
directions of the connection. One direction of requests is enough: the two share
no state. A request is known by its serial number, so that it can be told from a
later one under the same id. **RequestWindow** is the abstract promise: at most
`MAX_ID` requests unsettled, each decided once, and its own decision learnt.
`KeepsPromise` states the refinement, with the history variables `sent`, `decided`
and `learnt` as the mapping.

**DownloadTransfer** is the download handler over blocks of `packet_size` bytes:
`SkipAhead`, `FillIn` and `TakeNext` are the three branches of `receive_packet`,
with the stream position, the zeros and the finishing condition of each. After a gap the position
lags behind the ids, and the zeros of the next gap go over blocks already there (`ZerosAt`). `UpToDate` is the
constructor's test; `Opened` its handler, whose stream may have failed to open without a word (`OpenFails`): it is then finished
from the start and writes nothing. A hash tells the version of a file and no
more, so comparing hashes is comparing files. **DownloadOrder** feeds it the
packets of a file in any order, which the handler has code for.

**FileTransfer** composes it with the sender: the upload handler, the burst of
packets on acceptance, a packet per acknowledgement, the loop of `send_file` and the
polls of `receive_file`. A transfer starts as a push or as a pull and the two drive
it differently. `batch` and `done` are the receiver's `m_buffer`: one read returns
several messages, an exception leaves all of them in the buffer and the next poll
starts again from the first. `ReturnOk` is the return of `receive_file` once the handler is finished. `sender = "dangling"` stands for the use of an upload
handler that a nested poll has erased. `ChangeFile` and `Crash` are the environment.

**PeerSession** is two `Peer` objects with everything `authorize_request`,
`respond_to_request`, `receive_reply` and the three blocking calls do to them. A
peer is a record; the operators that stand for member functions take a peer and
return the peer after the call, with what it wrote and what it threw, so that they
compose as the calls do (`Authorized` → `Respond` → `CreateUpload` → `SendRequest`). An
action is one message handled (`Handle`), one read (`Poll`), the end of a poll, or
one stretch of a blocking call between two polls (`Resume`). A transfer is its path
and the number of packets left. `hung` says that a peer is in the search loop of `send_request` for ever. Where the code searches an `unordered_map` and takes the
first hit, the model takes any.

**Server** is one server, its sockets and its application. A connection is a record with what is on its
way (`inbox`), the read buffer and the state of its `PreAuthPeer`. `handshake`, `pending` and
`peers` are the three maps, from descriptors as in the code, and the system gives the lowest free
descriptor to the next connection. The loop of `poll_events` is taken one ready descriptor at a time:
`AcceptSocket`, `PollPeer`, `PollPending`, `PollHandshake` and `PollUnknown` are the branches
of the loop and of `handle_peer_events`. A poll of a peer either makes events of all it parsed (`PullRequests`) or throws after
some of it (`PullFails`): what was parsed stays in `parsed` (`m_request_buffer`), and all the bytes stay in the buffer; `Advance` moves the iterator, `DeleteMove` is `delete_move`. Between
two steps the network and the other devices go on. `process_events` (`Process...`) and
`pull_event` (`Pull`) differ in the order of the events and in what an exception leaves of them. The
application accepts at once, later (`AcceptHeld`) or never, may disconnect any peer it has or finds in `get_peers` and
`get_pending_peers` (`HangUp`), dial (`Connect`, `Connecting`) and restart. Where the code reads an
uninitialised or dangling value, all its outcomes are there, `doing = "undefined"` being the one of
which nothing is said.

**DeviceFiles** is `initialize_private_key`, and `load` and `save`, with one action per call that
touches a file. A file is known by what it belongs to (the pair generated together, the version of
the settings), whether all of it has been written, and who may read it. The opens of a start, and any write or close, may fail; opening and
renaming the file that `save` writes do not. The program may be killed anywhere, a user may remove a file.

**VarInt**, **VersionMessage** and **MessageFormat** write and read bytes as the code does, field by
field, with `GroupBits` bits in a group where the code has 7. A parse returns the bytes used (0: not
enough yet), the value, and whether it threw. **ByteStream** sends them through a connection that cuts
them anywhere, into `poll_requests`; the handler of one of the requests may throw.
**MessageStream** is the abstract specification described above.

**FileMapping** is the tree an application shares. A node is at the path of map keys that
lead to it and has its own name, which `set_name` may make differ from its key. The operations have the
checks of the setters; one that throws changes nothing. `HostToVirtual`, `Found` and `VirtualToHost`
are the translations, over all spellings of a path: with the name of the root or without, with a
separator at the end, and with names that begin with the letters of the root's name.
**FileListing** adds the two handlers of a listing, page by page, while the mapping changes.

<a name="runs"></a>
## 3. Runs

| Run | Bounds | States | What it shows |
|---|---|---|---|
| `queue` | 4 ids, 2 payloads, 2 final statuses | 85,681 | Replies in any order and repeated: counters stay in a byte, no waiting request is replaced; until one is reopened the slots are exact and the search ends |
| `exchange` | 3 ids, 5 requests | 4,724 | Ids are used again while older requests wait for approval; no reply or approval goes to the wrong request; the pair implements `RequestWindow` |
| `download` | 4 packets, last one full, an open that may fail | 647 | In order: stored with the last block, nothing refused before. In any order: a stream that closes in silence means stored |
| `transfer` | 7 packets, 8 slots, burst 3, reads of up to 4, 2 transfers | 4,005 | Delivered, calls return, handlers and temporary file are gone, also when the empty last packet is refused |
| `transfer_faults` | 6 packets, 3 slots, 2 versions, crashes, an open that may fail, 2 transfers | 26,127 | The destination is whole, no packet is passed over, `receive_file` finds its download, a success reported is a file stored unless its temporary file did not open, an acknowledgement always frees the slot it needs |
| `session` | 3 sets of calls, 6 ids, 2 packets, 2 pages, reads of up to 2 | 127,455 | Calls return, nobody is left waiting, no exception, slots exact, each SEND_FILE settles the right RECEIVE_FILE |
| `server` | 2 connections, one of which may be dialled, 2 descriptors, one name with 2 keys, a version known, one unknown, one malformed message, 1 request each | 549,834 | Requests come only from trusted devices; none is lost; a connection is in one map and is polled; a peer promoted for its key is never refused; what arrives for a peer is handed over, unless an exception leaves it in the buffer |
| `startup` | 3 pairs, 2 changes of the settings, 1 file removed | 9,810 | A server that is up has one whole pair; a pair in use is neither used up nor replaced; the configuration is never torn |
| `mapping` | 2 names, 2 host paths (one within the other and forbidden), 2 nodes, depth 2, pages of 1 or 2 | 69,658 | Nodes keep their shape, only visible files are served, announced paths are found, a listing is whole and ends |
| `framing` | groups of 3 bits, every kind of message, 2 of 8 requests, 1 exception | 32,093 | However the bytes are cut the polls implement `MessageStream`; both sides have one version |
| `transfer_stale`, `mapping_resolved` | as `transfer_faults`, as `mapping` | | Violations, see [findings](#findings) |

Why the bounds are enough. The queue only compares ids for equality and order on a
ring, so four of them with three slots show wrapping, a full queue and a request
passed over; the theorems take over for 256. Five requests over three ids go
around the ring almost twice. A transfer has more packets than its burst and than
one read returns, so that the burst, the packet per acknowledgement and the end fall into
different reads; in `transfer` there is a slot for each packet and in
`transfer_faults` fewer than packets, the two regimes of the loop of `send_file`. Two
transfers are what it takes for the remains of one to meet the next.
`session` makes the calls of a set in every order and interleaving: `OneSided` has
one of each kind and two for a path the other peer does not share, `BothFetch` has
both peers wait at once, `SendAndFetch` has a SEND_FILE nobody asked for among
answers to other requests. Two packets and a burst of two leave out the
packet per acknowledgement, which is the subject of `FileTransfer`; the two pages of a
listing do have it.

In `server` the second connection may have the descriptor of the first, its name and its key or
another; two entries in `m_fds` are what `delete_move` needs to move one. The second version in `Supported` is never offered:
it makes the choice of the greatest a choice. In `startup` three pairs allow a start
after two that left nothing to use. In `mapping` two nodes may be siblings, or
one below the other, and a forbidden path lies within a shared one; `AfterRoot`
makes one name start with the letters of the root. The theorems take over for larger trees and more
starts. In `framing` the numbers in the messages have one, two and three bytes, on both sides of the
bounds (7 and 8, 63 and 70), and a payload long enough for a size of two bytes; two requests behind
the version message are enough to be cut together with it, with each other, or not at all.

Bounds that hide something, on purpose. In `session` the ids are enough that none
is used again while a peer still has a transfer under it, and no path is fetched twice. With four ids
`NoException` fails: a `SEND_FILE` takes the id of a `FILE_LIST`, and the answer to
the last page erases the new upload from `m_upload_transfers` (Peer_private.cpp:186, which
means `m_list_files_transfers`). It takes 256 requests in the program. In `transfer` there is a
slot for each packet and every temporary file opens; the liveness properties need both, as with fewer slots
the loop of `send_file` may be left with a handler that is gone (`sender = "dangling"`). `transfer_faults` has both cases. No passing run lets the two peers wait for each other's approval at the same
time; they would wait for ever (Peer_private.cpp:273 has a TODO about a timeout). In
`mapping` nodes are only removed while a folder is listed; the responder has its own copy of the node, so
that what else changes does not reach it.

Deadlock is not checked (`CHECK_DEADLOCK FALSE`) in any run: the requests, calls or
transfers are finitely many, or a peer may have nothing to send.

The type invariants that no run names (`ServerTypeOK`, `SessionTypeOK`, `TransferTypeOK`, `DownloadTypeOK`,
`ExchangeTypeOK`) document the variables; TLC finds them to hold in the same instances; `SessionTypeOK` and `ExchangeTypeOK` are proved.

<a name="fairness"></a>
## 4. Fairness

Nothing in the library runs by itself, so fairness is about the applications, and is
what their event loop does: each keeps polling, goes on with a call it is in and,
between calls, answers what it is asked. It is weak in every case: the step stays
enabled until it is taken. No fairness says that a call is made, a file
changes or a process crashes. In `PeerSession` the fairness of `Handle(p)` is written
`WF_done(Moves(p))`: only steps of `Handle(p)` change `done[p]` while it points into the
batch, and whenever `Handle(p)` can step such a step is possible, so the two say the same,
while TLC need not enumerate what a handler writes to evaluate it.
In `MessageExchange` each request awaiting approval has its own fairness: the application
answers in any order and skips none for ever.

In `Server` the application calls `process_events` or `pull_event` again and again, as Server.hpp:88 asks
(`StartPoll`), and a call that has started goes on (`Step`). `connect` is the exception: it waits
for the other device without a timeout, so that its return needs `Answer`, the assumption that a device
that is dialled answers or leaves. In `ByteStream` bytes that have been sent are read (`WF_wire`: only a read
shortens the wire); in `FileListing` both ends go on polling. `DeviceFiles` has no fairness and no
liveness: a start that is killed is nobody's promise.

<a name="proofs"></a>
## 5. Proofs

There are eight modules of proofs.

`MessageExchangeProofs` proves the four properties of run `queue`, for every `MaxId`,
every set of final statuses and every payload, from the three assumptions of
`MessageIds` alone: `MaxId` is positive (there is a slot), `Final` is neither empty nor does
it hold the markers of the model, there is some request.

- `TypeCorrect`: `TypeOK` is inductive as it stands.
- `OpenAlwaysKept`: a step replaces an entry only where `Finds` allows it, and `Finds` excludes
  every open id. It holds of replayed replies too.
- `SlotsAccounted` and `SearchAlwaysEnds` need each other. That the search ends follows from
  counting: with a slot left fewer than `MaxId + 1` ids are open. The count in turn is
  only kept while the search is not stuck (a stuck search has taken its slot).
  `Account` joins the two under `~reopened` and is inductive: `OpenAfterSend` and
  `OpenAfterReply` say how a step changes the set of open ids, and `FS_AddElement`,
  `FS_RemoveElement` turn that into its size.

`MessageExchangeProofs` proves the safety properties of run `exchange`, for every number of
requests as well (`ExchangeTypeCorrect`, `RepliesMeetTheirRequests`, `HeldRequestsKept`), and that the
exchange implements `RequestWindow` without its fairness (`WindowKept`). Apart from the types none of these
is inductive: nothing in `ReplyMeetsItsRequest` says that an id on the wire is still open when it
arrives. The invariant `Whereabouts` says where each open id is:

- `OnTheWire`, `HeldAsSent`, `OnTheWayBack`: a request on its way, one held for approval and a reply
  on its way back each have an id that is open at the sender for the same request. An id on the wire
  is nowhere else; a held one has at most its APPROVAL_PENDING on the way;
- `OnePerRequest`: open ids stand for different requests, and for exactly those sent and not learnt;
- `Account` of the queue and `~reopened`: between two orderly peers no reply is replayed, so
  the theorems of the queue apply (`QueueStep`: a step of the exchange is one of the queue).

That the window is never exceeded (`WindowBound`) is counting again: unsettled requests are at most
the open ids, since the latter map onto them, and there are at most `MaxId` of those.

`DownloadTransferProofs` has the lemmas about one call of the download handler, for files of every size, with a
whole or a short last block: for each branch of `receive_packet`, that its outcome is `Sound`. The handler keeps the hash it was made with,
the destination is as it was or the file, and after a stream closed in silence it is the file.

It proves with them the properties of run `download`, about a handler alone, opened or not. `AloneAlwaysWhole` and `SilenceMeansStored` hold whatever
packets come and wherever zeros are written, and need little of the state (`Kept`): nothing gets to the destination but through the comparison of the hashes. `OrderStores` is
about packets in order and needs the state of the stream after n of them (`InStep`): n blocks written,
the position behind them, no id passed over, nothing thrown; with the last block the file is in place. It excepts the stream that did not open.

`FileTransferProofs` proves six properties of the runs `transfer` and `transfer_faults`, with temporary files that open or not, for any number of versions, slots, attempts and crashes and
polls of any length. Three follow from `Inv`: `DestinationAlwaysWhole` is about both ways to start a transfer and batches that are handled again after an exception. `OkAlwaysMeansStored`
and `DownloadAlwaysFound` are about `receive_file`, which sets `m_keep` only after its wait, with packets perhaps already behind
the SEND_FILE. Neither is inductive. `Waits` follows its request: alone on the wire, then as SEND_FILE on the
wire, then alone in the batch, then handled, with the download open (or never opened); in none of these phases is there a packet that could end the download, because the upload
sends none before it reads the answer. `Loops` takes over from there: as long as it polls, its download is kept and, if it opened, is open or has stored the file. `OkMeansStored` excepts the download that
did not open: `receive_file` returns STATUS_OK for it with nothing stored (section 6).
`Roles` keeps the two modes apart.

The other three need to know where every packet and every answer is; that is `SlotInv`, on top of `Inv`.

- `SlotAlwaysFree` (`SlotForNextPacket`). The property says that an id is answered only while it holds a slot, and
  two answers with one id would break it. `SlotInv` has two phases. In `Starting` no packet has been sent and
  the wires hold at most the request of `receive_file` or the SEND_FILE and its answer. In `Running` the packets in the batch and on the wire are numbered
  without a gap from `Coming`, the one handled next, and the download is at that number (`InOrder`). While the upload has more to send, each answer
  on its way belongs to a different packet below `Coming` that still holds its slot (`Sending`). A batch is handled again after an exception, and its packets
  are then answered again: that is why the order cannot be claimed to the end. But with packets in order the download throws only when it is closed, that is when the last packet was handled
  and so sent, and from then on the upload sends nothing (`Over`). What the handler makes of a packet in order comes from `DownloadTransferProofs` (`TakesNext`, `FinishedHandler`).
- `NothingEverSkipped` (`NothingSkipped`). The download never meets a packet ahead of the one it expects, so the zeros of `SkipAhead` are never
  written between two peers. `InOrder` does not say so once the stream is closed and a batch is handled again. `InSequence` is what remains true even then: the packets
  on the wire and in the batch are numbered without a gap, and the handler expects the next of them (`Upcoming`) or a later one.
- `NeverOrphaned` (`NoOrphanedTemp`), under `~Crashes` and `Versions = {0}`, the conditions of run `transfer`. While the stream is open the temporary file
  is exactly the blocks written so far (`TempInv`), with the last packet it becomes the file, and no second request meets an open stream.
  A crash or a change of the file leaves one behind (run `transfer_stale`).

`DeviceFilesProofs` proves the four properties of run `startup` for any number of starts, pairs, saves and
removals. The invariant has a part per question. `KeyAt` says what is known of the two files at each step of
a start, in particular that whatever is opened for writing was absent at the test, and stays
marked as incomplete until it is closed; `KeyAlwaysKept` follows from it. `Settled` says that a pair the device was up with is
there and that no start that meets it gets as far as generating one; `StartsAgain` follows. `ConfigAt` relates the version in memory to the
one in the file, as a save must not go back. `KeyKept` and `ConfigKept` are properties of steps and need the invariant of
the state the step starts in.

`FileMappingProofs` proves, for trees of every depth and any names and host paths, that no sequence of operations breaks the shape of
a node (`Shape`) and that the files served are exactly those shared (`ServedAreShared`). The invariant `MInv` adds to the shape that
every place on the way to a node is a node (`Rooted`): a removal must take the subtree along
(`WithoutClosed`), or a node would be reached past one that hides it. `ServedAreShared` then is about one state: what a walk finds has been
seen all the way (`FoundIsSeen`), and every visible file is found under the keys that lead
to it (`OwnName`), because what is above a node is virtual, so that no folder of the host ends the walk before it (`WayIsVirtual`).
`AnnouncedAreFound` follows a host path through `HostToVirtual` and back: the names of the nodes on the way are the keys that lead there
(`NamesAreKeys`), and what is below a folder is taken apart and put together again by the same cut (`TakenApart`, `PutTogether`).
`ListingAlwaysWhole` adds the two ends of a listing, for pages of any size and folders that fit one: a second page
with entries makes the listing `undefined`, and nothing is said of it. While a listing is open its handlers are in step (`OpenListing`): the
page under way is the one expected, what was read, what is under way and what is left make up the folder without a repetition
(`Split`, by counting), and only the empty page, which comes when nothing is left, ends it.

`ServerProofs` proves `OnlyTrusted` for any number of connections, descriptors, names and keys. The invariant is that
the three maps and the waiting events refer only to opened connections, and `m_peers`, the requests and what
has been handed over only to `Trustees`: those accepted or dialled and those whose key is the known one. It
does not mention descriptors, and so does not depend on which connection is looked up under one; what it needs is that a
connection keeps its device, that a name keeps its key (`KeysKept`, which is the exception of `contains` for another key)
and that trust is not withdrawn, so that the `Trustees` only grow (`Reach`).

The other three safety properties of the server are proved on top of it, each with a part of its own:

- `KnownNeverRefusedAlways` from `MapInv`: a connection goes through the maps in one direction (not looked up yet, `m_handshake_peers`,
  `m_pending_peers`, `m_peers`). While it is in the handshake nobody else has it, and one that is in the handshake with a version chosen has another key
  than the one known under its name. Without the direction a promoted peer could be refused by a copy of it that was left in another map.
  Peers that the application accepts or dials are not in the property: what one sends while it waits is refused.
- `NothingLostAlways` from `LossInv`: every request a connection sent is still unread (`Said`) or is in an event, handed over or refused
  (`Hears`). That is not inductive, since the version message is taken off the same bytes: until then
  nothing has been taken, so that what is unread is the version message and every request in order (`InOrder`). `Passed` says
  that the loop of `process_events` has handed over what it went past, before the events are cleared.
- `NobodyForgottenAlways` from `PlaceInv`, where the descriptors are unavoidable: open sockets have different ones (`Distinct`), a handshake or
  pending peer is under its own (`OwnSlot`), the application is asked once (`AskedOnce`), and, while no peer was accepted after it had left,
  every open connection is in one of the maps and `m_fds` has at least as many entries of a
  descriptor as maps use it (`InPlace`); a peer that waits shares its descriptor with no peer that is left in `m_peers` (`WaitsAlone`). The entries are counted, not just present: `delete_move` takes one, and the maps
  are emptied in turn. `MapInv` is what keeps a connection from being in two maps.

`PeerSessionProofs` is about two peers, for any number of ids, files, packets, pages and calls. `TypeCorrect` comes first:
`Types` follows every value from the call that makes it, through the wire and the batch, into the maps, so that an id is always one of
a byte, a packet always names a transfer (`Referred`), and no handler throws anything but the three exceptions it names. Each operator that stands for a member function has
its lemma (`SendRequestTyped`, `RespondTyped`, `HandledTyped`, ...); the burst of packets is a recursive function, about which `Bursts` shows by
the least counterexample that its steps are `SendPacket`. Along with the types goes where a request comes from (`Mine`): a SEND_FILE that answers nothing is for a file its
sender was told to send, a RECEIVE_FILE for one its sender was told to fetch. `NeverUnasked` (`UnaskedOnlyInReply`) follows from it for the calls in which no file is sent to the peer that fetches
it (`OneWay`, true of every set in `Scripts`): such a SEND_FILE finds nothing to match, and `authorize_request` asks the application. Without `OneWay` it is false (section 6).

`SlotsAlwaysAccounted` (`SlotsAccounted`) has the longest proof of the project. A slot is given back by any answer that is not
APPROVAL_PENDING and that changes the status of an open request, so the count is right only if no request is answered twice
with two different results, over all handlers, calls and batches of both peers. The inductive invariant `Accounted` says
where every id of a peer is, as long as nothing has gone wrong (`events = {}`); `Placed` has its four parts:

- `Underway`: its REQUEST is in the batch or on the wire at most once, and then nothing else of it is anywhere;
- `Awaits`: it is a SEND_FILE in `asked`, waiting for the application, once, and all its answers so far are APPROVAL_PENDING;
- `Returning`: the answers that come back are for an open request, and after one that settles it there is no other;
- `Answering`: a RECEIVE_FILE gets its STATUS_OK first and the SEND_FILE that settles it later, once.

With them go the count (`slots` and the open requests make MaxId), that the search for an id is not stuck, and that the only RECEIVE_FILE a
peer has open is that of the call it is in (`Fetching`). The last is what makes the search of `authorize_request` by path (Peer_private.cpp:73) find the right
request: `receive_file` returns only once it is settled, so no two are open at once. `Sound` states all this for a peer within a handler, with what it has
written so far, so that each operator has a lemma of its own (`SoundRespond`, `SoundRefuse`, `SoundAuthorized`, `SoundHandled`, ...); `PollPaired`, `HandlePaired`,
`ResumePaired`, `AnswerPaired` and `OpeningPaired` put an action together. The theorem states the condition: after an exception the batch is handled again and its requests
are answered twice; after a SEND_FILE accepted unasked an open request may be settled before it is answered. In both cases the count
does go wrong (section 6). With `OneWay` the second case does not arise (`SlotsAccountedOneWay`). `IdAlwaysFound` is another conjunct of the invariant: `send_request` with a slot
left never searches for an id for ever.

`NothingThrown` (`NoException`) and `OwnRequestAlwaysSettled` (`OwnRequestSettled`) need to know what the maps of the two peers have to do with
each other, not only where each id is. The inductive invariant is `Orderly`: nothing has been thrown, and for every peer `Bound`, which has four parts:

- `Tale`, of the requests of one peer and what the other has of them: ids are given out in order, an unanswered SEND_FILE has its upload, a packet
  belongs to an accepted SEND_FILE, and no two RECEIVE_FILE ask for one file (`Book`); the other peer has each request as it was sent, or it is on its way
  (`Noted`); it lists only for a request it has, and asks the application about no SEND_FILE that it fetches itself (`Granted`); a SEND_FILE that answers a
  RECEIVE_FILE is the only one that does, is for the same path, and settles it once it is taken (`InReply`);
- `Called`: the request a blocked call waits for is its own, of its own kind and path, and an accepted LIST_FILES has its listing;
- `Held`: an answered `receive_file` has its download, and no packet for it is in what `poll_requests` has still to handle before the call goes on
  (Peer.cpp:174): such a packet could finish the download, and the search would find none;
- `Unfetched`: a file that is still to be fetched has not been asked for, so that `receive_file` finds exactly one SEND_FILE (`FoundOne`).

`HandleBound`, `PollBound`, `ResumeBound`, `AnswerBound` and `CallBound` show that an action keeps it, each over the lemmas of the operators it uses.
The theorems say for which calls: no file is sent to the peer that fetches it (`OneWay`), no peer fetches a file twice
(`FetchedOnce`), both true of every set in `Scripts`, and in every state `FewRequests`: the ids not yet given out are enough for one more burst of packets, so that no id has
been used twice and, as the open requests are among the ids given out, a slot is left for every packet. Without the last one they are false of the code
(section 6): an id may be used again while the other peer has its old meaning, and a burst may find no slot. It is not empty: with MaxId = 10 every
reachable state of the calls of `MCPeerSession` satisfies it. The run itself has MaxId = 5 and does use ids again, which the theorems leave out: the two go together.
With `NothingThrown`, `SlotsAccountedFew` has the count of slots without a condition on exceptions.

`EveryRequestAnswered` goes the rest of the way for requests, under the same conditions. The inductive invariant `Pursued` says where every open
request of a peer is (`Located`): its REQUEST is still to be handled, or the application of the other peer is asked about it, or an answer that ends it is
among what comes back: a reply that is not APPROVAL_PENDING (`Closes`), or the SEND_FILE that settles the RECEIVE_FILE it answers (`Sending`). Whatever a handler does to a
request it closes, refuses, sends or leaves, what it writes has one of these again (`Adds` for what it appends, `Dealt` and `Fares` for the message it has handled).
So when nothing moves any more (`Quiet`), no request of either peer is open, all slots are back and no call waits for an answer or for a slot (`AllAnswered`).

`PeerWaitingProofs` does the same for the transfers. `NobodyEverLeftWaiting` (`NobodyLeftWaiting`): every call has returned and no download is unfinished. Answered requests are not
enough for that. Each packet and each page is only sent for the answer to the one before, so a burst that stops early, or a handler
that is removed while something is left, would leave the other peer polling for ever with no request open. The inductive invariant is `Busy`, for every peer:

- `Stocked`: an upload or a list with something left is in its map, every upload is that of a SEND_FILE, and one that is not answered has packets left;
- `Echo`: the status a peer has recorded for a request is the one the other has given, and so is every reply on its way, but for an APPROVAL_PENDING;
- `Delivers`: a download is in its map only if its SEND_FILE was accepted, is gone once a packet of it was refused, and, while it is not complete, the
  sender is `Lively`: it still waits for the answer, or has something left and either the loop of `send_file` (`Pushing`) or an unanswered packet to go
  on with, or its last packet is on its way;
- `Lists`: the same for the pages of a listing (`Paging`). Here the order of the wire counts: a page must not be handled before the STATUS_OK that creates
  the listing it is for (`Known`), or it is refused and the listing is never complete;
- `Holding`: only the `receive_file` that waits for a download keeps it when it is complete, and a call in its loop has what it waits for.

A step that sends (`Goes`), one that takes a reply (`Lands`, `Receives`), one that answers a request (`Serves`, `Performs`) and one of a call (`Trims`, `Withdraws`, `Relays`) each keep
what the two peers know of each other (`Deals`), written so far within the handler; `HandleBusy`, `PollBusy`, `ResumeBusy`, `AnswerBusy` and `CallBusy` put an action together. In the
burst of `receive_reply` the number of packets is the least of `Burst`, what is left and the slots: `FewRequests` is what makes it more than none.
`Rests` then reads off that in a state in which nothing moves neither `Lively` nor `Paging` can be true, so nothing is left of any download or listing a call waits for.

Only model-checked, and why:

- Liveness (`Delivered`, `CallsReturn`, `UploadReleased`, `RequestsReachApplication`, `ListingEnds`, the fairness half of
  `KeepsPromise`, and `KeepsStream`): the prover has neither fairness nor ENABLED.
- `NoException`, `OwnRequestSettled` and `NobodyLeftWaiting` once ids are used again. The last is false without a bound on the calls, as a call that uses an id again may wait for ever (section 6).
- `VersionAgreed` and the bytes of messages. That a number is read as it was written, for every number, is induction over data
  with an operator as parameter, which no prover here can instantiate.

The modules that are proved about have no RECURSIVE operator.

<a name="findings"></a>
## 6. What the runs found

Two runs contradict a line of the repository:

- `transfer_stale`: a `.fsdownload` file left by a crash counts as an up-to-date file for
  ever (TransferHandler.cpp:24; TransferErrors.cpp:20).
- `mapping_resolved`: `find_virtual_node` takes the path by value and returns an iterator into its copy;
  `virtual_to_host` reads the rest of a path in a shared folder from it (FileMapping.cpp:391). That `prepare_upload` gets the path of
  a file that has one (Peer_private.cpp:205) is therefore undefined for every file in a folder.

What else modelling showed, and no line of the repository denies. Where a property would be
violated, it is stated without the case and the comment of the property says so.

*Messages and transfers.*

- A temporary file that cannot be opened goes unnoticed: the handler counts as finished from the start, and `receive_file` returns STATUS_OK
  with nothing stored (TransferHandler.cpp:34, 95, Peer.cpp:180-186).
- For a file of more packets than slots the loop of `send_file` polls with packets left; the poll may send the last of them and erase the handler the loop
  has a reference to (Peer.cpp:131-136, Peer_private.cpp:152). `FileTransfer` has it as `sender = "dangling"`.
- The empty packet that ends a file of a multiple of `packet_size` may be refused for its size by the
  exception "something is wrong if this happens", after the file is in place (TransferHandler.cpp:75).
- `authorize_request` matches a SEND_FILE with any RECEIVE_FILE ever sent for the path, a settled one as
  well (Peer_private.cpp:73): a second call for the path may never return, and a file the other peer sends by itself is accepted unasked. If it comes before the answer to the
  RECEIVE_FILE, that answer reopens a settled request: the count of slots is wrong from then on (`SlotsAccounted` fails for the calls
  `receive_file(f)` of one peer and `send_file(f)` of the other, which `Scripts` leaves out).
- An exception leaves the whole batch in the buffer (PeerBase.cpp:97). Handled again, an APPROVAL_PENDING reopens a settled request and the
  reply to it is counted twice (MessageQueue.cpp:74); and the messages behind the one that threw wait
  until more bytes arrive (`held` in `ByteStream`).
- The handler of a finished listing is never erased; a LIST_FILES that uses its id again is answered
  with a null packet (Peer_private.cpp:186, Peer.cpp:96).
- `format_receive_file` writes the default packet size whatever the request has (`Sent` in `MessageFormat`).
- A digit of a version from 128 on is added as a negative number (IProtocolHandler.cpp:91, 114).
- The test for numbers that do not fit compares a number of bits with the value of these bits; it is right for 64 bits (VarInt.cpp:98-101).

*Listings and the mapping.*

- `ListFilesTransferHandler` declares its destructor and so is only copied by `std::move` (Peer.cpp:92): its iterator points
  into the nodes of the original. The first page, of 255 entries, is read before that; any further one is not defined.
  The move of a `PathNode` leaves `m_parent` of its grandchildren behind in the same way.
- A page out of order is counted as received and skipped over (TransferHandler.cpp:237); pages do not come out of order over one connection.
- A name that begins with the root's name loses its beginning (FileMapping.cpp:418), and a path without the root's name and with a
  separator at the end is not found. `set_name` leaves the key of the map as it was, so that the node is not found under its new name.
- The path announced for a file in a folder without a host path is its path on the host, without the names of the nodes
  (FileMapping.cpp:375-376: `result /= "/"` starts anew).
- A listing shows the children of a visible folder whether they are visible or not, and looks for
  forbidden paths only at the host path of the node itself.

*The server.*

- An exception out of `pull_requests` leaves the requests already parsed in `m_request_buffer`, and all the bytes in `m_buffer`: they become events with the
  next bytes that arrive, some of them twice (Server.cpp:308, PeerBase.cpp:97-103). `RequestsReachApplication` excepts them.
- A version message that cannot be parsed leaves `ret` without a value (PreAuthPeer.cpp:69).
- A socket that closes while its peer is not the one being polled (its version message threw, the application disconnected it, or accepted it
  too late) stays in its map and its descriptor in `m_fds`. The next connection with the descriptor is
  then polled twice, and the second read blocks the loop (`Leftover`).
- `AcceptSocket`: appending to `m_fds` may invalidate the iterator of the loop (Server.cpp:289), and a `PreAuthPeer` that throws in its
  constructor leaks the socket (Server.cpp:285-287).
- An exception in `process_events` leaves its events to be handed over again, those of new peers without their peer (Server.cpp:199).
- `connect` waits without a timeout and serves nobody else; two devices that dial each other wait for ever (Server.cpp:171).
- `KnownPeerStore` knows a device by a uuid that the device states itself; another key throws out of the poll loop.
- `initialize_private_key` writes the name of the device and its uuid in the fields of the certificate from which `PeerBase` reads
  them the other way round (Server.cpp:414-415, PeerBase.cpp:58-59).

*Files.*

- A first start that is killed once its files are open leaves files that later starts refuse, until the user removes them. A
  close that fails is not seen, neither for the key nor for the configuration (Server.cpp:441, Config.cpp:65).

<a name="not-modelled"></a>
## 7. What is not modelled

- A file of size 0: the code says that it does not support it. A `packet_size` of 0 in a RECEIVE_FILE, by which Peer_private.cpp:213 divides.
- A shared file that cannot be opened for reading, and the exception of `create_directories` (TransferHandler.cpp:33).
- The STATUS_OK that `respond_to_request` gives to a RECEIVE_FILE: `PeerSession` has it, `FileTransfer` goes on with the SEND_FILE. `PeerSession` in turn takes every temporary file to open.
- In `Server`, the application accepting a peer that it found in `get_pending_peers` rather than in an event, and disconnecting one within `process_events`. A
  peer sends so many requests, so that its polls cannot throw for ever and keep the descriptors behind it waiting.
- In `DeviceFiles`, a failure to open or to rename the file that `save` writes.
- The loss of the connection within a blocking call; `Server` has it between calls, and `FileTransfer` has a crash of the receiver.
- The `directory_iterator` of a folder of the host: what it is made from comes from an iterator that is gone, so that no defined behaviour reaches it.
- `PeerSession` leaves out the call that finds no slot left and fails at once without a change (it has the case within a handler), and
  the manual approval by both peers at once.
- In `FileMapping`, `m_parent` and the ancestor path cached for `operator==`; the root's own name, type and visibility stay as they
  are made. `operator[]` and the other ways into a tree are not operations of their own.
- What a certificate contains, beyond the name and the key by which a peer is known, and how it is read; TLS, the file
  system, OpenSSL and the archive format of the settings are external.
- No state, so no module: debug output (`RequestData.cpp`), the registry of protocol versions (`Protocol.cpp`), hashes
  (`FileHash.cpp`), the helpers for descriptors, home directories and the file clock.

<a name="plan"></a>
## 8. Plan

Done: the queue and the exchange, with proofs; the download handler, with proofs; both ends of a
transfer, with proofs of every safety property; all calls of two peers; the server, with proofs of every safety property; the files of a
device, with proofs; the mapping and listings, with proofs; that two peers keep their types, ask the application, count their slots and, as long as no id is used again, throw nothing, settle their own requests, answer all of them and leave no transfer behind; the bytes of messages and of the negotiation. Left, in this order:

1. `PeerSession` with a connection that is lost within a call.
