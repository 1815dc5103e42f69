----------------------------- MODULE FileListing -----------------------------
(***************************************************************************)
(* A peer lists a folder page by page while the application changes the    *)
(* mapping: the handler of the responder (ListFilesTransferHandler), which *)
(* has a copy of the node, and that of the requester                       *)
(* (FileListTransferHandler).  A page is sent when the one before it was   *)
(* answered.                                                               *)
(***************************************************************************)
EXTENDS FileMapping

CONSTANT MaxCounts   \* values of max_count, so that a folder fits in a page or does not

ASSUME CountAssumption == MaxCounts \subseteq Nat \ {0}

VARIABLES
  maxCount, \* max_count, the entries of a page: 255 in the code
  stage,    \* of the responder: "none", "open", or "undefined"
  folder,   \* history: the entries of the node when the handler was made
  left,     \* what m_node_iterator has not reached yet
  next,     \* m_current_id of the responder
  extra,    \* m_extra_packet_sent
  page,     \* the page under way
  call,     \* list_files of the requester: "waiting" or "none"
  current, missing, list, finished   \* its handler

handlerVars == <<stage, folder, left, next, extra, page>>
requesterVars == <<call, current, missing, list, finished>>
vars == <<tree, maxCount, handlerVars, requesterVars>>

NoPage == [id |-> 0, files |-> <<>>, sent |-> FALSE]

\* The entries are those of the nodes, whether they can be seen or not; the path
\* that was asked for, which goes before each name, is left out.
Entry(key, node) ==
  [key |-> key, name |-> node.name, type |-> IF node.type = HOST_FILE THEN "FILE" ELSE "DIRECTORY"]
EntriesOf(p) ==
  IF NodeAt(p).type = VIRTUAL THEN {Entry(Last(q), tree[q]) : q \in Children(p)}
  ELSE {Entry(Last(p), tree[p])}

NoHandler(why) ==
  /\ stage' = why /\ folder' = {} /\ left' = {} /\ next' = 0 /\ extra' = FALSE
  /\ page' = NoPage

NoCall == call = "none" /\ current = 0 /\ missing = {} /\ list = <<>> /\ finished = FALSE
EndCall == call' = "none" /\ current' = 0 /\ missing' = {} /\ list' = <<>> /\ finished' = FALSE

Init ==
  /\ MappingInit /\ maxCount \in MaxCounts /\ NoCall
  /\ stage = "none" /\ folder = {} /\ left = {} /\ next = 0 /\ extra = FALSE /\ page = NoPage

\* Mutated NextPage: a page that is not full is taken for the last.
NextPageEndsShort(remaining, id) ==
  \E taken \in SUBSET remaining :
    /\ Cardinality(taken) = IF Cardinality(remaining) < maxCount
                            THEN Cardinality(remaining) ELSE maxCount
    /\ page' = [id |-> id, files |-> SetToSeq(taken), sent |-> TRUE]
    /\ left' = remaining \ taken /\ next' = id + 1 /\ extra' = (Cardinality(taken) < maxCount)

\* get_next_packet: a page of what is left, in the order of an unordered map, and
\* after the last page an empty one.
NextPage(remaining, id) ==
  \E taken \in SUBSET remaining :
    /\ Cardinality(taken) = IF Cardinality(remaining) < maxCount
                            THEN Cardinality(remaining) ELSE maxCount
    /\ page' = [id |-> id, files |-> SetToSeq(taken), sent |-> TRUE]
    /\ left' = remaining \ taken /\ next' = id + 1 /\ extra' = (taken = {})

\* authorize_request looks for the node and at its host path; the handler is made
\* when the request is responded to.  A folder of the host is read from the path
\* virtual_to_host makes of the iterator that is gone.
ListFiles(v) ==
  /\ stage = "none" /\ call = "none"
  /\ IF \A p \in Found(v) : NodeAt(p).type # VIRTUAL /\ IsForbidden(NodeAt(p).host)
     THEN NoHandler("none") /\ UNCHANGED requesterVars
     ELSE /\ call' = "waiting" /\ UNCHANGED <<current, missing, list, finished>>
          /\ \E p \in Found(v) :
               IF NodeAt(p).type = HOST_FOLDER THEN NoHandler("undefined")
               ELSE stage' = "open" /\ folder' = EntriesOf(p) /\ NextPage(EntriesOf(p), 0)
  /\ UNCHANGED <<tree, maxCount>>

\* Mutated Receive: the first page in order ends the listing.
ReceiveEndsAtOnce ==
  /\ stage = "open" /\ page.sent /\ page' = NoPage
  /\ current' = page.id + 1 /\ list' = list \o page.files /\ finished' = TRUE
  /\ UNCHANGED <<tree, maxCount, stage, folder, left, next, extra, call, missing>>

\* receive_packet.
Receive ==
  /\ stage = "open" /\ page.sent /\ page' = NoPage
  /\ LET again == page.id < current
     IN  /\ missing' = IF again THEN missing \ {page.id} ELSE missing \cup current .. page.id - 1
         /\ current' = IF page.id = current THEN current + 1
                      ELSE IF again THEN current ELSE page.id
         /\ IF again /\ page.id \notin missing THEN UNCHANGED <<list, finished>>
            ELSE list' = list \o page.files /\ finished' = (finished \/ page.files = <<>>)
  /\ UNCHANGED <<tree, maxCount, stage, folder, left, next, extra, call>>

\* The answer to a page asks for the next.  The handler in the map is a copy of the
\* one it was made from, with an iterator into the nodes of that one: the first
\* page was read from it, any later entry is read from nodes that are gone.  After
\* the empty page it stays in the map, under an id that this model does not have.
Continue ==
  /\ stage = "open" /\ ~page.sent
  /\ IF extra THEN NoHandler("none")
     ELSE IF left # {} THEN NoHandler("undefined")
     ELSE NextPage(left, next) /\ UNCHANGED <<stage, folder>>
  /\ UNCHANGED <<tree, maxCount, requesterVars>>

\* m_missing_ids.empty() and m_finished: the call of the requester returns.
Complete == finished /\ missing = {}
Return == call = "waiting" /\ Complete /\ EndCall /\ UNCHANGED <<tree, maxCount, handlerVars>>

\* Bound: while a folder is listed the application only takes nodes away; after
\* undefined behaviour nothing more is said.
Change ==
  /\ stage # "undefined" /\ MappingNext
  /\ (stage = "open" => \E p \in DOMAIN tree : RemoveChildNode(p))
  /\ UNCHANGED <<maxCount, handlerVars, requesterVars>>

Next ==
  \/ Change \/ Receive \/ Continue \/ Return
  \/ \E v \in VirtualPaths : ListFiles(v)

Spec == Init /\ [][Next]_vars /\ WF_vars(Receive \/ Continue \/ Return)

(***************************************************************************)
(* Properties.                                                             *)
(***************************************************************************)
\* A listing of one page of entries that the requester takes for complete has every
\* entry of the folder once, as it was when the request was answered, whatever has
\* become of the mapping since.  (A second page with entries is "undefined".)
ListingWhole ==
  Complete /\ stage = "open" => Len(list) = Cardinality(folder) /\ ToSet(list) = folder

\* Every listing that is accepted, and whose entries are still there to be read,
\* returns.
ListingEnds == call = "waiting" ~> (call = "none" \/ stage = "undefined")
==============================================================================
