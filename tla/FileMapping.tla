----------------------------- MODULE FileMapping -----------------------------
(***************************************************************************)
(* What a device shares: a tree of nodes below a root that is always       *)
(* virtual and visible, the operations an application changes it with, and *)
(* the translations between a path on the host and the virtual path a peer *)
(* knows (FileMapping.cpp, Path.cpp).                                      *)
(*                                                                         *)
(* A node is found under the keys of the maps that lead to it; its own     *)
(* name is part of the node, as in the code.  A path of the host is a      *)
(* sequence of names; a virtual path also says whether it starts with the  *)
(* name of the root and whether it ends with a separator.                  *)
(***************************************************************************)
EXTENDS Naturals, SequencesExt

CONSTANTS
  Names,      \* names of nodes and of files
  Hosts,      \* host paths a node may be given; <<>> is no path
  Forbidden,  \* m_forbidden_paths
  Undefined,  \* what is read from an object that is gone
  AfterRoot,  \* for a name that begins with the name of the root, what follows
  MaxDepth,   \* bound: depth of the tree
  MaxNodes    \* bound: nodes

ASSUME MappingAssumption ==
  /\ Hosts \subseteq Seq(Names) /\ <<>> \in Hosts /\ Forbidden \subseteq Seq(Names) \ {<<>>}
  /\ AfterRoot \in [DOMAIN AfterRoot -> Names] /\ MaxDepth \in Nat /\ MaxNodes \in Nat
  /\ Undefined \notin Hosts

VARIABLE tree

HOST_FILE == "HOST_FILE"
HOST_FOLDER == "HOST_FOLDER"
VIRTUAL == "VIRTUAL"
Types == {HOST_FILE, HOST_FOLDER, VIRTUAL}

Node(type, host, visible, name) ==
  [type |-> type, host |-> host, visible |-> visible, name |-> name]
NewNodes(name) ==
  {Node(VIRTUAL, <<>>, visible, name) : visible \in BOOLEAN}
    \cup {Node(type, host, visible, name) :
            type \in Types \ {VIRTUAL}, host \in Hosts, visible \in BOOLEAN}

Root == <<>>
NodeAt(p) == IF p = Root THEN Node(VIRTUAL, <<>>, TRUE, "") ELSE tree[p]
Places == DOMAIN tree \cup {Root}
Children(p) == {q \in DOMAIN tree : q # Root /\ Front(q) = p}

MappingInit == tree = <<>>

Keep(places) == [p \in places |-> tree[p]]
Without(p) == {q \in DOMAIN tree : ~IsPrefix(p, q)}
WithoutChildren(p) == {q \in DOMAIN tree : ~IsStrictPrefix(p, q)}
With(places, p, node) == [q \in places \cup {p} |-> IF q = p THEN node ELSE tree[q]]

(***************************************************************************)
(* The operations.  One that would break the shape of a node throws and    *)
(* leaves the tree as it is.                                               *)
(***************************************************************************)
InsertChildNode(p, name, node) ==
  /\ NodeAt(p).type = VIRTUAL /\ Append(p, name) \notin DOMAIN tree
  /\ Len(p) < MaxDepth /\ Cardinality(DOMAIN tree) < MaxNodes
  /\ tree' = With(DOMAIN tree, Append(p, name), node)

RemoveChildNode(p) == tree' = Keep(Without(p))

\* set_child_nodes replaces what was there; with no node it is clear_child_nodes,
\* which any type may call.
SetChildNodes(p, name, node) ==
  /\ NodeAt(p).type = VIRTUAL
  /\ Len(p) < MaxDepth /\ Cardinality(WithoutChildren(p)) < MaxNodes
  /\ tree' = With(WithoutChildren(p), Append(p, name), node)
ClearChildNodes(p) == tree' = Keep(WithoutChildren(p))

\* The map of the parent keeps the key the node was inserted under.
SetName(p, name) == tree' = [tree EXCEPT ![p].name = name]

SetType(p, type) ==
  /\ IF Children(p) # {} THEN type = VIRTUAL
     ELSE tree[p].host # <<>> => type # VIRTUAL
  /\ tree' = [tree EXCEPT ![p].type = type]

\* Mutated SetHostPath: the type is not looked at.
SetHostPathOfAny(p, host) == tree' = [tree EXCEPT ![p].host = host]

SetHostPath(p, host) ==
  /\ host # <<>> => tree[p].type # VIRTUAL
  /\ tree' = [tree EXCEPT ![p].host = host]

SetVisibility(p, visible) == tree' = [tree EXCEPT ![p].visible = visible]

MappingNext ==
  \/ \E p \in Places :
       \/ ClearChildNodes(p)
       \/ \E name \in Names : \E node \in NewNodes(name) :
            InsertChildNode(p, name, node) \/ SetChildNodes(p, name, node)
  \/ \E p \in DOMAIN tree :
       \/ RemoveChildNode(p)
       \/ \E name \in Names : SetName(p, name)
       \/ \E type \in Types : SetType(p, type)
       \/ \E host \in Hosts : SetHostPath(p, host)
       \/ \E visible \in BOOLEAN : SetVisibility(p, visible)

MappingSpec == MappingInit /\ [][MappingNext]_tree

(***************************************************************************)
(* The translations.                                                       *)
(***************************************************************************)
Way(p) == {SubSeq(p, 1, i) : i \in 1 .. Len(p)}
Seen(p) == \A q \in Way(p) : tree[q].visible

VirtualPath(root, names, slash) == [root |-> root, names |-> names, slash |-> slash]

\* host_to_virtual: the search is depth first, in the order of unordered maps, so
\* that any node that matches may be the one found.
Matches(p, path) ==
  \/ tree[p].type # VIRTUAL /\ tree[p].host = path
  \/ tree[p].type = HOST_FOLDER /\ IsPrefix(tree[p].host, path)
NamesTo(p) == [i \in 1 .. Len(p) |-> tree[SubSeq(p, 1, i)].name]
\* What is left of the path is put behind the path of the node.  Of a folder without a
\* host path nothing is taken off: the path begins with "/", and replaces the node's.
Announcing(p, path) ==
  IF tree[p].host = <<>> THEN VirtualPath(FALSE, path, FALSE)
  ELSE VirtualPath(TRUE, NamesTo(p) \o SubSeq(path, Len(tree[p].host) + 1, Len(path)), FALSE)

\* Mutated HostToVirtual: only the node itself has to be visible.
HostToVirtualOfHidden(path) ==
  {Announcing(p, path) : p \in {q \in DOMAIN tree : tree[q].visible /\ Matches(q, path)}}

HostToVirtual(path) ==
  {Announcing(p, path) : p \in {q \in DOMAIN tree : Seen(q) /\ Matches(q, path)}}

\* find_virtual_node.  The name of the root is optional, but any path that begins
\* with these letters loses them; only then is the separator at the end dropped.
Stripped(v) ==
  IF v.root THEN v.names
  ELSE IF v.names # <<>> /\ Head(v.names) \in DOMAIN AfterRoot
       THEN <<AfterRoot[Head(v.names)]>> \o Tail(v.names)
       ELSE v.names
KeepsSlash(v) ==
  v.slash /\ ~v.root /\ v.names # <<>> /\ Head(v.names) \notin DOMAIN AfterRoot

\* Mutated Walked: only the last node has to be visible.
WalkedThroughHidden(names) ==
  {p \in Way(names) \cup {Root} : Way(p) \subseteq DOMAIN tree /\ NodeAt(p).visible
     /\ \A q \in Way(p) \ {p} : tree[q].type # HOST_FOLDER}

\* The walk stops at the first folder of the host, or where the path ends.
Walked(names) ==
  {p \in Way(names) \cup {Root} : Way(p) \subseteq DOMAIN tree /\ Seen(p)
     /\ \A q \in Way(p) \ {p} : tree[q].type # HOST_FOLDER}
Found(v) ==
  {p \in Walked(Stripped(v)) :
     NodeAt(p).type = HOST_FOLDER \/ (p = Stripped(v) /\ ~KeepsSlash(v))}

\* virtual_to_host.  find_virtual_node takes the path by value, and the iterator it
\* gives back is into that copy: what the caller appends to the path of a folder is
\* read from a path that is gone.
VirtualToHost(v) ==
  IF Found(v) = {} THEN <<>>
  ELSE LET p == CHOOSE p \in Found(v) : TRUE
       IN  IF NodeAt(p).type = HOST_FOLDER THEN Undefined ELSE NodeAt(p).host

IsForbidden(path) == \E folder \in Forbidden : IsPrefix(folder, path)

\* prepare_upload: what RECEIVE_FILE is answered STATUS_OK for.
Uploaded(paths) ==
  {path \in {VirtualToHost(v) : v \in paths} \ {<<>>, Undefined} : ~IsForbidden(path)}

(***************************************************************************)
(* Properties.                                                             *)
(***************************************************************************)
\* Only a virtual node has children and only another has a host path, whatever
\* order its type, path and children are set in ("Only if type == VIRTUAL" and
\* "Only if type != VIRTUAL", FileMapping.hpp:103-104).
NodeShape ==
  \A p \in DOMAIN tree : /\ Children(p) # {} => tree[p].type = VIRTUAL
                         /\ tree[p].host # <<>> => tree[p].type # VIRTUAL

VirtualPaths == [root : BOOLEAN, slash : BOOLEAN,
                 names : UNION {[1 .. n -> Names] : n \in 0 .. MaxDepth + 1}]

\* The files a peer can have by the names of the nodes are those the application
\* shows it and does not forbid: hiding any node on the way hides the file, and no
\* spelling of a path, with the root or without, reaches another.
SharedFiles ==
  {tree[p].host : p \in {q \in DOMAIN tree :
     tree[q].type = HOST_FILE /\ \A r \in DOMAIN tree : IsPrefix(r, q) => tree[r].visible}} \ {<<>>}
ServedIsShared ==
  LET allowed == {path \in SharedFiles : ~IsForbidden(path)}
  IN  /\ Uploaded(VirtualPaths) \subseteq allowed
      /\ Uploaded({v \in VirtualPaths : v.root}) = allowed

\* A path announced to a peer, as long as no node was renamed after it was inserted
\* and no folder is without its host path, is found again under that name, with
\* what it leads to in the folder.
Announced == {path \o rest : path \in Hosts \ {<<>>}, rest \in {<<>>} \cup {<<name>> : name \in Names}}
AnnouncedIsFound ==
  (\A p \in DOMAIN tree : tree[p].name = Last(p)
     /\ (tree[p].type = HOST_FOLDER => tree[p].host # <<>>)) =>
  \A path \in Announced : \A v \in HostToVirtual(path) : \E p \in Found(v) :
     tree[p].host \o SubSeq(v.names, Len(p) + 1, Len(v.names)) = path

\* "host_filepath will be empty if file is not visible, or doesn't have a mapping"
\* (Peer_private.cpp:205): a file that has one, in a folder or by itself, is
\* resolved to its path.
MappedIsResolved ==
  (\A p \in DOMAIN tree : tree[p].name = Last(p)
     /\ (tree[p].type = HOST_FOLDER => tree[p].host # <<>>)) =>
  \A path \in Announced : \A v \in HostToVirtual(path) : VirtualToHost(v) = path
==============================================================================
