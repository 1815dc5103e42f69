--------------------------- MODULE FileMappingProofs ---------------------------
(***************************************************************************)
(* The tree of a mapping, of any depth and over any names and paths: the   *)
(* shape its operations keep, and that what a peer can have by the names   *)
(* of the nodes is what the application shows it.                          *)
(***************************************************************************)
EXTENDS FileListing, SequenceTheorems, FiniteSetTheorems, TLAPS

\* What is announced is the host path of a node, or a name below one.
LEMMA AnnouncedForm ==
  ASSUME NEW path \in Announced
  PROVE  \E host \in Hosts \ {<<>>}, rest \in {<<>>} \cup {<<name>> : name \in Names} :
           path = host \o rest
BY SMT DEF Announced

USE MappingAssumption DEF MappingAssumption

Nodes == [type : Types, host : Hosts, visible : BOOLEAN, name : Names]
Paths == Seq(Names)

(***************************************************************************)
(* Paths and their beginnings.                                             *)
(***************************************************************************)
LEMMA RootType == Root \in Paths /\ Len(Root) = 0
BY DEF Root, Paths

LEMMA Beginning ==
  ASSUME NEW p \in Paths, NEW i \in 1 .. Len(p)
  PROVE  /\ SubSeq(p, 1, i) \in Paths /\ Len(SubSeq(p, 1, i)) = i
         /\ \A j \in 1 .. i : SubSeq(SubSeq(p, 1, i), 1, j) = SubSeq(p, 1, j)
<1>1. SubSeq(p, 1, i) \in Paths /\ Len(SubSeq(p, 1, i)) = i
         /\ \A j \in 1 .. i : SubSeq(p, 1, i)[j] = p[j]
  BY SubSeqProperties DEF Paths
<1>2. ASSUME NEW j \in 1 .. i PROVE SubSeq(SubSeq(p, 1, i), 1, j) = SubSeq(p, 1, j)
  <2>1. /\ SubSeq(SubSeq(p, 1, i), 1, j) \in Paths /\ Len(SubSeq(SubSeq(p, 1, i), 1, j)) = j
        /\ \A k \in 1 .. j : SubSeq(SubSeq(p, 1, i), 1, j)[k] = SubSeq(p, 1, i)[k]
    BY <1>1, SubSeqProperties DEF Paths
  <2>2. /\ SubSeq(p, 1, j) \in Paths /\ Len(SubSeq(p, 1, j)) = j
        /\ \A k \in 1 .. j : SubSeq(p, 1, j)[k] = p[k]
    BY SubSeqProperties DEF Paths
  <2>3. \A k \in 1 .. j : SubSeq(SubSeq(p, 1, i), 1, j)[k] = SubSeq(p, 1, j)[k]
    BY <1>1, <2>1, <2>2
  <2>4. QED
    BY <2>1, <2>2, <2>3, SeqEqual DEF Paths
<1>3. QED
  BY <1>1, <1>2

\* A path is the last of its beginnings.
LEMMA Whole == ASSUME NEW p \in Paths PROVE SubSeq(p, 1, Len(p)) = p
BY SubSeqFull DEF Paths

LEMMA AppendedPath ==
  ASSUME NEW p \in Paths, NEW name \in Names
  PROVE  /\ Append(p, name) \in Paths /\ Len(Append(p, name)) = Len(p) + 1
         /\ \A i \in 1 .. Len(p) : SubSeq(Append(p, name), 1, i) = SubSeq(p, 1, i)
         /\ Front(Append(p, name)) = p
<1> DEFINE q == Append(p, name)
<1>1. q \in Paths /\ Len(q) = Len(p) + 1 /\ \A i \in 1 .. Len(p) : q[i] = p[i]
  BY AppendProperties DEF Paths
<1>2. ASSUME NEW i \in 1 .. Len(p) PROVE SubSeq(q, 1, i) = SubSeq(p, 1, i)
  <2>1. /\ SubSeq(q, 1, i) \in Paths /\ Len(SubSeq(q, 1, i)) = i
        /\ \A k \in 1 .. i : SubSeq(q, 1, i)[k] = q[k]
    BY <1>1, SubSeqProperties DEF Paths
  <2>2. /\ SubSeq(p, 1, i) \in Paths /\ Len(SubSeq(p, 1, i)) = i
        /\ \A k \in 1 .. i : SubSeq(p, 1, i)[k] = p[k]
    BY SubSeqProperties DEF Paths
  <2>3. \A k \in 1 .. i : SubSeq(q, 1, i)[k] = SubSeq(p, 1, i)[k]
    BY <1>1, <2>1, <2>2
  <2>4. QED
    BY <2>1, <2>2, <2>3, SeqEqual DEF Paths
<1>3. Front(q) = p
  <2>1. CASE p = <<>>
    <3>1. Front(q) = SubSeq(q, 1, 0)
      BY <1>1, <2>1, LenProperties DEF Front
    <3>2. QED
      BY <1>1, <2>1, <3>1, SubSeqEmpty DEF Paths
  <2>2. CASE p # <<>>
    <3>1. Len(p) \in 1 .. Len(p)
      BY <2>2, EmptySeq, LenProperties DEF Paths
    <3>2. Front(q) = SubSeq(q, 1, Len(p))
      BY <1>1, LenProperties DEF Front, Paths
    <3>3. QED
      BY <1>2, <3>1, <3>2, Whole
  <2>3. QED
    BY <2>1, <2>2
<1>4. QED
  BY <1>1, <1>2, <1>3

\* A beginning of a beginning is a beginning.
LEMMA PrefixOfBeginning ==
  ASSUME NEW p \in Paths, NEW r \in Paths, NEW i \in 1 .. Len(r), p # Root,
         IsPrefix(p, SubSeq(r, 1, i))
  PROVE  IsPrefix(p, r) /\ Len(p) <= i /\ p = SubSeq(r, 1, Len(p))
<1>1. Len(p) \in 1 .. i
  BY Beginning, EmptySeq, LenProperties DEF IsPrefix, Paths, Root
<1>2. SubSeq(p, 1, Len(p)) = SubSeq(SubSeq(r, 1, i), 1, Len(p))
  BY DEF IsPrefix
<1>3. SubSeq(SubSeq(r, 1, i), 1, Len(p)) = SubSeq(r, 1, Len(p))
  BY <1>1, Beginning
<1>4. QED
  BY <1>1, <1>2, <1>3, Whole DEF IsPrefix

\* The beginnings of a path are those it is prefixed by.
LEMMA WayIsPrefixes ==
  ASSUME NEW p \in Paths, NEW r \in Paths \ {Root}
  PROVE  IsPrefix(r, p) <=> r \in Way(p)
<1>1. ASSUME IsPrefix(r, p) PROVE r \in Way(p)
  <2>1. Len(r) \in 1 .. Len(p)
    BY <1>1, EmptySeq, LenProperties DEF IsPrefix, Paths, Root
  <2>2. QED
    BY <1>1, <2>1, Whole DEF IsPrefix, Way
<1>2. ASSUME r \in Way(p) PROVE IsPrefix(r, p)
  <2>1. PICK i \in 1 .. Len(p) : r = SubSeq(p, 1, i)
    BY <1>2 DEF Way
  <2>2. Len(r) = i
    BY <2>1, Beginning
  <2>3. QED
    BY <2>1, <2>2, Whole, LenProperties DEF IsPrefix, Paths
<1>3. QED
  BY <1>1, <1>2

(***************************************************************************)
(* The invariant of the tree: what is on the way to a node is in it.       *)
(***************************************************************************)
TreeType == DOMAIN tree \subseteq Paths \ {Root} /\ tree \in [DOMAIN tree -> Nodes]
Depth == \A p \in DOMAIN tree : Len(p) <= MaxDepth
Rooted == \A p \in DOMAIN tree : Way(p) \subseteq DOMAIN tree
MInv == TreeType /\ Depth /\ Rooted /\ NodeShape

Closed(places) == places \subseteq DOMAIN tree /\ \A p \in places : Way(p) \subseteq places

LEMMA MappingInitInv == MappingInit => MInv
BY EmptySeq DEF MappingInit, MInv, TreeType, Depth, Rooted, NodeShape

\* Taking away nodes with all that is below them.
LEMMA Shrink ==
  ASSUME MInv, NEW places, Closed(places), tree' = Keep(places)
  PROVE  MInv'
<1>1. DOMAIN tree' = places /\ \A p \in places : tree'[p] = tree[p]
  BY DEF Keep
<1>2. TreeType'
  BY <1>1 DEF MInv, TreeType, Closed, Keep
<1>3. Depth' /\ Rooted'
  BY <1>1 DEF MInv, Depth, Rooted, Closed, Way
<1>4. NodeShape'
  <2> SUFFICES ASSUME NEW p \in places
               PROVE  /\ Children(p)' # {} => tree[p].type = VIRTUAL
                      /\ tree[p].host # <<>> => tree[p].type # VIRTUAL
    BY <1>1 DEF NodeShape
  <2>1. Children(p)' \subseteq Children(p)
    BY <1>1 DEF Children, Closed
  <2>2. QED
    BY <2>1 DEF MInv, NodeShape, Closed
<1>5. QED
  BY <1>2, <1>3, <1>4 DEF MInv

\* A new node below one that is virtual.
LEMMA Grow ==
  ASSUME MInv, NEW places, Closed(places), NEW p \in places \cup {Root},
         NodeAt(p).type = VIRTUAL, Len(p) < MaxDepth,
         NEW name \in Names, NEW node \in NewNodes(name), Append(p, name) \notin places,
         tree' = With(places, Append(p, name), node)
  PROVE  MInv'
<1> DEFINE q == Append(p, name)
<1>1. /\ DOMAIN tree' = places \cup {q} /\ tree'[q] = node
      /\ \A r \in places : tree'[r] = tree[r]
  BY DEF With
<1>2. p \in Paths
  BY RootType DEF MInv, TreeType, Closed
<1>3. q \in Paths /\ Len(q) = Len(p) + 1 /\ Front(q) = p
      /\ \A i \in 1 .. Len(p) : SubSeq(q, 1, i) = SubSeq(p, 1, i)
  BY <1>2, AppendedPath
<1>4. q # Root /\ Len(p) \in Nat
  BY <1>2, <1>3, RootType, LenProperties DEF Paths
<1>5. node \in Nodes /\ (node.host # <<>> => node.type # VIRTUAL)
  BY DEF NewNodes, Node, Nodes, Types, VIRTUAL, HOST_FILE, HOST_FOLDER
<1>6. TreeType'
  <2>1. DOMAIN tree' \subseteq Paths \ {Root}
    BY <1>1, <1>3, <1>4 DEF MInv, TreeType, Closed
  <2>2. \A r \in places \cup {q} : tree'[r] \in Nodes
    BY <1>1, <1>5 DEF MInv, TreeType, Closed
  <2>3. tree' = [r \in places \cup {q} |-> tree'[r]]
    BY <1>1 DEF With
  <2>4. QED
    BY <1>1, <2>1, <2>2, <2>3 DEF TreeType
<1>7. Depth'
  BY <1>1, <1>3, <1>4 DEF MInv, Depth, Closed
<1>8. Rooted'
  <2>1. Way(p) \subseteq places
    BY RootType DEF Closed, Way
  <2>2. ASSUME NEW i \in 1 .. Len(q) PROVE SubSeq(q, 1, i) \in Way(p) \cup {q}
    <3>1. CASE i \in 1 .. Len(p)
      <4>1. SubSeq(q, 1, i) = SubSeq(p, 1, i)
        BY <1>3, <3>1
      <4>2. SubSeq(p, 1, i) \in Way(p)
        BY <3>1 DEF Way
      <4>3. QED
        BY <4>1, <4>2
    <3>2. CASE i \notin 1 .. Len(p)
      <4>1. i = Len(q)
        BY <1>3, <1>4, <3>2
      <4>2. QED
        BY <1>3, <4>1, Whole
    <3>3. QED
      BY <3>1, <3>2
  <2>3. Way(q) \subseteq places \cup {q}
    BY <2>1, <2>2 DEF Way
  <2>4. \A r \in places : Way(r) \subseteq places
    BY DEF Closed
  <2>5. QED
    BY <1>1, <2>3, <2>4 DEF Rooted
<1>9. NodeShape'
  <2>1. \A r \in places : q \notin Way(r)
    BY DEF Closed
  <2>2. \A r \in places \cup {q} : Front(r) # q
    <3>1. Front(q) # q
      BY <1>3, <1>4
    <3>2. ASSUME NEW r \in places, Front(r) = q PROVE FALSE
      <4>1. r \in Paths /\ Len(r) \in Nat \ {0}
        BY EmptySeq, LenProperties DEF MInv, TreeType, Closed, Paths, Root
      <4>2. q = SubSeq(r, 1, Len(r) - 1)
        BY <3>2 DEF Front
      <4>3. CASE Len(r) = 1
        <5>1. q = SubSeq(r, 1, 0)
          BY <4>2, <4>3
        <5>2. QED
          BY <1>4, <4>1, <5>1, SubSeqEmpty DEF Root, Paths
      <4>4. CASE Len(r) # 1
        <5>1. \A n \in Nat \ {0} : n # 1 => n - 1 \in 1 .. n
          OBVIOUS
        <5>2. Len(r) - 1 \in 1 .. Len(r)
          BY ONLY <4>1, <4>4, <5>1
        <5>3. q \in Way(r)
          BY <4>2, <5>2 DEF Way
        <5>4. QED
          BY <2>1, <5>3
      <4>5. QED
        BY <4>3, <4>4
    <3>3. QED
      BY <3>1, <3>2
  <2>3. Children(q)' = {}
    BY <1>1, <2>2 DEF Children
  <2>4. \A r \in places \ {p} : Children(r)' \subseteq Children(r)
    BY <1>1, <1>3 DEF Children, Closed
  <2>5. p # Root => tree[p].type = VIRTUAL /\ p \in places
    BY DEF NodeAt
  <2>6. \A r \in places : r # Root /\ (tree[r].host # <<>> => tree[r].type # VIRTUAL)
                          /\ (Children(r) # {} => tree[r].type = VIRTUAL)
    BY DEF MInv, NodeShape, TreeType, Closed
  <2>7. QED
    BY <1>1, <1>5, <2>3, <2>4, <2>5, <2>6 DEF NodeShape
<1>10. QED
  BY <1>6, <1>7, <1>8, <1>9 DEF MInv

\* A node is changed for another that may stand there.
LEMMA Edit ==
  ASSUME MInv, NEW p \in DOMAIN tree, NEW node \in Nodes,
         Children(p) # {} => node.type = VIRTUAL, node.host # <<>> => node.type # VIRTUAL,
         tree' = [tree EXCEPT ![p] = node]
  PROVE  MInv'
<1>1. /\ DOMAIN tree' = DOMAIN tree /\ tree'[p] = node
      /\ \A r \in DOMAIN tree \ {p} : tree'[r] = tree[r]
  OBVIOUS
<1>2. TreeType'
  BY <1>1 DEF MInv, TreeType
<1>3. Depth' /\ Rooted'
  BY <1>1 DEF MInv, Depth, Rooted, Way
<1>4. NodeShape'
  <2>1. \A r : Children(r)' = Children(r)
    BY <1>1 DEF Children
  <2>2. QED
    BY <1>1, <2>1 DEF MInv, NodeShape
<1>5. QED
  BY <1>2, <1>3, <1>4 DEF MInv

\* What is left when a node, or what is below it, is taken away.
LEMMA WithoutClosed == ASSUME MInv, NEW p \in DOMAIN tree PROVE Closed(Without(p))
<1> SUFFICES ASSUME NEW r \in Without(p), NEW i \in 1 .. Len(r)
             PROVE  SubSeq(r, 1, i) \in Without(p)
  BY DEF Closed, Without, Way
<1>1. r \in Paths /\ p \in Paths /\ p # Root /\ SubSeq(r, 1, i) \in DOMAIN tree
  BY DEF MInv, TreeType, Rooted, Without, Way
<1>2. QED
  BY <1>1, PrefixOfBeginning DEF Without

LEMMA WithoutChildrenClosed ==
  ASSUME MInv, NEW p \in Places
  PROVE  /\ Closed(WithoutChildren(p)) /\ p \in WithoutChildren(p) \cup {Root}
         /\ \A name \in Names : Append(p, name) \notin WithoutChildren(p)
<1>1. p \in Paths
  BY RootType DEF MInv, TreeType, Places
<1>2. p \in WithoutChildren(p) \cup {Root}
  BY DEF Places, WithoutChildren, IsStrictPrefix
<1>3. ASSUME NEW name \in Names PROVE Append(p, name) \notin WithoutChildren(p)
  <2> DEFINE q == Append(p, name)
  <2>1. q \in Paths /\ Len(q) = Len(p) + 1 /\ \A i \in 1 .. Len(p) : SubSeq(q, 1, i) = SubSeq(p, 1, i)
    BY <1>1, AppendedPath
  <2>2. Len(p) \in Nat
    BY <1>1, LenProperties DEF Paths
  <2>3. SubSeq(p, 1, Len(p)) = SubSeq(q, 1, Len(p))
    BY <2>1, <2>2, SubSeqEmpty
  <2>4. IsStrictPrefix(p, q)
    BY <2>1, <2>2, <2>3 DEF IsStrictPrefix, IsPrefix
  <2>5. QED
    BY <2>4 DEF WithoutChildren
<1>4. CASE p = Root
  <2>1. \A r \in DOMAIN tree : IsStrictPrefix(p, r)
    BY <1>4, RootType, SubSeqEmpty, LenProperties
    DEF MInv, TreeType, IsStrictPrefix, IsPrefix, Paths
  <2>2. WithoutChildren(p) = {}
    BY <2>1 DEF WithoutChildren
  <2>3. QED
    BY <1>2, <1>3, <2>2 DEF Closed
<1>5. CASE p # Root
  <2>1. ASSUME NEW r \in WithoutChildren(p), NEW i \in 1 .. Len(r)
        PROVE  SubSeq(r, 1, i) \in WithoutChildren(p)
    <3>1. r \in Paths /\ SubSeq(r, 1, i) \in DOMAIN tree
      BY DEF MInv, TreeType, Rooted, WithoutChildren, Way
    <3>2. ASSUME IsStrictPrefix(p, SubSeq(r, 1, i)) PROVE FALSE
      <4>1. IsPrefix(p, r) /\ Len(p) <= i
        BY <1>1, <1>5, <3>1, <3>2, PrefixOfBeginning DEF IsStrictPrefix
      <4>2. p = r
        BY <4>1 DEF WithoutChildren, IsStrictPrefix
      <4>3. i = Len(r)
        BY <4>1, <4>2, <3>1, LenProperties DEF Paths
      <4>4. QED
        BY <3>1, <3>2, <4>2, <4>3, Whole DEF IsStrictPrefix
    <3>3. QED
      BY <3>1, <3>2 DEF WithoutChildren
  <2>2. QED
    BY <1>2, <1>3, <2>1 DEF Closed, WithoutChildren, Way
<1>6. QED
  BY <1>4, <1>5

(***************************************************************************)
(* The operations.                                                         *)
(***************************************************************************)
LEMMA Inserted ==
  ASSUME MInv, NEW p \in Places, NEW name \in Names, NEW node \in NewNodes(name),
         InsertChildNode(p, name, node)
  PROVE  MInv'
<1>1. Closed(DOMAIN tree)
  BY DEF Closed, MInv, Rooted
<1>2. NodeAt(p).type = VIRTUAL /\ Len(p) < MaxDepth /\ Append(p, name) \notin DOMAIN tree
      /\ tree' = With(DOMAIN tree, Append(p, name), node)
  BY DEF InsertChildNode
<1>3. p \in DOMAIN tree \cup {Root}
  BY DEF Places
<1>4. QED
  BY <1>1, <1>2, <1>3, Grow

LEMMA Replaced ==
  ASSUME MInv, NEW p \in Places, NEW name \in Names, NEW node \in NewNodes(name),
         SetChildNodes(p, name, node)
  PROVE  MInv'
<1>1. NodeAt(p).type = VIRTUAL /\ Len(p) < MaxDepth
      /\ tree' = With(WithoutChildren(p), Append(p, name), node)
  BY DEF SetChildNodes
<1>2. /\ Closed(WithoutChildren(p)) /\ p \in WithoutChildren(p) \cup {Root}
      /\ Append(p, name) \notin WithoutChildren(p)
  BY WithoutChildrenClosed
<1>3. QED
  BY <1>1, <1>2, Grow

LEMMA Edited ==
  ASSUME MInv, NEW p \in DOMAIN tree,
         \/ \E name \in Names : SetName(p, name)
         \/ \E type \in Types : SetType(p, type)
         \/ \E host \in Hosts : SetHostPath(p, host)
         \/ \E visible \in BOOLEAN : SetVisibility(p, visible)
  PROVE  MInv'
<1>1. tree[p] \in Nodes /\ (Children(p) # {} => tree[p].type = VIRTUAL)
      /\ (tree[p].host # <<>> => tree[p].type # VIRTUAL)
  BY DEF MInv, TreeType, NodeShape
<1>2. ASSUME NEW name \in Names, SetName(p, name) PROVE MInv'
  <2> DEFINE node == [tree[p] EXCEPT !.name = name]
  <2>1. node \in Nodes /\ node.type = tree[p].type /\ node.host = tree[p].host
    BY <1>1 DEF Nodes
  <2>2. tree' = [tree EXCEPT ![p] = node]
    BY <1>2 DEF SetName
  <2> HIDE DEF node
  <2>3. QED
    BY <1>1, <2>1, <2>2, Edit
<1>3. ASSUME NEW type \in Types, SetType(p, type) PROVE MInv'
  <2> DEFINE node == [tree[p] EXCEPT !.type = type]
  <2>1. node \in Nodes /\ node.type = type /\ node.host = tree[p].host
    BY <1>1 DEF Nodes
  <2>2. tree' = [tree EXCEPT ![p] = node]
    BY <1>3 DEF SetType
  <2>3. (Children(p) # {} => type = VIRTUAL) /\ (tree[p].host # <<>> => type # VIRTUAL)
    BY <1>1, <1>3 DEF SetType
  <2> HIDE DEF node
  <2>4. QED
    BY <2>1, <2>2, <2>3, Edit
<1>4. ASSUME NEW host \in Hosts, SetHostPath(p, host) PROVE MInv'
  <2> DEFINE node == [tree[p] EXCEPT !.host = host]
  <2>1. node \in Nodes /\ node.type = tree[p].type /\ node.host = host
    BY <1>1 DEF Nodes
  <2>2. tree' = [tree EXCEPT ![p] = node]
    BY <1>4 DEF SetHostPath
  <2>3. host # <<>> => tree[p].type # VIRTUAL
    BY <1>4 DEF SetHostPath
  <2> HIDE DEF node
  <2>4. QED
    BY <1>1, <2>1, <2>2, <2>3, Edit
<1>5. ASSUME NEW visible \in BOOLEAN, SetVisibility(p, visible) PROVE MInv'
  <2> DEFINE node == [tree[p] EXCEPT !.visible = visible]
  <2>1. node \in Nodes /\ node.type = tree[p].type /\ node.host = tree[p].host
    BY <1>1 DEF Nodes
  <2>2. tree' = [tree EXCEPT ![p] = node]
    BY <1>5 DEF SetVisibility
  <2> HIDE DEF node
  <2>3. QED
    BY <1>1, <2>1, <2>2, Edit
<1>6. QED
  BY <1>2, <1>3, <1>4, <1>5

LEMMA StepInv == ASSUME MInv, [MappingNext]_tree PROVE MInv'
<1>1. ASSUME UNCHANGED tree PROVE MInv'
  BY <1>1 DEF MInv, TreeType, Depth, Rooted, NodeShape, Children
<1>2. ASSUME NEW p \in Places, ClearChildNodes(p) PROVE MInv'
  <2>1. Closed(WithoutChildren(p))
    BY WithoutChildrenClosed
  <2>2. tree' = Keep(WithoutChildren(p))
    BY <1>2 DEF ClearChildNodes
  <2>3. QED
    BY <2>1, <2>2, Shrink
<1>3. ASSUME NEW p \in DOMAIN tree, RemoveChildNode(p) PROVE MInv'
  <2>1. Closed(Without(p)) /\ tree' = Keep(Without(p))
    BY <1>3, WithoutClosed DEF RemoveChildNode
  <2>2. QED
    BY <2>1, Shrink
<1>4. QED
  BY <1>1, <1>2, <1>3, Inserted, Replaced, Edited DEF MappingNext

LEMMA NextInv == MInv /\ [Next]_vars => MInv'
<1> SUFFICES ASSUME MInv, [Next]_vars PROVE [MappingNext]_tree
  BY StepInv
<1>1. QED
  BY DEF Next, vars, Change, Receive, Continue, Return, ListFiles

\* Whatever the application does to the tree, and whatever is listed meanwhile, a
\* node with children is virtual and one with a host path is not.
THEOREM Shape == Spec => []NodeShape
<1>1. Init => MInv
  BY MappingInitInv DEF Init
<1>2. MInv => NodeShape
  BY DEF MInv
<1>3. QED
  BY <1>1, <1>2, NextInv, PTL DEF Spec

(***************************************************************************)
(* What a peer is given by the names of the nodes.                         *)
(***************************************************************************)
LEMMA VirtualPathType ==
  ASSUME NEW v \in VirtualPaths
  PROVE  v.names \in Paths /\ Stripped(v) \in Paths
<1>1. v.names \in Paths
  BY DEF VirtualPaths, VirtualPath, Paths
<1>2. CASE v.names = <<>> \/ v.root \/ Head(v.names) \notin DOMAIN AfterRoot
  BY <1>1, <1>2 DEF Stripped
<1>3. CASE v.names # <<>> /\ ~v.root /\ Head(v.names) \in DOMAIN AfterRoot
  <2>1. Tail(v.names) \in Paths /\ AfterRoot[Head(v.names)] \in Names
    BY <1>1, <1>3 DEF Paths
  <2>2. <<AfterRoot[Head(v.names)]>> \o Tail(v.names) \in Paths
    BY <2>1 DEF Paths
  <2>3. QED
    BY <1>1, <1>3, <2>2 DEF Stripped
<1>4. QED
  BY <1>2, <1>3

\* What the walk stops at is a node that is seen, or the root.
LEMMA FoundIsSeen ==
  ASSUME MInv, NEW v \in VirtualPaths, NEW p \in Found(v), p # Root
  PROVE  p \in DOMAIN tree /\ \A r \in DOMAIN tree : IsPrefix(r, p) => tree[r].visible
<1>1. p \in Way(Stripped(v)) /\ Way(p) \subseteq DOMAIN tree /\ Seen(p)
  BY DEF Found, Walked
<1>2. PICK i \in 1 .. Len(Stripped(v)) : p = SubSeq(Stripped(v), 1, i)
  BY <1>1 DEF Way
<1>3. p \in Paths /\ Len(p) = i
  BY <1>2, VirtualPathType, Beginning
<1>4. p \in Way(p)
  <2>1. Len(p) \in 1 .. Len(p)
    BY <1>2, <1>3
  <2>2. p = SubSeq(p, 1, Len(p))
    BY <1>3, Whole
  <2>3. QED
    BY <2>1, <2>2 DEF Way
<1>5. ASSUME NEW r \in DOMAIN tree, IsPrefix(r, p) PROVE r \in Way(p)
  BY <1>3, <1>5, WayIsPrefixes DEF MInv, TreeType
<1>6. QED
  BY <1>1, <1>4, <1>5 DEF Seen

\* No node on the way to another is a folder of the host.
LEMMA WayIsVirtual ==
  ASSUME MInv, NEW p \in DOMAIN tree, NEW q \in Way(p) \ {p}
  PROVE  q \in DOMAIN tree /\ tree[q].type = VIRTUAL
<1>1. p \in Paths /\ Len(p) \in Nat
  BY LenProperties DEF MInv, TreeType, Paths
<1>2. PICK i \in 1 .. Len(p) : q = SubSeq(p, 1, i)
  BY DEF Way
<1>3. i # Len(p)
  BY <1>1, <1>2, Whole
<1>4. i \in Nat \ {0} /\ i + 1 \in 1 .. Len(p) /\ i \in 1 .. i + 1
  BY <1>1, <1>2, <1>3
<1> DEFINE c == SubSeq(p, 1, i + 1)
<1>5. c \in Paths /\ Len(c) = i + 1 /\ SubSeq(c, 1, i) = q
  BY <1>1, <1>2, <1>4, Beginning
<1>6. c \in DOMAIN tree /\ q \in DOMAIN tree
  BY <1>4 DEF MInv, Rooted, Way
<1>7. Front(c) = q /\ c # Root
  <2>1. Len(c) - 1 = i
    BY <1>4, <1>5
  <2>2. QED
    BY <1>5, <1>6, <2>1 DEF Front, MInv, TreeType
<1>8. c \in Children(q)
  BY <1>6, <1>7 DEF Children
<1>9. QED
  BY <1>6, <1>8 DEF MInv, NodeShape

\* A file whose way is seen is all that is found under its own name.
LEMMA OwnName ==
  ASSUME MInv, NEW p \in DOMAIN tree, tree[p].type = HOST_FILE,
         \A r \in DOMAIN tree : IsPrefix(r, p) => tree[r].visible
  PROVE  Found(VirtualPath(TRUE, p, FALSE)) = {p}
<1> DEFINE v == VirtualPath(TRUE, p, FALSE)
<1>1. Stripped(v) = p /\ ~KeepsSlash(v)
  BY DEF VirtualPath, Stripped, KeepsSlash
<1>2. p \in Paths \ {Root} /\ Way(p) \subseteq DOMAIN tree
  BY DEF MInv, TreeType, Rooted
<1>3. p \in Way(p)
  <2>1. Len(p) \in 1 .. Len(p)
    BY <1>2, EmptySeq, LenProperties DEF Paths, Root
  <2>2. p = SubSeq(p, 1, Len(p))
    BY <1>2, Whole
  <2>3. QED
    BY <2>1, <2>2 DEF Way
<1>4. Seen(p)
  <2> SUFFICES ASSUME NEW r \in Way(p) PROVE tree[r].visible
    BY DEF Seen
  <2>1. r \in DOMAIN tree /\ r \in Paths \ {Root}
    BY <1>2 DEF MInv, TreeType
  <2>2. IsPrefix(r, p)
    BY <1>2, <2>1, WayIsPrefixes
  <2>3. QED
    BY <2>1, <2>2
<1>5. \A q \in Way(p) \ {p} : tree[q].type # HOST_FOLDER
  BY WayIsVirtual DEF HOST_FOLDER, VIRTUAL
<1>6. p \in Found(v)
  BY <1>1, <1>2, <1>3, <1>4, <1>5 DEF Found, Walked
<1>7. ASSUME NEW q \in Found(v), q # p PROVE FALSE
  <2>1. q \in Way(p) \cup {Root} /\ NodeAt(q).type = HOST_FOLDER
    BY <1>1, <1>7 DEF Found, Walked
  <2>2. q \in Way(p) \ {p} /\ q # Root
    BY <1>7, <2>1 DEF NodeAt, Node, VIRTUAL, HOST_FOLDER
  <2>3. QED
    BY <1>5, <2>1, <2>2 DEF NodeAt
<1>8. QED
  BY <1>6, <1>7

\* A path handed out is the host path of a file that is seen.
LEMMA HandedOut ==
  ASSUME MInv, NEW v \in VirtualPaths, VirtualToHost(v) \notin {<<>>, Undefined}
  PROVE  VirtualToHost(v) \in SharedFiles
<1> DEFINE p == CHOOSE p \in Found(v) : TRUE
<1>1. p \in Found(v) /\ NodeAt(p).type # HOST_FOLDER /\ VirtualToHost(v) = NodeAt(p).host
  BY DEF VirtualToHost
<1>2. p # Root
  BY <1>1 DEF NodeAt, Node
<1>3. p \in DOMAIN tree /\ \A r \in DOMAIN tree : IsPrefix(r, p) => tree[r].visible
  BY <1>1, <1>2, FoundIsSeen
<1>4. tree[p].host # <<>> /\ VirtualToHost(v) = tree[p].host /\ tree[p].type # HOST_FOLDER
  BY <1>1, <1>2 DEF NodeAt
<1>5. tree[p].type = HOST_FILE
  <2>1. tree[p].type \in Types
    BY <1>3 DEF MInv, TreeType, Nodes
  <2>2. tree[p].type # VIRTUAL
    BY <1>3, <1>4 DEF MInv, NodeShape
  <2>3. QED
    BY <1>4, <2>1, <2>2 DEF Types
<1> HIDE DEF p
<1>6. QED
  BY <1>3, <1>4, <1>5 DEF SharedFiles

LEMMA ServedInv == MInv => ServedIsShared
<1> SUFFICES ASSUME MInv PROVE ServedIsShared
  OBVIOUS
<1> DEFINE allowed == {path \in SharedFiles : ~IsForbidden(path)}
<1> DEFINE rooted == {v \in VirtualPaths : v.root}
<1>1. ASSUME NEW path \in Uploaded(VirtualPaths) PROVE path \in allowed
  <2>1. PICK v \in VirtualPaths : path = VirtualToHost(v)
    BY DEF Uploaded
  <2>2. path \notin {<<>>, Undefined} /\ ~IsForbidden(path)
    BY DEF Uploaded
  <2>3. QED
    BY <2>1, <2>2, HandedOut
<1>2. Uploaded(rooted) \subseteq Uploaded(VirtualPaths)
  BY DEF Uploaded
<1>3. ASSUME NEW path \in allowed PROVE path \in Uploaded(rooted)
  <2>1. PICK p \in DOMAIN tree :
          /\ tree[p].type = HOST_FILE /\ tree[p].host = path
          /\ \A r \in DOMAIN tree : IsPrefix(r, p) => tree[r].visible
    BY DEF SharedFiles
  <2> DEFINE v == VirtualPath(TRUE, p, FALSE)
  <2>2. v \in VirtualPaths /\ v.root
    <3>1. p \in [1 .. Len(p) -> Names] /\ Len(p) \in 0 .. MaxDepth + 1
      BY LenProperties DEF MInv, TreeType, Depth, Paths
    <3>2. p \in UNION {[1 .. n -> Names] : n \in 0 .. MaxDepth + 1}
      BY <3>1
    <3>3. QED
      BY <3>2 DEF VirtualPaths, VirtualPath
  <2>3. Found(v) = {p}
    BY <2>1, OwnName
  <2>4. p # Root
    BY DEF MInv, TreeType
  <2> HIDE DEF v
  <2>5. VirtualToHost(v) = path
    <3>1. NodeAt(p).type # HOST_FOLDER /\ NodeAt(p).host = path
      BY <2>1, <2>4 DEF NodeAt, HOST_FILE, HOST_FOLDER
    <3>2. Found(v) # {} /\ (CHOOSE r \in Found(v) : TRUE) = p
      BY <2>3
    <3>3. QED
      BY <3>1, <3>2 DEF VirtualToHost
  <2>6. path \notin {<<>>, Undefined}
    BY <2>1 DEF SharedFiles, MInv, TreeType, Nodes
  <2>7. QED
    BY <2>2, <2>5, <2>6 DEF Uploaded
<1>4. QED
  BY <1>1, <1>2, <1>3 DEF ServedIsShared

\* In every state the files a peer can have by the names of the nodes are those the
\* application shows it and does not forbid.
THEOREM ServedAreShared == Spec => []ServedIsShared
<1>1. Init => MInv
  BY MappingInitInv DEF Init
<1>2. QED
  BY <1>1, NextInv, ServedInv, PTL DEF Spec

(***************************************************************************)
(* A path of the host under a virtual name, and back.                      *)
(***************************************************************************)
\* Two paths after one another are taken apart where they were joined.
LEMMA TakenApart ==
  ASSUME NEW p \in Paths, NEW r \in Paths
  PROVE  /\ p \o r \in Paths
         /\ SubSeq(p \o r, 1, Len(p)) = p /\ SubSeq(p \o r, Len(p) + 1, Len(p \o r)) = r
<1>1. Len(p) \in Nat /\ Len(r) \in Nat
  BY LenProperties DEF Paths
<1>2. /\ p \o r \in Paths /\ Len(p \o r) = Len(p) + Len(r)
      /\ \A i \in 1 .. Len(p) + Len(r) : (p \o r)[i] = IF i <= Len(p) THEN p[i] ELSE r[i - Len(p)]
  BY ConcatProperties DEF Paths
<1>3. SubSeq(p \o r, 1, Len(p)) = p
  <2>1. \A i \in 1 .. Len(p) : (p \o r)[i] = p[i] /\ p[i] \in Names
    BY <1>1, <1>2 DEF Paths
  <2>2. /\ SubSeq(p \o r, 1, Len(p)) \in Paths /\ Len(SubSeq(p \o r, 1, Len(p))) = Len(p)
        /\ \A i \in 1 .. Len(p) : SubSeq(p \o r, 1, Len(p))[i] = (p \o r)[i]
    BY <1>1, <2>1, SubSeqProperties DEF Paths
  <2>3. QED
    BY <2>1, <2>2, SeqEqual DEF Paths
<1>4. SubSeq(p \o r, Len(p) + 1, Len(p \o r)) = r
  <2> DEFINE m == Len(p) + 1
             n == Len(p \o r)
             rest == SubSeq(p \o r, m, n)
  <2>1. \A i \in m .. n : (p \o r)[i] = r[i - Len(p)] /\ i - Len(p) \in 1 .. Len(r)
    BY <1>1, <1>2
  <2>2. \A i \in m .. n : (p \o r)[i] \in Names
    BY <2>1 DEF Paths
  <2>3. m \in Int /\ n \in Int /\ n - m + 1 = Len(r)
    BY <1>1, <1>2
  <2>4. /\ rest \in Paths /\ Len(rest) = IF m <= n THEN n - m + 1 ELSE 0
        /\ \A i \in 1 .. n - m + 1 : rest[i] = (p \o r)[m + i - 1]
    <3>1. ASSUME NEW s, NEW a \in Int, NEW b \in Int, \A i \in a .. b : s[i] \in Names
          PROVE  /\ SubSeq(s, a, b) \in Seq(Names) /\ Len(SubSeq(s, a, b)) = IF a <= b THEN b - a + 1 ELSE 0
                 /\ \A i \in 1 .. b - a + 1 : SubSeq(s, a, b)[i] = s[a + i - 1]
      BY <3>1, SubSeqProperties
    <3> HIDE DEF m, n
    <3>2. QED
      BY <2>2, <2>3, <3>1, Zenon DEF Paths
  <2>5. Len(rest) = Len(r)
    BY <1>1, <1>2, <2>4
  <2>6. \A i \in 1 .. Len(r) : rest[i] = r[i]
    <3> SUFFICES ASSUME NEW i \in 1 .. Len(r) PROVE rest[i] = r[i]
      OBVIOUS
    <3>1. rest[i] = (p \o r)[m + i - 1]
      BY <2>3, <2>4
    <3>2. m + i - 1 \in m .. n /\ (m + i - 1) - Len(p) = i
      BY <1>1, <1>2
    <3>3. QED
      BY <2>1, <3>1, <3>2
  <2> HIDE DEF rest
  <2>7. rest = r
    BY <2>4, <2>5, <2>6, SeqEqual DEF Paths
  <2>8. QED
    BY <2>7 DEF rest
<1>5. QED
  BY <1>2, <1>3, <1>4

\* A path is its beginning with what follows it.
LEMMA PutTogether ==
  ASSUME NEW h \in Paths, NEW t \in Paths, IsPrefix(h, t)
  PROVE  /\ SubSeq(t, Len(h) + 1, Len(t)) \in Paths
         /\ h \o SubSeq(t, Len(h) + 1, Len(t)) = t
<1> DEFINE m == Len(h) + 1
           n == Len(t)
           rest == SubSeq(t, m, n)
<1>1. Len(h) \in Nat /\ n \in Nat /\ Len(h) <= n
  BY LenProperties DEF Paths, IsPrefix
<1>2. /\ rest \in Paths /\ Len(rest) = n - Len(h)
      /\ \A i \in 1 .. n - Len(h) : rest[i] = t[Len(h) + i]
  <2>1. \A i \in m .. n : t[i] \in Names
    BY <1>1 DEF Paths
  <2>2. /\ rest \in Paths /\ Len(rest) = IF m <= n THEN n - m + 1 ELSE 0
        /\ \A i \in 1 .. n - m + 1 : rest[i] = t[m + i - 1]
    BY <1>1, <2>1, SubSeqProperties DEF Paths
  <2>3. QED
    BY <1>1, <2>2
<1>3. \A i \in 1 .. Len(h) : h[i] = t[i]
  <2>1. \A i \in 1 .. Len(h) : t[i] \in Names /\ h[i] \in Names
    BY <1>1 DEF Paths
  <2>2. \A i \in 1 .. Len(h) : SubSeq(t, 1, Len(h))[i] = t[i]
    BY <1>1, <2>1, SubSeqProperties
  <2>3. SubSeq(t, 1, Len(h)) = h
    BY Whole DEF IsPrefix
  <2>4. QED
    BY <2>2, <2>3
<1> HIDE DEF rest
<1>4. /\ h \o rest \in Paths /\ Len(h \o rest) = n
      /\ \A i \in 1 .. n : (h \o rest)[i] = IF i <= Len(h) THEN h[i] ELSE rest[i - Len(h)]
  BY <1>1, <1>2, ConcatProperties DEF Paths
<1>5. \A i \in 1 .. n : (h \o rest)[i] = t[i]
  <2> SUFFICES ASSUME NEW i \in 1 .. n PROVE (h \o rest)[i] = t[i]
    OBVIOUS
  <2>1. CASE i <= Len(h)
    BY <1>1, <1>3, <1>4, <2>1
  <2>2. CASE i > Len(h)
    <3> DEFINE j == i - Len(h)
    <3>1. j \in 1 .. n - Len(h) /\ Len(h) + j = i
      BY <1>1, <2>2
    <3>2. (h \o rest)[i] = rest[j]
      BY <1>1, <1>4, <2>2
    <3> HIDE DEF j
    <3>3. rest[j] = t[Len(h) + j]
      BY <1>2, <3>1
    <3>4. QED
      BY <3>1, <3>2, <3>3
  <2>3. i <= Len(h) \/ i > Len(h)
    BY <1>1
  <2>4. QED
    BY <2>1, <2>2, <2>3, Zenon
<1>6. h \o rest = t
  BY <1>4, <1>5, SeqEqual DEF Paths
<1>7. QED
  BY <1>2, <1>6 DEF rest

\* As long as no node was renamed, the names to it are the keys to it.
LEMMA NamesAreKeys ==
  ASSUME MInv, NEW p \in DOMAIN tree, \A q \in DOMAIN tree : tree[q].name = Last(q)
  PROVE  NamesTo(p) = p
<1>1. p \in Paths /\ Len(p) \in Nat
  BY LenProperties DEF MInv, TreeType, Paths
<1>2. ASSUME NEW i \in 1 .. Len(p) PROVE tree[SubSeq(p, 1, i)].name = p[i]
  <2> DEFINE q == SubSeq(p, 1, i)
  <2>1. q \in DOMAIN tree
    BY DEF MInv, Rooted, Way
  <2>2. Len(q) = i
    BY <1>1, Beginning
  <2>3. q[i] = p[i]
    <3>1. \A j \in 1 .. i : p[j] \in Names
      BY <1>1 DEF Paths
    <3>2. QED
      BY <1>1, <3>1, SubSeqProperties
  <2>4. QED
    BY <2>1, <2>2, <2>3 DEF Last
<1>3. p = [i \in 1 .. Len(p) |-> p[i]]
  BY <1>1 DEF Paths
<1>4. QED
  BY <1>2, <1>3 DEF NamesTo

\* What is announced is a path.
LEMMA AnnouncedPath == ASSUME NEW path \in Announced PROVE path \in Paths \ {<<>>}
<1> DEFINE rests == {<<>>} \cup {<<name>> : name \in Names}
<1>1. PICK host \in Hosts \ {<<>>}, rest \in rests : path = host \o rest
  BY AnnouncedForm
<1>2. host \in Paths
  BY DEF Paths
<1>3. rest \in Paths
  <2>1. <<>> \in Paths /\ \A name \in Names : <<name>> \in Paths
    BY DEF Paths
  <2>2. QED
    BY <2>1
<1>4. Len(host) > 0
  BY <1>1, <1>2, LenProperties, EmptySeq DEF Paths
<1>5. path \in Paths /\ Len(path) > 0
  BY <1>1, <1>2, <1>3, <1>4, LenProperties, ConcatProperties DEF Paths
<1>6. QED
  BY <1>5, EmptySeq DEF Paths

LEMMA AnnouncedInv == MInv => AnnouncedIsFound
<1> SUFFICES ASSUME MInv,
                    \A q \in DOMAIN tree : tree[q].name = Last(q)
                      /\ (tree[q].type = HOST_FOLDER => tree[q].host # <<>>),
                    NEW path \in Announced, NEW v \in HostToVirtual(path)
             PROVE  \E p \in Found(v) :
                      tree[p].host \o SubSeq(v.names, Len(p) + 1, Len(v.names)) = path
  BY DEF AnnouncedIsFound
<1>1. PICK p \in DOMAIN tree :
        /\ Seen(p) /\ Matches(p, path)
        /\ v = VirtualPath(TRUE, NamesTo(p) \o SubSeq(path, Len(tree[p].host) + 1, Len(path)), FALSE)
  <2>1. PICK p \in DOMAIN tree : Seen(p) /\ Matches(p, path) /\ v = Announcing(p, path) BY DEF HostToVirtual
  <2>2. tree[p].host # <<>> BY <2>1, AnnouncedPath DEF Matches
  <2> QED BY <2>1, <2>2 DEF Announcing
<1>2. p \in Paths \ {Root} /\ Way(p) \subseteq DOMAIN tree /\ tree[p].host \in Paths
  BY DEF MInv, TreeType, Rooted, Nodes, Paths
<1>3. path \in Paths
  BY AnnouncedPath
<1>4. IsPrefix(tree[p].host, path) /\ (tree[p].type = HOST_FOLDER \/ tree[p].host = path)
  <2>1. IsPrefix(path, path)
    BY <1>3, LenProperties DEF IsPrefix, Paths
  <2>2. QED
    BY <1>1, <2>1 DEF Matches
<1> DEFINE rest == SubSeq(path, Len(tree[p].host) + 1, Len(path))
<1>5. rest \in Paths /\ tree[p].host \o rest = path
  BY <1>2, <1>3, <1>4, PutTogether
<1>6. NamesTo(p) = p
  BY NamesAreKeys
<1>7. tree[p].host = path => rest = <<>>
  BY <1>3, LenProperties, SubSeqEmpty DEF Paths
<1> HIDE DEF rest
<1>8. v = VirtualPath(TRUE, p \o rest, FALSE)
  BY <1>1, <1>6 DEF rest
<1>9. v.names = p \o rest /\ Stripped(v) = p \o rest /\ ~KeepsSlash(v)
  BY <1>8 DEF VirtualPath, Stripped, KeepsSlash
<1>10. /\ p \o rest \in Paths /\ SubSeq(p \o rest, 1, Len(p)) = p
       /\ SubSeq(p \o rest, Len(p) + 1, Len(p \o rest)) = rest
  BY <1>2, <1>5, TakenApart
<1>11. p \in Walked(p \o rest)
  <2>1. Len(p) \in 1 .. Len(p \o rest)
    <3>1. Len(p) \in Nat /\ Len(rest) \in Nat /\ Len(p) # 0
      BY <1>2, <1>5, EmptySeq, LenProperties DEF Paths, Root
    <3>2. Len(p \o rest) = Len(p) + Len(rest)
      BY <1>2, <1>5, ConcatProperties DEF Paths
    <3>3. QED
      BY <3>1, <3>2
  <2>2. p \in Way(p \o rest)
    BY <1>10, <2>1 DEF Way
  <2>3. \A q \in Way(p) \ {p} : tree[q].type # HOST_FOLDER
    BY WayIsVirtual DEF HOST_FOLDER, VIRTUAL
  <2>4. QED
    BY <1>1, <1>2, <2>2, <2>3 DEF Walked
<1>12. tree[p].type = HOST_FOLDER \/ p = p \o rest
  <2>1. p \o <<>> = p
    BY <1>2, ConcatEmptySeq DEF Paths
  <2>2. QED
    BY <1>4, <1>7, <2>1
<1>13. p \in Found(v)
  BY <1>2, <1>9, <1>11, <1>12 DEF Found, NodeAt
<1>14. QED
  BY <1>5, <1>9, <1>10, <1>13

\* Every path the application announces to a peer, under any name host_to_virtual may
\* find for it, leads find_virtual_node to the node it is shared by, with what is left
\* of it below a folder, as long as no node was renamed.
THEOREM AnnouncedAreFound == Spec => []AnnouncedIsFound
<1>1. Init => MInv
  BY MappingInitInv DEF Init
<1>2. QED
  BY <1>1, NextInv, AnnouncedInv, PTL DEF Spec
(***************************************************************************)
(* The pages of a listing.                                                 *)
(***************************************************************************)
\* A page is written from a set: each of its elements once.
LEMMA WrittenOnce ==
  ASSUME NEW S, IsFiniteSet(S)
  PROVE  /\ SetToSeq(S) \in Seq(S) /\ Len(SetToSeq(S)) = Cardinality(S)
         /\ ToSet(SetToSeq(S)) = S
<1> DEFINE n == Cardinality(S)
           f == SetToSeq(S)
<1>1. n \in Nat /\ ExistsBijection(1 .. n, S)
  BY FS_CardinalityType
<1>2. PICK b \in [1 .. n -> S] : IsInjective(b) /\ \A t \in S : \E i \in 1 .. n : b[i] = t
  BY <1>1 DEF ExistsBijection, Bijection, Injection, Surjection
<1>3. f \in [1 .. n -> S] /\ IsInjective(f)
  BY <1>2, Zenon DEF SetToSeq
<1> HIDE DEF f
<1>4. IsFiniteSet(1 .. n) /\ Cardinality(1 .. n) = n
  <2> HIDE DEF n
  <2>1. 1 \in Int /\ n \in Int
    BY <1>1
  <2>2. IsFiniteSet(1 .. n) /\ Cardinality(1 .. n) = IF 1 > n THEN 0 ELSE n - 1 + 1
    BY <2>1, FS_Interval, Zenon
  <2>3. (IF 1 > n THEN 0 ELSE n - 1 + 1) = n
    BY <1>1
  <2>4. QED
    BY ONLY <2>2, <2>3
<1>5. f \in Surjection(1 .. n, S)
  <2>1. f \in Injection(1 .. n, S)
    BY <1>3 DEF Injection
  <2> HIDE DEF n
  <2>2. Cardinality(1 .. n) = Cardinality(S)
    BY <1>4 DEF n
  <2>3. QED
    BY <2>1, <2>2, FS_Injection
<1>6. f \in Seq(S) /\ Len(f) = n /\ DOMAIN f = 1 .. n
  BY <1>1, <1>3
<1>7. ToSet(f) = S
  <2>1. \A t \in S : \E i \in 1 .. n : f[i] = t
    BY <1>5 DEF Surjection
  <2>2. QED
    BY <1>3, <1>6, <2>1 DEF ToSet
<1>8. QED
  BY <1>6, <1>7 DEF f

LEMMA ElementsOfBoth ==
  ASSUME NEW S, NEW s \in Seq(S), NEW t \in Seq(S)
  PROVE  s \o t \in Seq(S) /\ ToSet(s \o t) = ToSet(s) \cup ToSet(t)
<1>1. Len(s) \in Nat /\ Len(t) \in Nat /\ DOMAIN s = 1 .. Len(s) /\ DOMAIN t = 1 .. Len(t)
  BY LenProperties
<1>2. /\ s \o t \in Seq(S) /\ DOMAIN (s \o t) = 1 .. Len(s) + Len(t)
      /\ \A i \in 1 .. Len(s) + Len(t) : (s \o t)[i] = IF i <= Len(s) THEN s[i] ELSE t[i - Len(s)]
  BY ConcatProperties, LenProperties
<1>3. ASSUME NEW x \in ToSet(s \o t) PROVE x \in ToSet(s) \cup ToSet(t)
  <2>1. PICK i \in 1 .. Len(s) + Len(t) : x = (s \o t)[i]
    BY <1>2 DEF ToSet
  <2>2. CASE i <= Len(s)
    BY <1>1, <1>2, <2>1, <2>2 DEF ToSet
  <2>3. CASE i > Len(s)
    <3>1. i - Len(s) \in 1 .. Len(t)
      BY <1>1, <2>3
    <3>2. x = t[i - Len(s)]
      BY <1>1, <1>2, <2>1, <2>3
    <3>3. QED
      BY <1>1, <3>1, <3>2 DEF ToSet
  <2>4. QED
    BY <1>1, <2>2, <2>3
<1>4. ASSUME NEW x \in ToSet(s) PROVE x \in ToSet(s \o t)
  <2>1. PICK i \in 1 .. Len(s) : x = s[i]
    BY <1>1 DEF ToSet
  <2>2. i \in 1 .. Len(s) + Len(t) /\ (s \o t)[i] = x
    BY <1>1, <1>2, <2>1
  <2>3. QED
    BY <1>2, <2>2 DEF ToSet
<1>5. ASSUME NEW x \in ToSet(t) PROVE x \in ToSet(s \o t)
  <2>1. PICK i \in 1 .. Len(t) : x = t[i]
    BY <1>1 DEF ToSet
  <2> DEFINE j == Len(s) + i
  <2>2. j \in 1 .. Len(s) + Len(t) /\ ~(j <= Len(s)) /\ j - Len(s) = i
    BY <1>1
  <2> HIDE DEF j
  <2>3. (s \o t)[j] = x
    BY <1>2, <2>1, <2>2
  <2>4. QED
    BY <1>2, <2>2, <2>3 DEF ToSet
<1>6. QED
  BY <1>2, <1>3, <1>4, <1>5

\* There are never infinitely many nodes: a call adds one or takes some away.
LEMMA StaysFinite ==
  ASSUME IsFiniteSet(DOMAIN tree), [MappingNext]_tree
  PROVE  IsFiniteSet(DOMAIN tree)'
<1>1. ASSUME NEW places \in SUBSET (DOMAIN tree), tree' = Keep(places)
      PROVE  IsFiniteSet(DOMAIN tree')
  <2>1. DOMAIN tree' = places
    BY <1>1 DEF Keep
  <2>2. QED
    BY <2>1, FS_Subset
<1>2. ASSUME NEW places \in SUBSET (DOMAIN tree), NEW q, NEW node, tree' = With(places, q, node)
      PROVE  IsFiniteSet(DOMAIN tree')
  <2>1. DOMAIN tree' = places \cup {q}
    BY <1>2 DEF With
  <2>2. IsFiniteSet(places)
    BY FS_Subset
  <2>3. QED
    BY <2>1, <2>2, FS_AddElement
<1>3. \A p : Without(p) \subseteq DOMAIN tree /\ WithoutChildren(p) \subseteq DOMAIN tree
  BY DEF Without, WithoutChildren
<1>4. ASSUME NEW p \in Places, NEW name \in Names, NEW node \in NewNodes(name),
             InsertChildNode(p, name, node) \/ SetChildNodes(p, name, node)
      PROVE  IsFiniteSet(DOMAIN tree')
  BY <1>2, <1>3, <1>4 DEF InsertChildNode, SetChildNodes
<1>5. ASSUME NEW p, ClearChildNodes(p) \/ RemoveChildNode(p) PROVE IsFiniteSet(DOMAIN tree')
  BY <1>1, <1>3, <1>5 DEF ClearChildNodes, RemoveChildNode
<1>6. ASSUME NEW p \in DOMAIN tree,
             \/ \E name \in Names : SetName(p, name)
             \/ \E type \in Types : SetType(p, type)
             \/ \E host \in Hosts : SetHostPath(p, host)
             \/ \E visible \in BOOLEAN : SetVisibility(p, visible)
      PROVE  DOMAIN tree' = DOMAIN tree
  BY <1>6 DEF SetName, SetType, SetHostPath, SetVisibility
<1>7. QED
  BY <1>4, <1>5, <1>6 DEF MappingNext

\* A folder is listed from a finite set.
LEMMA EntriesFinite ==
  ASSUME IsFiniteSet(DOMAIN tree), NEW p
  PROVE  IsFiniteSet(EntriesOf(p))
<1>1. IsFiniteSet(Children(p))
  BY FS_Subset DEF Children
<1> DEFINE f == [q \in Children(p) |-> Entry(Last(q), tree[q])]
           T == {Entry(Last(q), tree[q]) : q \in Children(p)}
<1>2. f \in Surjection(Children(p), T)
  BY DEF Surjection
<1>3. IsFiniteSet(T)
  <2> HIDE DEF f, T
  <2>1. QED
    BY <1>1, <1>2, FS_Surjection
<1>4. IsFiniteSet({Entry(Last(p), tree[p])})
  BY FS_Singleton
<1>5. QED
  BY <1>3, <1>4 DEF EntriesOf

\* What the requester has, or is about to have, and what is still to be sent are the
\* folder, each entry once.
Split(s, rest, whole) ==
  /\ s \in Seq(whole) /\ rest \subseteq whole /\ ToSet(s) \cup rest = whole
  /\ Len(s) + Cardinality(rest) = Cardinality(whole)

\* While a listing is open its two handlers are in step: the page under way is the
\* one expected, the last page is the empty one and only it ends the listing.
OpenListing ==
  /\ IsFiniteSet(folder) /\ missing = {} /\ current \in Nat
  /\ page.sent =>
       /\ call = "waiting" /\ ~finished /\ page.id = current /\ next = current + 1
       /\ (page.files = <<>> <=> extra) /\ (extra => left = {})
       /\ list \in Seq(folder) /\ page.files \in Seq(folder) /\ Split(list \o page.files, left, folder)
  /\ ~page.sent /\ ~extra =>
       call = "waiting" /\ ~finished /\ next = current /\ Split(list, left, folder)
  /\ ~page.sent /\ extra => call = "none" \/ (call = "waiting" /\ finished /\ Split(list, {}, folder))

LInv ==
  /\ MInv /\ IsFiniteSet(DOMAIN tree) /\ maxCount \in MaxCounts
  /\ (call = "none" => NoCall) /\ (stage = "open" => OpenListing)

LEMMA LInvInit == Init => LInv
<1> SUFFICES ASSUME Init PROVE LInv
  OBVIOUS
<1>1. MInv
  BY MappingInitInv DEF Init
<1>2. IsFiniteSet(DOMAIN tree)
  <2>1. DOMAIN tree = {}
    BY DEF Init, MappingInit
  <2>2. QED
    BY <2>1, FS_EmptySet
<1>3. QED
  BY <1>1, <1>2 DEF Init, LInv

\* The next page, and what is left after it, are what there was to send.
LEMMA PageSplit ==
  ASSUME NEW whole, IsFiniteSet(whole), maxCount \in MaxCounts, NEW remaining,
         NEW before \in Seq(whole), Split(before, remaining, whole),
         NEW id \in Nat, NextPage(remaining, id)
  PROVE  /\ page'.sent /\ page'.id = id /\ next' = id + 1
         /\ page'.files \in Seq(whole) /\ (page'.files = <<>> <=> extra')
         /\ (extra' => left' = {}) /\ Split(before \o page'.files, left', whole)
<1> USE CountAssumption DEF CountAssumption
<1>1. PICK taken \in SUBSET remaining :
        /\ Cardinality(taken) = IF Cardinality(remaining) < maxCount
                                THEN Cardinality(remaining) ELSE maxCount
        /\ page' = [id |-> id, files |-> SetToSeq(taken), sent |-> TRUE]
        /\ left' = remaining \ taken /\ next' = id + 1 /\ extra' = (taken = {})
  BY DEF NextPage
<1>2. IsFiniteSet(remaining) /\ IsFiniteSet(taken) /\ IsFiniteSet(remaining \ taken)
  <2>1. IsFiniteSet(remaining)
    BY FS_Subset DEF Split
  <2>2. QED
    BY <2>1, FS_Subset
<1>3. /\ Cardinality(remaining) \in Nat /\ Cardinality(taken) \in Nat
      /\ Cardinality(remaining \ taken) \in Nat /\ Cardinality(whole) \in Nat
  BY <1>2, FS_CardinalityType
<1>4. Cardinality(remaining) = Cardinality(taken) + Cardinality(remaining \ taken)
  <2> DEFINE rest == remaining \ taken
  <2>1. taken \cup rest = remaining /\ taken \cap rest = {}
    OBVIOUS
  <2>2. Cardinality(taken \cap rest) = 0
    BY <2>1, FS_EmptySet
  <2> HIDE DEF rest
  <2>3. Cardinality(taken \cup rest) = Cardinality(taken) + Cardinality(rest) - Cardinality(taken \cap rest)
    BY <1>2, FS_Union DEF rest
  <2>4. Cardinality(remaining) = Cardinality(taken) + Cardinality(rest) - 0
    BY <2>1, <2>2, <2>3, Zenon
  <2>5. \A m, n \in Nat : m + n - 0 = m + n
    OBVIOUS
  <2>6. QED
    BY <1>3, <2>4, <2>5, Zenon DEF rest
<1> DEFINE files == SetToSeq(taken)
<1>5. files \in Seq(taken) /\ Len(files) = Cardinality(taken) /\ ToSet(files) = taken
  BY <1>2, WrittenOnce
<1> HIDE DEF files
<1>6. files \in Seq(whole)
  <2>1. taken \subseteq whole
    BY DEF Split
  <2>2. QED
    BY <1>5, <2>1, SeqMonotonic
<1>7. files = <<>> <=> taken = {}
  <2>1. files = <<>> <=> Len(files) = 0
    BY <1>6, EmptySeq
  <2>2. QED
    BY <1>2, <1>5, <2>1, FS_EmptySet
<1>8. taken = {} => remaining \ taken = {}
  <2>1. ASSUME taken = {} PROVE remaining = {}
    <3>1. Cardinality(taken) = 0
      BY <2>1, FS_EmptySet
    <3>2. maxCount \in Nat \ {0}
      OBVIOUS
    <3>3. Cardinality(remaining) = 0
      BY <1>1, <1>3, <3>1, <3>2
    <3>4. QED
      BY <1>2, <3>3, FS_EmptySet
  <2>2. QED
    BY <2>1
<1>9. /\ before \o files \in Seq(whole) /\ ToSet(before \o files) = ToSet(before) \cup taken
      /\ Len(before \o files) = Len(before) + Cardinality(taken)
  <2>1. before \o files \in Seq(whole) /\ ToSet(before \o files) = ToSet(before) \cup ToSet(files)
    BY <1>6, ElementsOfBoth
  <2>2. Len(before \o files) = Len(before) + Len(files)
    BY <1>6, ConcatProperties
  <2>3. QED
    BY <1>5, <2>1, <2>2, Zenon
<1>10. /\ remaining \ taken \subseteq whole
       /\ ToSet(before \o files) \cup (remaining \ taken) = whole
       /\ Len(before \o files) + Cardinality(remaining \ taken) = Cardinality(whole)
  <2>1. Len(before) \in Nat /\ Len(before) + Cardinality(remaining) = Cardinality(whole)
    BY LenProperties DEF Split
  <2>2. Len(before \o files) + Cardinality(remaining \ taken) = Cardinality(whole)
    BY <1>3, <1>4, <1>9, <2>1
  <2>3. ToSet(before) \cup remaining = whole
    BY DEF Split
  <2>4. QED
    BY <1>9, <2>2, <2>3
<1>11. page'.sent /\ page'.id = id /\ page'.files = files
  BY <1>1 DEF files
<1>12. Split(before \o files, left', whole)
  BY <1>1, <1>9, <1>10, Zenon DEF Split
<1>13. QED
  BY <1>1, <1>6, <1>7, <1>8, <1>11, <1>12
\* A request is answered with a handler and its first page, or refused.
LEMMA ListFilesInv ==
  ASSUME LInv, NEW v \in VirtualPaths, ListFiles(v)
  PROVE  (call' = "none" => NoCall') /\ (stage' = "open" => OpenListing')
<1>1. stage = "none" /\ call = "none" /\ NoCall
  BY DEF ListFiles, LInv
<1>2. CASE NoHandler("none") /\ UNCHANGED requesterVars
  BY <1>1, <1>2 DEF NoHandler, requesterVars, NoCall
<1>3. CASE call' = "waiting" /\ NoHandler("undefined")
  BY <1>3 DEF NoHandler
<1>4. ASSUME NEW p, call' = "waiting", UNCHANGED <<current, missing, list, finished>>,
             stage' = "open", folder' = EntriesOf(p), NextPage(EntriesOf(p), 0)
      PROVE  OpenListing'
  <2> DEFINE entries == EntriesOf(p)
  <2>1. IsFiniteSet(entries)
    BY EntriesFinite DEF LInv
  <2>2. folder' = entries /\ NextPage(entries, 0) /\ maxCount \in MaxCounts
    BY <1>4 DEF LInv
  <2> HIDE DEF entries
  <2>3. <<>> \in Seq(entries) /\ ToSet(<<>>) = {} /\ Len(<<>>) = 0
    BY DEF ToSet
  <2>4. Split(<<>>, entries, entries)
    <3>1. Cardinality(entries) \in Nat
      BY <2>1, FS_CardinalityType
    <3>2. QED
      BY <2>3, <3>1 DEF Split
  <2>5. /\ page'.sent /\ page'.id = 0 /\ next' = 0 + 1
        /\ page'.files \in Seq(entries) /\ (page'.files = <<>> <=> extra')
        /\ (extra' => left' = {}) /\ Split(<<>> \o page'.files, left', entries)
    BY <2>1, <2>2, <2>3, <2>4, PageSplit
  <2>6. list' = <<>> /\ current' = 0 /\ missing' = {} /\ finished' = FALSE
    BY <1>1, <1>4 DEF NoCall
  <2>7. QED
    BY <1>4, <2>1, <2>2, <2>3, <2>5, <2>6 DEF OpenListing
<1>5. QED
  BY <1>1, <1>2, <1>3, <1>4 DEF ListFiles

\* The page under way is the one expected: it is put behind the list.
LEMMA ReceiveInv == ASSUME LInv, Receive PROVE OpenListing' /\ call' = "waiting"
<1>1. /\ stage = "open" /\ OpenListing /\ page.sent /\ page' = NoPage
      /\ UNCHANGED <<folder, left, next, extra, call>>
  BY DEF Receive, LInv
<1>2. current \in Nat /\ page.id = current /\ ~(page.id < current) /\ missing = {}
  BY <1>1 DEF OpenListing
<1>3. current .. page.id - 1 = {}
  BY <1>2
<1>4. /\ missing' = {} /\ current' = current + 1
      /\ list' = list \o page.files /\ finished' = (finished \/ page.files = <<>>)
  BY <1>2, <1>3 DEF Receive
<1>5. /\ call = "waiting" /\ ~finished /\ next = current + 1 /\ (page.files = <<>> <=> extra)
      /\ (extra => left = {}) /\ Split(list \o page.files, left, folder)
  BY <1>1 DEF OpenListing
<1>6. ~page'.sent
  BY <1>1 DEF NoPage
<1>7. IsFiniteSet(folder)
  BY <1>1 DEF OpenListing
<1>8. CASE extra
  <2>1. finished' = TRUE /\ left = {} /\ extra'
    BY <1>1, <1>4, <1>5, <1>8
  <2>2. QED
    BY <1>1, <1>2, <1>4, <1>5, <1>6, <1>7, <2>1 DEF OpenListing
<1>9. CASE ~extra
  <2>1. ~finished' /\ ~extra'
    BY <1>1, <1>4, <1>5, <1>9
  <2>2. next' = current' /\ call' = "waiting" /\ Split(list', left', folder')
    BY <1>1, <1>4, <1>5
  <2>3. current' \in Nat /\ missing' = {} /\ IsFiniteSet(folder')
    BY <1>1, <1>2, <1>4, <1>7
  <2>4. QED
    BY <1>6, <2>1, <2>2, <2>3 DEF OpenListing
<1>10. QED
  BY <1>1, <1>5, <1>8, <1>9

\* The answer to a page has the next one sent, or the handler is done with.
LEMMA ContinueInv ==
  ASSUME LInv, Continue
  PROVE  UNCHANGED requesterVars /\ (stage' = "open" => OpenListing')
<1>1. stage = "open" /\ ~page.sent /\ UNCHANGED requesterVars /\ OpenListing
  BY DEF Continue, LInv
<1>2. CASE NoHandler("none") \/ NoHandler("undefined")
  BY <1>1, <1>2 DEF NoHandler
<1>3. ASSUME ~extra, NextPage(left, next), UNCHANGED <<stage, folder>> PROVE OpenListing'
  <2>1. /\ call = "waiting" /\ ~finished /\ next = current /\ current \in Nat
        /\ Split(list, left, folder) /\ IsFiniteSet(folder) /\ missing = {}
    BY <1>1, <1>3 DEF OpenListing
  <2>2. list \in Seq(folder) /\ maxCount \in MaxCounts
    BY <2>1 DEF Split, LInv
  <2>3. /\ page'.sent /\ page'.id = next /\ next' = next + 1
        /\ page'.files \in Seq(folder) /\ (page'.files = <<>> <=> extra')
        /\ (extra' => left' = {}) /\ Split(list \o page'.files, left', folder)
    BY <1>3, <2>1, <2>2, PageSplit
  <2>4. UNCHANGED <<folder, call, current, missing, list, finished>>
    BY <1>1, <1>3 DEF requesterVars
  <2>5. QED
    BY <2>1, <2>2, <2>3, <2>4 DEF OpenListing
<1>4. QED
  BY <1>1, <1>2, <1>3 DEF Continue

\* A listing that is returned has been received to its end.
LEMMA ReturnInv ==
  ASSUME LInv, Return
  PROVE  NoCall' /\ UNCHANGED handlerVars /\ (stage' = "open" => OpenListing')
<1>1. finished /\ NoCall' /\ UNCHANGED handlerVars
  BY DEF Return, Complete, EndCall, NoCall
<1>2. ASSUME stage = "open" PROVE OpenListing'
  <2>1. OpenListing
    BY <1>2 DEF LInv
  <2>2. ~page.sent /\ extra
    BY <1>1, <2>1 DEF OpenListing
  <2>3. UNCHANGED <<folder, page, extra, left, next>>
    BY <1>1 DEF handlerVars
  <2>4. call' = "none" /\ current' = 0 /\ missing' = {}
    BY <1>1 DEF NoCall
  <2>5. IsFiniteSet(folder)
    BY <2>1 DEF OpenListing
  <2>6. QED
    BY <2>2, <2>3, <2>4, <2>5 DEF OpenListing
<1>3. QED
  BY <1>1, <1>2 DEF handlerVars

LEMMA LInvKept ==
  ASSUME LInv, UNCHANGED <<handlerVars, requesterVars>>
  PROVE  (call' = "none" => NoCall') /\ (stage' = "open" => OpenListing')
<1>1. UNCHANGED <<call, current, missing, list, finished, stage, folder, left, next, extra, page>>
  BY DEF handlerVars, requesterVars
<1>2. ASSUME stage = "open" PROVE OpenListing'
  <2>1. OpenListing
    BY <1>2 DEF LInv
  <2>2. QED
    BY <1>1, <2>1 DEF OpenListing
<1>3. QED
  BY <1>1, <1>2 DEF LInv, NoCall

LEMMA LInvStep == LInv /\ [Next]_vars => LInv'
<1> SUFFICES ASSUME LInv, [Next]_vars PROVE LInv'
  OBVIOUS
<1>1. [MappingNext]_tree /\ maxCount' = maxCount
  BY DEF Next, vars, Change, Receive, Continue, Return, ListFiles
<1>2. MInv' /\ IsFiniteSet(DOMAIN tree)' /\ maxCount' \in MaxCounts
  BY <1>1, StepInv, StaysFinite DEF LInv
<1>3. CASE UNCHANGED vars \/ Change
  <2>1. UNCHANGED <<handlerVars, requesterVars>>
    BY <1>3 DEF vars, Change
  <2>2. QED
    BY <1>2, <2>1, LInvKept DEF LInv
<1>4. CASE Receive
  BY <1>2, <1>4, ReceiveInv DEF LInv
<1>5. CASE Continue
  <2>1. UNCHANGED requesterVars /\ (stage' = "open" => OpenListing')
    BY <1>5, ContinueInv
  <2>2. call' = "none" => NoCall'
    BY <2>1 DEF LInv, NoCall, requesterVars
  <2>3. QED
    BY <1>2, <2>1, <2>2 DEF LInv
<1>6. CASE Return
  BY <1>2, <1>6, ReturnInv DEF LInv
<1>7. ASSUME NEW v \in VirtualPaths, ListFiles(v) PROVE LInv'
  BY <1>2, <1>7, ListFilesInv DEF LInv
<1>8. QED
  BY <1>3, <1>4, <1>5, <1>6, <1>7 DEF Next

LEMMA LInvWhole == LInv => ListingWhole
<1> SUFFICES ASSUME LInv, finished, missing = {}, stage = "open"
             PROVE  Len(list) = Cardinality(folder) /\ ToSet(list) = folder
  BY DEF ListingWhole, Complete
<1>1. OpenListing /\ call # "none"
  BY DEF LInv, NoCall
<1>2. ~page.sent /\ Split(list, {}, folder) /\ IsFiniteSet(folder)
  BY <1>1 DEF OpenListing
<1>3. Cardinality({}) = 0 /\ Len(list) \in Nat
  BY <1>2, FS_EmptySet, LenProperties DEF Split
<1>4. QED
  BY <1>2, <1>3 DEF Split

\* Whatever the size of a page, in whatever order the entries are read and whatever the
\* application takes away meanwhile, the listing of a folder that fits one page, when
\* list_files takes it for complete (m_finished with no missing id), has every entry
\* once.  Nothing is said of a folder of more pages: its second page is read through
\* an iterator into nodes that are gone (stage "undefined").
THEOREM ListingAlwaysWhole == Spec => []ListingWhole
<1>1. QED
  BY LInvInit, LInvStep, LInvWhole, PTL DEF Spec
================================================================================
