--------------------------------- MODULE Tree ---------------------------------
(***************************************************************************)
(* GTSL::Tree (Tree.hpp): nodes of one type in an array, known by their    *)
(* position in it.  A node knows its first and its last child, the number  *)
(* of its children and its right sibling.                                  *)
(***************************************************************************)
EXTENDS Naturals, SequencesExt

CONSTANT MaxNodes       \* bound on the number of nodes

VARIABLES
  nodes,        \* [down, right, count, last] of each node
  room,         \* capacity
  parent,       \* history: the parent of each node, 0 for a root
  destroyed     \* history: the nodes whose object was destroyed, in order

vars == <<nodes, room, parent, destroyed>>

Handles == DOMAIN nodes

Init == nodes = << >> /\ room = 0 /\ parent = << >> /\ destroyed = << >>

-----------------------------------------------------------------------------
(* Traversal.                                                              *)

\* Iteration over the children of a node: operator++ follows TreeRight.
ChildrenOf(h) ==
  LET step[i \in 0..Len(nodes)] ==
        IF i = 0 THEN [out |-> << >>, pos |-> nodes[h].down]
        ELSE LET s == step[i - 1]
             IN  IF s.pos = 0 THEN s
                 ELSE [out |-> Append(s.out, s.pos), pos |-> nodes[s.pos].right]
  IN  step[Len(nodes)].out

\* Recursion over these iterators, as removeFromHierarchy does it.
PostOrder[h \in Handles] ==
  FlattenSeq([i \in DOMAIN ChildrenOf(h) |-> PostOrder[ChildrenOf(h)[i]]]) \o <<h>>

PreOrder[h \in Handles] ==
  <<h>> \o FlattenSeq([i \in DOMAIN ChildrenOf(h) |-> PreOrder[ChildrenOf(h)[i]]])

\* Mutant: `next' goes to the sibling even if there is a child.
VisitSiblings ==
  LET visit[h \in Handles] ==
        LET loop[i \in 0..nodes[h].count] ==
              IF i = 0 \/ nodes[h].right = 0 THEN [out |-> <<h>>, next |-> nodes[h].right]
              ELSE LET child == visit[loop[i - 1].next]
                   IN  [out |-> loop[i - 1].out \o child.out, next |-> child.next]
        IN  [out |-> loop[nodes[h].count].out, next |-> nodes[h].right]
  IN  IF nodes = << >> THEN << >> ELSE visit[1].out

\* ForEach does not iterate: it counts the children, and the variable `next',
\* which all levels of the recursion share, says where the next one is.
ForEach ==
  LET visit[h \in Handles] ==
        LET loop[i \in 0..nodes[h].count] ==
              IF i = 0
              THEN [out |-> <<h>>,
                    next |-> IF nodes[h].down # 0 THEN nodes[h].down ELSE nodes[h].right]
              ELSE LET child == visit[loop[i - 1].next]
                   IN  [out |-> loop[i - 1].out \o child.out, next |-> child.next]
        IN  [out |-> loop[nodes[h].count].out, next |-> nodes[h].right]
  IN  IF nodes = << >> THEN << >> ELSE visit[1].out

-----------------------------------------------------------------------------
(* Operations.                                                             *)

\* tryResize(1).
RoomForOne == IF Len(nodes) + 1 <= room THEN room ELSE IF room = 0 THEN 1 ELSE 2 * room

\* A node becomes the last child of p.
Linked(p, h) ==
  IF nodes[p].count = 0
  THEN [nodes EXCEPT ![p].down = h, ![p].count = 1, ![p].last = h]
  ELSE [nodes EXCEPT ![nodes[p].last].right = h, ![p].count = @ + 1, ![p].last = h]

Emplace(p) ==
  LET new == [down |-> 0, right |-> 0, count |-> 0, last |-> 0]
  IN  /\ destroyed = << >>
      /\ Len(nodes) < MaxNodes
      /\ nodes' = Append(IF p = 0 THEN nodes ELSE Linked(p, Len(nodes) + 1), new)
      /\ room' = RoomForOne
      /\ parent' = Append(parent, p)
      /\ UNCHANGED destroyed

\* Remove destroys the objects of a node and of all below it.  It changes no
\* link and no count: the nodes are still met by later traversals, and would
\* be destroyed again by Remove of an ancestor and by ~Tree.
RemoveSubtree(h) ==
  /\ destroyed = << >>
  /\ destroyed' = PostOrder[h]
  /\ UNCHANGED <<nodes, room, parent>>

\* ~Tree, of a tree from which nothing was removed.
Destroy ==
  /\ destroyed = << >> /\ nodes # << >>
  /\ destroyed' = [h \in Handles |-> h]
  /\ UNCHANGED <<nodes, room, parent>>

Next == (\E p \in 0..Len(nodes) : Emplace(p)) \/ (\E h \in Handles : RemoveSubtree(h)) \/ Destroy

Spec == Init /\ [][Next]_vars

-----------------------------------------------------------------------------
\* The children of a node by the history, in the order of their emplacement.
Emplaced(h) ==
  LET upTo[x \in 0..Len(parent)] ==
        IF x = 0 THEN << >> ELSE IF parent[x] = h THEN Append(upTo[x - 1], x) ELSE upTo[x - 1]
  IN  upTo[Len(parent)]

\* The nodes below each node by the history.
Descent[h \in DOMAIN parent] ==
  <<h>> \o FlattenSeq([i \in DOMAIN Emplaced(h) |-> Descent[Emplaced(h)[i]]])

\* ForEach, with its counter and its shared variable, iteration, which
\* follows the links, and the history of the emplacements agree: parents
\* before children, children in order, from every node; and Remove destroys
\* each object of the subtree once.
WalksAgree ==
  /\ \A h \in Handles : /\ PreOrder[h] = Descent[h]
                        /\ Len(ChildrenOf(h)) = nodes[h].count
                        /\ IsInjective(PostOrder[h]) /\ ToSet(PostOrder[h]) = ToSet(Descent[h])
  /\ nodes # << >> => ForEach = Descent[1]
  /\ Len(nodes) <= room
=============================================================================
