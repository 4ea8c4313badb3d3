------------------------------ MODULE MultiTree ------------------------------
(***************************************************************************)
(* GTSL::MultiTree (Tree.hpp): a tree whose nodes hold objects of several  *)
(* types in one block of memory.  A node is known by its handle; its       *)
(* place in that block, with the links to its first child and its right    *)
(* sibling, is looked up in an indirection table, so that Optimize can     *)
(* merge nodes and leave their handles valid.                              *)
(***************************************************************************)
EXTENDS Naturals, SequencesExt

CONSTANTS
  NodeKeys,     \* the keys of nodes
  Types,        \* the types of objects
  Size,         \* Size[type]: the size of an object with its links
  Kinds,        \* Kinds[i]: bound, the types the i-th object may have
  MaxChanges    \* bound on the calls that change a node

ASSUME SizeAssumption == Size \in [Types -> Nat]

VARIABLES
  links,        \* multiTable: [down, right, type, way] of each place
  place,        \* indirectionTable: the place of each handle
  alpha,        \* alphaTable: [key, parent, mergeable] of each handle
  used,         \* multiTableSize
  room,         \* multiTableCapacity
  stack,        \* the handles that Optimize is visiting, from the root down
  entered,      \* Optimize has still to visit the children of the last one
  children,     \* history: the children that the node at each place should
                \* have, in order
  untidy,       \* history: a merge that mergeNodes does not get right
  overrun,      \* history: an object was written beyond the block
  changes,      \* history: how many nodes were changed, at most MaxChanges
  destroyed     \* history: the places whose object ~MultiTree destroyed

vars == <<links, place, alpha, used, room, stack, entered, children, untidy,
          overrun, changes, destroyed>>
memory == <<used, room, overrun>>
optimization == <<stack, entered, untidy>>

Handles == 1..Len(alpha)

\* No method is called during Optimize, nor after an accident or the end.
Callable == stack = << >> /\ ~untidy /\ ~overrun /\ destroyed = << >>

Init ==
  /\ links = << >> /\ place = << >> /\ alpha = << >>
  /\ used = 0 /\ room = 0
  /\ stack = << >> /\ entered = FALSE
  /\ children = << >>
  /\ untidy = FALSE /\ overrun = FALSE /\ changes = 0 /\ destroyed = << >>

-----------------------------------------------------------------------------
(* Links.                                                                  *)

\* getTraversalData, in a state of the links and of the indirection table.
Td(l, at, h) == l[at[h]]

\* The handles that a loop over TreeRight comes past, from h on; a loop that
\* would never end is cut off.
ChainFrom(l, at, h) ==
  LET go[i \in 0..Len(l)] ==
        IF i = 0 THEN [x \in 0..Len(at) |-> << >>]
        ELSE [x \in 0..Len(at) |-> IF x = 0 THEN << >> ELSE <<x>> \o go[i - 1][Td(l, at, x).right]]
  IN  go[Len(l)][h]

Chain(l, at, h) == ChainFrom(l, at, Td(l, at, h).down)

-----------------------------------------------------------------------------
(* Emplacement.                                                            *)

\* tryResizeMultiTable doubles once.
RoomFor(size) ==
  IF used + size <= room THEN room ELSE IF room = 0 THEN size ELSE 2 * room

Existing(key, type, parent) ==
  {h \in ToSet(Chain(links, place, parent)) :
     alpha[h].key = key /\ Td(links, place, h).type = type}

\* Mutant: the nodes to the right of `left' are cut off.
LinkLast(l, at, h, left) == [l EXCEPT ![at[left]].right = h]

\* The links of a first child, of a last one, and to the right of `left'.
LinkFirst(l, at, h, parent) ==
  [l EXCEPT ![at[h]].right = l[at[parent]].down, ![at[parent]].down = h]
LinkBack(l, at, h, parent) ==
  IF l[at[parent]].down = 0 THEN [l EXCEPT ![at[parent]].down = h]
  ELSE [l EXCEPT ![at[Last(Chain(l, at, parent))]].right = h]
LinkAfter(l, at, h, left) ==
  [l EXCEPT ![at[h]].right = l[at[left]].right, ![at[left]].right = h]

\* A new node, linked in beside or below x.
Construct(key, type, parent, Link(_, _, _, _), x) ==
  LET h  == Len(alpha) + 1
      at == Append(place, Len(links) + 1)
      l  == Append(links, [down |-> 0, right |-> 0, type |-> type, way |-> TRUE])
  IN  /\ h \in DOMAIN Kinds /\ type \in Kinds[h]
      /\ alpha' = Append(alpha, [key |-> key, parent |-> parent, mergeable |-> TRUE])
      /\ place' = at
      /\ links' = Link(l, at, h, x)
      /\ room' = RoomFor(Size[type])
      /\ used' = used + Size[type]
      /\ overrun' = (used + Size[type] > RoomFor(Size[type]))
      /\ UNCHANGED <<optimization, changes, destroyed>>

\* The history of the children: `order' for the parent, none for the new node.
Adopt(parent, order) ==
  children' = Append([children EXCEPT ![place[parent]] = order], << >>)

\* Emplace of the root.
EmplaceRoot(key, type) ==
  /\ Callable /\ alpha = << >>
  /\ Construct(key, type, 0, LAMBDA l, at, h, x : l, 0)
  /\ children' = <<<< >>>>

\* Emplace below a parent, at its left or right end or behind a sibling.  A
\* node that exists is returned as it is.
EmplaceFirst(key, type, parent) ==
  /\ Callable /\ Existing(key, type, parent) = {}
  /\ Construct(key, type, parent, LinkFirst, parent)
  /\ Adopt(parent, <<Len(alpha) + 1>> \o children[place[parent]])

EmplaceLast(key, type, parent) ==
  /\ Callable /\ Existing(key, type, parent) = {}
  /\ Construct(key, type, parent, LinkBack, parent)
  /\ Adopt(parent, Append(children[place[parent]], Len(alpha) + 1))

EmplaceAfter(key, type, parent, left) ==
  LET siblings == children[place[parent]]
      i == CHOOSE j \in DOMAIN siblings : siblings[j] = left
  IN  /\ Callable /\ Existing(key, type, parent) = {}
      /\ Construct(key, type, parent, LinkAfter, left)
      /\ Adopt(parent, InsertAt(siblings, i + 1, Len(alpha) + 1))

Emplace(key, type) ==
  \/ EmplaceRoot(key, type)
  \/ \E p \in Handles : \/ EmplaceFirst(key, type, p)
                        \/ EmplaceLast(key, type, p)
                        \/ \E left \in ToSet(children[place[p]]) : EmplaceAfter(key, type, p, left)

Change ==
  /\ Callable /\ changes < MaxChanges
  /\ changes' = changes + 1
  /\ UNCHANGED <<place, memory, optimization, children, destroyed>>

UpdateNodeKey(h, key) ==
  /\ Change
  /\ alpha' = [alpha EXCEPT ![h].key = key]
  /\ UNCHANGED links

SetIsMergeable(h, flag) ==
  /\ Change
  /\ alpha' = [alpha EXCEPT ![h].mergeable = flag]
  /\ UNCHANGED links

ToggleBranch(h, flag) ==
  /\ Change
  /\ links' = [links EXCEPT ![place[h]].way = flag]
  /\ UNCHANGED alpha

-----------------------------------------------------------------------------
(* Optimize.                                                               *)

\* The sibling of h with the same key and type that is leftmost.
FirstSame(h) ==
  LET c == Chain(links, place, alpha[h].parent)
      Same(x) == /\ alpha[x].key = alpha[h].key
                 /\ Td(links, place, x).type = Td(links, place, h).type
  IN  c[CHOOSE i \in DOMAIN c : Same(c[i]) /\ \A j \in 1..i - 1 : ~Same(c[j])]

\* Whether x is merged into h's group.
Merges(x, h) ==
  /\ alpha[x].key = alpha[h].key
  /\ Td(links, place, x).type = Td(links, place, h).type
  /\ alpha[x].mergeable

\* Mutant: the children of merged nodes are not linked together.
MergeOneUnlinked(s, x, first) ==
  LET pos == s.at[x]
      at  == [s.at EXCEPT ![x] = s.at[first]]
      l   == IF x = first THEN s.l ELSE [s.l EXCEPT ![at[s.m]].right = s.l[at[first]].right]
  IN  [s EXCEPT !.l = l, !.at = at, !.m = IF l[pos].right = 0 THEN @ ELSE x,
                !.leftmost = IF @ = 0 THEN l[pos].down ELSE @]

\* The loop's body for a node that is merged.  removeNode looks the node up
\* when its place has already been changed to that of the first, so that the
\* left neighbour is linked to what is to the right of the first.
MergeOne(s, x, first) ==
  LET pos  == s.at[x]
      l1   == IF s.lowest = 0 THEN s.l
              ELSE [s.l EXCEPT ![s.at[s.lowest]].right = s.l[pos].down]
      kids == ChainFrom(l1, s.at, l1[pos].down)
      at   == [s.at EXCEPT ![x] = s.at[first]]
      l2   == IF x = first THEN l1
              ELSE [l1 EXCEPT ![at[s.m]].right = l1[at[first]].right]
      end  == l2[pos].right = 0
  IN  [s EXCEPT !.l = l2, !.at = at, !.m = IF end THEN @ ELSE x,
                !.leftmost = IF @ = 0 THEN l1[pos].down ELSE @,
                !.lowest = IF kids = << >> THEN 0 ELSE Last(kids)]

\* The loop's body for a node that is not.
PassOne(s, x) ==
  [s EXCEPT !.next = IF @ = 0 THEN x ELSE @,
            !.m = IF s.l[s.at[x]].right = 0 THEN 0 ELSE x]

\* mergeNodes, for a node below a parent: the loop, then the links of the
\* first node, and of the left neighbour of the last one.
Merged(h) ==
  LET first == FirstSame(h)
      start == [l |-> links, at |-> place, lowest |-> 0, next |-> 0, leftmost |-> 0, m |-> 0]
      c == ChainFrom(links, place, first)
      loop[i \in 0..Len(c)] == IF i = 0 THEN start
                               ELSE IF Merges(c[i], h) THEN MergeOne(loop[i - 1], c[i], first)
                               ELSE PassOne(loop[i - 1], c[i])
      s == loop[Len(c)]
      l == [s.l EXCEPT ![s.at[first]].right = s.next, ![s.at[first]].down = s.leftmost]
  IN  [links |-> IF s.m = 0 THEN l ELSE [l EXCEPT ![s.at[s.m]].right = 0], place |-> s.at, next |-> s.next]

\* The siblings that are merged: the first one, and those that join it.
Joins(x, h) == x = FirstSame(h) \/ Merges(x, h)
Group(h) == {x \in ToSet(ChainFrom(links, place, FirstSame(h))) : Joins(x, h)}

\* s without the elements of S.
Without(s, S) ==
  LET kept[i \in 0..Len(s)] == IF i = 0 THEN << >>
                               ELSE IF s[i] \in S THEN kept[i - 1] ELSE Append(kept[i - 1], s[i])
  IN  kept[Len(s)]

\* The children there should be after a merge: those of the group, in order,
\* under its first node, which stays alone of its group.
ChildrenMerged(h) ==
  LET first == FirstSame(h)
      c == ChainFrom(links, place, first)
      lists == [i \in DOMAIN c |-> IF Joins(c[i], h) THEN children[place[c[i]]] ELSE << >>]
  IN  [children EXCEPT ![place[alpha[h].parent]] = Without(@, Group(h) \ {first}),
                       ![place[first]] = FlattenSeq(lists)]

\* mergeNodes goes wrong when the first node is not mergeable; when another
\* node than the last one is to be merged behind one that is not; when a node
\* without children stands between merged nodes with children; and when others
\* were merged into a merged node before, whose handles are left behind.
Untidy(h) ==
  LET first == FirstSame(h)
      c     == ChainFrom(links, place, first)
      Childless(x) == Td(links, place, x).down = 0
  IN  \/ ~alpha[first].mergeable
      \/ \E i \in 2..Len(c) - 1 : Merges(c[i], h) /\ ~Merges(c[i - 1], h)
      \/ \E i, j, k \in DOMAIN c :
           /\ i < j /\ j < k /\ Joins(c[i], h) /\ Joins(c[j], h) /\ Joins(c[k], h)
           /\ ~Childless(c[i]) /\ Childless(c[j]) /\ ~Childless(c[k])
      \/ \E x \in Group(h) \ {first} : \E y \in Handles \ {x} : place[y] = place[x]

\* visitNode merges a node before it goes on to its children.
Visit(h) ==
  /\ links' = Merged(h).links
  /\ place' = Merged(h).place
  /\ children' = ChildrenMerged(h)
  /\ untidy' = Untidy(h)
  /\ entered' = TRUE
  /\ UNCHANGED <<alpha, memory, changes, destroyed>>

OptimizeStart ==
  /\ Callable /\ alpha # << >>
  /\ stack' = <<1>> /\ entered' = TRUE
  /\ UNCHANGED <<links, place, alpha, memory, children, untidy, changes, destroyed>>

Goto(newStack, isEntered) ==
  /\ stack' = newStack /\ entered' = isEntered
  /\ UNCHANGED <<links, place, alpha, memory, children, untidy, changes, destroyed>>

\* Mutant: returns to the parent after the first child.
ProceedOnce ==
  /\ stack # << >> /\ ~untidy /\ ~entered
  /\ Goto(Front(stack), FALSE)

\* On to the first child.
Descend ==
  /\ stack # << >> /\ ~untidy /\ entered
  /\ LET d == Td(links, place, Last(stack)).down
     IN  IF d = 0 THEN Goto(stack, FALSE)
         ELSE stack' = Append(stack, d) /\ Visit(d)

\* On to the right sibling, or back to the parent.
Proceed ==
  /\ stack # << >> /\ ~untidy /\ ~entered
  /\ LET r == Td(links, place, Last(stack)).right
     IN  IF r = 0 THEN Goto(Front(stack), FALSE)
         ELSE stack' = Append(Front(stack), r) /\ Visit(r)

-----------------------------------------------------------------------------
(* Traversal and destruction.                                              *)

\* ForEach: the handles in the order in which it comes to them; it does not
\* enter branches that are switched off.
Visited ==
  LET visit[depth \in 0..Len(place)] ==
        IF depth = 0 THEN [h \in Handles |-> << >>]
        ELSE [h \in Handles |->
                IF Td(links, place, h).way
                THEN LET c == Chain(links, place, h)
                     IN  <<h>> \o FlattenSeq([i \in DOMAIN c |-> visit[depth - 1][c[i]]])
                ELSE << >>]
  IN  visit[Len(place)][1]

\* ~MultiTree destroys the objects that ForEach comes to.
Destroy ==
  /\ Callable /\ alpha # << >>
  /\ destroyed' = [i \in DOMAIN Visited |-> place[Visited[i]]]
  /\ UNCHANGED <<links, place, alpha, memory, children, optimization, changes>>

Next ==
  \/ \E k \in NodeKeys : \/ \E t \in Types : Emplace(k, t)
                         \/ \E h \in Handles : UpdateNodeKey(h, k)
  \/ \E h \in Handles, b \in BOOLEAN : SetIsMergeable(h, b) \/ ToggleBranch(h, b)
  \/ OptimizeStart \/ Descend \/ Proceed
  \/ Destroy

Spec == Init /\ [][Next]_vars

-----------------------------------------------------------------------------
(* Properties.                                                             *)

\* The links of every node, also when it is looked up under the handle of a
\* node that was merged into it, give exactly the children it should have, in
\* the order of the emplacements, with those of merged nodes joined (Emplace,
\* mergeNodes, as long as no merge is untidy).
ChildrenInOrder ==
  ~untidy => \A h \in Handles : Chain(links, place, h) = children[place[h]]

\* The one doubling of tryResizeMultiTable makes enough room, unless an object
\* is larger than all before it together.
MemorySuffices == overrun => 2 * Size[Last(links).type] > used

\* When Optimize is done, no two siblings are left that could be merged.
OptimizeMergesAll ==
  [][stack # << >> /\ stack' = << >> =>
       \A h \in Handles : LET c == Chain(links, place, h) IN
         \A i, j \in DOMAIN c : i # j => ~(Merges(c[i], c[j]) /\ alpha[c[j]].mergeable)]_vars

\* Every object that can still be reached is destroyed once, unless a branch
\* is switched off when the tree is destroyed: such a branch is left alone.
EachDestroyedOnce ==
  destroyed # << >> =>
    /\ IsInjective(destroyed)
    /\ (\A i \in DOMAIN links : links[i].way) => ToSet(destroyed) = ToSet(place)

\* Every object has room for itself, from the doubling of the block to its destruction.
EachLivesOnce == MemorySuffices /\ EachDestroyedOnce

\* "we transfer all children from nodes with equal keys to the leftmost node":
\* a merge loses none of the children of the nodes that it merges, nor of the
\* leftmost one.
AllChildrenTransferred ==
  [][\A h \in Handles : stack # << >> /\ stack' # stack /\ entered' /\ Last(stack') = h =>
       \A x \in Group(h) :
         ToSet(children[place[x]]) \subseteq ToSet(Chain(links', place', FirstSame(h)))]_vars
=============================================================================
