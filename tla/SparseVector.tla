------------------------------ MODULE SparseVector -----------------------------
(***************************************************************************)
(* GTSL::SparseVector (SparseVector.hpp): objects at positions of the      *)
(* user's choice, kept in groups, of which each emplacement makes one of   *)
(* its own.                                                                *)
(***************************************************************************)
EXTENDS Naturals, Sequences

CONSTANTS
  Objects,
  Empty,        \* stands for memory where no group was written
  MaxGroups,    \* allocatedGroups
  Modulus       \* positions are the numbers below, a power of two

VARIABLES
  groups,       \* from 0..MaxGroups - 1
  groupCount,
  placed,       \* history: what was emplaced since the last Clear, and where
  living,       \* objects constructed and not destroyed
  ended         \* the destructor has run

vars == <<groups, groupCount, placed, living, ended>>

Init ==
  /\ groups = [g \in 0..MaxGroups - 1 |-> Empty] /\ groupCount = 0
  /\ placed = << >> /\ living = {} /\ ended = FALSE

\* Every object gets a group of its own: groups are neither joined nor kept in order.
EmplaceAt(pos, object) ==
  /\ ~ended /\ groupCount # MaxGroups /\ object \notin living
  /\ groups' = [groups EXCEPT ![groupCount] =
                  [First |-> pos, ElementCount |-> 1, Elements |-> <<object>>]]
  /\ groupCount' = groupCount + 1
  /\ placed' = Append(placed, <<pos, object>>)
  /\ living' = living \cup {object}
  /\ UNCHANGED ended

\* The objects that Clear and the destructor reach.
Reached == {groups[g].Elements[1] : g \in {g \in 0..groupCount - 1 : groups[g].ElementCount > 0}}

\* The memory of the groups is not given back, then or ever.
Clear ==
  /\ ~ended
  /\ living' = living \ Reached
  /\ groups' = [g \in DOMAIN groups |->
                  IF g < groupCount THEN [groups[g] EXCEPT !.ElementCount = 0] ELSE groups[g]]
  /\ groupCount' = 0 /\ placed' = << >>
  /\ UNCHANGED ended

Destroy ==
  /\ ~ended /\ ended' = TRUE
  /\ living' = living \ Reached
  /\ UNCHANGED <<groups, groupCount, placed>>

Next ==
  \/ \E pos \in 0..Modulus - 1, object \in Objects : EmplaceAt(pos, object)
  \/ Clear \/ Destroy

-----------------------------------------------------------------------------
\* The end of a group is computed in the width of positions.
Holds(group, pos) ==
  group.First <= pos /\ pos < (group.First + group.ElementCount) % Modulus

GroupsWith(pos) == {g \in 0..groupCount - 1 : Holds(groups[g], pos)}

IsSlotOccupied(pos) == GroupsWith(pos) # {}

\* operator[], where there is an element.
At(pos) ==
  LET g == CHOOSE g \in GroupsWith(pos) : \A h \in GroupsWith(pos) : g <= h
  IN  groups[g].Elements[pos - groups[g].First + 1]

\* What the iterator and ForEach meet, in their order.
Walk == [g \in 1..groupCount |-> <<groups[g - 1].First, groups[g - 1].Elements[1]>>]

\* Each position, but the highest number there is, is occupied exactly when something was
\* emplaced there since the last Clear; the look-up finds what was emplaced first; and
\* Clear and the destructor destroy each object once.
FindsTheFirst ==
  /\ \A pos \in 0..Modulus - 2 :
       LET here == {k \in DOMAIN placed : placed[k][1] = pos}
       IN  /\ IsSlotOccupied(pos) <=> here # {}
           /\ here # {} => \E k \in here : placed[k][2] = At(pos) /\ \A m \in here : k <= m
  /\ Walk = placed
  /\ living = IF ended THEN {} ELSE {placed[k][2] : k \in DOMAIN placed}
=============================================================================
