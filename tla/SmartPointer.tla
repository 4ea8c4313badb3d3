----------------------------- MODULE SmartPointer -----------------------------
(***************************************************************************)
(* GTSL::SmartPointer (SmartPointer.hpp): the sole owner of an object, with*)
(* the allocator that its memory came from.                                *)
(***************************************************************************)
EXTENDS FiniteSets, Functions

CONSTANTS
  Pointers,     \* variables that hold a SmartPointer
  Objects,      \* objects, each constructed at most once: bounds the runs
  Allocators,   \* allocators with a state of their own
  Null

VARIABLES
  alive,        \* the pointers that are constructed
  data,         \* the object of each pointer, or Null
  allocator,    \* the allocator of each pointer
  home,         \* history: the allocator each object came from, or Null
  freed,        \* history: the objects given back
  mixed         \* history: the objects that a converting assignment gave to a
                \* pointer with another allocator

vars == <<alive, data, allocator, home, freed, mixed>>

Init ==
  /\ alive = {} /\ freed = {} /\ mixed = {}
  /\ data = [p \in Pointers |-> Null]
  /\ allocator = [p \in Pointers |-> Null]
  /\ home = [o \in Objects |-> Null]

\* TryFree: destroys and deallocates what p holds.
Released(p) == IF data[p] = Null THEN {} ELSE {data[p]}

Declare(p) ==
  /\ p \notin alive
  /\ alive' = alive \cup {p}
  /\ \E a \in Allocators : allocator' = [allocator EXCEPT ![p] = a]
  /\ UNCHANGED <<data, home, freed, mixed>>

Construct(p, o, a) ==
  /\ p \notin alive /\ home[o] = Null
  /\ alive' = alive \cup {p}
  /\ data' = [data EXCEPT ![p] = o]
  /\ allocator' = [allocator EXCEPT ![p] = a]
  /\ home' = [home EXCEPT ![o] = a]
  /\ UNCHANGED <<freed, mixed>>

\* Both move constructors.
Move(p, q) ==
  /\ p \notin alive /\ q \in alive
  /\ alive' = alive \cup {p}
  /\ data' = [data EXCEPT ![p] = data[q], ![q] = Null]
  /\ allocator' = [allocator EXCEPT ![p] = allocator[q]]
  /\ UNCHANGED <<home, freed, mixed>>

\* Mutant: the source keeps its pointer.
AssignShared(p, q) ==
  /\ {p, q} \subseteq alive
  /\ freed' = freed \cup Released(p)
  /\ data' = [data EXCEPT ![p] = data[q]]
  /\ allocator' = [allocator EXCEPT ![p] = allocator[q]]
  /\ UNCHANGED <<alive, home, mixed>>

\* operator= of the same type; of itself it frees the object.
Assign(p, q) ==
  /\ {p, q} \subseteq alive
  /\ freed' = freed \cup Released(p)
  /\ data' = [data EXCEPT ![p] = IF p = q THEN Null ELSE data[q], ![q] = Null]
  /\ allocator' = [allocator EXCEPT ![p] = allocator[q]]
  /\ UNCHANGED <<alive, home, mixed>>

\* operator= of another type keeps the allocator of the target.
AssignConverted(p, q) ==
  /\ {p, q} \subseteq alive /\ p # q
  /\ freed' = freed \cup Released(p)
  /\ data' = [data EXCEPT ![p] = data[q], ![q] = Null]
  /\ mixed' = IF allocator[p] = allocator[q] THEN mixed ELSE mixed \cup Released(q)
  /\ UNCHANGED <<alive, allocator, home>>

\* TryFree and Free.
Free(p) ==
  /\ p \in alive /\ data[p] # Null
  /\ freed' = freed \cup {data[p]}
  /\ data' = [data EXCEPT ![p] = Null]
  /\ UNCHANGED <<alive, allocator, home, mixed>>

Destroy(p) ==
  /\ p \in alive
  /\ alive' = alive \ {p}
  /\ freed' = freed \cup Released(p)
  /\ data' = [data EXCEPT ![p] = Null]
  /\ UNCHANGED <<allocator, home, mixed>>

Next ==
  \E p \in Pointers :
    \/ \E o \in Objects, a \in Allocators : Construct(p, o, a)
    \/ \E q \in Pointers : Move(p, q) \/ Assign(p, q) \/ AssignConverted(p, q)
    \/ Declare(p) \/ Free(p) \/ Destroy(p)

Spec == Init /\ [][Next]_vars

-----------------------------------------------------------------------------
\* Every object has one owner from its construction until it is given back,
\* and what is given back has none; the owner has the allocator the object
\* came from, unless it was assigned from a pointer of another type with
\* another allocator (operator=, moves, TryFree).
OneOwnerItsAllocator ==
  \A o \in Objects :
    LET owners == {p \in alive : data[p] = o}
    IN  /\ Cardinality(owners) = IF home[o] # Null /\ o \notin freed THEN 1 ELSE 0
        /\ o \notin mixed => \A p \in owners : allocator[p] = home[o]
=============================================================================
