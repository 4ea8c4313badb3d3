--------------------------- MODULE DoubleAllocator ---------------------------
(***************************************************************************)
(* GTSL::DoubleAllocator (Allocator.hpp) under the vectors that use it     *)
(* (SemiVector).  It hands out its own buffer for small sizes and memory   *)
(* of an inner allocator, the heap, for large ones, and remembers in one   *)
(* flag which of the two it did last.  What the elements are is left out.  *)
(* Once memory that is not the heap's was passed to it, the program has no *)
(* meaning any more, and the model stops.                                  *)
(***************************************************************************)
EXTENDS Naturals, FiniteSets

CONSTANTS
  Vectors,      \* the vectors
  Bytes,        \* the size of the buffer, in elements
  Requests,     \* the sizes that vectors are constructed with
  Blocks,       \* the blocks that the heap can hand out
  MaxRoom       \* bound: a vector of at least this room does not grow

ASSUME DoubleAllocatorAssumption ==
  /\ Bytes \in Nat \ {0} /\ Requests \subseteq Nat \ {0} /\ MaxRoom \in Nat
  /\ Blocks \cap Vectors = {}

VARIABLES
  flag,         \* allocator: the last allocation was the buffer
  data,         \* the vector's memory: a heap block, a vector (its buffer), or Null
  room,         \* the vector's capacity
  alive,        \* the vectors that exist
  heap,         \* the heap blocks in use
  wild          \* history: memory passed to the heap that is not in use there

allocatorVars == <<flag, data, room, alive, heap, wild>>

Null == "nullptr"

AllocatorInit ==
  /\ flag = [v \in Vectors |-> TRUE]
  /\ data = [v \in Vectors |-> Null]
  /\ room = [v \in Vectors |-> 0]
  /\ alive = {}
  /\ heap = {}
  /\ wild = {}

-----------------------------------------------------------------------------
\* Allocate(size) for vector v while the blocks `busy' are in use; what is in
\* `freed' is deallocated before or after it.
Allocate(v, size, busy, freed) ==
  IF size <= Bytes
  THEN /\ data' = [data EXCEPT ![v] = v]
       /\ room' = [room EXCEPT ![v] = Bytes]
       /\ flag' = [flag EXCEPT ![v] = TRUE]
       /\ heap' = heap \ freed
  ELSE \E b \in Blocks \ busy :
         /\ data' = [data EXCEPT ![v] = b]
         /\ room' = [room EXCEPT ![v] = size]
         /\ flag' = [flag EXCEPT ![v] = FALSE]
         /\ heap' = (heap \ freed) \cup {b}

\* What Deallocate passes on to the heap, with the flag as it is by then.
Passed(v, flagNow) == IF flagNow \/ data[v] = Null THEN {} ELSE {data[v]}

\* Vector(minElements) and Vector(const Vector&).
ConstructVector(v) ==
  /\ v \notin alive
  /\ alive' = alive \cup {v}
  /\ \E n \in Requests : Allocate(v, n, heap, {})
  /\ UNCHANGED wild

\* GTSL::Resize allocates, which sets the flag, before it deallocates: a vector
\* that grows out of a buffer passes the buffer to the heap.
Grow(v) ==
  /\ v \in alive /\ data[v] # Null
  /\ room[v] < MaxRoom
  /\ LET freed == Passed(v, 2 * room[v] <= Bytes)
     IN  /\ Allocate(v, 2 * room[v], heap, freed)
         /\ wild' = wild \cup (freed \ heap)
  /\ UNCHANGED alive

\* Mutant: destroys without deallocating.
DestroyLeaking(v) ==
  /\ v \in alive
  /\ alive' = alive \ {v}
  /\ data' = [data EXCEPT ![v] = Null]
  /\ UNCHANGED <<flag, room, heap, wild>>

\* TryFree and the destructor.
Destroy(v) ==
  /\ v \in alive
  /\ alive' = alive \ {v}
  /\ heap' = heap \ Passed(v, flag[v])
  /\ wild' = wild \cup (Passed(v, flag[v]) \ heap)
  /\ data' = [data EXCEPT ![v] = Null]
  /\ UNCHANGED <<flag, room>>

\* Vector(Vector&&): DoubleAllocator has no move constructor, so the flag is
\* copied and the buffer is not; the pointer is taken over, also one to the
\* buffer of the source.
MoveTo(v, w) ==
  /\ v \notin alive /\ w \in alive /\ data[w] # Null
  /\ alive' = alive \cup {v}
  /\ flag' = [flag EXCEPT ![v] = flag[w]]
  /\ room' = [room EXCEPT ![v] = room[w]]
  /\ data' = [data EXCEPT ![v] = data[w], ![w] = Null]
  /\ UNCHANGED <<heap, wild>>

\* Mutant: copies the pointer.
AssignShared(v, w) ==
  /\ v # w /\ v \in alive /\ w \in alive
  /\ data' = [data EXCEPT ![v] = data[w]]
  /\ flag' = [flag EXCEPT ![v] = flag[w]]
  /\ UNCHANGED <<room, alive, heap, wild>>

\* Copy assignment: frees, takes over the source's flag, which decides
\* nothing until Allocate sets it again.
AssignVector(v, w) ==
  /\ v # w /\ v \in alive /\ w \in alive
  /\ LET freed == Passed(v, flag[v])
     IN  /\ \E n \in Requests : Allocate(v, n, heap \ freed, freed)
         /\ wild' = wild \cup (freed \ heap)
  /\ UNCHANGED alive

AllocatorNext ==
  /\ wild = {}
  /\ \E v \in Vectors :
       \/ ConstructVector(v) \/ Grow(v) \/ Destroy(v)
       \/ \E w \in Vectors : MoveTo(v, w) \/ AssignVector(v, w)

AllocatorSpec == AllocatorInit /\ [][AllocatorNext]_allocatorVars

-----------------------------------------------------------------------------
(* Properties.                                                             *)

\* The shape of the variables.
AllocatorTypeOK ==
  /\ flag \in [Vectors -> BOOLEAN]
  /\ data \in [Vectors -> Blocks \cup Vectors \cup {Null}]
  /\ room \in [Vectors -> Nat]
  /\ alive \subseteq Vectors
  /\ heap \subseteq Blocks
  /\ wild \subseteq Blocks \cup Vectors

\* The flag says where the memory of a vector is, which Deallocate relies on.
FlagIsTrue ==
  \A v \in Vectors : data[v] # Null => (flag[v] <=> data[v] \notin Blocks)

\* Every heap block in use belongs to exactly one vector that exists, and no block
\* is given back twice: what the heap wrongly receives is only ever a buffer.  This
\* holds through growth, moves and assignment, in and out of buffers (Allocate and
\* Deallocate of DoubleAllocator under the methods of Vector).
OneOwnerEach ==
  /\ heap = {data[v] : v \in alive} \cap Blocks
  /\ \A v, w \in alive : data[v] = data[w] /\ data[v] \in Blocks => v = w
  /\ wild \cap Blocks = {}

\* Only memory of the heap is ever given back to it (Deallocate goes by a flag
\* that stands for the last allocation, not for the one that is given back).
OnlyHeapIsFreed == wild = {}

\* The memory of a vector is there as long as the vector is: a block in use, or
\* the buffer of a vector that exists.  Vector(Vector&&) is "to transfer from" the
\* other vector, which may then be destroyed.
MemoryIsThere == \A v \in alive : data[v] \in heap \cup alive \cup {Null}
=============================================================================
