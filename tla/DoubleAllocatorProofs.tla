------------------------ MODULE DoubleAllocatorProofs ------------------------
(***************************************************************************)
(* Proofs about DoubleAllocator, for any vectors, sizes and blocks: memory *)
(* of the heap neither leaks nor is shared or freed twice, also when       *)
(* vectors grow out of their buffers or are moved while they are in them.  *)
(***************************************************************************)
EXTENDS DoubleAllocator, TLAPS

\* nullptr is neither a block nor a buffer.
NullIsNoMemory == Null \notin Blocks \cup Vectors

\* The invariant is inductive once it says that destroyed vectors have no
\* memory, and that vectors on the heap are larger than a buffer: growing sets
\* the flag before it looks at it.
IInv ==
  /\ AllocatorTypeOK
  /\ FlagIsTrue
  /\ wild \cap Blocks = {}
  /\ \A v \in Vectors : data[v] \in Blocks =>
       v \in alive /\ data[v] \in heap /\ room[v] > Bytes
  /\ \A b \in heap : \E v \in alive : data[v] = b
  /\ \A v, w \in Vectors : data[v] = data[w] /\ data[v] \in Blocks => v = w

LEMMA InitIInv == ASSUME NullIsNoMemory PROVE AllocatorInit => IInv
BY DoubleAllocatorAssumption
  DEF NullIsNoMemory, AllocatorInit, IInv, AllocatorTypeOK, FlagIsTrue, Null

\* What an allocation for v does, when the old memory of v is given up.
LEMMA AllocateKeeps ==
  ASSUME IInv, NullIsNoMemory, NEW v \in Vectors, NEW size \in Nat, NEW busy, NEW freed,
         heap \ freed \subseteq busy,
         freed \cap Blocks = IF data[v] \in Blocks THEN {data[v]} ELSE {},
         Allocate(v, size, busy, freed),
         alive' = alive \cup {v},
         wild' \subseteq Vectors
  PROVE  IInv'
<1> USE DoubleAllocatorAssumption DEF NullIsNoMemory, IInv, AllocatorTypeOK, FlagIsTrue
<1>1. CASE size <= Bytes
  <2>1. /\ data' = [data EXCEPT ![v] = v]
        /\ room' = [room EXCEPT ![v] = Bytes]
        /\ flag' = [flag EXCEPT ![v] = TRUE]
        /\ heap' = heap \ freed
    BY <1>1 DEF Allocate
  <2> QED BY <2>1
<1>2. CASE ~(size <= Bytes)
  <2>1. PICK b \in Blocks \ busy :
        /\ data' = [data EXCEPT ![v] = b]
        /\ room' = [room EXCEPT ![v] = size]
        /\ flag' = [flag EXCEPT ![v] = FALSE]
        /\ heap' = (heap \ freed) \cup {b}
    BY <1>2 DEF Allocate
  <2>2. b \notin heap \ freed
    BY <2>1
  <2>3. \A w \in Vectors : data[w] # b \/ w = v
    BY <2>1, <2>2
  <2>4. AllocatorTypeOK'
    BY <2>1 DEF AllocatorTypeOK
  <2>5. FlagIsTrue'
    BY <2>1 DEF FlagIsTrue
  <2>6. (wild \cap Blocks = {})'
    OBVIOUS
  <2>7. (\A w \in Vectors : data[w] \in Blocks =>
           w \in alive /\ data[w] \in heap /\ room[w] > Bytes)'
    <3> TAKE w \in Vectors
    <3> HAVE data'[w] \in Blocks
    <3>1. CASE w = v
      BY <1>2, <2>1, <3>1
    <3>2. CASE w # v
      <4>1. data'[w] = data[w] /\ room'[w] = room[w]
        BY <2>1, <3>2
      <4>2. data[w] \notin freed
        BY <3>2, <4>1
      <4> QED BY <2>1, <4>1, <4>2
    <3> QED BY <3>1, <3>2
  <2>8. (\A c \in heap : \E w \in alive : data[w] = c)'
    <3> TAKE c \in heap'
    <3>1. CASE c = b
      BY <2>1, <3>1
    <3>2. CASE c # b
      <4>1. c \in heap \ freed
        BY <2>1, <3>2
      <4>2. PICK w \in alive : data[w] = c
        BY <4>1
      <4>3. w # v
        BY <4>1, <4>2
      <4> QED BY <2>1, <4>2, <4>3
    <3> QED BY <3>1, <3>2
  <2>9. (\A w, x \in Vectors : data[w] = data[x] /\ data[w] \in Blocks => w = x)'
    <3> TAKE w, x \in Vectors
    <3> HAVE data'[w] = data'[x] /\ data'[w] \in Blocks
    <3>1. CASE w = v
      BY <2>1, <2>2, <2>3, <3>1
    <3>2. CASE w # v /\ x = v
      BY <2>1, <2>2, <2>3, <3>2
    <3>3. CASE w # v /\ x # v
      BY <2>1, <3>3
    <3> QED BY <3>1, <3>2, <3>3
  <2> QED BY <2>4, <2>5, <2>6, <2>7, <2>8, <2>9
<1> QED BY <1>1, <1>2

LEMMA NextIInv ==
  ASSUME NullIsNoMemory
  PROVE  IInv /\ [AllocatorNext]_allocatorVars => IInv'
<1> SUFFICES ASSUME IInv, [AllocatorNext]_allocatorVars PROVE IInv'
  OBVIOUS
<1> USE DoubleAllocatorAssumption DEF NullIsNoMemory, Passed
<1>1. ASSUME NEW v \in Vectors, ConstructVector(v) PROVE IInv'
  <2>1. PICK n \in Requests : Allocate(v, n, heap, {})
    BY <1>1 DEF ConstructVector
  <2>2. data[v] \notin Blocks
    BY <1>1 DEF ConstructVector, IInv
  <2>3. alive' = alive \cup {v} /\ wild' \subseteq Vectors
    BY <1>1 DEF ConstructVector, IInv, AllocatorTypeOK
  <2>4. n \in Nat
    OBVIOUS
  <2> QED BY <2>1, <2>2, <2>3, <2>4, AllocateKeeps
<1>2. ASSUME NEW v \in Vectors, Grow(v) PROVE IInv'
  <2> DEFINE freed == Passed(v, 2 * room[v] <= Bytes)
  <2>1. /\ data[v] \in Blocks \cup Vectors /\ data[v] # Null
        /\ Allocate(v, 2 * room[v], heap, freed)
        /\ wild' = wild \cup (freed \ heap)
        /\ alive' = alive \cup {v}
    BY <1>2 DEF Grow, IInv, AllocatorTypeOK
  <2>2. 2 * room[v] \in Nat
    BY DEF IInv, AllocatorTypeOK
  <2>3. freed \cap Blocks = IF data[v] \in Blocks THEN {data[v]} ELSE {}
    <3>1. CASE data[v] \in Blocks
      <4>1. ~(2 * room[v] <= Bytes)
        BY <3>1 DEF IInv, AllocatorTypeOK
      <4> QED BY <2>1, <3>1, <4>1
    <3>2. CASE data[v] \notin Blocks
      BY <3>2
    <3> QED BY <3>1, <3>2
  <2>4. wild' \subseteq Vectors
    <3>1. freed \subseteq Blocks \cup Vectors
      BY <2>1
    <3>2. freed \cap Blocks \subseteq heap
      BY <2>3 DEF IInv
    <3>3. wild \subseteq Vectors
      BY DEF IInv, AllocatorTypeOK
    <3> HIDE DEF freed
    <3> QED BY <2>1, <3>1, <3>2, <3>3
  <2> HIDE DEF freed
  <2> QED BY <2>1, <2>2, <2>3, <2>4, AllocateKeeps
<1>3. ASSUME NEW v \in Vectors, Destroy(v) PROVE IInv'
  BY <1>3 DEF Destroy, IInv, AllocatorTypeOK, FlagIsTrue
<1>4. ASSUME NEW v \in Vectors, NEW w \in Vectors, MoveTo(v, w) PROVE IInv'
  BY <1>4 DEF MoveTo, IInv, AllocatorTypeOK, FlagIsTrue
<1>5. ASSUME NEW v \in Vectors, NEW w \in Vectors, AssignVector(v, w) PROVE IInv'
  <2> DEFINE freed == Passed(v, flag[v])
  <2>1. PICK n \in Requests : Allocate(v, n, heap \ freed, freed)
    BY <1>5 DEF AssignVector
  <2>2. /\ alive' = alive \cup {v}
        /\ wild' = wild \cup (freed \ heap)
    BY <1>5 DEF AssignVector
  <2>3. freed = IF data[v] \in Blocks THEN {data[v]} ELSE {}
    BY DEF IInv, AllocatorTypeOK, FlagIsTrue
  <2>4. wild' \subseteq Vectors
    BY <2>2, <2>3 DEF IInv, AllocatorTypeOK
  <2>5. n \in Nat
    OBVIOUS
  <2> HIDE DEF freed
  <2> QED BY <2>1, <2>2, <2>3, <2>4, <2>5, AllocateKeeps
<1>6. CASE UNCHANGED allocatorVars
  BY <1>6 DEF allocatorVars, IInv, AllocatorTypeOK, FlagIsTrue
<1> QED BY <1>1, <1>2, <1>3, <1>4, <1>5, <1>6 DEF AllocatorNext

\* Every heap block in use belongs to exactly one vector, and none is given back twice:
\* construction, growth, moves, copy assignment and destruction, under Allocate and
\* Deallocate of DoubleAllocator, leak nothing of the heap and share nothing of it.
THEOREM NoLeakNoDoubleFree ==
  ASSUME NullIsNoMemory
  PROVE  AllocatorSpec => [](FlagIsTrue /\ OneOwnerEach)
<1>1. AllocatorInit => IInv  BY InitIInv
<1>2. IInv /\ [AllocatorNext]_allocatorVars => IInv'  BY NextIInv
<1>3. IInv => FlagIsTrue /\ OneOwnerEach
  <2> SUFFICES ASSUME IInv PROVE OneOwnerEach
    BY DEF IInv
  <2>1. heap = {data[v] : v \in alive} \cap Blocks
    BY DEF IInv, AllocatorTypeOK
  <2>2. \A v, w \in alive : data[v] = data[w] /\ data[v] \in Blocks => v = w
    BY DEF IInv, AllocatorTypeOK
  <2> QED BY <2>1, <2>2 DEF OneOwnerEach, IInv
<1> QED BY <1>1, <1>2, <1>3, PTL DEF AllocatorSpec
=============================================================================
