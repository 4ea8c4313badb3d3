------------------------------- MODULE Vector --------------------------------
(***************************************************************************)
(* GTSL::Vector (Vector.hpp) with an allocator that hands out exactly what *)
(* it is asked for.  The memory of the vector is a function from its cells *)
(* to the objects that live in them; a cell where none lives is Raw.  After *)
(* an overrun the program has no meaning any more, and the model stops.     *)
(***************************************************************************)
EXTENDS Integers, Sequences

CONSTANTS
  Objects,      \* the objects
  Raw,          \* the content of a cell without an object
  Starts,       \* the sizes that the constructor is called with
  Groups,       \* the sizes of ranges and groups that are appended
  Sources,      \* the lengths of vectors that are assigned
  MaxCapacity   \* bound: a vector of at least this capacity is not grown

ASSUME VectorAssumption ==
  /\ Raw \notin Objects
  /\ Starts \subseteq Nat /\ Groups \subseteq Nat /\ Sources \subseteq Nat
  /\ MaxCapacity \in Nat

VARIABLES
  length,
  capacity,
  allocated,    \* data # nullptr
  cell,         \* the cells, numbered from 0
  overrun,      \* history: a cell beyond the allocation was read or written
  careless      \* history: the owner appended more objects at once than the
                \* capacity, or called a method that only suits objects
                \* without destructors (PopBack, Pop of a range, SetLength)

vectorVars == <<length, capacity, allocated, cell, overrun, careless>>

-----------------------------------------------------------------------------
(* Memory.                                                                 *)

\* A block of n cells that starts with the first k objects of this vector.
Block(n, k) == [i \in 0..n - 1 |-> IF i < k THEN cell[i] ELSE Raw]

\* tryReallocate doubles the capacity once, however much is needed; only the
\* first allocation looks at delta.
CapacityFor(delta) ==
  IF length + delta <= capacity THEN capacity
  ELSE IF allocated THEN 2 * capacity ELSE delta

\* The cells after tryReallocate.
Reallocated(delta) ==
  IF CapacityFor(delta) = capacity THEN cell ELSE Block(CapacityFor(delta), length)

\* More than one doubling is sure to make room for.
TooMany(delta) == allocated /\ delta > capacity

MayGrow(delta) == CapacityFor(delta) = capacity \/ capacity < MaxCapacity

\* tryReallocate, with what it leaves in the cells changed to `objects'.
Reallocate(delta, objects) ==
  /\ capacity' = CapacityFor(delta)
  /\ allocated' = (allocated \/ length + delta > capacity)
  /\ cell' = objects

-----------------------------------------------------------------------------
(* Construction and growth.                                                *)

\* Vector() and Vector(minElements).
VectorInit ==
  /\ length = 0
  /\ \/ capacity = 0 /\ allocated = FALSE
     \/ capacity \in Starts /\ allocated = TRUE
  /\ cell = [i \in 0..capacity - 1 |-> Raw]
  /\ overrun = FALSE
  /\ careless = FALSE

\* Adds objects at the end, if they fit.
AddBack(objects) ==
  LET n    == Len(objects)
      fits == length + n <= CapacityFor(n)
      old  == Reallocated(n)
  IN  /\ MayGrow(n)
      /\ Reallocate(n, [i \in DOMAIN old |->
           IF fits /\ i \in length..length + n - 1 THEN objects[i - length + 1] ELSE old[i]])
      /\ length' = IF fits THEN length + n ELSE length
      /\ overrun' = ~fits
      /\ careless' = (careless \/ TooMany(n))

EmplaceBack(v) ==
  /\ ~overrun
  /\ AddBack(<<v>>)

\* EmplaceGroup constructs all objects from the same arguments.
EmplaceGroup(n, v) ==
  /\ ~overrun
  /\ AddBack([i \in 1..n |-> v])

\* PushBack assigns to cells where no objects live yet, which objects with an
\* assignment operator of their own do not survive.
PushBack(objects) ==
  /\ ~overrun
  /\ AddBack(objects)

\* Mutant: moves nothing up.
InsertOver(index, v) ==
  LET old == Reallocated(1)
  IN  /\ ~overrun
      /\ MayGrow(1)
      /\ Reallocate(1, IF length < CapacityFor(1) THEN [old EXCEPT ![index] = v] ELSE old)
      /\ length' = IF length < CapacityFor(1) THEN length + 1 ELSE length
      /\ overrun' = (length >= CapacityFor(1))
      /\ careless' = (careless \/ TooMany(1))

\* InsertElement moves the objects from index on up by one, last one first.
InsertObject(index, v) ==
  LET old == Reallocated(1)
      fits == length < CapacityFor(1)
  IN  /\ ~overrun
      /\ MayGrow(1)
      /\ Reallocate(1, [i \in DOMAIN old |->
           CASE ~fits \/ i < index \/ i > length -> old[i]
             [] fits /\ i = index -> v
             [] OTHER -> old[i - 1]])
      /\ length' = IF fits THEN length + 1 ELSE length
      /\ overrun' = ~fits
      /\ careless' = (careless \/ TooMany(1))

-----------------------------------------------------------------------------
(* Removal.                                                                *)

\* PopElement destroys one object and moves those behind it down.
Pop(index) ==
  /\ ~overrun
  /\ index < length
  /\ cell' = [i \in DOMAIN cell |->
                IF i \in index..length - 2 THEN cell[i + 1]
                ELSE IF i = length - 1 THEN Raw ELSE cell[i]]
  /\ length' = length - 1
  /\ UNCHANGED <<capacity, allocated, overrun, careless>>

\* Pop(index, n) destroys n objects and assigns the next n to their cells,
\* whether or not there are as many; it moves no more than these.
PopRange(index, n) ==
  /\ ~overrun
  /\ index + n <= length
  /\ cell' = [i \in DOMAIN cell |->
                IF i \in index..index + n - 1
                THEN IF i + n < capacity THEN cell[i + n] ELSE Raw
                ELSE cell[i]]
  /\ length' = length - n
  /\ overrun' = (index + 2 * n > capacity)
  /\ careless' = TRUE
  /\ UNCHANGED <<capacity, allocated>>

\* PopBack destroys data[length], one behind the last object.
PopBack ==
  /\ ~overrun
  /\ length > 0
  /\ careless' = TRUE
  /\ length' = length - 1
  /\ cell' = [i \in DOMAIN cell |-> IF i = length THEN Raw ELSE cell[i]]
  /\ UNCHANGED <<capacity, allocated, overrun>>

\* Mutant: keeps the objects beyond the new length.
ShrinkInPlace(count) ==
  /\ count <= length
  /\ length' = count
  /\ UNCHANGED <<capacity, allocated, cell, overrun, careless>>

\* Resize to fewer objects.
ResizeDown(count) ==
  /\ count <= length
  /\ cell' = [i \in DOMAIN cell |-> IF i \in count..length - 1 THEN Raw ELSE cell[i]]
  /\ length' = count
  /\ UNCHANGED <<capacity, allocated, overrun, careless>>

\* Resize to more objects changes only the capacity.
ResizeUp(count) ==
  /\ count > length
  /\ MayGrow(count - length)
  /\ Reallocate(count - length, Reallocated(count - length))
  /\ UNCHANGED <<length, overrun, careless>>

ResizeTo(count) ==
  /\ ~overrun
  /\ ResizeDown(count) \/ ResizeUp(count)

\* SetLength writes the length before it calls Resize with it, which then has
\* nothing left to do: it neither constructs nor destroys objects, nor allocates.
\* A length beyond the allocation counts as an overrun, since whatever comes next,
\* if only the destructor, goes beyond it.
SetLength(count) ==
  /\ ~overrun
  /\ length' = count
  /\ overrun' = (count > capacity)
  /\ careless' = TRUE
  /\ UNCHANGED <<capacity, allocated, cell>>

\* Copy assignment frees the old block, allocates one of the source's length
\* and constructs copies in it.
Assign(objects) ==
  /\ ~overrun
  /\ capacity' = Len(objects)
  /\ allocated' = TRUE
  /\ cell' = [i \in 0..Len(objects) - 1 |-> objects[i + 1]]
  /\ length' = Len(objects)
  /\ UNCHANGED <<overrun, careless>>

-----------------------------------------------------------------------------

VectorNext ==
  \/ \E v \in Objects : EmplaceBack(v) \/ \E i \in 0..length : InsertObject(i, v)
  \/ \E n \in Groups : \/ \E v \in Objects : EmplaceGroup(n, v)
                       \/ \E s \in [1..n -> Objects] : PushBack(s)
  \/ \E i \in 0..length - 1 : Pop(i) \/ \E n \in Groups : PopRange(i, n)
  \/ PopBack
  \/ \E n \in 0..MaxCapacity : ResizeTo(n) \/ SetLength(n)
  \/ \E n \in Sources : \E s \in [1..n -> Objects] : Assign(s)

VectorSpec == VectorInit /\ [][VectorNext]_vectorVars

-----------------------------------------------------------------------------
(* Properties.                                                             *)

\* The vector as a sequence.
List == [i \in 1..length |-> cell[i - 1]]

VectorTypeOK ==
  /\ length \in Nat /\ (~overrun => length <= capacity)
  /\ capacity \in Nat
  /\ allocated \in BOOLEAN
  /\ cell \in [0..capacity - 1 -> Objects \cup {Raw}]
  /\ overrun \in BOOLEAN /\ careless \in BOOLEAN

\* No method reads or writes beyond the allocation: doubling the capacity once
\* makes room for any group that is no larger than the capacity, from the
\* first allocation on and after assignments.
NoOverrun == ~careless => ~overrun

\* Exactly the first `length' cells hold objects: nothing is left undestroyed
\* behind the end, and nothing inside is missing (EmplaceBack, Insert, Pop,
\* Resize and assignment, for types with constructors and destructors).
ExactlyTheLiving ==
  ~careless => \A i \in 0..capacity - 1 : cell[i] # Raw <=> i < length

\* Resize "accomodates count T elements".
ResizeAccommodates ==
  [][\A n \in 0..MaxCapacity : ResizeTo(n) => capacity' >= n]_vectorVars

\* The vector is a sequence: every method that stays within the allocation
\* does to the contents what it does to a list, whatever it does to the memory
\* (Pop of a range, if it removes at least as many objects as it leaves
\* behind).
ListStep ==
  ~overrun' =>
     /\ \A v \in Objects :
          /\ EmplaceBack(v) => List' = Append(List, v)
          /\ \A i \in 0..length : InsertObject(i, v) =>
               List' = SubSeq(List, 1, i) \o <<v>> \o SubSeq(List, i + 1, length)
     /\ \A k \in Groups : \A s \in [1..k -> Objects] :
          PushBack(s) => List' = List \o s
     /\ \A i \in 0..length - 1 : Pop(i) =>
          List' = SubSeq(List, 1, i) \o SubSeq(List, i + 2, length)
     /\ \A i \in 0..length - 1, n \in Groups :
          PopRange(i, n) /\ length <= i + 2 * n =>
            List' = SubSeq(List, 1, i) \o SubSeq(List, i + n + 1, length)
     /\ PopBack => List' = SubSeq(List, 1, length - 1)
     /\ \A n \in 0..MaxCapacity : ResizeTo(n) =>
          List' = IF n < length THEN SubSeq(List, 1, n) ELSE List

\* Every step of the vector is that of a list.
ActsAsList == [][ListStep]_vectorVars
=============================================================================
