----------------------------- MODULE FixedVector -----------------------------
(***************************************************************************)
(* GTSL::FixedVector (FixedVector.hpp, BitTracker.h): a vector whose       *)
(* objects keep their index while they live.  A bit per slot tells which   *)
(* slots are occupied; the bits are kept in words, so that the capacity is *)
(* a multiple of the length of a word.                                     *)
(***************************************************************************)
EXTENDS Integers

CONSTANTS
  Elements,     \* the objects
  Vacant,       \* the content of a slot without an object
  Bits,         \* BITS: the length of a word
  FirstSlots,   \* the sizes given to the constructor; 0 is the default one
  Reach,        \* EmplaceAt is called with indices up to slotCount + Reach
  MaxSlots      \* bound: a vector of at least this capacity does not grow

ASSUME FixedVectorAssumption ==
  /\ Vacant \notin Elements
  /\ Bits \in Nat \ {0}
  /\ FirstSlots \subseteq Nat /\ Reach \in Nat /\ MaxSlots \in Nat

VARIABLES
  slotCount,    \* the capacity
  occupied,     \* indices: the slots whose bit is set
  slot,         \* data
  placed,       \* history: what the owner put at each index it still uses
  beyond,       \* history: a slot or a bit beyond the allocation was written
  position,     \* of an iterator, or NotBegun or Done
  visited,      \* the slots that iterator was dereferenced at
  steady        \* the objects that have lived since it was at begin()

fixedVars == <<slotCount, occupied, slot, placed, beyond, position, visited, steady>>
iteration == <<position, visited, steady>>

NotBegun == -1
Done == -2

\* RoundUpByPowerOf2.
RoundUp(n) == ((n + Bits - 1) \div Bits) * Bits

FixedInit ==
  /\ \E n \in FirstSlots : slotCount = RoundUp(n)
  /\ occupied = {}
  /\ slot = [i \in 0..slotCount - 1 |-> Vacant]
  /\ placed = [i \in {} |-> Vacant]
  /\ beyond = FALSE
  /\ position = NotBegun /\ visited = {} /\ steady = {}

-----------------------------------------------------------------------------
(* Emplacement.                                                            *)

\* Mutant: new memory without the old content.
FreshMemory(n) == [i \in 0..n - 1 |-> Vacant]

\* resize(n): all slots are moved, the bits of new slots cleared.
Memory(n) == [i \in 0..n - 1 |-> IF i < slotCount THEN slot[i] ELSE Vacant]

\* An object at slot i of a vector of capacity n.
Place(i, v, n) ==
  /\ slotCount' = n
  /\ slot' = [Memory(n) EXCEPT ![i] = v]
  /\ occupied' = occupied \cup {i}
  /\ placed' = [j \in DOMAIN placed \cup {i} |-> IF j = i THEN v ELSE placed[j]]
  /\ UNCHANGED <<beyond, iteration>>

Free == (0..slotCount - 1) \ occupied

\* OccupyFirstFreeSlot, when there is one.
EmplaceFree(v) ==
  /\ ~beyond
  /\ \E i \in Free :
       /\ \A j \in Free : i <= j
       /\ Place(i, v, slotCount)

\* When there is none, the capacity is doubled.
EmplaceGrow(v) ==
  /\ ~beyond
  /\ Free = {} /\ slotCount > 0 /\ slotCount < MaxSlots
  /\ Place(slotCount, v, 2 * slotCount)

\* Twice nothing is nothing: the object is written to index 0 of no memory.
EmplaceNowhere(v) ==
  /\ ~beyond
  /\ Free = {} /\ slotCount = 0
  /\ beyond' = TRUE
  /\ placed' = [j \in {0} |-> v]
  /\ UNCHANGED <<slotCount, occupied, slot, iteration>>

EmplaceSlot(v) == EmplaceFree(v) \/ EmplaceGrow(v) \/ EmplaceNowhere(v)

\* EmplaceAt asserts that the slot is free, and resizes when the index is
\* greater than the capacity: the capacity itself is written beyond it.
EmplaceAtSlot(i, v) ==
  /\ ~beyond
  /\ i \in Free
  /\ Place(i, v, slotCount)

EmplaceAtBeyond(i, v) ==
  /\ ~beyond
  /\ i > slotCount /\ slotCount < MaxSlots
  /\ Place(i, v, RoundUp(i + 1))

EmplaceAtCapacity(v) ==
  /\ ~beyond
  /\ beyond' = TRUE
  /\ placed' = [j \in DOMAIN placed \cup {slotCount} |-> IF j = slotCount THEN v ELSE placed[j]]
  /\ UNCHANGED <<slotCount, occupied, slot, iteration>>

EmplaceAt(i, v) ==
  \/ EmplaceAtSlot(i, v)
  \/ EmplaceAtBeyond(i, v)
  \/ i = slotCount /\ EmplaceAtCapacity(v)

-----------------------------------------------------------------------------
(* Removal.                                                                *)

\* Slots S are destroyed and set free.
RemoveSlots(S) ==
  /\ ~beyond
  /\ slot' = [i \in DOMAIN slot |-> IF i \in S THEN Vacant ELSE slot[i]]
  /\ occupied' = occupied \ S
  /\ placed' = [i \in DOMAIN placed \ S |-> placed[i]]
  /\ steady' = steady \ S
  /\ UNCHANGED <<slotCount, beyond, position, visited>>

PopSlot(i) == i \in occupied /\ RemoveSlots({i})

ClearSlots == RemoveSlots(occupied)

-----------------------------------------------------------------------------
(* Iteration.                                                              *)

\* begin(): slot 0, occupied or not.
BeginAtSlot ==
  /\ ~beyond
  /\ position \in {NotBegun, Done}
  /\ position' = IF slotCount = 0 THEN Done ELSE 0
  /\ visited' = {}
  /\ steady' = occupied
  /\ UNCHANGED <<slotCount, occupied, slot, placed, beyond>>

\* Mutant: stops at the first free slot.
AdvanceToGap ==
  /\ ~beyond
  /\ position >= 0
  /\ visited' = visited \cup {position}
  /\ position' = IF position + 1 \in occupied THEN position + 1 ELSE Done
  /\ UNCHANGED <<slotCount, occupied, slot, placed, beyond, steady>>

\* The loop's body, then operator++: on to the next occupied slot.
AdvanceSlot ==
  /\ ~beyond
  /\ position >= 0
  /\ visited' = visited \cup {position}
  /\ \E p \in position + 1..slotCount :
       /\ p \in occupied \/ p = slotCount
       /\ \A q \in position + 1..p - 1 : q \notin occupied
       /\ position' = IF p = slotCount THEN Done ELSE p
  /\ UNCHANGED <<slotCount, occupied, slot, placed, beyond, steady>>

FixedNext ==
  \/ \E v \in Elements : EmplaceSlot(v) \/ \E i \in 0..slotCount + Reach : EmplaceAt(i, v)
  \/ \E i \in occupied : PopSlot(i)
  \/ ClearSlots
  \/ BeginAtSlot
  \/ AdvanceSlot

FixedSpec == FixedInit /\ [][FixedNext]_fixedVars

-----------------------------------------------------------------------------
(* Properties.                                                             *)

\* The shape of the variables.
FixedTypeOK ==
  /\ slotCount \in Nat
  /\ occupied \subseteq 0..slotCount - 1
  /\ slot \in [0..slotCount - 1 -> Elements \cup {Vacant}]
  /\ DOMAIN placed \subseteq Nat
  /\ beyond \in BOOLEAN
  /\ position \in {NotBegun, Done} \cup (0..slotCount - 1)
  /\ visited \subseteq 0..slotCount - 1
  /\ steady \subseteq 0..slotCount - 1

\* An index that was handed out finds the object that was put there until it
\* is popped, whatever is emplaced, popped or resized meanwhile; all other
\* slots hold nothing.  (Nothing can be said once memory that is not there has
\* been written.)
IndicesHold ==
  /\ DOMAIN placed = occupied
  /\ \A i \in 0..slotCount - 1 :
       slot[i] = IF i \in DOMAIN placed THEN placed[i] ELSE Vacant

IndicesLast == ~beyond => IndicesHold

\* An iteration has come past every object that has lived all along, also
\* when objects were emplaced and popped under way.
IterationMeetsTheSteady == position = Done => steady \subseteq visited
=============================================================================
