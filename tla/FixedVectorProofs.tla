-------------------------- MODULE FixedVectorProofs --------------------------
(***************************************************************************)
(* Proofs about FixedVector, for any objects, word length and sizes.       *)
(***************************************************************************)
EXTENDS FixedVector, TLAPS

LEMMA RoundUpFits ==
  ASSUME NEW n \in Nat
  PROVE  RoundUp(n) \in Nat /\ RoundUp(n) >= n
BY FixedVectorAssumption DEF RoundUp

-----------------------------------------------------------------------------
(* The objects.                                                            *)

\* What makes IndicesHold inductive: types.
Sound ==
  /\ occupied \subseteq 0..slotCount - 1
  /\ slot \in [0..slotCount - 1 -> Elements \cup {Vacant}]
  /\ placed \in [occupied -> Elements]
  /\ IndicesHold

Objects == slotCount \in Nat /\ (~beyond => Sound)

LEMMA PlaceKeeps ==
  ASSUME slotCount \in Nat, Sound, NEW v \in Elements, NEW n \in Nat, n >= slotCount,
         NEW i \in 0..n - 1, i \notin occupied, Place(i, v, n)
  PROVE  Objects'
<1> USE FixedVectorAssumption
<1>1. /\ slotCount' = n
      /\ slot' = [Memory(n) EXCEPT ![i] = v]
      /\ occupied' = occupied \cup {i}
      /\ placed' = [j \in occupied \cup {i} |-> IF j = i THEN v ELSE placed[j]]
  BY DEF Place, Sound, IndicesHold
<1>2. Memory(n) = [j \in 0..n - 1 |-> IF j < slotCount THEN slot[j] ELSE Vacant]
  BY DEF Memory
<1>3. slot' = [j \in 0..n - 1 |->
                 IF j = i THEN v ELSE IF j < slotCount THEN slot[j] ELSE Vacant]
  BY <1>1, <1>2
<1>4. placed' \in [occupied' -> Elements]
  BY <1>1 DEF Sound
<1>5. slot' \in [0..slotCount' - 1 -> Elements \cup {Vacant}]
  <2>1. ASSUME NEW j \in 0..n - 1
        PROVE  (IF j = i THEN v ELSE IF j < slotCount THEN slot[j] ELSE Vacant)
                 \in Elements \cup {Vacant}
    <3>1. CASE j < slotCount
      <4>1. j \in 0..slotCount - 1
        BY <3>1
      <4> QED BY <4>1 DEF Sound
    <3> QED BY <3>1
  <2> QED BY <1>1, <1>3, <2>1
<1>6. slotCount' \in Nat /\ occupied' \subseteq 0..slotCount' - 1
  BY <1>1 DEF Sound
<1>7. IndicesHold'
  <2>1. DOMAIN placed' = occupied'
    BY <1>4
  <2>2. ASSUME NEW j \in 0..slotCount' - 1
        PROVE  slot'[j] = IF j \in DOMAIN placed' THEN placed'[j] ELSE Vacant
    <3>1. CASE j = i
      BY <1>1, <1>3, <3>1
    <3>2. CASE j # i /\ j < slotCount
      <4>1. j \in 0..slotCount - 1
        BY <1>1, <3>2
      <4>2. slot[j] = IF j \in occupied THEN placed[j] ELSE Vacant
        BY <4>1 DEF Sound, IndicesHold
      <4> QED BY <1>1, <1>3, <3>2, <4>1, <4>2
    <3>3. CASE j # i /\ ~(j < slotCount)
      <4>1. j \notin occupied
        BY <1>1, <3>3 DEF Sound
      <4> QED BY <1>1, <1>3, <3>3, <4>1
    <3> QED BY <3>1, <3>2, <3>3
  <2> QED BY <2>1, <2>2 DEF IndicesHold
<1> QED BY <1>4, <1>5, <1>6, <1>7 DEF Objects, Sound

LEMMA RemoveKeeps ==
  ASSUME slotCount \in Nat, Sound, NEW S, S \subseteq occupied, RemoveSlots(S)
  PROVE  Objects'
<1>1. /\ slot' = [i \in 0..slotCount - 1 |-> IF i \in S THEN Vacant ELSE slot[i]]
      /\ occupied' = occupied \ S
      /\ placed' = [i \in occupied \ S |-> placed[i]]
      /\ slotCount' = slotCount
  BY DEF RemoveSlots, Sound, IndicesHold
<1>2. placed' \in [occupied' -> Elements]
  BY <1>1 DEF Sound
<1>3. slot' \in [0..slotCount' - 1 -> Elements \cup {Vacant}]
  BY <1>1 DEF Sound
<1>4. IndicesHold'
  BY <1>1, <1>2 DEF Sound, IndicesHold
<1> QED BY <1>1, <1>2, <1>3, <1>4 DEF Objects, Sound

LEMMA ObjectsInit == FixedInit => Objects
<1> SUFFICES ASSUME FixedInit PROVE Objects
  OBVIOUS
<1>1. PICK n \in FirstSlots : slotCount = RoundUp(n)
  BY DEF FixedInit
<1>2. slotCount \in Nat
  BY <1>1, RoundUpFits, FixedVectorAssumption
<1>3. /\ slot = [i \in 0..slotCount - 1 |-> Vacant]
      /\ occupied = {} /\ placed = [i \in {} |-> Vacant]
  BY DEF FixedInit
<1> QED BY <1>2, <1>3 DEF Objects, Sound, IndicesHold

\* No method is called on a vector that has written beyond its memory.
LEMMA ObjectsNext == Objects /\ [FixedNext]_fixedVars => Objects'
<1> SUFFICES ASSUME Objects, [FixedNext]_fixedVars PROVE Objects'
  OBVIOUS
<1>1. ASSUME NEW v \in Elements, EmplaceFree(v) PROVE Objects'
  <2>1. /\ Sound /\ slotCount \in Nat
        /\ \E i \in Free : Place(i, v, slotCount)
    BY <1>1 DEF EmplaceFree, Objects
  <2>2. PICK i \in Free : Place(i, v, slotCount)
    BY <2>1
  <2>3. i \in 0..slotCount - 1 /\ i \notin occupied /\ slotCount >= slotCount
    BY <2>1 DEF Free
  <2> QED BY <2>1, <2>2, <2>3, PlaceKeeps
<1>2. ASSUME NEW v \in Elements, EmplaceGrow(v) PROVE Objects'
  <2>1. Sound /\ slotCount \in Nat /\ slotCount > 0 /\ Place(slotCount, v, 2 * slotCount)
    BY <1>2 DEF EmplaceGrow, Objects
  <2>2. /\ 2 * slotCount \in Nat /\ 2 * slotCount >= slotCount
        /\ slotCount \in 0..2 * slotCount - 1 /\ slotCount \notin occupied
    BY <2>1 DEF Sound
  <2> QED BY <2>1, <2>2, PlaceKeeps
<1>3. ASSUME NEW v \in Elements, EmplaceNowhere(v) PROVE Objects'
  BY <1>3 DEF EmplaceNowhere, Objects
<1>4. ASSUME NEW v \in Elements, NEW i \in 0..slotCount + Reach, EmplaceAt(i, v) PROVE Objects'
  <2>1. CASE EmplaceAtSlot(i, v)
    <3>1. /\ Sound /\ slotCount \in Nat /\ Place(i, v, slotCount)
          /\ i \in 0..slotCount - 1 /\ i \notin occupied
      BY <2>1 DEF EmplaceAtSlot, Free, Objects
    <3>2. slotCount >= slotCount
      BY <3>1
    <3> QED BY <3>1, <3>2, PlaceKeeps
  <2>2. CASE EmplaceAtBeyond(i, v)
    <3>1. Sound /\ slotCount \in Nat /\ Place(i, v, RoundUp(i + 1)) /\ i > slotCount
      BY <2>2 DEF EmplaceAtBeyond, Objects
    <3>2. i \in Nat /\ i + 1 \in Nat
      BY <3>1, FixedVectorAssumption
    <3>3. RoundUp(i + 1) \in Nat /\ RoundUp(i + 1) >= i + 1
      BY <3>2, RoundUpFits
    <3>4. /\ RoundUp(i + 1) >= slotCount /\ i \in 0..RoundUp(i + 1) - 1
          /\ i \notin occupied
      BY <3>1, <3>2, <3>3 DEF Sound
    <3> QED BY <3>1, <3>3, <3>4, PlaceKeeps
  <2>3. CASE EmplaceAtCapacity(v)
    BY <2>3 DEF EmplaceAtCapacity, Objects
  <2> QED BY <1>4, <2>1, <2>2, <2>3 DEF EmplaceAt
<1>5. ASSUME NEW i \in occupied, PopSlot(i) PROVE Objects'
  <2>1. Sound /\ slotCount \in Nat /\ RemoveSlots({i})
    BY <1>5 DEF PopSlot, RemoveSlots, Objects
  <2> QED BY <2>1, RemoveKeeps
<1>6. CASE ClearSlots
  <2>1. Sound /\ slotCount \in Nat /\ RemoveSlots(occupied)
    BY <1>6 DEF ClearSlots, RemoveSlots, Objects
  <2> QED BY <2>1, RemoveKeeps
<1>7. CASE BeginAtSlot
  BY <1>7 DEF BeginAtSlot, Objects, Sound, IndicesHold
<1>8. CASE AdvanceSlot
  BY <1>8 DEF AdvanceSlot, Objects, Sound, IndicesHold
<1>9. CASE UNCHANGED fixedVars
  BY <1>9 DEF fixedVars, Objects, Sound, IndicesHold
<1> QED
  BY <1>1, <1>2, <1>3, <1>4, <1>5, <1>6, <1>7, <1>8, <1>9 DEF FixedNext, EmplaceSlot

\* Every index finds the object that was put there until it is popped, and
\* all other slots are empty: Emplace, EmplaceAt, Pop, Clear and resize.
THEOREM IndicesAreStable == FixedSpec => []IndicesLast
<1>1. FixedInit => Objects  BY ObjectsInit
<1>2. Objects /\ [FixedNext]_fixedVars => Objects'  BY ObjectsNext
<1>3. Objects => IndicesLast  BY DEF Objects, Sound, IndicesLast
<1> QED BY <1>1, <1>2, <1>3, PTL DEF FixedSpec

-----------------------------------------------------------------------------
(* Iteration, for any calls: also those that write beyond the memory.      *)

\* Behind the iterator, everything steady has been visited; and the iterator
\* is never moved over an occupied slot, since nothing leaves its slot.
IterationInv ==
  /\ slotCount \in Nat
  /\ occupied \subseteq 0..slotCount - 1
  /\ steady \subseteq occupied
  /\ position \in {NotBegun, Done} \cup Nat
  /\ \A i \in steady : (position = Done \/ (position >= 0 /\ i < position)) => i \in visited

LEMMA IterationInit == FixedInit => IterationInv
<1> SUFFICES ASSUME FixedInit PROVE IterationInv
  OBVIOUS
<1>1. PICK n \in FirstSlots : slotCount = RoundUp(n)
  BY DEF FixedInit
<1>2. slotCount \in Nat
  BY <1>1, RoundUpFits, FixedVectorAssumption
<1> QED BY <1>2 DEF FixedInit, IterationInv, NotBegun, Done

LEMMA PlaceKeepsIteration ==
  ASSUME IterationInv, NEW v, NEW n \in Nat, n >= slotCount,
         NEW i \in 0..n - 1, Place(i, v, n)
  PROVE  IterationInv'
BY DEF Place, iteration, IterationInv

LEMMA IterationNext == IterationInv /\ [FixedNext]_fixedVars => IterationInv'
<1> SUFFICES ASSUME IterationInv, [FixedNext]_fixedVars PROVE IterationInv'
  OBVIOUS
<1>1. ASSUME NEW v \in Elements, EmplaceFree(v) PROVE IterationInv'
  <2>1. PICK i \in Free : Place(i, v, slotCount)
    BY <1>1 DEF EmplaceFree
  <2>2. i \in 0..slotCount - 1 /\ slotCount \in Nat /\ slotCount >= slotCount
    BY DEF Free, IterationInv
  <2> QED BY <2>1, <2>2, PlaceKeepsIteration
<1>2. ASSUME NEW v \in Elements, EmplaceGrow(v) PROVE IterationInv'
  <2>1. Place(slotCount, v, 2 * slotCount) /\ slotCount > 0
    BY <1>2 DEF EmplaceGrow
  <2>2. /\ 2 * slotCount \in Nat /\ 2 * slotCount >= slotCount
        /\ slotCount \in 0..2 * slotCount - 1
    BY <2>1 DEF IterationInv
  <2> QED BY <2>1, <2>2, PlaceKeepsIteration
<1>3. ASSUME NEW v \in Elements, EmplaceNowhere(v) PROVE IterationInv'
  BY <1>3 DEF EmplaceNowhere, iteration, IterationInv
<1>4. ASSUME NEW v \in Elements, NEW i \in 0..slotCount + Reach, EmplaceAt(i, v)
      PROVE  IterationInv'
  <2>1. CASE EmplaceAtSlot(i, v)
    <3>1. /\ Place(i, v, slotCount)
          /\ i \in 0..slotCount - 1
          /\ slotCount \in Nat /\ slotCount >= slotCount
      BY <2>1 DEF EmplaceAtSlot, Free, IterationInv
    <3> QED BY <3>1, PlaceKeepsIteration
  <2>2. CASE EmplaceAtBeyond(i, v)
    <3>1. Place(i, v, RoundUp(i + 1)) /\ i > slotCount
      BY <2>2 DEF EmplaceAtBeyond
    <3>2. i \in Nat /\ i + 1 \in Nat
      BY FixedVectorAssumption DEF IterationInv
    <3>3. RoundUp(i + 1) \in Nat /\ RoundUp(i + 1) >= i + 1
      BY <3>2, RoundUpFits
    <3>4. RoundUp(i + 1) >= slotCount /\ i \in 0..RoundUp(i + 1) - 1
      BY <3>1, <3>2, <3>3 DEF IterationInv
    <3> QED BY <3>1, <3>3, <3>4, PlaceKeepsIteration
  <2>3. CASE EmplaceAtCapacity(v)
    BY <2>3 DEF EmplaceAtCapacity, iteration, IterationInv
  <2> QED BY <1>4, <2>1, <2>2, <2>3 DEF EmplaceAt
<1>5. ASSUME NEW i \in occupied, PopSlot(i) PROVE IterationInv'
  BY <1>5 DEF PopSlot, RemoveSlots, IterationInv
<1>6. CASE ClearSlots
  BY <1>6 DEF ClearSlots, RemoveSlots, IterationInv
<1>7. CASE BeginAtSlot
  BY <1>7 DEF BeginAtSlot, IterationInv, NotBegun, Done
<1>8. CASE AdvanceSlot
  <2>1. PICK p \in position + 1..slotCount :
          /\ \A q \in position + 1..p - 1 : q \notin occupied
          /\ position' = IF p = slotCount THEN Done ELSE p
    BY <1>8 DEF AdvanceSlot
  <2>2. /\ position >= 0 /\ position \in Nat
        /\ visited' = visited \cup {position}
        /\ slotCount' = slotCount /\ occupied' = occupied /\ steady' = steady
    BY <1>8 DEF AdvanceSlot, IterationInv, NotBegun, Done
  <2>3. \A i \in steady : i < p => i \in visited'
    <3> TAKE i \in steady
    <3> HAVE i < p
    <3>1. i \in Nat /\ i \in occupied /\ p \in Int
      BY <2>2 DEF IterationInv
    <3>2. i < position \/ i = position \/ i \in position + 1..p - 1
      BY <2>2, <3>1
    <3> QED BY <2>1, <2>2, <3>1, <3>2 DEF IterationInv
  <2>4. \A i \in steady : i < slotCount
    BY DEF IterationInv
  <2> QED BY <2>1, <2>2, <2>3, <2>4 DEF IterationInv, NotBegun, Done
<1>9. CASE UNCHANGED fixedVars
  BY <1>9 DEF fixedVars, IterationInv
<1> QED
  BY <1>1, <1>2, <1>3, <1>4, <1>5, <1>6, <1>7, <1>8, <1>9 DEF FixedNext, EmplaceSlot

\* An iteration that has ended has come past every object that lived all
\* along: begin() and operator++, with emplacements and removals between.
THEOREM IterationIsExhaustive == FixedSpec => []IterationMeetsTheSteady
<1>1. FixedInit => IterationInv  BY IterationInit
<1>2. IterationInv /\ [FixedNext]_fixedVars => IterationInv'  BY IterationNext
<1>3. IterationInv => IterationMeetsTheSteady
  BY DEF IterationInv, IterationMeetsTheSteady
<1> QED BY <1>1, <1>2, <1>3, PTL DEF FixedSpec
=============================================================================
