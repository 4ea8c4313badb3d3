---------------------------- MODULE VectorProofs -----------------------------
(***************************************************************************)
(* Proofs about Vector, for any objects, sizes and bound: an owner that is *)
(* not careless never makes the vector leave its memory, and its cells     *)
(* hold objects exactly below `length'.                                    *)
(***************************************************************************)
EXTENDS Vector, SequenceTheorems, TLAPS

\* Numbers and cells, apart from the flags.
Shape ==
  /\ capacity \in Nat
  /\ length \in 0..capacity
  /\ cell \in [0..capacity - 1 -> Objects \cup {Raw}]
  /\ ~allocated => capacity = 0

Flags == allocated \in BOOLEAN /\ overrun \in BOOLEAN /\ careless \in BOOLEAN

Living == \A i \in 0..capacity - 1 : cell[i] # Raw <=> i < length

\* What is left of the shape after SetLength beyond the allocation.
Wide ==
  /\ capacity \in Nat /\ length \in Nat
  /\ cell \in [0..capacity - 1 -> Objects \cup {Raw}]

\* The inductive invariant.
IInv == Wide /\ Flags /\ (~overrun => Shape) /\ (~careless => ~overrun /\ Living)

\* After a step that keeps the shape.
LEMMA Afterwards ==
  ASSUME Shape', Flags', ~careless' => ~overrun' /\ Living'
  PROVE  IInv'
<1>1. capacity' \in Nat /\ length' \in Nat
  BY DEF Shape
<1>2. cell' \in [0..capacity' - 1 -> Objects \cup {Raw}]
  BY DEF Shape
<1> QED BY <1>1, <1>2 DEF IInv, Wide

-----------------------------------------------------------------------------
(* What tryReallocate does.                                                *)

\* It never shrinks, and the first allocation is as large as is asked for.
LEMMA ReallocationGrows ==
  ASSUME Shape, NEW n \in Nat
  PROVE  /\ CapacityFor(n) \in Nat
         /\ capacity <= CapacityFor(n)
         /\ ~(allocated \/ length + n > capacity) => CapacityFor(n) = 0
BY DEF Shape, CapacityFor

\* One doubling makes room for what is no more than the capacity.
LEMMA ReallocationFits ==
  ASSUME Shape, NEW n \in Nat, ~TooMany(n)
  PROVE  length + n <= CapacityFor(n)
BY DEF Shape, CapacityFor, TooMany

\* The cells after it: the old objects, and nothing behind them.
LEMMA ReallocationKeeps ==
  ASSUME Shape, NEW n \in Nat
  PROVE  /\ Reallocated(n) \in [0..CapacityFor(n) - 1 -> Objects \cup {Raw}]
         /\ Living => \A i \in 0..CapacityFor(n) - 1 :
                        Reallocated(n)[i] # Raw <=> i < length
<1> USE VectorAssumption DEF Shape, Living
<1>0. CapacityFor(n) \in Nat /\ capacity <= CapacityFor(n)
  BY ReallocationGrows
<1>1. CASE CapacityFor(n) = capacity
  BY <1>1 DEF Reallocated
<1>2. CASE CapacityFor(n) # capacity
  <2>1. Reallocated(n) = [i \in 0..CapacityFor(n) - 1 |-> IF i < length THEN cell[i] ELSE Raw]
    BY <1>2 DEF Reallocated, Block
  <2>2. \A i \in 0..CapacityFor(n) - 1 : i < length => i \in 0..capacity - 1
    BY <1>0
  <2> QED BY <1>0, <2>1, <2>2
<1> QED BY <1>1, <1>2

-----------------------------------------------------------------------------
(* Appending and inserting.                                                *)

LEMMA AddBackKeeps ==
  ASSUME IInv, NEW objects \in Seq(Objects), ~overrun, AddBack(objects)
  PROVE  IInv'
<1> DEFINE n == Len(objects)
           fits == length + n <= CapacityFor(n)
<1>1. n \in Nat /\ Shape
  BY DEF IInv
<1>2. /\ capacity' = CapacityFor(n)
      /\ allocated' = (allocated \/ length + n > capacity)
      /\ length' = IF fits THEN length + n ELSE length
      /\ overrun' = ~fits
      /\ careless' = (careless \/ TooMany(n))
  BY DEF AddBack, Reallocate
<1>3. /\ Reallocated(n) \in [0..CapacityFor(n) - 1 -> Objects \cup {Raw}]
      /\ Living => \A i \in 0..CapacityFor(n) - 1 : Reallocated(n)[i] # Raw <=> i < length
  BY <1>1, ReallocationKeeps
<1>4. cell' = [i \in 0..CapacityFor(n) - 1 |->
                 IF fits /\ i \in length..length + n - 1 THEN objects[i - length + 1]
                 ELSE Reallocated(n)[i]]
  BY <1>3 DEF AddBack, Reallocate
<1>5. /\ CapacityFor(n) \in Nat /\ capacity <= CapacityFor(n)
      /\ ~(allocated \/ length + n > capacity) => CapacityFor(n) = 0
  BY <1>1, ReallocationGrows
<1>6. \A i \in length..length + n - 1 : objects[i - length + 1] \in Objects
  BY <1>1 DEF Shape
<1>7. Shape'
  <2>1. capacity' \in Nat /\ length' \in 0..capacity'
    BY <1>1, <1>2, <1>5 DEF Shape
  <2>2. cell' \in [0..capacity' - 1 -> Objects \cup {Raw}]
    <3>1. ASSUME NEW i \in 0..CapacityFor(n) - 1
          PROVE  (IF fits /\ i \in length..length + n - 1 THEN objects[i - length + 1]
                  ELSE Reallocated(n)[i]) \in Objects \cup {Raw}
      BY <1>3, <1>6
    <3> HIDE DEF n, fits
    <3> QED BY <1>2, <1>4, <3>1
  <2>3. ~allocated' => capacity' = 0
    BY <1>2, <1>5
  <2> QED BY <2>1, <2>2, <2>3 DEF Shape
<1>8. Flags'
  BY <1>2 DEF Flags, IInv, TooMany
<1>9. ASSUME ~careless' PROVE ~overrun' /\ Living'
  <2>1. ~careless /\ ~TooMany(n) /\ Living
    BY <1>2, <1>9 DEF IInv
  <2>2. fits
    BY <1>1, <2>1, ReallocationFits
  <2>3. length' = length + n /\ length \in Nat
    BY <1>1, <1>2, <2>2 DEF Shape
  <2>4. ASSUME NEW i \in 0..capacity' - 1 PROVE cell'[i] # Raw <=> i < length'
    <3>1. i \in 0..CapacityFor(n) - 1 /\ i \in Int
      BY <1>2
    <3>2. CASE i \in length..length + n - 1
      BY <1>1, <1>4, <1>6, <2>2, <2>3, <3>1, <3>2, VectorAssumption
    <3>3. CASE i \notin length..length + n - 1
      <4>1. cell'[i] = Reallocated(n)[i]
        BY <1>4, <3>1, <3>3
      <4> QED BY <1>1, <1>3, <2>1, <2>3, <3>1, <3>3, <4>1
    <3> QED BY <3>2, <3>3
  <2> QED BY <1>2, <2>2, <2>4 DEF Living
<1> QED BY <1>7, <1>8, <1>9, Afterwards

LEMMA InsertKeeps ==
  ASSUME IInv, NEW v \in Objects, NEW index \in 0..length, InsertObject(index, v)
  PROVE  IInv'
<1> DEFINE fits == length < CapacityFor(1)
<1>1. Shape /\ 1 \in Nat
  BY DEF IInv, InsertObject
<1>2. /\ capacity' = CapacityFor(1)
      /\ allocated' = (allocated \/ length + 1 > capacity)
      /\ length' = IF fits THEN length + 1 ELSE length
      /\ overrun' = ~fits
      /\ careless' = (careless \/ TooMany(1))
  BY DEF InsertObject, Reallocate
<1>3. /\ Reallocated(1) \in [0..CapacityFor(1) - 1 -> Objects \cup {Raw}]
      /\ Living => \A i \in 0..CapacityFor(1) - 1 : Reallocated(1)[i] # Raw <=> i < length
  BY <1>1, ReallocationKeeps
<1>4. cell' = [i \in 0..CapacityFor(1) - 1 |->
                 IF ~fits \/ i < index \/ i > length THEN Reallocated(1)[i]
                 ELSE IF i = index THEN v ELSE Reallocated(1)[i - 1]]
  BY <1>1, <1>3 DEF InsertObject, Reallocate, Shape
<1>5. /\ CapacityFor(1) \in Nat /\ capacity <= CapacityFor(1)
      /\ ~(allocated \/ length + 1 > capacity) => CapacityFor(1) = 0
  BY <1>1, ReallocationGrows
<1>6. index \in Nat /\ length \in Nat /\ index <= length
  BY <1>1 DEF Shape
<1>7. Shape'
  <2>1. capacity' \in Nat /\ length' \in 0..capacity'
    BY <1>1, <1>2, <1>5 DEF Shape
  <2>2. cell' \in [0..capacity' - 1 -> Objects \cup {Raw}]
    <3>1. ASSUME NEW i \in 0..capacity' - 1 PROVE cell'[i] \in Objects \cup {Raw}
      <4>1. i \in Int /\ i \in 0..CapacityFor(1) - 1
        BY <1>2
      <4>2. CASE ~fits \/ i < index \/ i > length \/ i = index
        BY <1>3, <1>4, <4>1, <4>2
      <4>3. CASE fits /\ i > index /\ i <= length
        <5>1. i - 1 \in 0..CapacityFor(1) - 1
          BY <1>5, <1>6, <4>1, <4>3
        <5>2. cell'[i] = Reallocated(1)[i - 1]
          BY <1>4, <1>6, <4>1, <4>3
        <5> QED BY <1>3, <5>1, <5>2
      <4> QED BY <1>6, <4>1, <4>2, <4>3
    <3> QED BY <1>2, <1>4, <3>1
  <2>3. ~allocated' => capacity' = 0
    BY <1>2, <1>5
  <2> QED BY <2>1, <2>2, <2>3 DEF Shape
<1>8. Flags'
  BY <1>2 DEF Flags, IInv, TooMany
<1>9. ASSUME ~careless' PROVE ~overrun' /\ Living'
  <2>1. ~TooMany(1) /\ Living
    BY <1>2, <1>9 DEF IInv
  <2>2. length + 1 <= CapacityFor(1)
    BY <1>1, <2>1, ReallocationFits
  <2>3. fits /\ length' = length + 1
    BY <1>2, <1>5, <1>6, <2>2
  <2>4. ASSUME NEW i \in 0..capacity' - 1 PROVE cell'[i] # Raw <=> i < length'
    <3>1. i \in 0..CapacityFor(1) - 1 /\ i \in Int
      BY <1>2
    <3>2. CASE i < index \/ i > length
      <4>1. cell'[i] = Reallocated(1)[i]
        BY <1>4, <3>1, <3>2
      <4> QED BY <1>3, <1>6, <2>1, <2>3, <3>1, <3>2, <4>1
    <3>3. CASE i = index
      <4>1. cell'[i] = v
        BY <1>4, <1>6, <2>3, <3>1, <3>3
      <4> QED BY <1>6, <2>3, <3>3, <4>1, VectorAssumption
    <3>4. CASE i > index /\ i <= length
      <4>1. i - 1 \in 0..CapacityFor(1) - 1 /\ i - 1 < length
        BY <1>5, <1>6, <3>1, <3>4
      <4>2. cell'[i] = Reallocated(1)[i - 1]
        BY <1>4, <1>6, <2>3, <3>1, <3>4
      <4> QED BY <1>3, <1>6, <2>1, <2>3, <3>1, <3>4, <4>1, <4>2
    <3> QED BY <1>6, <3>1, <3>2, <3>3, <3>4
  <2> QED BY <1>2, <2>3, <2>4 DEF Living
<1> QED BY <1>7, <1>8, <1>9, Afterwards

-----------------------------------------------------------------------------
(* The other methods.                                                      *)

LEMMA PopKeeps ==
  ASSUME IInv, NEW i \in 0..length - 1, Pop(i)
  PROVE  IInv'
<1>1. Shape'
  BY DEF Pop, IInv, Shape
<1>2. Flags'
  BY DEF Pop, IInv, Flags
<1>3. ~careless' => ~overrun' /\ Living'
  BY DEF Pop, IInv, Shape, Living
<1> QED BY <1>1, <1>2, <1>3, Afterwards

\* The careless removals: only the shape remains.
LEMMA CarelessKeeps ==
  ASSUME IInv,
         \/ PopBack
         \/ \E i \in 0..length - 1, n \in Groups : PopRange(i, n)
         \/ \E n \in 0..MaxCapacity : SetLength(n)
  PROVE  IInv'
<1>1. CASE PopBack
  <2>1. Shape'
    BY <1>1 DEF PopBack, IInv, Shape
  <2> QED BY <1>1, <2>1 DEF PopBack, IInv, Flags, Shape, Wide
<1>2. ASSUME NEW i \in 0..length - 1, NEW n \in Groups, PopRange(i, n)
      PROVE  IInv'
  <2>1. n \in Nat /\ i \in Nat /\ Shape
    BY <1>2, VectorAssumption DEF IInv, Shape, PopRange
  <2>2. capacity' = capacity /\ length' = length - n /\ i + n <= length
    BY <1>2 DEF PopRange
  <2>3. cell' = [k \in 0..capacity - 1 |->
                   IF k \in i..i + n - 1
                   THEN IF k + n < capacity THEN cell[k + n] ELSE Raw
                   ELSE cell[k]]
    BY <1>2, <2>1 DEF PopRange, Shape
  <2>4. ASSUME NEW k \in 0..capacity - 1, k + n < capacity
        PROVE  cell[k + n] \in Objects \cup {Raw}
    <3>1. k + n \in 0..capacity - 1
      BY <2>1, <2>4 DEF Shape
    <3> QED BY <2>1, <3>1 DEF Shape
  <2>5. cell' \in [0..capacity' - 1 -> Objects \cup {Raw}]
    BY <2>1, <2>2, <2>3, <2>4 DEF Shape
  <2>6. Shape'
    <3>1. allocated' = allocated
      BY <1>2 DEF PopRange
    <3> QED BY <2>1, <2>2, <2>5, <3>1 DEF Shape
  <2>7. Flags' /\ careless'
    BY <1>2 DEF PopRange, IInv, Flags
  <2> QED BY <2>6, <2>7, Afterwards
<1>3. ASSUME NEW n \in 0..MaxCapacity, SetLength(n) PROVE IInv'
  <2>1. n \in Nat /\ Shape
    BY <1>3, VectorAssumption DEF SetLength, IInv
  <2>2. /\ length' = n /\ overrun' = (n > capacity)
        /\ capacity' = capacity /\ cell' = cell /\ allocated' = allocated
    BY <1>3 DEF SetLength
  <2>3. Wide'
    BY <2>1, <2>2 DEF Shape, Wide
  <2>4. ASSUME ~overrun' PROVE Shape'
    <3>0. ~(n > capacity)
      BY <2>2, <2>4, Zenon
    <3>1. length' \in 0..capacity' /\ capacity' \in Nat
      BY <2>1, <2>2, <3>0 DEF Shape
    <3>2. cell' \in [0..capacity' - 1 -> Objects \cup {Raw}] /\ (~allocated' => capacity' = 0)
      BY <2>1, <2>2 DEF Shape
    <3> QED BY <3>1, <3>2 DEF Shape
  <2> QED BY <1>3, <2>3, <2>4 DEF SetLength, IInv, Flags
<1> QED BY <1>1, <1>2, <1>3

LEMMA ResizeKeeps ==
  ASSUME IInv, NEW n \in 0..MaxCapacity, ResizeTo(n)
  PROVE  IInv'
<1>0. n \in Nat
  BY VectorAssumption
<1>a. Shape
  BY DEF ResizeTo, IInv
<1>1. CASE ResizeDown(n)
  <2>1. Shape'
    BY <1>0, <1>a, <1>1 DEF ResizeDown, Shape
  <2>2. Flags'
    BY <1>1 DEF ResizeDown, IInv, Flags
  <2>3. ~careless' => ~overrun' /\ Living'
    BY <1>0, <1>a, <1>1 DEF ResizeDown, IInv, Shape, Living
  <2> QED BY <2>1, <2>2, <2>3, Afterwards
<1>2. CASE ResizeUp(n)
  <2> DEFINE d == n - length
  <2>1. Shape /\ d \in Nat
    BY <1>0, <1>a, <1>2 DEF ResizeUp, Shape
  <2>2. /\ capacity' = CapacityFor(d)
        /\ allocated' = (allocated \/ length + d > capacity)
        /\ cell' = Reallocated(d)
        /\ length' = length /\ overrun' = overrun /\ careless' = careless
    BY <1>2 DEF ResizeUp, Reallocate
  <2> HIDE DEF d
  <2>3. /\ CapacityFor(d) \in Nat /\ capacity <= CapacityFor(d)
        /\ ~(allocated \/ length + d > capacity) => CapacityFor(d) = 0
    BY <2>1, ReallocationGrows
  <2>4. /\ Reallocated(d) \in [0..CapacityFor(d) - 1 -> Objects \cup {Raw}]
        /\ Living => \A i \in 0..CapacityFor(d) - 1 : Reallocated(d)[i] # Raw <=> i < length
    BY <2>1, ReallocationKeeps
  <2>5. Shape'
    <3>1. capacity' \in Nat /\ length' \in 0..capacity'
      BY <2>1, <2>2, <2>3 DEF Shape
    <3>2. ~allocated' => capacity' = 0
      BY <2>2, <2>3
    <3> QED BY <2>2, <2>4, <3>1, <3>2 DEF Shape
  <2>6. Flags'
    BY <2>2 DEF Flags, IInv
  <2>7. ~careless' => ~overrun' /\ Living'
    BY <2>2, <2>4 DEF IInv, Living
  <2> QED BY <2>5, <2>6, <2>7, Afterwards
<1> QED BY <1>1, <1>2 DEF ResizeTo

LEMMA AssignKeeps ==
  ASSUME IInv, NEW n \in Sources, NEW s \in [1..n -> Objects], Assign(s)
  PROVE  IInv'
<1>1. Len(s) = n /\ n \in Nat
  BY VectorAssumption
<1>2. Shape'
  BY <1>1 DEF Assign, Shape
<1>3. Flags'
  BY DEF Assign, Flags, IInv
<1>4. ~careless' => ~overrun' /\ Living'
  BY <1>1, VectorAssumption DEF Assign, Living, IInv
<1> QED BY <1>2, <1>3, <1>4, Afterwards

-----------------------------------------------------------------------------

LEMMA InitIInv == VectorInit => IInv
<1> SUFFICES ASSUME VectorInit PROVE IInv
  OBVIOUS
<1>1. capacity \in Nat /\ (~allocated => capacity = 0)
  <2>1. CASE capacity = 0 /\ allocated = FALSE
    BY <2>1
  <2>2. CASE capacity \in Starts /\ allocated = TRUE
    <3>1. capacity \in Nat
      BY <2>2, VectorAssumption
    <3> QED BY <2>2, <3>1
  <2> QED BY <2>1, <2>2 DEF VectorInit
<1>2. length = 0 /\ cell = [i \in 0..capacity - 1 |-> Raw]
  BY DEF VectorInit
<1>3. Flags /\ ~overrun
  BY DEF VectorInit, Flags
<1> QED BY <1>1, <1>2, <1>3 DEF IInv, Wide, Shape, Living

LEMMA NextIInv == IInv /\ [VectorNext]_vectorVars => IInv'
<1> SUFFICES ASSUME IInv, [VectorNext]_vectorVars PROVE IInv'
  OBVIOUS
<1> USE VectorAssumption
<1>1. ASSUME NEW v \in Objects, EmplaceBack(v) PROVE IInv'
  <2>1. <<v>> \in Seq(Objects) /\ ~overrun /\ AddBack(<<v>>)
    BY <1>1 DEF EmplaceBack
  <2> QED BY <2>1, AddBackKeeps
<1>2. ASSUME NEW v \in Objects, NEW i \in 0..length, InsertObject(i, v) PROVE IInv'
  BY <1>2, InsertKeeps
<1>3. ASSUME NEW n \in Groups, NEW v \in Objects, EmplaceGroup(n, v) PROVE IInv'
  <2>1. [i \in 1..n |-> v] \in Seq(Objects)
    OBVIOUS
  <2> QED BY <1>3, <2>1, AddBackKeeps DEF EmplaceGroup
<1>4. ASSUME NEW n \in Groups, NEW s \in [1..n -> Objects], PushBack(s) PROVE IInv'
  <2>1. s \in Seq(Objects)
    OBVIOUS
  <2> QED BY <1>4, <2>1, AddBackKeeps DEF PushBack
<1>5. ASSUME NEW i \in 0..length - 1, Pop(i) PROVE IInv'
  BY <1>5, PopKeeps
<1>6. CASE \/ PopBack
           \/ \E i \in 0..length - 1, n \in Groups : PopRange(i, n)
           \/ \E n \in 0..MaxCapacity : SetLength(n)
  BY <1>6, CarelessKeeps
<1>7. ASSUME NEW n \in 0..MaxCapacity, ResizeTo(n) PROVE IInv'
  BY <1>7, ResizeKeeps
<1>8. ASSUME NEW n \in Sources, NEW s \in [1..n -> Objects], Assign(s) PROVE IInv'
  BY <1>8, AssignKeeps
<1>9. CASE UNCHANGED vectorVars
  BY <1>9 DEF vectorVars, IInv, Wide, Shape, Flags, Living
<1> QED
  BY <1>1, <1>2, <1>3, <1>4, <1>5, <1>6, <1>7, <1>8, <1>9 DEF VectorNext

\* No method leaves the allocation, and exactly the first `length' cells hold
\* objects, as long as the owner is not careless: tryReallocate, Insert, Pop,
\* Resize and copy assignment, from any first capacity, also none.
THEOREM MemorySafe == VectorSpec => [](VectorTypeOK /\ NoOverrun /\ ExactlyTheLiving)
<1>1. VectorInit => IInv  BY InitIInv
<1>2. IInv /\ [VectorNext]_vectorVars => IInv'  BY NextIInv
<1>3. IInv => VectorTypeOK /\ NoOverrun /\ ExactlyTheLiving
  BY DEF IInv, Wide, Shape, Flags, Living, VectorTypeOK, NoOverrun, ExactlyTheLiving
<1> QED BY <1>1, <1>2, <1>3, PTL DEF VectorSpec

-----------------------------------------------------------------------------
(* The vector as a list.                                                   *)

Cells == Objects \cup {Raw}

\* The first n of some cells are a sequence.
LEMMA ListOfCells ==
  ASSUME NEW cap \in Nat, NEW n \in 0..cap, NEW c \in [0..cap - 1 -> Cells]
  PROVE  /\ [i \in 1..n |-> c[i - 1]] \in Seq(Cells)
         /\ Len([i \in 1..n |-> c[i - 1]]) = n
<1> DEFINE l == [i \in 1..n |-> c[i - 1]]
<1>1. l \in [1..n -> Cells]
  OBVIOUS
<1>2. l \in Seq(Cells)
  BY <1>1, SeqDef
<1> QED BY <1>1, <1>2, LenProperties

\* A sequence that begins with a and goes on with b.
LEMMA Joined ==
  ASSUME NEW S, NEW t \in Seq(S), NEW a \in Seq(S), NEW b \in Seq(S),
         Len(t) = Len(a) + Len(b),
         \A k \in 1..Len(t) : t[k] = IF k <= Len(a) THEN a[k] ELSE b[k - Len(a)]
  PROVE  t = a \o b
<1>1. a \o b \in Seq(S) /\ Len(a \o b) = Len(t)
  BY ConcatProperties
<1>2. \A k \in 1..Len(t) : (a \o b)[k] = t[k]
  BY ConcatProperties
<1> QED BY <1>1, <1>2, SeqEqual

\* The parts of a sequence up to i and from j on.
LEMMA Parts ==
  ASSUME NEW S, NEW s \in Seq(S), NEW i \in 0..Len(s), NEW j \in 1..Len(s) + 1
  PROVE  /\ SubSeq(s, 1, i) \in Seq(S) /\ Len(SubSeq(s, 1, i)) = i
         /\ \A k \in 1..i : SubSeq(s, 1, i)[k] = s[k]
         /\ SubSeq(s, j, Len(s)) \in Seq(S) /\ Len(SubSeq(s, j, Len(s))) = Len(s) - j + 1
         /\ \A k \in 1..Len(s) - j + 1 : SubSeq(s, j, Len(s))[k] = s[j + k - 1]
<1>1. Len(s) \in Nat /\ \A k \in 1..Len(s) : s[k] \in S
  BY ElementOfSeq, LenProperties
<1>2. /\ SubSeq(s, 1, i) \in Seq(S) /\ Len(SubSeq(s, 1, i)) = i
      /\ \A k \in 1..i : SubSeq(s, 1, i)[k] = s[k]
  BY <1>1, SubSeqProperties
<1>3. \A k \in j..Len(s) : s[k] \in S
  BY <1>1
<1>4. /\ SubSeq(s, j, Len(s)) \in Seq(S)
      /\ Len(SubSeq(s, j, Len(s))) = IF j <= Len(s) THEN Len(s) - j + 1 ELSE 0
      /\ \A k \in 1..Len(s) - j + 1 : SubSeq(s, j, Len(s))[k] = s[j + k - 1]
  BY <1>1, <1>3, SubSeqProperties
<1> QED BY <1>1, <1>2, <1>4

\* A sequence without the elements between i and j.
LEMMA Cut ==
  ASSUME NEW S, NEW s \in Seq(S), NEW t \in Seq(S), NEW i \in 0..Len(s), NEW j \in i..Len(s),
         Len(t) = Len(s) - (j - i),
         \A k \in 1..Len(t) : t[k] = IF k <= i THEN s[k] ELSE s[k + (j - i)]
  PROVE  t = SubSeq(s, 1, i) \o SubSeq(s, j + 1, Len(s))
<1> DEFINE a == SubSeq(s, 1, i)
           b == SubSeq(s, j + 1, Len(s))
<1>1. Len(s) \in Nat /\ j + 1 \in 1..Len(s) + 1
  BY LenProperties
<1>2. /\ a \in Seq(S) /\ Len(a) = i /\ \A k \in 1..i : a[k] = s[k]
      /\ b \in Seq(S) /\ Len(b) = Len(s) - j
      /\ \A k \in 1..Len(s) - j : b[k] = s[j + k]
  BY <1>1, Parts
<1> HIDE DEF a, b
<1>3. \A k \in 1..Len(t) : t[k] = IF k <= Len(a) THEN a[k] ELSE b[k - Len(a)]
  <2> SUFFICES ASSUME NEW k \in 1..Len(t) PROVE t[k] = IF k <= i THEN a[k] ELSE b[k - i]
    BY <1>2
  <2>1. CASE k <= i
    BY <1>1, <1>2, <2>1
  <2>2. CASE k > i
    <3>1. k - i \in 1..Len(s) - j /\ j + (k - i) = k + (j - i) /\ ~(k <= i)
      BY <1>1, <2>2
    <3>2. b[k - i] = s[j + (k - i)]
      BY <1>2, <3>1
    <3>3. t[k] = s[k + (j - i)]
      BY <3>1
    <3> QED BY <3>1, <3>2, <3>3
  <2> QED BY <1>1, <2>1, <2>2
<1>4. Len(t) = Len(a) + Len(b)
  BY <1>1, <1>2
<1>5. t = a \o b
  BY <1>2, <1>3, <1>4, Joined
<1> QED BY <1>5 DEF a, b

\* t has v after the first i elements of s.
Inserts(t, s, i, v) ==
  \A k \in 1..Len(t) : t[k] = IF k <= i THEN s[k] ELSE IF k = i + 1 THEN v ELSE s[k - 1]

LEMMA Inserted ==
  ASSUME NEW S, NEW s \in Seq(S), NEW t \in Seq(S), NEW i \in 0..Len(s), NEW v \in S,
         NEW one, one = <<v>>,
         Len(t) = Len(s) + 1, Inserts(t, s, i, v)
  PROVE  t = SubSeq(s, 1, i) \o one \o SubSeq(s, i + 1, Len(s))
<1> DEFINE a == SubSeq(s, 1, i)
           m == a \o one
           b == SubSeq(s, i + 1, Len(s))
<1>1. Len(s) \in Nat /\ i + 1 \in 1..Len(s) + 1
  BY LenProperties
<1>2. /\ a \in Seq(S) /\ Len(a) = i /\ \A k \in 1..i : a[k] = s[k]
      /\ b \in Seq(S) /\ Len(b) = Len(s) - i
      /\ \A k \in 1..Len(s) - i : b[k] = s[i + k]
  BY <1>1, Parts
<1>3. one \in Seq(S) /\ Len(one) = 1 /\ one[1] = v
  OBVIOUS
<1> HIDE DEF a, b
<1>4. /\ m \in Seq(S) /\ Len(m) = i + 1
      /\ \A k \in 1..i + 1 : m[k] = IF k <= i THEN a[k] ELSE one[k - i]
  BY <1>2, <1>3, ConcatProperties
<1> HIDE DEF m
<1>5. \A k \in 1..Len(t) : t[k] = IF k <= Len(m) THEN m[k] ELSE b[k - Len(m)]
  <2> SUFFICES ASSUME NEW k \in 1..Len(t) PROVE t[k] = IF k <= i + 1 THEN m[k] ELSE b[k - (i + 1)]
    BY <1>4
  <2> USE DEF Inserts
  <2>1. CASE k <= i
    BY <1>1, <1>2, <1>4, <2>1
  <2>2. CASE k = i + 1
    <3>1. m[k] = one[1]
      BY <1>1, <1>4, <2>2
    <3> QED BY <1>1, <1>3, <2>2, <3>1
  <2>3. CASE k > i + 1
    <3>1. k - (i + 1) \in 1..Len(s) - i /\ i + (k - (i + 1)) = k - 1 /\ ~(k <= i + 1)
      BY <1>1, <2>3
    <3>2. b[k - (i + 1)] = s[i + (k - (i + 1))]
      BY <1>2, <3>1
    <3>3. t[k] = s[k - 1]
      BY <1>1, <2>3
    <3> QED BY <3>1, <3>2, <3>3
  <2> QED BY <1>1, <2>1, <2>2, <2>3
<1>6. Len(t) = Len(m) + Len(b)
  BY <1>1, <1>2, <1>4
<1>7. t = m \o b
  BY <1>2, <1>4, <1>5, <1>6, Joined
<1> QED BY <1>7 DEF a, b, m

\* The contents, before and after a step.
LEMMA ContentsAre ==
  ASSUME Shape
  PROVE  /\ List \in Seq(Cells) /\ Len(List) = length
         /\ \A k \in 1..length : List[k] = cell[k - 1]
<1>1. capacity \in Nat /\ length \in 0..capacity /\ cell \in [0..capacity - 1 -> Cells]
  BY DEF Shape, Cells
<1>2. \A k \in 1..length : List[k] = cell[k - 1]
  BY DEF List
<1> QED BY <1>1, <1>2, ListOfCells DEF List

LEMMA ContentsBecome ==
  ASSUME Shape'
  PROVE  /\ List' \in Seq(Cells) /\ Len(List') = length'
         /\ \A k \in 1..length' : List'[k] = cell'[k - 1]
<1>1. capacity' \in Nat /\ length' \in 0..capacity' /\ cell' \in [0..capacity' - 1 -> Cells]
  BY DEF Shape, Cells
<1>2. \A k \in 1..length' : List'[k] = cell'[k - 1]
  BY DEF List
<1> QED BY <1>1, <1>2, ListOfCells DEF List

\* A reallocation moves the objects to the same places.
LEMMA ReallocationMoves ==
  ASSUME Shape, NEW n \in Nat
  PROVE  /\ DOMAIN Reallocated(n) = 0..CapacityFor(n) - 1
         /\ \A k \in 0..length - 1 : Reallocated(n)[k] = cell[k]
<1>1. Reallocated(n) \in [0..CapacityFor(n) - 1 -> Objects \cup {Raw}]
  BY ReallocationKeeps
<1>2. /\ CapacityFor(n) \in Nat /\ capacity <= CapacityFor(n)
      /\ capacity \in Nat /\ length \in Nat /\ length <= capacity
  BY ReallocationGrows DEF Shape
<1>3. ASSUME NEW k \in 0..length - 1
      PROVE  Reallocated(n)[k] = cell[k]
  <2>1. k \in 0..CapacityFor(n) - 1 /\ k < length
    BY <1>2
  <2> QED BY <2>1 DEF Reallocated, Block
<1> QED BY <1>1, <1>3

LEMMA AddBackAppends ==
  ASSUME Shape, Shape', NEW objects \in Seq(Objects), AddBack(objects), ~overrun'
  PROVE  List' = List \o objects
<1> DEFINE n == Len(objects)
<1>1. n \in Nat /\ length \in Nat /\ objects \in Seq(Cells)
  BY SeqMonotonic DEF Shape, Cells
<1>2. length' = length + n /\ length + n <= CapacityFor(n)
  BY DEF AddBack
<1>3. \A k \in DOMAIN Reallocated(n) :
        cell'[k] = IF k \in length..length + n - 1 THEN objects[k - length + 1] ELSE Reallocated(n)[k]
  BY <1>2 DEF AddBack, Reallocate
<1>4. CapacityFor(n) \in Nat
  BY <1>1, ReallocationGrows
<1>5. ASSUME NEW k \in 1..length + n
      PROVE  List'[k] = IF k <= length THEN List[k] ELSE objects[k - length]
  <2>1. k \in 1..length' /\ List'[k] = cell'[k - 1]
    BY <1>2, ContentsBecome
  <2>2. k - 1 \in DOMAIN Reallocated(n)
    BY <1>1, <1>2, <1>4, ReallocationMoves
  <2>3. CASE k <= length
    <3>1. k - 1 \in 0..length - 1 /\ k - 1 \notin length..length + n - 1 /\ k \in 1..length
      BY <1>1, <2>3
    <3>2. Reallocated(n)[k - 1] = cell[k - 1] /\ List[k] = cell[k - 1]
      BY <1>1, <3>1, ReallocationMoves, ContentsAre
    <3> QED BY <1>3, <2>1, <2>2, <2>3, <3>1, <3>2
  <2>4. CASE k > length
    <3>1. k - 1 \in length..length + n - 1 /\ (k - 1) - length + 1 = k - length /\ ~(k <= length)
      BY <1>1, <2>4
    <3> QED BY <1>3, <2>1, <2>2, <3>1
  <2> QED BY <1>1, <2>3, <2>4
<1> HIDE DEF n
<1>6. Len(List') = Len(List) + n /\ Len(List) = length
  BY <1>2, ContentsAre, ContentsBecome
<1>7. \A k \in 1..Len(List') :
        List'[k] = IF k <= Len(List) THEN List[k] ELSE objects[k - Len(List)]
  BY <1>5, <1>6
<1> QED BY <1>1, <1>6, <1>7, ContentsAre, ContentsBecome, Joined DEF n

LEMMA InsertInserts ==
  ASSUME Shape, Shape', NEW v \in Objects, NEW i \in 0..length, InsertObject(i, v), ~overrun'
  PROVE  List' = SubSeq(List, 1, i) \o <<v>> \o SubSeq(List, i + 1, length)
<1>1. length \in Nat /\ 1 \in Nat
  BY DEF Shape
<1>2. length' = length + 1 /\ length < CapacityFor(1) /\ CapacityFor(1) \in Nat
  BY <1>1, ReallocationGrows DEF InsertObject
<1>3. ASSUME NEW k \in DOMAIN Reallocated(1)
      PROVE  cell'[k] = IF k < i \/ k > length THEN Reallocated(1)[k]
                        ELSE IF k = i THEN v ELSE Reallocated(1)[k - 1]
  <2>1. k \in Int /\ i \in Int /\ i <= length
    BY <1>1, <1>2, ReallocationMoves
  <2> QED BY <1>1, <1>2, <2>1 DEF InsertObject, Reallocate
<1>4. ASSUME NEW k \in 1..length + 1
      PROVE  List'[k] = IF k <= i THEN List[k]
                            ELSE IF k = i + 1 THEN v ELSE List[k - 1]
  <2>1. k \in 1..length' /\ List'[k] = cell'[k - 1]
    BY <1>2, ContentsBecome
  <2>2. k - 1 \in DOMAIN Reallocated(1) /\ ~(k - 1 > length)
    BY <1>1, <1>2, ReallocationMoves
  <2>3. CASE k <= i
    <3>1. k - 1 \in 0..length - 1 /\ k - 1 < i /\ k \in 1..length
      BY <1>1, <2>3
    <3>2. Reallocated(1)[k - 1] = cell[k - 1] /\ List[k] = cell[k - 1]
      BY <1>1, <3>1, ReallocationMoves, ContentsAre
    <3> QED BY <1>3, <2>1, <2>2, <2>3, <3>1, <3>2
  <2>4. CASE k = i + 1
    <3>1. k - 1 = i /\ ~(k - 1 < i) /\ ~(k <= i)
      BY <1>1, <2>4
    <3> QED BY <1>3, <2>1, <2>2, <2>4, <3>1
  <2>5. CASE k > i + 1
    <3>1. /\ (k - 1) - 1 \in 0..length - 1 /\ k - 1 \in 1..length
          /\ ~(k - 1 < i) /\ k - 1 # i /\ ~(k <= i) /\ k # i + 1
      BY <1>1, <2>5
    <3>2. Reallocated(1)[(k - 1) - 1] = cell[(k - 1) - 1] /\ List[k - 1] = cell[(k - 1) - 1]
      BY <1>1, <3>1, ReallocationMoves, ContentsAre
    <3> QED BY <1>3, <2>1, <2>2, <3>1, <3>2
  <2> QED BY <1>1, <2>3, <2>4, <2>5
<1>5. v \in Cells /\ Len(List) = length /\ Len(List') = length + 1
  BY <1>2, ContentsAre, ContentsBecome DEF Cells
<1>6. i \in 0..Len(List) /\ Inserts(List', List, i, v)
  BY <1>4, <1>5 DEF Inserts
<1>7. List \in Seq(Cells) /\ List' \in Seq(Cells) /\ Len(List') = Len(List) + 1
  BY <1>5, ContentsAre, ContentsBecome
<1> DEFINE one == <<v>>
<1>8. one = <<v>>
  OBVIOUS
<1> HIDE DEF one
<1>9. List' = SubSeq(List, 1, i) \o one \o SubSeq(List, i + 1, Len(List))
  BY <1>5, <1>6, <1>7, <1>8, Inserted
<1> QED BY <1>5, <1>8, <1>9

\* A method that leaves the objects before i, and moves those from j on down to i.
LEMMA CellsCut ==
  ASSUME Shape, Shape', NEW i \in 0..length, NEW j \in i..length,
         length' = length - (j - i),
         \A k \in 0..length' - 1 : cell'[k] = IF k < i THEN cell[k] ELSE cell[k + (j - i)]
  PROVE  List' = SubSeq(List, 1, i) \o SubSeq(List, j + 1, length)
<1>1. length \in Nat /\ length' \in Nat
  BY DEF Shape
<1>2. ASSUME NEW k \in 1..length'
      PROVE  List'[k] = IF k <= i THEN List[k] ELSE List[k + (j - i)]
  <2>1. k - 1 \in 0..length' - 1 /\ List'[k] = cell'[k - 1]
    BY <1>1, ContentsBecome
  <2>2. CASE k <= i
    <3>1. k \in 1..length /\ k - 1 < i
      BY <1>1, <2>2
    <3>2. List[k] = cell[k - 1]
      BY <3>1, ContentsAre
    <3> QED BY <2>1, <2>2, <3>1, <3>2
  <2>3. CASE k > i
    <3>1. /\ k + (j - i) \in 1..length /\ ~(k - 1 < i) /\ ~(k <= i)
          /\ (k - 1) + (j - i) = k + (j - i) - 1
      BY <1>1, <2>3
    <3>2. List[k + (j - i)] = cell[k + (j - i) - 1]
      BY <3>1, ContentsAre
    <3> QED BY <2>1, <3>1, <3>2
  <2> QED BY <1>1, <2>2, <2>3
<1>3. Len(List) = length /\ Len(List') = length - (j - i)
  BY ContentsAre, ContentsBecome
<1>4. /\ i \in 0..Len(List) /\ j \in i..Len(List)
      /\ \A k \in 1..Len(List') :
           List'[k] = IF k <= i THEN List[k] ELSE List[k + (j - i)]
      /\ Len(List') = Len(List) - (j - i)
  <2>1. Len(List') = length'
    BY <1>3
  <2> QED BY <1>2, <1>3, <2>1
<1>5. List \in Seq(Cells) /\ List' \in Seq(Cells)
  BY ContentsAre, ContentsBecome
<1>6. List' = SubSeq(List, 1, i) \o SubSeq(List, j + 1, Len(List))
  BY <1>4, <1>5, Cut
<1> QED BY <1>3, <1>6

\* A method that leaves the first n objects and no others.
LEMMA CellsKept ==
  ASSUME Shape, Shape', NEW n \in 0..length, length' = n,
         \A k \in 0..n - 1 : cell'[k] = cell[k]
  PROVE  List' = SubSeq(List, 1, n)
<1>1. length \in Nat
  BY DEF Shape
<1>2. ASSUME NEW k \in 1..n
      PROVE  List'[k] = List[k]
  <2>1. k \in 1..length /\ k - 1 \in 0..n - 1
    BY <1>1
  <2> QED BY <2>1, ContentsAre, ContentsBecome
<1>3. /\ SubSeq(List, 1, n) \in Seq(Cells) /\ Len(SubSeq(List, 1, n)) = n
      /\ \A k \in 1..n : SubSeq(List, 1, n)[k] = List[k]
  <2>1. List \in Seq(Cells) /\ n \in 0..Len(List) /\ Len(List) + 1 \in 1..Len(List) + 1
    BY <1>1, ContentsAre
  <2> QED BY <2>1, Parts
<1> QED BY <1>2, <1>3, ContentsBecome, SeqEqual

LEMMA RemovalsCut ==
  ASSUME Shape, Shape', ~overrun', NEW i \in 0..length - 1
  PROVE  /\ Pop(i) => List' = SubSeq(List, 1, i) \o SubSeq(List, i + 2, length)
         /\ \A n \in Groups : PopRange(i, n) /\ length <= i + 2 * n =>
              List' = SubSeq(List, 1, i) \o SubSeq(List, i + n + 1, length)
<1>1. /\ length \in Nat /\ capacity \in Nat /\ length <= capacity /\ i \in Nat /\ i + 1 <= length
      /\ DOMAIN cell = 0..capacity - 1
  BY DEF Shape
<1>2. ASSUME Pop(i)
      PROVE  List' = SubSeq(List, 1, i) \o SubSeq(List, i + 2, length)
  <2>1. length' = length - ((i + 1) - i) /\ i \in 0..length /\ i + 1 \in i..length
    BY <1>1, <1>2 DEF Pop
  <2>2. ASSUME NEW k \in 0..length' - 1
        PROVE  cell'[k] = IF k < i THEN cell[k] ELSE cell[k + ((i + 1) - i)]
    <3>1. /\ k \in 0..capacity - 1 /\ k # length - 1 /\ k + ((i + 1) - i) = k + 1
          /\ (k \in i..length - 2 <=> ~(k < i))
      BY <1>1, <2>1
    <3> QED BY <1>1, <1>2, <3>1 DEF Pop
  <2>3. List' = SubSeq(List, 1, i) \o SubSeq(List, (i + 1) + 1, length)
    BY <2>1, <2>2, CellsCut
  <2>4. (i + 1) + 1 = i + 2
    BY <1>1
  <2> QED BY <2>3, <2>4
<1>3. ASSUME NEW n \in Groups, PopRange(i, n), length <= i + 2 * n
      PROVE  List' = SubSeq(List, 1, i) \o SubSeq(List, i + n + 1, length)
  <2>1. n \in Nat /\ i + n <= length /\ length' = length - n
    BY <1>3, VectorAssumption DEF PopRange
  <2>2. length' = length - ((i + n) - i) /\ i \in 0..length /\ i + n \in i..length
    BY <1>1, <2>1
  <2>3. ASSUME NEW k \in 0..length' - 1
        PROVE  cell'[k] = IF k < i THEN cell[k] ELSE cell[k + ((i + n) - i)]
    <3>1. /\ k \in 0..capacity - 1 /\ k + n < capacity /\ k + ((i + n) - i) = k + n
          /\ (k \in i..i + n - 1 <=> ~(k < i))
      BY <1>1, <1>3, <2>1
    <3> QED BY <1>1, <1>3, <3>1 DEF PopRange
  <2>4. List' = SubSeq(List, 1, i) \o SubSeq(List, (i + n) + 1, length)
    BY <2>2, <2>3, CellsCut
  <2> QED BY <2>4
<1> QED BY <1>2, <1>3

LEMMA ResizesKeep ==
  ASSUME Shape, Shape'
  PROVE  /\ PopBack => List' = SubSeq(List, 1, length - 1)
         /\ \A n \in 0..MaxCapacity : ResizeTo(n) =>
              List' = IF n < length THEN SubSeq(List, 1, n) ELSE List
<1>1. /\ length \in Nat /\ capacity \in Nat /\ length <= capacity
      /\ DOMAIN cell = 0..capacity - 1
  BY DEF Shape
<1>2. ASSUME PopBack
      PROVE  List' = SubSeq(List, 1, length - 1)
  <2>1. length - 1 \in 0..length /\ length' = length - 1
    BY <1>1, <1>2 DEF PopBack
  <2>2. \A k \in 0..(length - 1) - 1 : cell'[k] = cell[k]
    BY <1>1, <1>2 DEF PopBack
  <2> QED BY <2>1, <2>2, CellsKept
<1>3. SubSeq(List, 1, length) = List
  BY ContentsAre, SubSeqFull
<1>4. ASSUME NEW n \in 0..MaxCapacity, ResizeTo(n)
      PROVE  List' = IF n < length THEN SubSeq(List, 1, n) ELSE List
  <2>1. n \in Nat
    BY VectorAssumption
  <2>2. CASE ResizeDown(n)
    <3>1. n \in 0..length /\ length' = n
      BY <1>1, <2>1, <2>2 DEF ResizeDown
    <3>2. \A k \in 0..n - 1 : cell'[k] = cell[k]
      BY <1>1, <2>1, <2>2, <3>1 DEF ResizeDown
    <3>3. List' = SubSeq(List, 1, n)
      BY <3>1, <3>2, CellsKept
    <3>4. CASE n < length
      BY <3>3, <3>4
    <3>5. CASE n = length
      BY <1>1, <1>3, <3>3, <3>5
    <3> QED BY <1>1, <3>1, <3>4, <3>5
  <2>3. CASE ResizeUp(n)
    <3>1. n - length \in Nat /\ length \in 0..length /\ length' = length /\ ~(n < length)
      BY <1>1, <2>1, <2>3 DEF ResizeUp
    <3>2. cell' = Reallocated(n - length)
      BY <2>3 DEF ResizeUp, Reallocate
    <3>3. \A k \in 0..length - 1 : cell'[k] = cell[k]
      BY <3>1, <3>2, ReallocationMoves
    <3>4. List' = SubSeq(List, 1, length)
      BY <3>1, <3>3, CellsKept
    <3> QED BY <1>3, <3>1, <3>4
  <2> QED BY <1>4, <2>2, <2>3 DEF ResizeTo
<1> QED BY <1>2, <1>4

\* Every method that stays within the memory does to the contents what it does to a list:
\* appends at the end, inserts at and removes from the index it is given, cuts off the
\* end, and leaves all other objects in their order.
THEOREM StepsOfAList == VectorSpec => ActsAsList
<1>1. IInv /\ [VectorNext]_vectorVars => [ListStep]_vectorVars
  <2> SUFFICES ASSUME IInv, [VectorNext]_vectorVars PROVE ListStep
    OBVIOUS
  <2>1. IInv'
    BY NextIInv
  <2> SUFFICES ASSUME ~overrun' PROVE ListStep
    BY DEF ListStep
  <2>a. ~overrun
    <3>1. CASE VectorNext
      BY <3>1 DEF VectorNext, EmplaceBack, InsertObject, EmplaceGroup, PushBack, Pop,
                  PopRange, PopBack, ResizeTo, SetLength, Assign
    <3>2. CASE UNCHANGED vectorVars
      BY <3>2 DEF vectorVars
    <3> QED BY <3>1, <3>2
  <2>2. Shape /\ Shape'
    BY <2>a, <2>1 DEF IInv
  <2>3. ASSUME NEW v \in Objects, EmplaceBack(v) PROVE List' = Append(List, v)
    <3>1. <<v>> \in Seq(Objects) /\ AddBack(<<v>>)
      BY <2>3 DEF EmplaceBack
    <3>2. List' = List \o <<v>>
      BY <2>2, <3>1, AddBackAppends
    <3>3. List \in Seq(Cells) /\ v \in Cells
      BY <2>2, ContentsAre DEF Cells
    <3> QED BY <3>2, <3>3, AppendIsConcat
  <2>4. ASSUME NEW v \in Objects, NEW i \in 0..length, InsertObject(i, v)
        PROVE  List' = SubSeq(List, 1, i) \o <<v>> \o SubSeq(List, i + 1, length)
    BY <2>2, <2>4, InsertInserts
  <2>5. ASSUME NEW n \in Groups, NEW s \in [1..n -> Objects], PushBack(s)
        PROVE  List' = List \o s
    <3>1. s \in Seq(Objects) /\ AddBack(s)
      BY <2>5, VectorAssumption, SeqDef DEF PushBack
    <3> QED BY <2>2, <3>1, AddBackAppends
  <2>6. ASSUME NEW i \in 0..length - 1
        PROVE  /\ Pop(i) => List' = SubSeq(List, 1, i) \o SubSeq(List, i + 2, length)
               /\ \A n \in Groups : PopRange(i, n) /\ length <= i + 2 * n =>
                    List' = SubSeq(List, 1, i) \o SubSeq(List, i + n + 1, length)
    BY <2>2, RemovalsCut
  <2>7. /\ PopBack => List' = SubSeq(List, 1, length - 1)
        /\ \A n \in 0..MaxCapacity : ResizeTo(n) =>
             List' = IF n < length THEN SubSeq(List, 1, n) ELSE List
    BY <2>2, ResizesKeep
  <2> QED BY <2>3, <2>4, <2>5, <2>6, <2>7 DEF ListStep
<1> QED BY <1>1, InitIInv, NextIInv, PTL DEF VectorSpec, ActsAsList
=============================================================================
