----------------------------- MODULE LibraryProofs -----------------------------
(* Machine-checked proofs about the components of LibraryCore, for any       *)
(* values of their constants.                                              *)
EXTENDS LibraryCore, FiniteSetTheorems, WellFoundedInduction, TLAPS

\* The values the variables range over.
PointersTyped ==
  /\ alive \subseteq Pointers
  /\ data \in [Pointers -> Objects \cup {Null}]
  /\ allocator \in [Pointers -> Allocators \cup {Null}]
  /\ home \in [Objects -> Allocators \cup {Null}]
  /\ freed \subseteq {o \in Objects : home[o] # Null}

\* A pointer that is not constructed holds nothing, and no two hold the same object.
Sole ==
  /\ \A p \in Pointers : data[p] # Null => p \in alive
  /\ \A p, q \in Pointers : data[p] = data[q] /\ data[p] # Null => p = q

\* The objects that are held are those constructed and not given back.
Held ==
  /\ \A p \in Pointers : data[p] # Null => home[data[p]] # Null /\ data[p] \notin freed
  /\ \A o \in Objects : home[o] # Null /\ o \notin freed => \E p \in Pointers : data[p] = o

\* Who holds an object has its allocator.
AtHome == \A p \in Pointers : data[p] # Null /\ data[p] \notin mixed => allocator[p] = home[data[p]]

OwnerInv == PointersTyped /\ Sole /\ Held /\ AtHome

\* p takes what q holds, and what p held is given back: both assignments, of different
\* pointers.
LEMMA HandingOver ==
  ASSUME Null \notin Objects, PointersTyped, Sole, Held, NEW p \in alive, NEW q \in alive, p # q,
         freed' = freed \cup S!Released(p), data' = [data EXCEPT ![p] = data[q], ![q] = Null],
         UNCHANGED <<alive, home>>
  PROVE  /\ data' \in [Pointers -> Objects \cup {Null}]
         /\ freed' \subseteq {o \in Objects : home'[o] # Null}
         /\ Sole' /\ Held'
<1> USE DEF PointersTyped
<1>1. p \in Pointers /\ q \in Pointers
  OBVIOUS
<1>2. data' \in [Pointers -> Objects \cup {Null}]
  BY <1>1
<1>3. data'[p] = data[q] /\ data'[q] = Null /\ \A r \in Pointers : r # p /\ r # q => data'[r] = data[r]
  BY <1>1
<1>4. freed' \subseteq {o \in Objects : home'[o] # Null}
  BY <1>1 DEF S!Released, Held
<1>5. Sole'
  BY <1>1, <1>3 DEF Sole
<1>6. Held'
  <2>1. ASSUME NEW r \in Pointers, data'[r] # Null
        PROVE  home'[data'[r]] # Null /\ data'[r] \notin freed'
    BY <1>1, <1>3, <2>1 DEF Held, Sole, S!Released
  <2>2. ASSUME NEW o \in Objects, home'[o] # Null, o \notin freed'
        PROVE  \E r \in Pointers : data'[r] = o
    <3>1. PICK r \in Pointers : data[r] = o
      BY <2>2 DEF Held
    <3>2. r # p
      BY <2>2, <3>1 DEF S!Released
    <3>3. CASE r = q
      BY <1>1, <1>3, <3>1, <3>3
    <3>4. CASE r # q
      BY <1>3, <3>1, <3>2, <3>4
    <3>5. QED
      BY <3>3, <3>4
  <2>3. QED
    BY <2>1, <2>2 DEF Held
<1>7. QED
  BY <1>2, <1>4, <1>5, <1>6

\* What p holds is given back: Free, Destroy, and the assignment of a pointer to itself.
LEMMA GivingBack ==
  ASSUME Null \notin Objects, OwnerInv, NEW p \in alive,
         freed' = freed \cup S!Released(p), data' = [data EXCEPT ![p] = Null],
         alive' \subseteq alive, alive \subseteq alive' \cup {p},
         UNCHANGED <<allocator, home, mixed>>
  PROVE  OwnerInv'
<1> USE DEF OwnerInv, PointersTyped
<1>1. p \in Pointers
  OBVIOUS
<1>2. data'[p] = Null /\ \A r \in Pointers : r # p => data'[r] = data[r]
  BY <1>1
<1>3. PointersTyped'
  BY <1>1 DEF S!Released, Held
<1>4. Sole'
  BY <1>1, <1>2 DEF Sole
<1>5. Held'
  BY <1>1, <1>2 DEF Held, Sole, S!Released
<1>6. AtHome'
  BY <1>2 DEF AtHome
<1>7. QED
  BY <1>3, <1>4, <1>5, <1>6

LEMMA Constructing ==
  ASSUME Null \notin Objects, Null \notin Allocators, OwnerInv,
         NEW p \in Pointers, NEW o \in Objects, NEW a \in Allocators, S!Construct(p, o, a)
  PROVE  OwnerInv'
<1> USE DEF OwnerInv, PointersTyped, S!Construct
<1>1. data'[p] = o /\ home'[o] = a /\ allocator'[p] = a
  OBVIOUS
<1>2. \A r \in Pointers : r # p => data'[r] = data[r] /\ allocator'[r] = allocator[r]
  OBVIOUS
<1>3. \A r \in Pointers : data[r] # o
  BY DEF Held
<1>4. \A x \in Objects : x # o => home'[x] = home[x]
  OBVIOUS
<1>5. PointersTyped'
  OBVIOUS
<1>6. Sole'
  BY <1>1, <1>2, <1>3 DEF Sole
<1>7. Held'
  <2>1. ASSUME NEW r \in Pointers, data'[r] # Null
        PROVE  home'[data'[r]] # Null /\ data'[r] \notin freed'
    BY <1>1, <1>2, <1>3, <1>4, <2>1 DEF Held
  <2>2. ASSUME NEW x \in Objects, home'[x] # Null, x \notin freed', x # o
        PROVE  \E r \in Pointers : data'[r] = x
    BY <1>1, <1>2, <1>4, <2>2 DEF Held, Sole
  <2>3. QED
    BY <1>1, <2>1, <2>2 DEF Held
<1>8. AtHome'
  BY <1>1, <1>2, <1>3, <1>4 DEF AtHome
<1>9. QED
  BY <1>5, <1>6, <1>7, <1>8

LEMMA Moving ==
  ASSUME Null \notin Objects, OwnerInv, NEW p \in Pointers, NEW q \in Pointers, S!Move(p, q)
  PROVE  OwnerInv'
<1> USE DEF OwnerInv, PointersTyped, S!Move
<1>1. p # q /\ data[p] = Null
  BY DEF Sole
<1>2. data'[p] = data[q] /\ data'[q] = Null /\ allocator'[p] = allocator[q]
  BY <1>1
<1>3. \A r \in Pointers : r # p /\ r # q => data'[r] = data[r] /\ allocator'[r] = allocator[r]
  OBVIOUS
<1>4. PointersTyped'
  OBVIOUS
<1>5. Sole'
  BY <1>1, <1>2, <1>3 DEF Sole
<1>6. Held'
  BY <1>1, <1>2, <1>3 DEF Held
<1>7. AtHome'
  BY <1>1, <1>2, <1>3 DEF AtHome
<1>8. QED
  BY <1>4, <1>5, <1>6, <1>7

\* The two assignments differ in the allocator that the target has after them.
LEMMA Assigning ==
  ASSUME Null \notin Objects, OwnerInv, NEW p \in Pointers, NEW q \in Pointers,
         S!Assign(p, q) \/ S!AssignConverted(p, q)
  PROVE  OwnerInv'
<1> USE DEF OwnerInv, PointersTyped
<1>1. CASE p = q
  <2>1. S!Assign(p, p)
    BY <1>1 DEF S!AssignConverted
  <2>2. data' = [data EXCEPT ![p] = Null] /\ allocator' = allocator
    BY <2>1 DEF S!Assign
  <2>3. QED
    BY <2>1, <2>2, GivingBack DEF S!Assign
<1>2. CASE p # q
  <2>1. /\ p \in alive /\ q \in alive /\ freed' = freed \cup S!Released(p)
        /\ data' = [data EXCEPT ![p] = data[q], ![q] = Null] /\ UNCHANGED <<alive, home>>
    BY <1>2 DEF S!Assign, S!AssignConverted
  <2>2. /\ data' \in [Pointers -> Objects \cup {Null}]
        /\ freed' \subseteq {o \in Objects : home'[o] # Null}
        /\ Sole' /\ Held'
    BY <1>2, <2>1, HandingOver
  <2>3. allocator' \in [Pointers -> Allocators \cup {Null}]
    BY DEF S!Assign, S!AssignConverted
  <2>4. AtHome'
    <3>1. \A r \in Pointers : data'[r] = IF r = p THEN data[q] ELSE IF r = q THEN Null ELSE data[r]
      BY <1>2, <2>1
    <3>2. CASE S!Assign(p, q)
      BY <2>1, <3>1, <3>2 DEF S!Assign, AtHome
    <3>3. CASE S!AssignConverted(p, q)
      BY <2>1, <3>1, <3>3 DEF S!AssignConverted, AtHome, S!Released
    <3>4. QED
      BY <3>2, <3>3
  <2>5. QED
    BY <2>1, <2>2, <2>3, <2>4
<1>3. QED
  BY <1>1, <1>2

\* OwnerInv is an inductive invariant of SmartPointer, and is what the property says.
LEMMA OwnerInvariant ==
  ASSUME Null \notin Objects, Null \notin Allocators
  PROVE  /\ S!Init => OwnerInv
         /\ OwnerInv /\ [S!Next]_(S!vars) => OwnerInv'
         /\ OwnerInv => S!OneOwnerItsAllocator
<1>1. S!Init => OwnerInv
  BY DEF S!Init, OwnerInv, PointersTyped, Sole, Held, AtHome
<1>2. OwnerInv /\ [S!Next]_(S!vars) => OwnerInv'
  <2> SUFFICES ASSUME OwnerInv, [S!Next]_(S!vars)
               PROVE  OwnerInv'
    OBVIOUS
  <2>1. ASSUME NEW p \in Pointers, NEW o \in Objects, NEW a \in Allocators, S!Construct(p, o, a)
        PROVE  OwnerInv'
    BY <2>1, Constructing
  <2>2. ASSUME NEW p \in Pointers, NEW q \in Pointers, S!Move(p, q)
        PROVE  OwnerInv'
    BY <2>2, Moving
  <2>3. ASSUME NEW p \in Pointers, NEW q \in Pointers, S!Assign(p, q) \/ S!AssignConverted(p, q)
        PROVE  OwnerInv'
    BY <2>3, Assigning
  <2>4. ASSUME NEW p \in Pointers, S!Declare(p)
        PROVE  OwnerInv'
    <3>1. data[p] = Null
      BY <2>4 DEF S!Declare, OwnerInv, Sole
    <3>2. \A r \in Pointers : r # p => allocator'[r] = allocator[r]
      BY <2>4 DEF S!Declare, OwnerInv, PointersTyped
    <3>3. PointersTyped' /\ Sole' /\ Held'
      BY <2>4 DEF S!Declare, OwnerInv, PointersTyped, Sole, Held
    <3>4. AtHome'
      BY <2>4, <3>1, <3>2 DEF S!Declare, OwnerInv, AtHome
    <3>5. QED
      BY <3>3, <3>4 DEF OwnerInv
  <2>5. ASSUME NEW p \in Pointers, S!Free(p) \/ S!Destroy(p)
        PROVE  OwnerInv'
    BY <2>5, GivingBack DEF S!Free, S!Destroy, S!Released
  <2>6. CASE UNCHANGED S!vars
    BY <2>6 DEF S!vars, OwnerInv, PointersTyped, Sole, Held, AtHome
  <2>7. QED
    BY <2>1, <2>2, <2>3, <2>4, <2>5, <2>6 DEF S!Next
<1>3. OwnerInv => S!OneOwnerItsAllocator
  <2> SUFFICES ASSUME OwnerInv, NEW o \in Objects
               PROVE  LET owners == {p \in alive : data[p] = o}
                      IN  /\ Cardinality(owners) = IF home[o] # Null /\ o \notin freed THEN 1 ELSE 0
                          /\ o \notin mixed => \A p \in owners : allocator[p] = home[o]
    <3>1. \A A : S!Cardinality(A) = Cardinality(A)
      BY DEF S!Cardinality, Cardinality
    <3> QED BY <3>1 DEF S!OneOwnerItsAllocator
  <2> DEFINE owners == {p \in alive : data[p] = o}
  <2>1. CASE home[o] # Null /\ o \notin freed
    <3>1. PICK p \in Pointers : data[p] = o
      BY <2>1 DEF OwnerInv, Held
    <3>2. owners = {p}
      BY <3>1 DEF OwnerInv, PointersTyped, Sole
    <3>3. Cardinality(owners) = 1
      BY <3>2, FS_Singleton
    <3>4. QED
      BY <2>1, <3>2, <3>3 DEF OwnerInv, PointersTyped, AtHome
  <2>2. CASE ~(home[o] # Null /\ o \notin freed)
    <3>1. owners = {}
      BY <2>2 DEF OwnerInv, PointersTyped, Held
    <3>2. Cardinality(owners) = 0
      BY <3>1, FS_EmptySet
    <3>3. QED
      BY <2>2, <3>1, <3>2
  <2>3. QED
    BY <2>1, <2>2
<1> QED
  BY <1>1, <1>2, <1>3

\* Every object has one owner from its construction until it is given back, and the
\* owner has the allocator that the object came from, but for conversions.
THEOREM OwnersAreSole == S!Spec => []S!OneOwnerItsAllocator
  BY OwnerInvariant, SmartPointerAssumption, PTL DEF S!Spec

\* The same in every behaviour of the library.
THEOREM LibraryOwnersAreSole == CoreSpec => []OneOwnerItsAllocator
<1>1. CoreInit => S!Init
  BY DEF CoreInit
<1>2. [CoreNext]_<<focus, coreVars>> => [S!Next]_(S!vars)
  BY DEF CoreNext, coreVars, CoreRests, Rests, smartPointer, S!vars
<1>3. S!OneOwnerItsAllocator => OneOwnerItsAllocator
  BY DEF OneOwnerItsAllocator
<1> QED
  BY <1>1, <1>2, <1>3, OwnerInvariant, SmartPointerAssumption, PTL DEF CoreSpec

\* What makes OnlyTheGapIsMissed inductive: a thread that sleeps is in Wait, and a thread
\* that is past the test is already told of, or overtaken, when the outstanding is zero; so it
\* is when it goes to sleep.
Told(t) == t \in overtaken \/ \E w \in Workers : pc[w] = "notify"

GapInv ==
  /\ outstanding \in Nat
  /\ pc \in [Waiters \cup Workers -> {"idle", "tested", "wait", "notify"}]
  /\ waiting \subseteq {t \in Waiters : pc[t] = "wait"}
  /\ \A t \in Waiters : pc[t] = "tested" \/ t \in waiting => outstanding # 0 \/ Told(t)

\* A Post that notifies wakes all that sleep, and overtakes all that do not sleep yet.
LEMMA NotifyAllKeeps ==
  ASSUME Waiters \cap Workers = {}, GapInv, NEW p \in Workers, N!NotifyAll(p)
  PROVE  GapInv'
<1>1. pc' \in [Waiters \cup Workers -> {"idle", "tested", "wait", "notify"}]
  BY DEF GapInv, N!NotifyAll, N!Goto
<1>2. waiting' \subseteq {t \in Waiters : pc'[t] = "wait"}
  BY DEF N!NotifyAll
<1>3. ASSUME NEW t \in Waiters, pc'[t] = "tested" \/ t \in waiting'
      PROVE  outstanding' # 0 \/ Told(t)'
  <2>1. pc[t] = "tested"
    BY <1>3 DEF GapInv, N!NotifyAll, N!Goto
  <2>2. t \in overtaken'
    BY <2>1 DEF N!NotifyAll, N!Tested
  <2>3. QED
    BY <2>2 DEF Told
<1>4. outstanding' \in Nat
  BY DEF GapInv, N!NotifyAll
<1>5. QED
  BY <1>1, <1>2, <1>3, <1>4 DEF GapInv

\* Steps of the threads that wait; none of them changes the outstanding.
LEMMA WaitersKeep ==
  ASSUME Waiters \cap Workers = {}, GapInv, NEW w \in Waiters,
         N!Test(w) \/ N!Sleep(w) \/ N!Return(w) \/ N!Spurious(w)
  PROVE  GapInv'
<1> USE DEF GapInv, N!Goto
<1>1. \A p \in Workers : pc'[p] = pc[p]
  BY DEF N!Test, N!Sleep, N!Return, N!Spurious
<1>2. CASE N!Test(w)
  BY <1>1, <1>2 DEF N!Test, Told
<1>3. CASE N!Sleep(w)
  <2>1. \A t \in Waiters : t # w => pc'[t] = pc[t] /\ (t \in waiting' <=> t \in waiting)
    BY <1>3 DEF N!Sleep
  <2>2. \A t \in Waiters : Told(t)' <=> Told(t)
    BY <1>1, <1>3 DEF N!Sleep, Told
  <2>3. outstanding # 0 \/ Told(w)
    BY <1>3 DEF N!Sleep
  <2>4. outstanding' = outstanding /\ waiting' \subseteq {t \in Waiters : pc'[t] = "wait"}
    BY <1>3 DEF N!Sleep
  <2>5. pc' \in [Waiters \cup Workers -> {"idle", "tested", "wait", "notify"}]
    BY <1>3 DEF N!Sleep
  <2>6. QED
    BY <2>1, <2>2, <2>3, <2>4, <2>5
<1>4. CASE N!Return(w)
  <2>1. \A t \in Waiters : t # w => Told(t)' = Told(t) /\ pc'[t] = pc[t]
    BY <1>1, <1>4 DEF N!Return, Told
  <2>2. pc'[w] = "idle" /\ w \notin waiting' /\ outstanding' = outstanding /\ waiting' = waiting
    BY <1>4 DEF N!Return
  <2>3. pc' \in [Waiters \cup Workers -> {"idle", "tested", "wait", "notify"}]
    BY <1>4 DEF N!Return
  <2>4. QED
    BY <2>1, <2>2, <2>3
<1>5. CASE N!Spurious(w)
  BY <1>1, <1>5 DEF N!Spurious, Told
<1>6. QED
  BY <1>2, <1>3, <1>4, <1>5

\* GapInv is an inductive invariant of Notification, and is what the property says.
LEMMA GapInvariant ==
  ASSUME Waiters \cap Workers = {}
  PROVE  /\ N!Init => GapInv
         /\ GapInv /\ [N!Next]_(N!vars) => GapInv'
         /\ GapInv => N!OnlyTheGapIsMissed
<1>1. N!Init => GapInv
  BY DEF N!Init, GapInv
<1>2. GapInv /\ [N!Next]_(N!vars) => GapInv'
  <2> SUFFICES ASSUME GapInv, [N!Next]_(N!vars)
               PROVE  GapInv'
    OBVIOUS
  <2>1. ASSUME NEW p \in Workers, N!Add(p)
        PROVE  GapInv'
    BY <2>1 DEF N!Add, GapInv, Told
  <2>2. ASSUME NEW p \in Workers, N!Post(p)
        PROVE  GapInv'
    <3>1. pc'[p] = "notify"
      BY <2>2 DEF N!Post, N!Goto, GapInv
    <3>2. \A t \in Waiters : Told(t)' /\ pc'[t] = pc[t]
      BY <2>2, <3>1 DEF N!Post, N!Goto, GapInv, Told
    <3>3. QED
      BY <2>2, <3>2 DEF N!Post, N!Goto, GapInv
  <2>3. ASSUME NEW p \in Workers, N!NotifyAll(p)
        PROVE  GapInv'
    BY <2>3, NotifyAllKeeps
  <2>4. ASSUME NEW w \in Waiters, N!Test(w) \/ N!Sleep(w) \/ N!Return(w) \/ N!Spurious(w)
        PROVE  GapInv'
    BY <2>4, WaitersKeep
  <2>5. CASE UNCHANGED N!vars
    BY <2>5 DEF N!vars, GapInv, Told
  <2>6. QED
    BY <2>1, <2>2, <2>3, <2>4, <2>5 DEF N!Next
<1>3. GapInv => N!OnlyTheGapIsMissed
  BY DEF GapInv, N!OnlyTheGapIsMissed, Told
<1> QED
  BY <1>1, <1>2, <1>3

\* Only a Post between a thread's test of the count and its wait is missed: otherwise a
\* thread that sleeps at zero is told by a Post that has still to notify.
THEOREM GapIsAll == N!Spec => []N!OnlyTheGapIsMissed
  BY GapInvariant, NotificationAssumption, PTL DEF N!Spec

\* The same in every behaviour of the library.
THEOREM LibraryGapIsAll == CoreSpec => []OnlyTheGapIsMissed
<1>1. CoreInit => N!Init
  BY DEF CoreInit
<1>2. [CoreNext]_<<focus, coreVars>> => [N!Next]_(N!vars)
  BY DEF CoreNext, coreVars, CoreRests, Rests, notification, N!vars
<1>3. N!OnlyTheGapIsMissed => OnlyTheGapIsMissed
  BY DEF OnlyTheGapIsMissed
<1> QED
  BY <1>1, <1>2, <1>3, GapInvariant, NotificationAssumption, PTL DEF CoreSpec

PacketNumbers == 0..(PacketModulus - 1)

\* All that a control may be at.
Readings == UNION {G!Values(c) : c \in G!Controls}

\* What makes ChangesAddUp inductive: while the numbers have not gone round, the number of
\* the pad's state is as many changes ahead of the last one that was taken.
PacketInv ==
  /\ pad \in [G!Controls -> Readings] /\ stored \in [G!Controls -> Readings] /\ shown = stored
  /\ packet \in PacketNumbers /\ packetNumber \in PacketNumbers
  /\ since \in 0..PacketModulus
  /\ connected /\ since = 0 => pad = stored /\ packet = packetNumber
  /\ connected /\ since \in 1..(PacketModulus - 1) =>
       packet = packetNumber + since \/ packet + PacketModulus = packetNumber + since

\* The number after the last one is 0.
LEMMA NextNumber ==
  ASSUME PacketModulus \in Nat \ {0}, NEW n \in PacketNumbers
  PROVE  (n + 1) % PacketModulus = IF n + 1 = PacketModulus THEN 0 ELSE n + 1
<1>1. n \in Nat /\ n + 1 <= PacketModulus
  BY DEF PacketNumbers
<1>2. CASE n + 1 = PacketModulus
  BY <1>1, <1>2
<1>3. CASE n + 1 < PacketModulus
  BY <1>1, <1>3
<1>4. QED
  BY <1>1, <1>2, <1>3

LEMMA ActKeeps ==
  ASSUME PacketModulus \in Nat \ {0}, PacketInv,
         NEW c \in G!Controls, NEW value \in G!Values(c), G!Act(c, value)
  PROVE  PacketInv'
<1> USE DEF PacketInv, G!Act
<1>1. value \in Readings
  BY DEF Readings
<1>2. pad' \in [G!Controls -> Readings]
  BY <1>1
<1>3. packet' = IF packet + 1 = PacketModulus THEN 0 ELSE packet + 1
  BY NextNumber
<1>4. packet' \in PacketNumbers
  BY <1>3 DEF PacketNumbers
<1>5. since' \in 1..PacketModulus
  OBVIOUS
<1>6. ASSUME since' \in 1..(PacketModulus - 1)
      PROVE  packet' = packetNumber + since' \/ packet' + PacketModulus = packetNumber + since'
  <2>1. since' = since + 1 /\ since < PacketModulus
    BY <1>6
  <2>2. packet = packetNumber + since \/ packet + PacketModulus = packetNumber + since
    BY <2>1 DEF PacketNumbers
  <2>3. packet \in Nat /\ packetNumber \in Nat /\ since \in Nat /\ packetNumber < PacketModulus
    BY DEF PacketNumbers
  <2>4. QED
    BY <1>3, <2>1, <2>2, <2>3
<1>7. since' # 0 /\ since' \in 0..PacketModulus
  BY <1>5
<1>8. UNCHANGED <<packetNumber, stored, connected, shown>>
  OBVIOUS
<1>9. QED
  BY <1>2, <1>4, <1>6, <1>7, <1>8

\* Where Update takes a new state it stores all of it.
LEMMA UpdateKeeps ==
  ASSUME PacketModulus \in Nat \ {0}, PacketInv, G!Update
  PROVE  PacketInv'
<1> USE DEF PacketInv, G!Update
<1>1. stored' = pad
  BY DEF G!Changed
<1>2. shown' = stored'
  OBVIOUS
<1>3. since' = 0 /\ packetNumber' = packet
  OBVIOUS
<1>4. QED
  BY <1>1, <1>2, <1>3

\* PacketInv is an inductive invariant of Gamepad, and is what the property says.
LEMMA PacketInvariant ==
  ASSUME PacketModulus \in Nat \ {0}, Rest \in StickPositions
  PROVE  /\ G!Init => PacketInv
         /\ PacketInv /\ [G!Next]_(G!vars) => PacketInv'
         /\ PacketInv => G!ChangesAddUp
<1>1. ASSUME NEW state \in G!States
      PROVE  state \in [G!Controls -> Readings]
  BY DEF G!States, Readings
<1>2. G!Neutral \in [G!Controls -> Readings]
  <2>1. ASSUME NEW c \in G!Controls
        PROVE  (IF c \in Analog THEN Rest ELSE "up") \in Readings
    <3>1. (IF c \in Analog THEN Rest ELSE "up") \in G!Values(c)
      BY DEF G!Values
    <3>2. QED
      BY <3>1 DEF Readings
  <2>2. QED
    BY <2>1 DEF G!Neutral
<1>3. G!Init => PacketInv
  BY <1>1, <1>2 DEF G!Init, PacketInv, PacketNumbers
<1>4. PacketInv /\ [G!Next]_(G!vars) => PacketInv'
  <2> SUFFICES ASSUME PacketInv, [G!Next]_(G!vars)
               PROVE  PacketInv'
    OBVIOUS
  <2>1. ASSUME NEW c \in G!Controls, NEW value \in G!Values(c), G!Act(c, value)
        PROVE  PacketInv'
    BY <2>1, ActKeeps
  <2>2. ASSUME NEW state \in G!States, NEW number \in PacketNumbers, G!Plug(state, number)
        PROVE  PacketInv'
    BY <1>1, <2>2 DEF G!Plug, PacketInv
  <2>3. CASE G!Unplug
    BY <2>3 DEF G!Unplug, PacketInv
  <2>4. CASE G!UpdateNothing
    BY <2>4 DEF G!UpdateNothing, G!vars, PacketInv
  <2>5. CASE G!Update
    BY <2>5, UpdateKeeps
  <2>6. CASE UNCHANGED G!vars
    BY <2>6 DEF G!vars, PacketInv
  <2>7. QED
    BY <2>1, <2>2, <2>3, <2>4, <2>5, <2>6 DEF G!Next, PacketNumbers
<1>5. PacketInv => G!ChangesAddUp
  BY DEF PacketInv, G!ChangesAddUp, PacketNumbers
<1> QED
  BY <1>3, <1>4, <1>5

\* The application's controls are those that Gamepad stores, and the pad's whenever Update
\* sees no new number, unless as many changes as there are numbers went by unseen.
THEOREM ControlsAreThePads == G!Spec => []G!ChangesAddUp
  BY PacketInvariant, GamepadAssumption, PTL DEF G!Spec

\* The same in every behaviour of the library.
THEOREM LibraryControlsAreThePads == CoreSpec => []ChangesAddUp
<1>1. CoreInit => G!Init
  BY DEF CoreInit
<1>2. [CoreNext]_<<focus, coreVars>> => [G!Next]_(G!vars)
  BY DEF CoreNext, coreVars, CoreRests, Rests, gamepad, G!vars
<1>3. G!ChangesAddUp => ChangesAddUp
  BY DEF ChangesAddUp
<1> QED
  BY <1>1, <1>2, <1>3, PacketInvariant, GamepadAssumption, PTL DEF CoreSpec

-----------------------------------------------------------------------------
(* Natural numbers.                                                        *)

LEMMA Least ==
  ASSUME NEW A, A \subseteq Nat, A # {}
  PROVE  \E n \in A : \A m \in A : n <= m
<1> DEFINE less == {p \in Nat \X Nat : p[1] < p[2]}
<1>1. IsWellFoundedOn(less, Nat)
  BY NatLessThanWellFounded DEF OpToRel
<1>2. ASSUME NEW y \in Nat, NEW x \in Nat, y < x
      PROVE  <<y, x>> \in less
  <2>1. <<y, x>> \in Nat \X Nat /\ <<y, x>>[1] = y /\ <<y, x>>[2] = x
    OBVIOUS
  <2> QED BY <2>1, <1>2
<1> HIDE DEF less
<1>3. PICK x \in A : \A y \in A : ~ (<<y, x>> \in less)
  BY <1>1, WFMin
<1>4. ASSUME NEW y \in A PROVE x <= y
  <2>1. y \in Nat /\ x \in Nat
    OBVIOUS
  <2>2. ~ (y < x)
    BY <1>2, <1>3, <2>1
  <2> QED BY <2>1, <2>2
<1> QED BY <1>4

LEMMA Induction ==
  ASSUME NEW A, 0 \in A, \A n \in Nat : n \in A => n + 1 \in A
  PROVE  Nat \subseteq A
<1> SUFFICES ASSUME ~ (Nat \subseteq A) PROVE FALSE
  OBVIOUS
<1>1. PICK n \in Nat \ A : \A m \in Nat \ A : n <= m
  BY Least
<1>2. n # 0
  OBVIOUS
<1>3. n - 1 \in Nat /\ n - 1 < n /\ (n - 1) + 1 = n
  BY <1>2
<1>4. n - 1 \in A
  BY <1>1, <1>3
<1> QED BY <1>1, <1>3, <1>4

\* The same for the numbers up to a bound.
LEMMA InductionUpTo ==
  ASSUME NEW b \in Nat, NEW A, 0 \in A, \A n \in 0..b - 1 : n \in A => n + 1 \in A
  PROVE  0..b \subseteq A
<1> DEFINE U == {n \in Nat : n <= b => n \in A}
<1>1. 0 \in U
  OBVIOUS
<1>2. ASSUME NEW n \in Nat, n \in U PROVE n + 1 \in U
  <2>1. n + 1 \in Nat
    OBVIOUS
  <2>2. ASSUME n + 1 <= b PROVE n + 1 \in A
    BY <1>2, <2>2
  <2> QED BY <2>1, <2>2
<1> HIDE DEF U
<1>3. Nat \subseteq U
  BY <1>1, <1>2, Induction
<1> QED BY <1>3 DEF U

LEMMA Division ==
  ASSUME NEW h \in Nat, NEW n \in Nat \ {0}
  PROVE  /\ h \div n \in Nat /\ h % n \in 0..n - 1
         /\ h = n * (h \div n) + (h % n)
OBVIOUS

LEMMA Remainder ==
  ASSUME NEW h \in Nat, NEW n \in Nat \ {0}, NEW q \in Nat, NEW r \in 0..n - 1,
         h = n * q + r
  PROVE  h % n = r
OBVIOUS

LEMMA NextPowerOfTwoIs ==
  ASSUME NEW n \in Nat \ {0}
  PROVE  P!NextPowerOfTwo(n) \in Nat \ {0} /\ n <= P!NextPowerOfTwo(n)
<1> DEFINE loop(f, m) == [i \in 0..m |-> IF i = 0 THEN 1 ELSE 2 * f[i - 1]]
           Made == {m \in Nat : \E f : f = loop(f, m)}
<1>1. 0 \in Made
  <2>1. [i \in 0..0 |-> 1] = loop([i \in 0..0 |-> 1], 0)
    OBVIOUS
  <2> QED BY <2>1
<1>2. ASSUME NEW m \in Nat, m \in Made PROVE m + 1 \in Made
  <2>1. PICK f : f = loop(f, m)
    BY <1>2
  <2> DEFINE g == [i \in 0..m + 1 |-> IF i = m + 1 THEN 2 * f[m] ELSE f[i]]
  <2>2. ASSUME NEW i \in 0..m + 1 PROVE g[i] = IF i = 0 THEN 1 ELSE 2 * g[i - 1]
    <3>1. CASE i = m + 1
      BY <3>1
    <3>2. CASE i \in 0..m
      <4>1. g[i] = f[i] /\ (i # 0 => g[i - 1] = f[i - 1])
        BY <3>2
      <4>2. f[i] = IF i = 0 THEN 1 ELSE 2 * f[i - 1]
        BY <2>1, <3>2
      <4> QED BY <4>1, <4>2
    <3> QED BY <3>1, <3>2
  <2>3. g = loop(g, m + 1)
    <3>1. g = [i \in 0..m + 1 |-> g[i]]
      OBVIOUS
    <3> HIDE DEF g
    <3> QED BY <2>2, <3>1
  <2> HIDE DEF g
  <2>4. \E f1 : f1 = loop(f1, m + 1)
    BY <2>3
  <2>5. m + 1 \in Nat
    OBVIOUS
  <2> QED BY <2>4, <2>5, Zenon
<1>3. n \in Made
  <2> HIDE DEF Made
  <2>1. Nat \subseteq Made
    BY <1>1, <1>2, Induction
  <2> QED BY <2>1
<1> DEFINE power == CHOOSE f : f = loop(f, n)
<1>4. power = loop(power, n)
  BY <1>3
<1>5. P!NextPowerOfTwo(n) = CHOOSE p \in {power[i] : i \in 0..n} : n <= p /\ p < 2 * n
  BY DEF P!NextPowerOfTwo
<1> HIDE DEF power
<1>6. power[0] = 1 /\ \A i \in 1..n : power[i] = 2 * power[i - 1]
  BY <1>4
<1>7. \A i \in 0..n : power[i] \in Nat /\ power[i] > i
  <2> DEFINE Good == {i \in Nat : power[i] \in Nat /\ power[i] > i}
  <2>1. 0 \in Good
    BY <1>6
  <2>2. ASSUME NEW i \in 0..n - 1, i \in Good PROVE i + 1 \in Good
    <3>1. i + 1 \in 1..n /\ (i + 1) - 1 = i
      OBVIOUS
    <3>2. power[i + 1] = 2 * power[i]
      BY <1>6, <3>1
    <3> QED BY <2>2, <3>1, <3>2
  <2> HIDE DEF Good
  <2>3. 0..n \subseteq Good
    BY <2>1, <2>2, InductionUpTo
  <2> QED BY <2>3 DEF Good
<1> DEFINE reach == {i \in 0..n : power[i] >= n}
<1>8. PICK i \in reach : \A j \in reach : i <= j
  <2>1. n \in reach /\ reach \subseteq Nat
    BY <1>7
  <2> HIDE DEF reach
  <2> QED BY <2>1, Least
<1>9. n <= power[i] /\ power[i] < 2 * n
  <2>1. CASE i = 0
    BY <1>6, <1>8, <2>1
  <2>2. CASE i # 0
    <3>1. i \in 1..n /\ i - 1 \in 0..n /\ ~(i <= i - 1)
      BY <1>8, <2>2
    <3>2. i - 1 \notin reach
      BY <1>8, <3>1
    <3>3. power[i - 1] < n /\ power[i] = 2 * power[i - 1]
      BY <1>6, <1>7, <3>1, <3>2
    <3> QED BY <1>7, <1>8, <3>1, <3>3
  <2> QED BY <2>1, <2>2
<1>10. \E p \in {power[j] : j \in 0..n} : n <= p /\ p < 2 * n
  BY <1>8, <1>9
<1>11. PICK j \in 0..n : P!NextPowerOfTwo(n) = power[j] /\ n <= power[j]
  BY <1>5, <1>10
<1> QED BY <1>7, <1>11

LEMMA NextDivision ==
  ASSUME NEW n \in Nat, NEW m \in Nat \ {0}
  PROVE  \/ /\ (n % m) + 1 < m
            /\ (n + 1) \div m = n \div m /\ (n + 1) % m = (n % m) + 1
         \/ /\ (n % m) + 1 = m
            /\ (n + 1) \div m = n \div m + 1 /\ (n + 1) % m = 0
OBVIOUS

LEMMA SmallerDivision ==
  ASSUME NEW i \in Nat, NEW n \in Nat, i < n, NEW m \in Nat \ {0}
  PROVE  i \div m < n \div m \/ (i \div m = n \div m /\ i % m < n % m)
OBVIOUS

\* The cells that hold objects, if there are n.
Below(p, e, n) == p <= n \div pageLength \/ (p = n \div pageLength + 1 /\ e < n % pageLength)

Cells == PageValues \union {Unwritten}

PagesInv ==
  /\ pageLength \in Nat \ {0} /\ length \in Nat
  /\ pages \in Seq([0..pageLength - 1 -> Cells])
  /\ list \in Seq(PageValues) /\ Len(list) = length
  /\ length \div pageLength <= Len(pages)
  /\ length \div pageLength = Len(pages) => length % pageLength = 0
  /\ \A i \in 0..length - 1 :
       /\ i \div pageLength + 1 \in 1..Len(pages)
       /\ pages[i \div pageLength + 1][i % pageLength] = list[i + 1]
  /\ \A p \in 1..Len(pages), e \in 0..pageLength - 1 : ~Below(p, e, length) => pages[p][e] = Unwritten

AtInv ==
  /\ at.pos \in Nat
  /\ at.page = at.pos \div pageLength
  /\ at.element = at.pos % pageLength

PagedInv == ~lost /\ (pages # <<>> => PagesInv /\ AtInv)

\* A position of an index below the length is another one than that of the next object.
LEMMA BelowIs ==
  ASSUME pageLength \in Nat \ {0}, NEW n \in Nat, NEW p \in Nat, NEW e \in 0..pageLength - 1,
         ~Below(p, e, n + 1)
  PROVE  ~Below(p, e, n) /\ ~(p = n \div pageLength + 1 /\ e = n % pageLength)
<1> DEFINE m == pageLength
           d == n \div m
           r == n % m
           d1 == (n + 1) \div m
           r1 == (n + 1) % m
<1>1. d \in Nat /\ r \in 0..m - 1
  BY Division
<1>2. (r + 1 < m /\ d1 = d /\ r1 = r + 1) \/ (r + 1 = m /\ d1 = d + 1 /\ r1 = 0)
  BY NextDivision
<1>3. ~(p <= d1) /\ ~(p = d1 + 1 /\ e < r1)
  BY DEF Below
<1> HIDE DEF d, r, d1, r1
<1>4. ~(p <= d) /\ ~(p = d + 1 /\ e < r) /\ ~(p = d + 1 /\ e = r)
  BY <1>1, <1>2, <1>3
<1> QED BY <1>4 DEF Below, d, r

\* The next object goes to a cell of pages that are long enough.
LEMMA PutKeeps ==
  ASSUME PagesInv, ~lost, NEW v \in PageValues, NEW ps \in Seq([0..pageLength - 1 -> Cells]),
         length \div pageLength < Len(ps),
         \A i \in 0..length - 1 :
           /\ i \div pageLength + 1 \in 1..Len(ps)
           /\ ps[i \div pageLength + 1][i % pageLength] = list[i + 1],
         \A p \in 1..Len(ps), e \in 0..pageLength - 1 : ~Below(p, e, length) => ps[p][e] = Unwritten,
         P!Put(ps, length \div pageLength, length % pageLength, v),
         length' = length + 1, list' = Append(list, v), UNCHANGED pageLength
  PROVE  PagesInv' /\ ~lost' /\ pages' # <<>>
<1> DEFINE m == pageLength
           d == length \div m
           r == length % m
           len == Len(ps)
<1>1. m \in Nat \ {0} /\ length \in Nat /\ list \in Seq(PageValues) /\ Len(list) = length
  BY DEF PagesInv
<1>2. d \in Nat /\ r \in 0..m - 1 /\ len \in Nat /\ d + 1 \in 1..len
  <2>1. d \in Nat /\ r \in 0..m - 1
    BY <1>1, Division
  <2> HIDE DEF d, r
  <2>2. d < len /\ len \in Nat
    BY DEF d
  <2> QED BY <2>1, <2>2
<1>3. pages' = [ps EXCEPT ![d + 1][r] = v]
  BY DEF P!Put
<1>4. ps[d + 1][r] = Unwritten
  <2>1. ~Below(d + 1, r, length)
    <3> HIDE DEF d, r
    <3>1. ~(d + 1 <= d) /\ ~(r < r)
      BY <1>2
    <3> QED BY <3>1 DEF Below, d, r
  <2> QED BY <1>2, <2>1
<1>5. ~lost'
  BY <1>4 DEF P!Put
<1>6. v \in Cells
  BY DEF Cells
<1>7. ASSUME NEW i \in Nat, i < length
      PROVE  ~(i \div m = d /\ i % m = r) /\ i \div m \in Nat /\ i % m \in 0..m - 1
  <2>1. i \div m < d \/ (i \div m = d /\ i % m < r)
    BY <1>1, <1>7, SmallerDivision
  <2>2. i \div m \in Nat /\ i % m \in 0..m - 1
    BY <1>1, Division
  <2> HIDE DEF d, r
  <2> QED BY <1>2, <2>1, <2>2
<1>a. (length + 1) \div m <= len /\ ((length + 1) \div m = len => (length + 1) % m = 0)
  <2>1. \/ r + 1 < m /\ (length + 1) \div m = d /\ (length + 1) % m = r + 1
        \/ r + 1 = m /\ (length + 1) \div m = d + 1 /\ (length + 1) % m = 0
    BY <1>1, NextDivision
  <2> HIDE DEF d, r
  <2> QED BY <1>2, <2>1
<1>b. \A p \in 1..len, e \in 0..m - 1 : ~Below(p, e, length + 1) => ~Below(p, e, length) /\ ~(p = d + 1 /\ e = r)
  <2> SUFFICES ASSUME NEW p \in 1..len, NEW e \in 0..m - 1, ~Below(p, e, length + 1)
               PROVE  ~Below(p, e, length) /\ ~(p = d + 1 /\ e = r)
    OBVIOUS
  <2>1. p \in Nat
    OBVIOUS
  <2> QED BY <1>1, <2>1, BelowIs
<1>c. /\ \A i \in 0..length - 1 : i \div m + 1 \in 1..len /\ ps[i \div m + 1][i % m] = list[i + 1]
      /\ \A p \in 1..len, e \in 0..m - 1 : ~Below(p, e, length) => ps[p][e] = Unwritten
  OBVIOUS
<1>d. ps \in [1..len -> [0..m - 1 -> Cells]]
  OBVIOUS
<1>e. m' = m
  OBVIOUS
<1> HIDE DEF m, d, r, len
<1>8. pages' \in [1..len -> [0..m - 1 -> Cells]]
  <2> DEFINE new == [ps[d + 1] EXCEPT ![r] = v]
  <2>1. ps[d + 1] \in [0..m - 1 -> Cells]
    BY <1>2, <1>d
  <2>2. new \in [0..m - 1 -> Cells]
    BY <1>6, <2>1
  <2>3. pages' = [ps EXCEPT ![d + 1] = new]
    BY <1>3
  <2> HIDE DEF new
  <2> QED BY <1>d, <2>2, <2>3
<1>9. pages' \in Seq([0..m - 1 -> Cells]) /\ Len(pages') = len /\ pages' # <<>>
  BY <1>2, <1>8
<1>10. pages'[d + 1][r] = v
  BY <1>2, <1>3, <1>d
<1>11. \A p \in 1..len, e \in 0..m - 1 : ~(p = d + 1 /\ e = r) => pages'[p][e] = ps[p][e]
  BY <1>2, <1>3, <1>d
<1>12. /\ list' \in Seq(PageValues) /\ Len(list') = length + 1 /\ list'[length + 1] = v
       /\ \A i \in 1..length : list'[i] = list[i]
  BY <1>1
<1>13. \A i \in 0..length : i \div m + 1 \in 1..len /\ pages'[i \div m + 1][i % m] = list'[i + 1]
  <2> SUFFICES ASSUME NEW i \in 0..length
               PROVE  i \div m + 1 \in 1..len /\ pages'[i \div m + 1][i % m] = list'[i + 1]
    OBVIOUS
  <2>1. CASE i = length
    BY <1>2, <1>10, <1>12, <2>1 DEF d, r
  <2>2. CASE i # length
    <3>1. i \in Nat /\ i < length /\ i \in 0..length - 1 /\ i + 1 \in 1..length
      BY <1>1, <2>2
    <3>2. ~(i \div m = d /\ i % m = r) /\ i \div m \in Nat /\ i % m \in 0..m - 1
      BY <1>7, <3>1
    <3>3. i \div m + 1 \in 1..len /\ ps[i \div m + 1][i % m] = list[i + 1]
      BY <1>c, <3>1
    <3>4. ~(i \div m + 1 = d + 1 /\ i % m = r)
      <4> DEFINE q == i \div m
      <4>1. q \in Nat /\ ~(q = d /\ i % m = r)
        BY <3>2
      <4> HIDE DEF q
      <4>2. ~(q + 1 = d + 1 /\ i % m = r)
        BY <1>2, <4>1
      <4> QED BY <4>2 DEF q
    <3>5. pages'[i \div m + 1][i % m] = ps[i \div m + 1][i % m]
      BY <1>11, <3>2, <3>3, <3>4
    <3>6. list'[i + 1] = list[i + 1]
      BY <1>12, <3>1
    <3> QED BY <3>3, <3>5, <3>6
  <2> QED BY <2>1, <2>2
<1>14. \A p \in 1..len, e \in 0..m - 1 : ~Below(p, e, length + 1) => pages'[p][e] = Unwritten
  BY <1>b, <1>c, <1>11
<1>15. \A p, e : Below(p, e, length)' <=> Below(p, e, length + 1)
  BY <1>e DEF Below, m
<1>16. 0..length' - 1 = 0..length /\ length + 1 \in Nat
  BY <1>1
<1> QED
  BY <1>1, <1>5, <1>9, <1>12, <1>13, <1>14, <1>15, <1>16, <1>a, <1>e DEF PagesInv, m

LEMMA FullIs ==
  ASSUME NEW n \in Nat, NEW m \in Nat \ {0}, NEW q \in Nat
  PROVE  n = m * q <=> n \div m = q /\ n % m = 0
<1>1. n = m * (n \div m) + (n % m) /\ n \div m \in Nat /\ n % m \in 0..m - 1
  BY Division
<1>2. ASSUME n = m * q PROVE n \div m = q /\ n % m = 0
  <2>1. (m * q) \div m = q /\ (m * q) % m = 0
    OBVIOUS
  <2> QED BY <1>2, <2>1
<1>3. ASSUME n \div m = q, n % m = 0 PROVE n = m * q
  BY <1>1, <1>3
<1> QED BY <1>2, <1>3

LEMMA ZeroIs ==
  ASSUME NEW m \in Nat \ {0}
  PROVE  0 \div m = 0 /\ 0 % m = 0
OBVIOUS

LEMMA PageIs ==
  ASSUME pageLength \in Nat \ {0}
  PROVE  /\ P!Page(pageLength) \in [0..pageLength - 1 -> Cells]
         /\ \A e \in 0..pageLength - 1 : P!Page(pageLength)[e] = Unwritten
BY DEF P!Page, Cells

LEMMA PageEmplaceKeeps ==
  ASSUME PagesInv, ~lost, NEW v \in PageValues, P!EmplaceBack(v)
  PROVE  PagesInv' /\ ~lost'
<1> DEFINE m == pageLength
           d == length \div m
           r == length % m
           len == Len(pages)
<1>1. /\ m \in Nat \ {0} /\ length \in Nat /\ len \in Nat /\ pages \in Seq([0..m - 1 -> Cells])
      /\ d <= len /\ (d = len => r = 0)
  BY DEF PagesInv
<1>2. d \in Nat /\ r \in 0..m - 1
  BY <1>1, Division
<1>3. length = m * len <=> d = len /\ r = 0
  BY <1>1, FullIs
<1>4. length' = length + 1 /\ list' = Append(list, v) /\ UNCHANGED pageLength
  BY DEF P!EmplaceBack
<1>5. /\ \A i \in 0..length - 1 :
           /\ i \div m + 1 \in 1..len
           /\ pages[i \div m + 1][i % m] = list[i + 1]
      /\ \A p \in 1..len, e \in 0..m - 1 : ~Below(p, e, length) => pages[p][e] = Unwritten
  BY DEF PagesInv
<1>6. CASE length = m * len
  <2> DEFINE ps == Append(pages, P!Page(m))
  <2>1. P!Page(m) \in [0..m - 1 -> Cells] /\ \A e \in 0..m - 1 : P!Page(m)[e] = Unwritten
    BY <1>1, PageIs
  <2>2. d = len /\ r = 0
    BY <1>3, <1>6
  <2>3. P!Put(ps, d, r, v)
    BY <1>6, <2>2 DEF P!EmplaceBack
  <2> HIDE DEF d, r, m
  <2>4. /\ ps \in Seq([0..m - 1 -> Cells]) /\ Len(ps) = len + 1 /\ ps[len + 1] = P!Page(m)
        /\ \A p \in 1..len : ps[p] = pages[p]
    BY <1>1, <2>1
  <2> HIDE DEF ps, len
  <2>5. d < Len(ps)
    BY <1>1, <2>2, <2>4
  <2>6. \A i \in 0..length - 1 : i \div m + 1 \in 1..Len(ps) /\ ps[i \div m + 1][i % m] = list[i + 1]
    <3> SUFFICES ASSUME NEW i \in 0..length - 1
                 PROVE  i \div m + 1 \in 1..Len(ps) /\ ps[i \div m + 1][i % m] = list[i + 1]
      OBVIOUS
    <3>1. i \div m + 1 \in 1..len /\ pages[i \div m + 1][i % m] = list[i + 1]
      BY <1>5
    <3> DEFINE q == i \div m + 1
    <3> HIDE DEF q
    <3>2. q \in 1..len => q \in 1..len + 1 /\ ps[q] = pages[q]
      BY <1>1, <2>4
    <3> QED BY <2>4, <3>1, <3>2 DEF q
  <2>7. \A p \in 1..Len(ps), e \in 0..m - 1 : ~Below(p, e, length) => ps[p][e] = Unwritten
    <3> SUFFICES ASSUME NEW p \in 1..len + 1, NEW e \in 0..m - 1, ~Below(p, e, length)
                 PROVE  ps[p][e] = Unwritten
      BY <2>4
    <3>1. CASE p = len + 1
      BY <2>1, <2>4, <3>1
    <3>2. CASE p # len + 1
      <4>1. p \in 1..len
        BY <1>1, <3>2
      <4> QED BY <1>5, <2>4, <4>1
    <3> QED BY <3>1, <3>2
  <2> QED BY <1>4, <2>3, <2>4, <2>5, <2>6, <2>7, PutKeeps DEF m, d, r
<1>7. CASE length # m * len
  <2>1. P!Put(pages, d, r, v)
    BY <1>7 DEF P!EmplaceBack
  <2>2. d < len
    <3> HIDE DEF d, r, len
    <3> QED BY <1>1, <1>2, <1>3, <1>7
  <2> QED BY <1>1, <1>4, <1>5, <2>1, <2>2, PutKeeps
<1> QED BY <1>6, <1>7

LEMMA DestroyedIs ==
  ASSUME PagesInv
  PROVE  P!Destroyed = [p \in DOMAIN pages |-> P!Page(pageLength)]
<1>1. DOMAIN pages = 1..Len(pages) /\ \A p \in DOMAIN pages : DOMAIN pages[p] = 0..pageLength - 1
  <2> DEFINE Elements == 0..pageLength - 1
             Page == [Elements -> Cells]
  <2>1. pages \in Seq(Page)
    BY DEF PagesInv
  <2> HIDE DEF Elements, Page
  <2>2. DOMAIN pages = 1..Len(pages) /\ \A p \in DOMAIN pages : pages[p] \in Page
    BY <2>1
  <2>3. \A p \in DOMAIN pages : DOMAIN pages[p] = Elements
    BY <2>2 DEF Page
  <2> QED BY <2>2, <2>3 DEF Elements
<1>2. ASSUME NEW p \in DOMAIN pages, NEW e \in 0..pageLength - 1
      PROVE  (IF p <= length \div pageLength \/ (p = length \div pageLength + 1 /\ e < length % pageLength)
              THEN Unwritten ELSE pages[p][e]) = Unwritten
  <2>1. \A q \in 1..Len(pages), f \in 0..pageLength - 1 : ~Below(q, f, length) => pages[q][f] = Unwritten
    BY DEF PagesInv
  <2>2. p \in 1..Len(pages)
    BY <1>1, Zenon
  <2>3. ~Below(p, e, length) => pages[p][e] = Unwritten
    BY <2>1, <2>2, Zenon
  <2> QED BY <2>3 DEF Below
<1>3. P!Destroyed = [p \in DOMAIN pages |-> [e \in 0..pageLength - 1 |->
        IF p <= length \div pageLength \/ (p = length \div pageLength + 1 /\ e < length % pageLength)
        THEN Unwritten ELSE pages[p][e]]]
  BY <1>1 DEF P!Destroyed
<1>4. ASSUME NEW p \in DOMAIN pages
      PROVE  P!Page(pageLength) = [e \in 0..pageLength - 1 |->
        IF p <= length \div pageLength \/ (p = length \div pageLength + 1 /\ e < length % pageLength)
        THEN Unwritten ELSE pages[p][e]]
  BY <1>2 DEF P!Page
<1> QED BY <1>3, <1>4, Zenon

\* New pages.
LEMMA NewPages ==
  ASSUME pageLength' \in Nat \ {0},
         pages' \in Seq([0..pageLength' - 1 -> Cells]),
         \A p \in 1..Len(pages'), e \in 0..pageLength' - 1 : pages'[p][e] = Unwritten,
         length' = 0, list' = <<>>, at' = P!Begin
  PROVE  PagesInv' /\ AtInv'
<1>1. 0 \div pageLength' = 0 /\ 0 % pageLength' = 0
  BY ZeroIs
<1>2. <<>> \in Seq(PageValues) /\ Len(<<>>) = 0 /\ Len(pages') \in Nat
  OBVIOUS
<1>3. \A i \in 0..length' - 1 : FALSE
  OBVIOUS
<1>4. length' \div pageLength' = 0 /\ length' % pageLength' = 0 /\ 0 <= Len(pages')
  <2>1. length' \div pageLength' = 0 /\ length' % pageLength' = 0
    BY <1>1, Zenon
  <2>2. 0 <= Len(pages')
    BY <1>2
  <2> QED BY <2>1, <2>2
<1>5. list' \in Seq(PageValues) /\ Len(list') = length' /\ length' \in Nat
  BY <1>2
<1>6. PagesInv'
  BY <1>3, <1>4, <1>5 DEF PagesInv
<1> QED BY <1>1, <1>6 DEF AtInv, P!Begin

\* PagedInv is an inductive invariant, and is what the property says.
LEMMA PagedInvariant ==
  /\ P!Init => PagedInv
  /\ PagedInv /\ [P!Next]_(P!vars) => PagedInv'
  /\ PagedInv => P!IndexAndIteratorAgree
<1>1. P!Init => PagedInv
  <2> SUFFICES ASSUME P!Init PROVE PagedInv
    OBVIOUS
  <2>1. PICK n \in PageLengths, c \in PageCounts :
          pageLength = P!NextPowerOfTwo(n) /\ pages = [p \in 1..c |-> P!Page(pageLength)]
    BY DEF P!Init
  <2>2. n \in Nat \ {0} /\ c \in Nat
    BY PagedVectorAssumption
  <2>3. pageLength \in Nat \ {0}
    BY <2>1, <2>2, NextPowerOfTwoIs
  <2>4. P!Page(pageLength) \in [0..pageLength - 1 -> Cells] /\ \A e \in 0..pageLength - 1 : P!Page(pageLength)[e] = Unwritten
    BY <2>3, PageIs
  <2>5. pages \in Seq([0..pageLength - 1 -> Cells]) /\ Len(pages) = c
    BY <2>1, <2>2, <2>4
  <2>6. \A p \in 1..Len(pages), e \in 0..pageLength - 1 : pages[p][e] = Unwritten
    BY <2>1, <2>4, <2>5
  <2>7. 0 \div pageLength = 0 /\ 0 % pageLength = 0
    BY <2>3, ZeroIs
  <2>8. <<>> \in Seq(PageValues) /\ Len(<<>>) = 0
    OBVIOUS
  <2>9. length = 0 /\ list = <<>> /\ ~lost /\ at = P!Begin /\ \A i \in 0..length - 1 : FALSE
    BY DEF P!Init
  <2>10. PagesInv
    BY <2>2, <2>3, <2>5, <2>6, <2>7, <2>8, <2>9 DEF PagesInv
  <2> QED BY <2>7, <2>9, <2>10 DEF PagedInv, AtInv, P!Begin
<1>2. PagedInv /\ [P!Next]_(P!vars) => PagedInv'
  <2> SUFFICES ASSUME PagedInv, [P!Next]_(P!vars) PROVE PagedInv'
    OBVIOUS
  <2>1. CASE P!Free
    BY <2>1, DestroyedIs DEF P!Free, PagedInv
  <2>2. ASSUME NEW v \in PageValues, pages # <<>>, P!EmplaceBack(v) PROVE PagedInv'
    <3>1. PagesInv' /\ ~lost'
      BY <2>2, PageEmplaceKeeps DEF PagedInv
    <3> QED BY <2>2, <3>1 DEF PagedInv, AtInv, P!EmplaceBack
  <2>3. CASE pages # <<>> /\ P!Clear
    <3>1. PagesInv
      BY <2>3 DEF PagedInv
    <3>2. pages' = [p \in DOMAIN pages |-> P!Page(pageLength)] /\ ~lost'
      BY <2>3, <3>1, DestroyedIs DEF P!Clear, PagedInv
    <3>3. pageLength \in Nat \ {0} /\ pages \in Seq([0..pageLength - 1 -> Cells])
      BY <3>1 DEF PagesInv
    <3>4. P!Page(pageLength) \in [0..pageLength - 1 -> Cells] /\ \A e \in 0..pageLength - 1 : P!Page(pageLength)[e] = Unwritten
      BY <3>3, PageIs
    <3>5. pages' = [p \in 1..Len(pages) |-> P!Page(pageLength)] /\ Len(pages) \in Nat
      BY <3>2, <3>3
    <3> DEFINE len == Len(pages)
    <3> HIDE DEF len
    <3>6. pages' \in Seq([0..pageLength - 1 -> Cells]) /\ Len(pages') = len
      BY <3>4, <3>5 DEF len
    <3>7. \A p \in 1..Len(pages'), e \in 0..pageLength - 1 : pages'[p][e] = Unwritten
      BY <3>4, <3>5, <3>6 DEF len
    <3>8. PagesInv' /\ AtInv'
      BY <2>3, <3>3, <3>6, <3>7, NewPages DEF P!Clear
    <3> QED BY <3>2, <3>8 DEF PagedInv
  <2>4. CASE pages # <<>> /\ P!Advance
    <3>1. at.pos + 1 \in Nat /\ PagesInv
      BY <2>4 DEF PagedInv, AtInv
    <3> QED BY <2>4, <3>1 DEF P!Advance, PagedInv, PagesInv, AtInv, Below
  <2>5. CASE UNCHANGED P!vars
    BY <2>5 DEF P!vars, PagedInv, PagesInv, AtInv, Below
  <2> QED BY <2>1, <2>2, <2>3, <2>4, <2>5 DEF P!Next
<1>3. PagedInv => P!IndexAndIteratorAgree
  <2> SUFFICES ASSUME PagedInv PROVE P!IndexAndIteratorAgree
    OBVIOUS
  <2>1. ASSUME pages # <<>>
        PROVE  \A i \in 0..length - 1 : pages[i \div pageLength + 1][i % pageLength] = list[i + 1]
    BY <2>1 DEF PagedInv, PagesInv
  <2>2. ASSUME pages # <<>>, at.pos < length
        PROVE  pages[at.page + 1][at.element] = list[at.pos + 1]
    <3>1. at.pos \in Nat /\ length \in Nat
      BY <2>2 DEF PagedInv, PagesInv, AtInv
    <3>2. at.pos \in 0..length - 1
      BY <2>2, <3>1
    <3> QED BY <2>1, <2>2, <3>2 DEF PagedInv, AtInv
  <2> QED BY <2>1, <2>2 DEF P!IndexAndIteratorAgree, PagedInv
<1> QED BY <1>1, <1>2, <1>3

\* PagedVector's index and iterator find the same objects, in the order of their emplacement.
THEOREM PagesKeepOrder == P!Spec => []P!IndexAndIteratorAgree
  BY PagedInvariant, PTL DEF P!Spec

-----------------------------------------------------------------------------
(* SparseVector.                                                           *)

\* Every emplacement has a group of its own, in their order.
SparseInv ==
  /\ placed \in Seq((0..PositionModulus - 1) \X Objects)
  /\ groupCount = Len(placed) /\ groupCount <= MaxGroups
  /\ DOMAIN groups = 0..MaxGroups - 1
  /\ \A g \in 0..groupCount - 1 :
       groups[g] = [First |-> placed[g + 1][1], ElementCount |-> 1, Elements |-> <<placed[g + 1][2]>>]
  /\ living = IF ended THEN {} ELSE {placed[k][2] : k \in DOMAIN placed}

LEMMA EmplaceAtKeeps ==
  ASSUME SparseInv, NEW pos \in 0..PositionModulus - 1, NEW object \in Objects, V!EmplaceAt(pos, object)
  PROVE  SparseInv'
<1> DEFINE len == Len(placed)
           x == <<pos, object>>
           new == Append(placed, x)
           group == [First |-> pos, ElementCount |-> 1, Elements |-> <<object>>]
           Pairs == (0..PositionModulus - 1) \X Objects
<1>1. x \in Pairs /\ x[1] = pos /\ x[2] = object
  OBVIOUS
<1> HIDE DEF x
<1>2. placed \in Seq(Pairs) /\ len \in Nat /\ groupCount = len
  BY DEF SparseInv
<1> HIDE DEF Pairs
<1>3. new \in Seq(Pairs) /\ Len(new) = len + 1 /\ new[len + 1] = x /\ \A k \in 1..len : new[k] = placed[k]
  BY <1>1, <1>2
<1>4. placed' = new /\ groupCount' = len + 1 /\ groups' = [groups EXCEPT ![len] = group]
  BY <1>2 DEF V!EmplaceAt, x
<1> HIDE DEF new
<1>5. len + 1 <= MaxGroups /\ MaxGroups \in Nat
  BY <1>2, SparseVectorAssumption DEF V!EmplaceAt, SparseInv
<1> HIDE DEF group
<1>6. /\ DOMAIN groups' = 0..MaxGroups - 1 /\ groups'[len] = group
      /\ \A g \in 0..len - 1 : groups'[g] = groups[g]
  BY <1>2, <1>4, <1>5 DEF SparseInv
<1>7. \A g \in 0..groupCount' - 1 :
        groups'[g] = [First |-> new[g + 1][1], ElementCount |-> 1, Elements |-> <<new[g + 1][2]>>]
  <2> SUFFICES ASSUME NEW g \in 0..len
               PROVE  groups'[g] = [First |-> new[g + 1][1], ElementCount |-> 1, Elements |-> <<new[g + 1][2]>>]
    BY <1>2, <1>4
  <2>1. CASE g = len
    BY <1>1, <1>3, <1>6, <2>1 DEF group
  <2>2. CASE g # len
    <3>1. g \in 0..len - 1 /\ g + 1 \in 1..len
      BY <1>2, <2>2
    <3>2. groups[g] = [First |-> placed[g + 1][1], ElementCount |-> 1, Elements |-> <<placed[g + 1][2]>>]
      BY <3>1 DEF SparseInv
    <3>3. new[g + 1] = placed[g + 1] /\ groups'[g] = groups[g]
      BY <1>3, <1>6, <3>1
    <3> QED BY <3>2, <3>3
  <2> QED BY <2>1, <2>2
<1>8. living' = IF ended' THEN {} ELSE {new[k][2] : k \in DOMAIN new}
  <2>1. DOMAIN placed = 1..len /\ DOMAIN new = 1..len + 1 /\ 1..len + 1 = (1..len) \union {len + 1}
    BY <1>2, <1>3
  <2>2. ~ended /\ ended' = ended /\ living' = living \union {object}
    BY DEF V!EmplaceAt
  <2>3. living = {placed[k][2] : k \in 1..len}
    BY <2>1, <2>2 DEF SparseInv
  <2>4. {new[k][2] : k \in 1..len + 1} = {new[k][2] : k \in 1..len} \union {new[len + 1][2]}
    BY <2>1
  <2>5. {new[k][2] : k \in 1..len} = {placed[k][2] : k \in 1..len}
    BY <1>3
  <2>6. new[len + 1][2] = object
    BY <1>1, <1>3
  <2> QED BY <2>1, <2>2, <2>3, <2>4, <2>5, <2>6
<1> QED
  BY <1>2, <1>3, <1>4, <1>5, <1>6, <1>7, <1>8 DEF SparseInv, Pairs

\* All objects are reached.
LEMMA ReachedIs ==
  ASSUME SparseInv, ~ended
  PROVE  V!Reached = living
<1>1. placed \in Seq((0..PositionModulus - 1) \X Objects) /\ groupCount = Len(placed)
  BY DEF SparseInv
<1>2. DOMAIN placed = 1..groupCount /\ groupCount \in Nat
  BY <1>1
<1>3. \A g \in 0..groupCount - 1 : groups[g].ElementCount = 1 /\ groups[g].Elements[1] = placed[g + 1][2]
  <2> SUFFICES ASSUME NEW g \in 0..groupCount - 1
               PROVE  groups[g].ElementCount = 1 /\ groups[g].Elements[1] = placed[g + 1][2]
    OBVIOUS
  <2>1. groups[g] = [First |-> placed[g + 1][1], ElementCount |-> 1, Elements |-> <<placed[g + 1][2]>>]
    BY DEF SparseInv
  <2> QED BY <2>1
<1>4. living = {placed[k][2] : k \in 1..groupCount}
  BY <1>2 DEF SparseInv
<1>5. V!Reached = {groups[g].Elements[1] : g \in 0..groupCount - 1}
  <2>1. {g \in 0..groupCount - 1 : groups[g].ElementCount > 0} = 0..groupCount - 1
    BY <1>3
  <2> QED BY <2>1 DEF V!Reached
<1>6. ASSUME NEW k \in 1..groupCount
      PROVE  placed[k][2] \in {groups[g].Elements[1] : g \in 0..groupCount - 1}
  <2>1. k - 1 \in 0..groupCount - 1 /\ (k - 1) + 1 = k
    BY <1>2
  <2>2. groups[k - 1].Elements[1] = placed[k][2]
    BY <1>3, <2>1
  <2> QED BY <2>1, <2>2
<1>7. ASSUME NEW g \in 0..groupCount - 1
      PROVE  groups[g].Elements[1] \in {placed[k][2] : k \in 1..groupCount}
  <2>1. g + 1 \in 1..groupCount
    BY <1>2
  <2> QED BY <1>3, <2>1
<1> QED BY <1>4, <1>5, <1>6, <1>7

\* In a group that is not at the highest position is its object only.
LEMMA HoldsIs ==
  ASSUME NEW first \in 0..PositionModulus - 1, NEW pos \in 0..PositionModulus - 2
  PROVE  first <= pos /\ pos < (first + 1) % PositionModulus <=> first = pos
<1>1. PositionModulus \in Nat \ {0}
  BY SparseVectorAssumption
<1>2. CASE first + 1 < PositionModulus
  <2>1. (first + 1) % PositionModulus = first + 1
    BY <1>1, <1>2
  <2> QED BY <1>1, <1>2, <2>1
<1>3. CASE ~(first + 1 < PositionModulus)
  <2>1. first + 1 = PositionModulus
    BY <1>1, <1>3
  <2>2. (first + 1) % PositionModulus = 0
    BY <1>1, <2>1
  <2> QED BY <1>1, <2>1, <2>2
<1> QED BY <1>2, <1>3

\* SparseInv is an inductive invariant, and is what the property says.
LEMMA SparseInvariant ==
  /\ V!Init => SparseInv
  /\ SparseInv /\ [V!Next]_(V!vars) => SparseInv'
  /\ SparseInv => V!FindsTheFirst
<1>0. /\ <<>> \in Seq((0..PositionModulus - 1) \X Objects) /\ Len(<<>>) = 0 /\ DOMAIN <<>> = {}
      /\ MaxGroups \in Nat /\ \A g \in 0..0 - 1 : FALSE
  BY SparseVectorAssumption
<1>1. V!Init => SparseInv
  BY <1>0 DEF V!Init, SparseInv
<1>2. SparseInv /\ [V!Next]_(V!vars) => SparseInv'
  <2> SUFFICES ASSUME SparseInv, [V!Next]_(V!vars) PROVE SparseInv'
    OBVIOUS
  <2>1. ASSUME NEW pos \in 0..PositionModulus - 1, NEW object \in Objects, V!EmplaceAt(pos, object)
        PROVE  SparseInv'
    BY <2>1, EmplaceAtKeeps
  <2>2. CASE V!Clear
    <3>1. living' = {} /\ ended' = ended /\ groupCount' = 0 /\ placed' = <<>>
      BY <2>2, ReachedIs DEF V!Clear
    <3>2. DOMAIN groups' = 0..MaxGroups - 1
      BY <2>2 DEF V!Clear, SparseInv
    <3> QED BY <1>0, <3>1, <3>2 DEF SparseInv
  <2>3. CASE V!Destroy
    <3>1. living' = {} /\ ended' = TRUE /\ UNCHANGED <<groups, groupCount, placed>>
      BY <2>3, ReachedIs DEF V!Destroy
    <3> QED BY <3>1 DEF SparseInv
  <2>4. CASE UNCHANGED V!vars
    BY <2>4 DEF V!vars, SparseInv
  <2> QED BY <2>1, <2>2, <2>3, <2>4 DEF V!Next
<1>3. SparseInv => V!FindsTheFirst
  <2> SUFFICES ASSUME SparseInv PROVE V!FindsTheFirst
    OBVIOUS
  <2> DEFINE len == groupCount
             first(g) == placed[g + 1][1]
  <2>1. /\ placed \in Seq((0..PositionModulus - 1) \X Objects) /\ len = Len(placed) /\ len \in Nat
        /\ DOMAIN placed = 1..len
    BY DEF SparseInv
  <2>2. \A k \in 1..len : placed[k][1] \in 0..PositionModulus - 1 /\ placed[k] = <<placed[k][1], placed[k][2]>>
    <3> SUFFICES ASSUME NEW k \in 1..len
                 PROVE  placed[k][1] \in 0..PositionModulus - 1 /\ placed[k] = <<placed[k][1], placed[k][2]>>
      OBVIOUS
    <3>1. placed[k] \in (0..PositionModulus - 1) \X Objects
      BY <2>1
    <3> QED BY <3>1
  <2>3. \A g \in 0..len - 1 : /\ groups[g].First = first(g) /\ groups[g].ElementCount = 1
                            /\ groups[g].Elements[1] = placed[g + 1][2]
                            /\ g + 1 \in 1..len /\ first(g) \in 0..PositionModulus - 1
    <3> SUFFICES ASSUME NEW g \in 0..len - 1
                 PROVE  /\ groups[g].First = first(g) /\ groups[g].ElementCount = 1
                        /\ groups[g].Elements[1] = placed[g + 1][2]
                        /\ g + 1 \in 1..len /\ first(g) \in 0..PositionModulus - 1
      OBVIOUS
    <3>1. groups[g] = [First |-> placed[g + 1][1], ElementCount |-> 1, Elements |-> <<placed[g + 1][2]>>]
      BY DEF SparseInv
    <3>2. g + 1 \in 1..len
      BY <2>1
    <3> QED BY <2>2, <3>1, <3>2
  <2>4. V!Walk = placed
    <3>1. \A k \in 1..len : <<groups[k - 1].First, groups[k - 1].Elements[1]>> = placed[k]
      <4> SUFFICES ASSUME NEW k \in 1..len
                   PROVE  <<groups[k - 1].First, groups[k - 1].Elements[1]>> = placed[k]
        OBVIOUS
      <4>1. k - 1 \in 0..len - 1 /\ (k - 1) + 1 = k
        BY <2>1
      <4>2. groups[k - 1].First = placed[k][1] /\ groups[k - 1].Elements[1] = placed[k][2]
        BY <2>3, <4>1
      <4> QED BY <2>2, <4>2
    <3>2. placed = [k \in 1..len |-> placed[k]]
      BY <2>1
    <3> QED BY <3>1, <3>2, Zenon DEF V!Walk
  <2>5. ASSUME NEW pos \in 0..PositionModulus - 2
        PROVE  LET here == {k \in DOMAIN placed : placed[k][1] = pos}
               IN  /\ V!IsSlotOccupied(pos) <=> here # {}
                   /\ here # {} => \E k \in here : placed[k][2] = V!At(pos) /\ \A m \in here : k <= m
    <3> DEFINE here == {k \in DOMAIN placed : placed[k][1] = pos}
               With == V!GroupsWith(pos)
    <3>1. With = {g \in 0..len - 1 : first(g) = pos}
      <4>1. ASSUME NEW g \in 0..len - 1 PROVE V!Holds(groups[g], pos) <=> first(g) = pos
        <5> DEFINE f == first(g)
        <5>1. f \in 0..PositionModulus - 1 /\ groups[g].First = f /\ groups[g].ElementCount = 1
          BY <2>3
        <5> HIDE DEF f
        <5>2. f <= pos /\ pos < (f + 1) % PositionModulus <=> f = pos
          BY <5>1, HoldsIs
        <5>3. V!Holds(groups[g], pos) <=> f = pos
          BY <5>1, <5>2 DEF V!Holds
        <5> QED BY <5>3 DEF f
      <4> QED BY <4>1 DEF V!GroupsWith
    <3> HIDE DEF With
    <3>2. \A g \in With : g \in 0..len - 1 /\ g + 1 \in here
      BY <2>1, <2>3, <3>1
    <3>3. \A k \in here : k \in 1..len /\ k - 1 \in With
      <4> SUFFICES ASSUME NEW k \in here PROVE k \in 1..len /\ k - 1 \in With
        OBVIOUS
      <4>1. k \in 1..len /\ k - 1 \in 0..len - 1 /\ (k - 1) + 1 = k
        BY <2>1
      <4> QED BY <3>1, <4>1
    <3>4. V!IsSlotOccupied(pos) <=> here # {}
      BY <3>2, <3>3 DEF V!IsSlotOccupied, With
    <3>5. ASSUME here # {}
          PROVE  \E k \in here : placed[k][2] = V!At(pos) /\ \A m \in here : k <= m
      <4>1. With # {} /\ With \subseteq Nat
        BY <2>1, <3>2, <3>3, <3>5
      <4>2. \E n \in With : \A m \in With : n <= m
        BY <4>1, Least
      <4> DEFINE g == CHOOSE g \in With : \A h \in With : g <= h
      <4>3. g \in With /\ \A h \in With : g <= h
        BY <4>2
      <4>4. V!At(pos) = groups[g].Elements[pos - groups[g].First + 1]
        BY DEF V!At, With
      <4> HIDE DEF g
      <4>5. g \in 0..len - 1 /\ first(g) = pos /\ g + 1 \in here
        BY <3>1, <3>2, <4>3
      <4>6. groups[g].First = pos /\ groups[g].Elements[1] = placed[g + 1][2]
        BY <2>3, <4>5
      <4>7. pos - pos + 1 = 1
        OBVIOUS
      <4>8. V!At(pos) = placed[g + 1][2]
        BY <4>4, <4>6, <4>7
      <4>9. \A m \in here : g + 1 <= m
        <5> SUFFICES ASSUME NEW m \in here PROVE g + 1 <= m
          OBVIOUS
        <5>1. m \in 1..len /\ m - 1 \in With
          BY <3>3
        <5>2. g <= m - 1
          BY <4>3, <5>1
        <5> QED BY <2>1, <4>5, <5>1, <5>2
      <4> QED BY <4>5, <4>8, <4>9
    <3> QED BY <3>4, <3>5
  <2>6. living = IF ended THEN {} ELSE {placed[k][2] : k \in DOMAIN placed}
    BY DEF SparseInv
  <2> QED BY <2>4, <2>5, <2>6 DEF V!FindsTheFirst
<1> QED BY <1>1, <1>2, <1>3

\* SparseVector finds at a position the first object emplaced there, and iterates over all.
THEOREM GroupsFindTheFirst == V!Init /\ [][V!Next]_(V!vars) => []V!FindsTheFirst
  BY SparseInvariant, PTL

-----------------------------------------------------------------------------
(* MultiVector.                                                            *)

(* Where the bytes are.                                                    *)

LEMMA SizesAre ==
  /\ \A n \in 0..Len(SizesOfTypes) : Y!SizeOf[n] \in Nat
  /\ \A m \in Y!Types : Y!SizeOf[m] = Y!SizeOf[m - 1] + SizesOfTypes[m]
<1> DEFINE len == Len(SizesOfTypes)
           loop(f, m) == [i \in 0..m |-> IF i = 0 THEN 0 ELSE f[i - 1] + SizesOfTypes[i]]
           Made == {m \in Nat : \E f : f = loop(f, m)}
<1>0. len \in Nat /\ Y!Types = 1..len /\ \A m \in Y!Types : SizesOfTypes[m] \in Nat \ {0}
  BY MultiVectorAssumption DEF Y!Types
<1>1. 0 \in Made
  <2>1. [i \in 0..0 |-> 0] = loop([i \in 0..0 |-> 0], 0)
    OBVIOUS
  <2> QED BY <2>1
<1>2. ASSUME NEW m \in Nat, m \in Made PROVE m + 1 \in Made
  <2>1. PICK f : f = loop(f, m)
    BY <1>2
  <2> DEFINE g == [i \in 0..m + 1 |-> IF i = m + 1 THEN f[m] + SizesOfTypes[m + 1] ELSE f[i]]
  <2>2. ASSUME NEW i \in 0..m + 1 PROVE g[i] = IF i = 0 THEN 0 ELSE g[i - 1] + SizesOfTypes[i]
    <3>1. CASE i = m + 1
      <4>1. i - 1 \in 0..m + 1 /\ i - 1 = m /\ i # 0 /\ m # m + 1
        BY <3>1
      <4> QED BY <3>1, <4>1
    <3>2. CASE i \in 0..m
      <4>1. g[i] = f[i] /\ (i # 0 => g[i - 1] = f[i - 1])
        BY <3>2
      <4>2. f[i] = IF i = 0 THEN 0 ELSE f[i - 1] + SizesOfTypes[i]
        BY <2>1, <3>2
      <4> QED BY <4>1, <4>2
    <3> QED BY <3>1, <3>2
  <2>3. g = loop(g, m + 1)
    <3>1. g = [i \in 0..m + 1 |-> g[i]]
      OBVIOUS
    <3> HIDE DEF g
    <3> QED BY <2>2, <3>1
  <2> HIDE DEF g
  <2>4. \E f1 : f1 = loop(f1, m + 1)
    BY <2>3
  <2>5. m + 1 \in Nat
    OBVIOUS
  <2> QED BY <2>4, <2>5, Zenon
<1>3. len \in Made
  <2> HIDE DEF Made
  <2>1. Nat \subseteq Made
    BY <1>1, <1>2, Induction
  <2> QED BY <1>0, <2>1
<1>4. Y!SizeOf = loop(Y!SizeOf, len)
  <2>1. \E f : f = loop(f, len)
    BY <1>3
  <2>2. Y!SizeOf = CHOOSE f : f = loop(f, len)
    BY DEF Y!SizeOf
  <2> QED BY <2>1, <2>2
<1>5. Y!SizeOf[0] = 0 /\ \A i \in 1..len : Y!SizeOf[i] = Y!SizeOf[i - 1] + SizesOfTypes[i]
  <2>1. \E f : f = Y!SizeOf
    OBVIOUS
  <2>2. PICK f : f = Y!SizeOf
    BY <2>1, Zenon
  <2> HIDE DEF len
  <2>3. f = loop(f, len)
    BY <1>4, <2>2
  <2>4. f[0] = 0
    BY <1>0, <2>3
  <2>5. ASSUME NEW i \in 1..len PROVE f[i] = f[i - 1] + SizesOfTypes[i]
    <3>1. i \in 0..len /\ i # 0
      BY <1>0
    <3>2. f[i] = IF i = 0 THEN 0 ELSE f[i - 1] + SizesOfTypes[i]
      BY <2>3, <3>1
    <3> QED BY <3>1, <3>2
  <2> QED BY <2>2, <2>4, <2>5
<1>6. \A n \in 0..len : Y!SizeOf[n] \in Nat
  <2> DEFINE Good == {i \in Nat : Y!SizeOf[i] \in Nat}
  <2>1. 0 \in Good
    BY <1>5
  <2>2. ASSUME NEW i \in 0..len - 1, i \in Good PROVE i + 1 \in Good
    <3>1. i + 1 \in 1..len /\ (i + 1) - 1 = i
      BY <1>0
    <3>2. Y!SizeOf[i + 1] = Y!SizeOf[i] + SizesOfTypes[i + 1] /\ SizesOfTypes[i + 1] \in Nat
      BY <1>0, <1>5, <3>1
    <3> QED BY <2>2, <3>1, <3>2
  <2> HIDE DEF Good
  <2>3. 0..len \subseteq Good
    BY <1>0, <2>1, <2>2, InductionUpTo
  <2> QED BY <2>3 DEF Good
<1> QED BY <1>0, <1>5, <1>6

\* What comes first lies before what comes later.
LEMMA SizesGrow ==
  ASSUME NEW a \in 0..Len(SizesOfTypes), NEW b \in 0..Len(SizesOfTypes), a <= b
  PROVE  Y!SizeOf[a] <= Y!SizeOf[b]
<1> DEFINE len == Len(SizesOfTypes)
           Good == {i \in Nat : a + i <= len => Y!SizeOf[a] <= Y!SizeOf[a + i]}
<1>0. len \in Nat /\ Y!Types = 1..len /\ \A m \in Y!Types : SizesOfTypes[m] \in Nat \ {0}
  BY MultiVectorAssumption DEF Y!Types
<1>1. 0 \in Good
  BY SizesAre, <1>0
<1>2. ASSUME NEW i \in Nat, i \in Good PROVE i + 1 \in Good
  <2> SUFFICES ASSUME a + (i + 1) <= len PROVE Y!SizeOf[a] <= Y!SizeOf[a + (i + 1)]
    OBVIOUS
  <2>1. a + i \in 0..len /\ a + (i + 1) \in 1..len /\ (a + (i + 1)) - 1 = a + i
    BY <1>0
  <2>2. Y!SizeOf[a + (i + 1)] = Y!SizeOf[a + i] + SizesOfTypes[a + (i + 1)]
    BY SizesAre, <1>0, <2>1
  <2>3. SizesOfTypes[a + (i + 1)] \in Nat /\ Y!SizeOf[a + i] \in Nat /\ Y!SizeOf[a] \in Nat
    BY SizesAre, <1>0, <2>1
  <2> QED BY <1>2, <2>1, <2>2, <2>3
<1> HIDE DEF Good
<1>3. Nat \subseteq Good
  BY <1>1, <1>2, Induction
<1>4. b - a \in Nat /\ a + (b - a) = b
  BY <1>0
<1>5. b - a \in Good
  BY <1>3, <1>4
<1> QED BY <1>4, <1>5 DEF Good

\* The parts of a row.
LEMMA PartsAre ==
  /\ Y!PackSize \in Nat
  /\ \A m \in Y!Types : /\ SizesOfTypes[m] \in Nat \ {0} /\ Y!PackSizeAt(m) \in Nat
                      /\ Y!PackSizeAt(m) + SizesOfTypes[m] <= Y!PackSize
  /\ \A m, n \in Y!Types : m = n \/ Y!PackSizeAt(m) + SizesOfTypes[m] <= Y!PackSizeAt(n)
                               \/ Y!PackSizeAt(n) + SizesOfTypes[n] <= Y!PackSizeAt(m)
<1> DEFINE len == Len(SizesOfTypes)
<1>0. len \in Nat /\ Y!Types = 1..len /\ \A m \in Y!Types : SizesOfTypes[m] \in Nat \ {0}
  BY MultiVectorAssumption DEF Y!Types
<1> HIDE DEF len
<1>1. Y!PackSize = Y!SizeOf[len] /\ \A m : Y!PackSizeAt(m) = Y!SizeOf[m - 1]
  BY DEF Y!PackSize, Y!PackSizeAt, len
<1>2. \A n \in 0..len : Y!SizeOf[n] \in Nat
  BY SizesAre DEF len
<1>3. \A m \in Y!Types : Y!SizeOf[m] = Y!PackSizeAt(m) + SizesOfTypes[m]
  BY SizesAre, <1>1
<1>4. \A m \in Y!Types : m \in 0..len /\ m - 1 \in 0..len /\ m <= len /\ len \in 0..len
  BY <1>0
<1>5. \A m \in Y!Types : Y!SizeOf[m] <= Y!PackSize
  BY SizesGrow, <1>1, <1>4 DEF len
<1>6. ASSUME NEW m \in Y!Types, NEW n \in Y!Types, m < n
      PROVE  Y!SizeOf[m] <= Y!PackSizeAt(n)
  <2>1. m <= n - 1
    BY <1>0, <1>6
  <2> QED BY SizesGrow, <1>1, <1>4, <2>1 DEF len
<1>7. \A m \in Y!Types, n \in Y!Types : m = n \/ m < n \/ n < m
  BY <1>0
<1>8. len \in 0..len
  BY <1>0
<1>9. Y!PackSize \in Nat
  BY <1>1, <1>2, <1>8
<1>10. \A m \in Y!Types : Y!PackSizeAt(m) \in Nat /\ Y!PackSizeAt(m) + SizesOfTypes[m] <= Y!PackSize
  BY <1>1, <1>2, <1>3, <1>4, <1>5
<1>11. \A m, n \in Y!Types : m = n \/ Y!PackSizeAt(m) + SizesOfTypes[m] <= Y!PackSizeAt(n)
                                 \/ Y!PackSizeAt(n) + SizesOfTypes[n] <= Y!PackSizeAt(m)
  BY <1>3, <1>6, <1>7
<1> QED BY <1>0, <1>9, <1>10, <1>11

LEMMA Products ==
  ASSUME NEW a \in Nat, NEW b \in Nat, NEW c \in Nat
  PROVE  /\ a * b \in Nat /\ b * a = a * b /\ a * (b + c) = a * b + a * c
         /\ b <= c => a * b <= a * c
OBVIOUS

\* Numbers that are written with a multiple and a rest are written so in one way only.
LEMMA OneWay ==
  ASSUME NEW n \in Nat \ {0}, NEW a \in Nat, NEW b \in Nat,
         NEW r \in 0..n - 1, NEW s \in 0..n - 1, n * a + r = n * b + s
  PROVE  a = b /\ r = s
<1>1. (n * a + r) % n = r /\ (n * b + s) % n = s
  <2> DEFINE h == n * a + r
  <2>1. h \in Nat /\ h = n * a + r /\ h = n * b + s
    BY Products
  <2> HIDE DEF h
  <2>2. h % n = r /\ h % n = s
    BY Remainder, <2>1
  <2> QED BY <2>1, <2>2
<1>2. r = s
  BY <1>1
<1>3. ASSUME NEW x \in Nat, NEW y \in Nat, x < y PROVE n * x < n * y
  <2>1. n * (x + 1) <= n * y
    BY Products, <1>3
  <2>2. n * (x + 1) = n * x + n
    BY Products
  <2> QED BY Products, <2>1, <2>2
<1>4. n * a = n * b
  BY Products, <1>2
<1> QED BY <1>2, <1>3, <1>4

\* A byte that there may be: the k-th of the value of type m in row i.
Byte(m, i, k) == m \in Y!Types /\ i \in Nat /\ k \in 0..SizesOfTypes[m] - 1

\* Its place in a block for so many rows.
PlaceOf(m, i, k, rows) == Y!GetPointer(m, rows, i) + k

LEMMA PlacesAre ==
  ASSUME NEW m, NEW i, NEW k, Byte(m, i, k), NEW rows \in Nat, i < rows, aos \in BOOLEAN
  PROVE  PlaceOf(m, i, k, rows) \in 0..rows * Y!PackSize - 1
<1> DEFINE o == Y!PackSizeAt(m)
           t == SizesOfTypes[m]
           pack == Y!PackSize
<1>1. o \in Nat /\ t \in Nat \ {0} /\ pack \in Nat /\ o + t <= pack /\ i \in Nat /\ k \in 0..t - 1
  BY PartsAre DEF Byte
<1>2. PlaceOf(m, i, k, rows) = IF aos THEN pack * i + o + k ELSE rows * o + i * t + k
  BY DEF PlaceOf, Y!GetPointer
<1> HIDE DEF o, t, pack
<1>3. pack * i + o + k \in 0..rows * pack - 1
  <2>1. pack * (i + 1) <= pack * rows
    BY Products, <1>1
  <2>2. pack * (i + 1) = pack * i + pack /\ pack * i \in Nat /\ pack * rows = rows * pack /\ rows * pack \in Nat
    BY Products, <1>1
  <2> QED BY <1>1, <2>1, <2>2
<1>4. rows * o + i * t + k \in 0..rows * pack - 1
  <2>1. t * (i + 1) <= t * rows /\ t * (i + 1) = t * i + t /\ t * i = i * t /\ t * rows = rows * t
    BY Products, <1>1
  <2>2. rows * (o + t) = rows * o + rows * t /\ rows * (o + t) <= rows * pack
    BY Products, <1>1
  <2>3. rows * o \in Nat /\ i * t \in Nat /\ rows * pack \in Nat /\ rows * t \in Nat
    BY Products, <1>1
  <2> QED BY <1>1, <2>1, <2>2, <2>3
<1>5. PlaceOf(m, i, k, rows) \in 0..rows * pack - 1
  <2>1. CASE aos
    BY <1>2, <1>3, <2>1
  <2>2. CASE ~aos
    BY <1>2, <1>4, <2>2
  <2> QED BY <2>1, <2>2
<1> QED BY <1>5 DEF pack

\* No two bytes have the same place.
LEMMA PlacesDiffer ==
  ASSUME NEW m, NEW i, NEW k, NEW n, NEW j, NEW l, NEW rows \in Nat, aos \in BOOLEAN,
         Byte(m, i, k), Byte(n, j, l), i < rows, j < rows,
         PlaceOf(m, i, k, rows) = PlaceOf(n, j, l, rows)
  PROVE  m = n /\ i = j /\ k = l
<1> DEFINE o == Y!PackSizeAt(m)
           t == SizesOfTypes[m]
           p == Y!PackSizeAt(n)
           u == SizesOfTypes[n]
           pack == Y!PackSize
<1>1. /\ o \in Nat /\ t \in Nat \ {0} /\ pack \in Nat /\ o + t <= pack /\ i \in Nat /\ k \in 0..t - 1
      /\ p \in Nat /\ u \in Nat \ {0} /\ p + u <= pack /\ j \in Nat /\ l \in 0..u - 1
      /\ m \in Y!Types /\ n \in Y!Types
  BY PartsAre DEF Byte
<1>2. m = n \/ o + t <= p \/ p + u <= o
  BY PartsAre, <1>1
<1>3. m = n => o = p /\ t = u
  OBVIOUS
<1>4. IF aos THEN pack * i + o + k = pack * j + p + l
             ELSE rows * o + i * t + k = rows * p + j * u + l
  BY DEF PlaceOf, Y!GetPointer
<1> HIDE DEF o, t, p, u, pack
<1>5. ASSUME aos PROVE m = n /\ i = j /\ k = l
  <2>1. o + k \in 0..pack - 1 /\ p + l \in 0..pack - 1 /\ pack \in Nat \ {0}
    BY <1>1
  <2>2. pack * i \in Nat /\ pack * j \in Nat
    BY Products, <1>1
  <2>3. pack * i + (o + k) = pack * j + (p + l)
    BY <1>1, <1>4, <1>5, <2>2
  <2>4. i = j /\ o + k = p + l
    BY OneWay, <1>1, <2>1, <2>3
  <2> QED BY <1>1, <1>2, <1>3, <2>4
<1>6. ASSUME ~aos PROVE m = n /\ i = j /\ k = l
  <2>1. rows * o \in Nat /\ rows * p \in Nat /\ rows * t \in Nat /\ rows * u \in Nat
    BY Products, <1>1
  <2>2. i * t + k \in 0..rows * t - 1 /\ j * u + l \in 0..rows * u - 1
    <3>1. t * (i + 1) <= t * rows /\ t * (i + 1) = t * i + t /\ t * i = i * t /\ t * rows = rows * t
          /\ i * t \in Nat
      BY Products, <1>1
    <3>2. u * (j + 1) <= u * rows /\ u * (j + 1) = u * j + u /\ u * j = j * u /\ u * rows = rows * u
          /\ j * u \in Nat
      BY Products, <1>1
    <3>3. i * t + k \in 0..rows * t - 1
      BY <1>1, <3>1, <2>1
    <3>4. j * u + l \in 0..rows * u - 1
      BY <1>1, <3>2, <2>1
    <3> QED BY <3>3, <3>4
  <2>3. i * t \in Nat /\ j * u \in Nat
    BY Products, <1>1
  <2>4. rows * o + (i * t + k) = rows * p + (j * u + l)
    BY <1>1, <1>4, <1>6, <2>1, <2>3
  <2>5. m = n
    <3>1. ASSUME o + t <= p PROVE FALSE
      <4>1. rows * (o + t) <= rows * p /\ rows * (o + t) = rows * o + rows * t
        BY Products, <1>1, <3>1
      <4> QED BY <2>1, <2>2, <2>4, <4>1
    <3>2. ASSUME p + u <= o PROVE FALSE
      <4>1. rows * (p + u) <= rows * o /\ rows * (p + u) = rows * p + rows * u
        BY Products, <1>1, <3>2
      <4> QED BY <2>1, <2>2, <2>4, <4>1
    <3> QED BY <1>2, <3>1, <3>2
  <2>6. t * i + k = t * j + l /\ k \in 0..t - 1 /\ l \in 0..t - 1
    <3>1. t = u /\ o = p
      BY <1>3, <2>5
    <3>2. i * t = t * i /\ j * t = t * j
      BY Products, <1>1
    <3>3. i * t + k = j * t + l
      BY <1>1, <2>1, <2>3, <2>4, <3>1
    <3> QED BY <1>1, <3>1, <3>2, <3>3
  <2> QED BY OneWay, <1>1, <2>5, <2>6
<1> QED BY <1>5, <1>6

(* The rows.                                                               *)

\* Every byte of every row is at its place.
MultiInv ==
  /\ aos \in BOOLEAN /\ rowCapacity \in Nat /\ rowCount \in Nat /\ rowCount <= rowCapacity
  /\ rowList \in Seq(RowsUsed) /\ rowCount = Len(rowList)
  /\ DOMAIN rowBytes = 0..rowCapacity * Y!PackSize - 1
  /\ ~astray
  /\ \A m, i, k : Byte(m, i, k) /\ i < rowCount =>
       rowBytes[PlaceOf(m, i, k, rowCapacity)] = <<rowList[i + 1][m], k>>

\* The bytes of a row, and where they are, in the words of the module.
LEMMA BytesAre ==
  ASSUME NEW i \in Nat
  PROVE  /\ \A m, k : Byte(m, i, k) => <<m, i, k>> \in Y!BytesOf(i) /\ Y!Existing(<<m, i, k>>)
         /\ \A x \in Y!BytesOf(i) : Y!Existing(x) => \E m, k : x = <<m, i, k>> /\ Byte(m, i, k)
         /\ \A m, k, rows : Y!Place(<<m, i, k>>, rows) = PlaceOf(m, i, k, rows)
<1>1. ASSUME NEW m, NEW k, Byte(m, i, k)
      PROVE  <<m, i, k>> \in Y!BytesOf(i) /\ Y!Existing(<<m, i, k>>)
  <2>1. m \in Y!Types /\ k \in 0..SizesOfTypes[m] - 1 /\ SizesOfTypes[m] \in Nat \ {0}
        /\ Y!PackSizeAt(m) \in Nat /\ Y!PackSize \in Nat /\ Y!PackSizeAt(m) + SizesOfTypes[m] <= Y!PackSize
    BY <1>1, PartsAre DEF Byte
  <2>2. k \in 0..Y!PackSize - 1 /\ k < SizesOfTypes[m]
    BY <2>1
  <2>3. <<m, i, k>> \in Y!BytesOf(i)
    BY <2>1, <2>2 DEF Y!BytesOf
  <2> QED BY <2>2, <2>3 DEF Y!Existing
<1>2. ASSUME NEW x \in Y!BytesOf(i), Y!Existing(x)
      PROVE  \E m, k : x = <<m, i, k>> /\ Byte(m, i, k)
  <2>1. PICK m \in Y!Types, k \in 0..Y!PackSize - 1 : x = <<m, i, k>>
    BY DEF Y!BytesOf
  <2>2. k < SizesOfTypes[m] /\ SizesOfTypes[m] \in Nat \ {0} /\ Y!PackSize \in Nat
    BY <1>2, <2>1, PartsAre DEF Y!Existing
  <2>3. k \in 0..SizesOfTypes[m] - 1
    BY <2>1, <2>2
  <2> QED BY <2>1, <2>3 DEF Byte
<1>3. \A m, k, rows : Y!Place(<<m, i, k>>, rows) = PlaceOf(m, i, k, rows)
  BY DEF Y!Place, PlaceOf
<1> QED BY <1>1, <1>2, <1>3

\* What is there is moved to its places in the block for more rows.
LEMMA RowsMovedIs ==
  ASSUME MultiInv, NEW rows \in Nat, rowCount <= rows
  PROVE  /\ DOMAIN Y!Moved(rows) = 0..rows * Y!PackSize - 1
         /\ \A m, i, k : Byte(m, i, k) /\ i < rowCount =>
              Y!Moved(rows)[PlaceOf(m, i, k, rows)] = <<rowList[i + 1][m], k>>
<1> DEFINE Kept(b) == {x \in UNION {Y!BytesOf(i) : i \in 0..rowCount - 1} :
                         Y!Existing(x) /\ Y!Place(x, rows) = b}
           Value(b) == CASE aos /\ b < rowCount * Y!PackSize -> rowBytes[b]
                         [] ~aos /\ Kept(b) # {} -> rowBytes[Y!Place(CHOOSE x \in Kept(b) : TRUE, rowCapacity)]
                         [] OTHER -> Unwritten
<1>1. Y!Moved(rows) = [b \in 0..rows * Y!PackSize - 1 |-> Value(b)]
  BY DEF Y!Moved
<1> HIDE DEF Value
<1>2. DOMAIN Y!Moved(rows) = 0..rows * Y!PackSize - 1
  BY <1>1
<1>3. ASSUME NEW m, NEW i, NEW k, Byte(m, i, k), i < rowCount
      PROVE  Y!Moved(rows)[PlaceOf(m, i, k, rows)] = <<rowList[i + 1][m], k>>
  <2> DEFINE b == PlaceOf(m, i, k, rows)
             c == PlaceOf(m, i, k, rowCapacity)
  <2>1. i \in Nat /\ i < rows /\ rowCount \in Nat /\ aos \in BOOLEAN /\ i \in 0..rowCount - 1
    BY <1>3 DEF MultiInv, Byte
  <2>2. b \in 0..rows * Y!PackSize - 1
    BY <1>3, <2>1, PlacesAre
  <2>3. Y!Moved(rows)[b] = Value(b)
    BY <1>1, <2>2
  <2>4. rowBytes[c] = <<rowList[i + 1][m], k>>
    BY <1>3 DEF MultiInv
  <2>5. CASE aos
    <3>1. PlaceOf(m, i, k, rowCount) \in 0..rowCount * Y!PackSize - 1
      BY <1>3, <2>1, PlacesAre
    <3>2. PlaceOf(m, i, k, rowCount) = b /\ c = b
      BY <2>5 DEF PlaceOf, Y!GetPointer
    <3>3. rowCount * Y!PackSize \in Nat
      BY PartsAre, Products, <2>1
    <3> HIDE DEF b, c
    <3>4. b < rowCount * Y!PackSize
      BY <3>1, <3>2, <3>3
    <3>5. Value(b) = rowBytes[b]
      BY <2>5, <3>4 DEF Value
    <3> QED BY <2>3, <2>4, <3>2, <3>5 DEF b
  <2>6. CASE ~aos
    <3> DEFINE x == <<m, i, k>>
    <3>1. x \in Y!BytesOf(i) /\ Y!Existing(x) /\ Y!Place(x, rows) = b /\ Y!Place(x, rowCapacity) = c
      BY <1>3, <2>1, BytesAre
    <3> HIDE DEF x, b, c
    <3>2. x \in Kept(b)
      BY <2>1, <3>1
    <3>3. ASSUME NEW y \in Kept(b) PROVE y = x
      <4>1. PICK j \in 0..rowCount - 1 : y \in Y!BytesOf(j)
        BY <3>3
      <4>2. Y!Existing(y) /\ Y!Place(y, rows) = b
        BY <3>3
      <4>3. j \in Nat /\ j < rows
        BY <2>1, <4>1
      <4>4. PICK n, l : y = <<n, j, l>> /\ Byte(n, j, l)
        BY <4>1, <4>2, <4>3, BytesAre
      <4>5. PlaceOf(n, j, l, rows) = b
        BY <4>2, <4>3, <4>4, BytesAre
      <4>6. PlaceOf(n, j, l, rows) = PlaceOf(m, i, k, rows)
        BY <4>5 DEF b
      <4>7. n = m /\ j = i /\ l = k
        BY <1>3, <2>1, <4>3, <4>4, <4>6, PlacesDiffer
      <4> QED BY <4>4, <4>7 DEF x
    <3>4. (CHOOSE y \in Kept(b) : TRUE) = x
      BY <3>2, <3>3
    <3>5. Kept(b) # {}
      BY <3>2
    <3> HIDE DEF Kept
    <3>6. Value(b) = rowBytes[Y!Place(CHOOSE y \in Kept(b) : TRUE, rowCapacity)]
      BY <2>6, <3>5 DEF Value
    <3>7. Value(b) = rowBytes[c]
      BY <3>1, <3>4, <3>6
    <3> QED BY <2>3, <2>4, <3>7 DEF b
  <2> QED BY <2>1, <2>5, <2>6
<1> QED BY <1>2, <1>3

LEMMA RowEmplaceKeeps ==
  ASSUME MultiInv, NEW row \in RowsUsed, Y!EmplaceBack(row)
  PROVE  MultiInv'
<1> DEFINE needed == Y!RoomFor(1)
           old == IF needed = rowCapacity THEN rowBytes ELSE Y!Moved(needed)
           new == {x \in Y!BytesOf(rowCount) : Y!Existing(x)}
           At(b) == CHOOSE x \in new : Y!Place(x, needed) = b
<1>1. /\ aos' = aos /\ rowCount' = rowCount + 1 /\ rowList' = Append(rowList, row)
      /\ rowCapacity' = needed
      /\ rowBytes' = [b \in DOMAIN old |->
                    IF \E x \in new : Y!Place(x, needed) = b THEN <<row[At(b)[1]], At(b)[3]>> ELSE old[b]]
      /\ astray' = (astray \/ \E x \in new : Y!Place(x, needed) \notin DOMAIN old)
  BY DEF Y!EmplaceBack
<1>2. aos \in BOOLEAN /\ rowCount \in Nat /\ rowCapacity \in Nat /\ rowCount <= rowCapacity
  BY DEF MultiInv
<1>3. needed \in Nat /\ rowCount < needed /\ rowCount <= needed
  BY <1>2 DEF Y!RoomFor
<1> HIDE DEF needed
<1>4. /\ DOMAIN old = 0..needed * Y!PackSize - 1
      /\ \A m, i, k : Byte(m, i, k) /\ i < rowCount =>
           old[PlaceOf(m, i, k, needed)] = <<rowList[i + 1][m], k>>
  <2>1. CASE needed = rowCapacity
    BY <2>1 DEF MultiInv
  <2>2. CASE needed # rowCapacity
    BY <1>3, <2>2, RowsMovedIs
  <2> QED BY <2>1, <2>2
<1> HIDE DEF old
<1>5. /\ \A m, k : Byte(m, rowCount, k) =>
           <<m, rowCount, k>> \in new /\ Y!Place(<<m, rowCount, k>>, needed) = PlaceOf(m, rowCount, k, needed)
      /\ \A x \in new : \E m, k : /\ x = <<m, rowCount, k>> /\ Byte(m, rowCount, k)
                                  /\ Y!Place(x, needed) = PlaceOf(m, rowCount, k, needed)
  BY <1>2, BytesAre
<1> HIDE DEF new
<1>6. \A x \in new : Y!Place(x, needed) \in DOMAIN old
  <2> SUFFICES ASSUME NEW x \in new PROVE Y!Place(x, needed) \in DOMAIN old
    OBVIOUS
  <2>1. PICK m, k : Byte(m, rowCount, k) /\ Y!Place(x, needed) = PlaceOf(m, rowCount, k, needed)
    BY <1>5
  <2> QED BY <1>2, <1>3, <1>4, <2>1, PlacesAre
<1>7. ~astray'
  BY <1>1, <1>6 DEF MultiInv
<1>8. DOMAIN rowBytes' = 0..rowCapacity' * Y!PackSize - 1
  BY <1>1, <1>4
<1>9. /\ rowList' \in Seq(RowsUsed) /\ rowCount' = Len(rowList')
      /\ rowList'[rowCount + 1] = row /\ \A i \in 0..rowCount - 1 : rowList'[i + 1] = rowList[i + 1]
  BY <1>1 DEF MultiInv
<1>10. ASSUME NEW m, NEW i, NEW k, Byte(m, i, k), i < rowCount + 1
       PROVE  rowBytes'[PlaceOf(m, i, k, needed)] = <<rowList'[i + 1][m], k>>
  <2> DEFINE b == PlaceOf(m, i, k, needed)
  <2>1. i \in Nat /\ i < needed
    BY <1>2, <1>3, <1>10 DEF Byte
  <2>2. b \in DOMAIN old
    BY <1>2, <1>3, <1>4, <1>10, <2>1, PlacesAre
  <2>3. rowBytes'[b] = IF \E x \in new : Y!Place(x, needed) = b THEN <<row[At(b)[1]], At(b)[3]>> ELSE old[b]
    BY <1>1, <2>2
  <2>4. ASSUME NEW x \in new, Y!Place(x, needed) = b PROVE i = rowCount /\ x = <<m, i, k>>
    <3>1. PICK n, l : x = <<n, rowCount, l>> /\ Byte(n, rowCount, l)
                      /\ PlaceOf(n, rowCount, l, needed) = b
      BY <1>5, <2>4
    <3>2. m = n /\ i = rowCount /\ k = l
      BY <1>2, <1>3, <1>10, <2>1, <3>1, PlacesDiffer
    <3> QED BY <3>1, <3>2
  <2> HIDE DEF b
  <2>5. CASE i = rowCount
    <3>1. <<m, i, k>> \in new /\ Y!Place(<<m, i, k>>, needed) = b
      BY <1>5, <1>10, <2>5 DEF b
    <3>2. At(b) = <<m, i, k>>
      BY <2>4, <3>1
    <3> HIDE DEF At
    <3>3. At(b)[1] = m /\ At(b)[3] = k
      BY <3>2
    <3>4. rowBytes'[b] = <<row[m], k>>
      BY <2>3, <3>1, <3>3
    <3> QED BY <1>9, <2>5, <3>4 DEF b
  <2>6. CASE i # rowCount
    <3>1. ~ \E x \in new : Y!Place(x, needed) = b
      BY <2>4, <2>6
    <3>2. i < rowCount /\ i \in 0..rowCount - 1
      BY <1>2, <1>10, <2>1, <2>6
    <3>3. old[b] = <<rowList[i + 1][m], k>>
      BY <1>4, <1>10, <3>2 DEF b
    <3>4. rowList'[i + 1] = rowList[i + 1]
      BY <1>9, <3>2
    <3> QED BY <2>3, <3>1, <3>3, <3>4 DEF b
  <2> QED BY <2>5, <2>6
<1>11. aos' \in BOOLEAN /\ rowCapacity' \in Nat /\ rowCount' \in Nat /\ rowCount' <= rowCapacity'
  BY <1>1, <1>2, <1>3
<1>12. ASSUME NEW m, NEW i, NEW k
       PROVE  PlaceOf(m, i, k, rowCapacity)' = PlaceOf(m, i, k, needed)
  BY <1>1 DEF PlaceOf, Y!GetPointer
<1>13. ASSUME NEW m, NEW i, NEW k, Byte(m, i, k), i < rowCount'
       PROVE  rowBytes'[PlaceOf(m, i, k, rowCapacity)'] = <<rowList'[i + 1][m], k>>
  <2>1. i < rowCount + 1
    BY <1>1, <1>13
  <2>2. rowBytes'[PlaceOf(m, i, k, needed)] = <<rowList'[i + 1][m], k>>
    BY <1>10, <1>13, <2>1
  <2> QED BY <1>12, <2>2
<1>14. rowList' \in Seq(RowsUsed) /\ rowCount' = Len(rowList')
  BY <1>9
<1> QED
  BY <1>7, <1>8, <1>11, <1>13, <1>14 DEF MultiInv

\* MultiInv is an inductive invariant, and is what the property says.
LEMMA MultiInvariant ==
  /\ Y!Init => MultiInv
  /\ MultiInv /\ [Y!Next]_(Y!vars) => MultiInv'
  /\ MultiInv => Y!RowsReadBack
<1>1. Y!Init => MultiInv
  <2> SUFFICES ASSUME Y!Init PROVE MultiInv
    OBVIOUS
  <2>1. /\ aos \in BOOLEAN /\ rowCapacity \in Nat /\ rowCount = 0 /\ rowList = <<>> /\ ~astray
        /\ DOMAIN rowBytes = 0..rowCapacity * Y!PackSize - 1
    BY MultiVectorAssumption DEF Y!Init, Y!Blank
  <2>2. <<>> \in Seq(RowsUsed) /\ Len(<<>>) = 0
    OBVIOUS
  <2>3. \A m, i, k : ~(Byte(m, i, k) /\ i < 0)
    BY DEF Byte
  <2> QED BY <2>1, <2>2, <2>3 DEF MultiInv
<1>2. MultiInv /\ [Y!Next]_(Y!vars) => MultiInv'
  <2> SUFFICES ASSUME MultiInv, [Y!Next]_(Y!vars) PROVE MultiInv'
    OBVIOUS
  <2>1. CASE Y!Next
    BY <2>1, RowEmplaceKeeps DEF Y!Next
  <2>2. CASE UNCHANGED Y!vars
    BY <2>2 DEF Y!vars, MultiInv, PlaceOf, Y!GetPointer
  <2> QED BY <2>1, <2>2
<1>3. MultiInv => Y!RowsReadBack
  <2> SUFFICES ASSUME MultiInv PROVE Y!RowsReadBack
    OBVIOUS
  <2>1. ASSUME NEW m \in Y!Types, NEW i \in 0..rowCount - 1, NEW k \in 0..SizesOfTypes[m] - 1
        PROVE  rowBytes[Y!GetPointer(m, rowCapacity, i) + k] = <<rowList[i + 1][m], k>>
    <3>1. Byte(m, i, k) /\ i < rowCount
      BY DEF MultiInv, Byte
    <3> QED BY <3>1 DEF MultiInv, PlaceOf
  <2> QED BY <2>1 DEF MultiInv, Y!RowsReadBack
<1> QED BY <1>1, <1>2, <1>3

\* Every value of every row of a MultiVector is found, whole, where At looks for it.
THEOREM RowsAreWhole == Y!Init /\ [][Y!Next]_(Y!vars) => []Y!RowsReadBack
  BY MultiInvariant, PTL

\* The three of them in every behaviour of the library.
THEOREM LibraryContainersAgree == CoreSpec => []IndexAndIteratorAgree
<1>1. CoreInit => P!Init
  BY DEF CoreInit
<1>2. [CoreNext]_<<focus, coreVars>> => [P!Next]_(P!vars)
  BY DEF CoreNext, coreVars, CoreRests, Rests, pagedVector, P!vars
<1>3. CoreInit => V!Init
  BY DEF CoreInit
<1>4. [CoreNext]_<<focus, coreVars>> => [V!Next]_(V!vars)
  BY DEF CoreNext, coreVars, CoreRests, Rests, sparseVector, V!vars
<1>5. CoreInit => Y!Init
  BY DEF CoreInit
<1>6. [CoreNext]_<<focus, coreVars>> => [Y!Next]_(Y!vars)
  BY DEF CoreNext, coreVars, CoreRests, Rests, multiVector, Y!vars
<1>7. P!IndexAndIteratorAgree /\ V!FindsTheFirst /\ Y!RowsReadBack => IndexAndIteratorAgree
  BY DEF IndexAndIteratorAgree
<1> QED
  BY <1>1, <1>2, <1>3, <1>4, <1>5, <1>6, <1>7,
     PagedInvariant, SparseInvariant, MultiInvariant, PTL DEF CoreSpec

-----------------------------------------------------------------------------
(* Buffer and File.                                                        *)

\* The bytes of files and memory.
Octets == Nat \union {Unwritten}

FileInv == content \in Seq(Octets) /\ pointer \in Nat

\* The memory has the capacity, and below the length what was written.
Holding ==
  /\ bufferCapacity \in Nat /\ bufferLength \in Nat /\ readPos \in Nat
  /\ readPos <= bufferLength /\ bufferLength <= bufferCapacity
  /\ DOMAIN memory = 0..bufferCapacity - 1
  /\ \A i \in 0..bufferCapacity - 1 : memory[i] \in Octets
  /\ written \in Seq(Octets) /\ Len(written) = bufferLength
  /\ \A i \in 1..bufferLength : memory[i - 1] = written[i]
  /\ read = SubSeq(written, 1, readPos)

StreamInv == FileInv /\ (odd = {} => ~beyond /\ Holding)

LEMMA Prefix ==
  ASSUME NEW Elems, NEW s \in Seq(Elems), NEW n \in Nat, n <= Len(s)
  PROVE  /\ SubSeq(s, 1, n) \in Seq(Elems) /\ Len(SubSeq(s, 1, n)) = n
         /\ \A i \in 1..n : SubSeq(s, 1, n)[i] = s[i]
<1>1. \A i \in 1..n : s[i] \in Elems
  OBVIOUS
<1>2. SubSeq(s, 1, n) = [i \in 1..n |-> s[i]]
  OBVIOUS
<1> QED BY <1>1, <1>2

\* A part of a sequence is a sequence of no more.
LEMMA Stretch ==
  ASSUME NEW Elems, NEW s \in Seq(Elems), NEW p \in Nat, NEW n \in Nat, n <= Len(s)
  PROVE  /\ SubSeq(s, p + 1, n) \in Seq(Elems)
         /\ Len(SubSeq(s, p + 1, n)) = IF p <= n THEN n - p ELSE 0
<1>1. CASE p <= n
  BY <1>1
<1>2. CASE ~(p <= n)
  BY <1>2
<1> QED BY <1>1, <1>2

LEMMA Joined ==
  ASSUME NEW Elems, NEW s \in Seq(Elems), NEW t \in Seq(Elems)
  PROVE  /\ s \o t \in Seq(Elems) /\ Len(s \o t) = Len(s) + Len(t)
         /\ \A i \in 1..Len(s) : (s \o t)[i] = s[i]
         /\ \A i \in 1..Len(t) : (s \o t)[Len(s) + i] = t[i]
OBVIOUS

LEMMA SeqEqual ==
  ASSUME NEW Elems, NEW s \in Seq(Elems), NEW t \in Seq(Elems), Len(s) = Len(t),
         \A i \in 1..Len(t) : s[i] = t[i]
  PROVE  s = t
OBVIOUS

\* Memory of another size, which has what the old one has below n.
LEMMA BytesMovedIs ==
  ASSUME Holding, NEW size \in Nat, NEW n \in Nat, n <= bufferCapacity, n <= size
  PROVE  /\ DOMAIN B!Moved(size, n) = 0..size - 1
         /\ \A i \in 0..size - 1 : B!Moved(size, n)[i] \in Octets
         /\ \A i \in 0..n - 1 : B!Moved(size, n)[i] = memory[i]
<1>1. CASE size = bufferCapacity
  <2>1. B!Moved(size, n) = memory
    BY <1>1 DEF B!Moved
  <2>2. \A i \in 0..n - 1 : i \in 0..bufferCapacity - 1
    BY DEF Holding
  <2> QED BY <1>1, <2>1, <2>2 DEF Holding
<1>2. CASE size # bufferCapacity
  <2>1. B!Moved(size, n) = [i \in 0..size - 1 |-> IF i < n THEN B!Cell(i) ELSE Unwritten]
    BY <1>2 DEF B!Moved, B!Copied
  <2>2. \A i \in 0..size - 1 : i < n => i \in 0..bufferCapacity - 1 /\ B!Cell(i) = memory[i]
    BY DEF Holding, B!Cell
  <2>3. \A i \in 0..size - 1 : i < n => B!Moved(size, n)[i] = memory[i] /\ memory[i] \in Octets
    BY <2>1, <2>2 DEF Holding
  <2>4. \A i \in 0..size - 1 : ~(i < n) => B!Moved(size, n)[i] = Unwritten
    BY <2>1
  <2>5. \A i \in 0..n - 1 : i \in 0..size - 1 /\ i < n
    OBVIOUS
  <2>6. DOMAIN B!Moved(size, n) = 0..size - 1
    BY <2>1
  <2> QED BY <2>3, <2>4, <2>5, <2>6 DEF Octets
<1> QED BY <1>1, <1>2

LEMMA AppendBytesKeeps ==
  ASSUME Holding, ~beyond, NEW v \in Seq(Octets), NEW size \in Nat,
         bufferLength + Len(v) <= size, B!AppendBytes(v, size)
  PROVE  Holding' /\ ~beyond'
<1> DEFINE old == B!Moved(size, bufferLength)
           len == Len(v)
<1>1. /\ bufferCapacity \in Nat /\ bufferLength \in Nat /\ bufferLength <= bufferCapacity /\ len \in Nat
      /\ bufferLength + len <= size
  BY DEF Holding
<1>2. /\ DOMAIN old = 0..size - 1
      /\ \A i \in 0..size - 1 : old[i] \in Octets
      /\ \A i \in 0..bufferLength - 1 : old[i] = memory[i]
  <2>1. bufferLength <= size
    BY <1>1
  <2> QED BY <1>1, <2>1, BytesMovedIs
<1> HIDE DEF old
<1>3. memory' = [i \in DOMAIN old |-> IF i - bufferLength + 1 \in DOMAIN v THEN v[i - bufferLength + 1] ELSE old[i]]
  BY DEF B!AppendBytes, old
<1>4. DOMAIN v = 1..len /\ \A k \in 1..len : v[k] \in Octets
  OBVIOUS
<1> HIDE DEF len
<1>5. \A i \in 0..size - 1 : i < bufferLength => memory'[i] = old[i]
  BY <1>1, <1>2, <1>3, <1>4
<1>6. \A k \in 1..len : bufferLength + k - 1 \in 0..size - 1 /\ memory'[bufferLength + k - 1] = v[k]
  <2> SUFFICES ASSUME NEW k \in 1..len
               PROVE  bufferLength + k - 1 \in 0..size - 1 /\ memory'[bufferLength + k - 1] = v[k]
    OBVIOUS
  <2>1. bufferLength + k - 1 \in 0..size - 1 /\ (bufferLength + k - 1) - bufferLength + 1 = k
    BY <1>1
  <2> QED BY <1>2, <1>3, <1>4, <2>1
<1>7. \A i \in 0..size - 1 : memory'[i] \in Octets
  <2> SUFFICES ASSUME NEW i \in 0..size - 1 PROVE memory'[i] \in Octets
    OBVIOUS
  <2>1. CASE i - bufferLength + 1 \in DOMAIN v
    BY <1>2, <1>3, <1>4, <2>1
  <2>2. CASE i - bufferLength + 1 \notin DOMAIN v
    BY <1>2, <1>3, <2>2
  <2> QED BY <2>1, <2>2
<1>8. /\ written' = written \o v /\ bufferCapacity' = size /\ bufferLength' = bufferLength + len
      /\ readPos' = readPos /\ read' = read
  BY DEF B!AppendBytes, len
<1>9. /\ written' \in Seq(Octets) /\ Len(written') = bufferLength'
      /\ \A i \in 1..bufferLength : written'[i] = written[i]
      /\ \A i \in 1..len : written'[bufferLength + i] = v[i]
  <2>1. written \in Seq(Octets) /\ Len(written) = bufferLength
    BY DEF Holding
  <2>2. /\ written \o v \in Seq(Octets) /\ Len(written \o v) = Len(written) + Len(v)
        /\ \A i \in 1..Len(written) : (written \o v)[i] = written[i]
        /\ \A i \in 1..Len(v) : (written \o v)[Len(written) + i] = v[i]
    <3> DEFINE s == written
    <3>1. s \in Seq(Octets) /\ v \in Seq(Octets)
      BY <2>1
    <3> HIDE DEF s
    <3>2. /\ s \o v \in Seq(Octets) /\ Len(s \o v) = Len(s) + Len(v)
          /\ \A i \in 1..Len(s) : (s \o v)[i] = s[i]
          /\ \A i \in 1..Len(v) : (s \o v)[Len(s) + i] = v[i]
      BY <3>1, Joined
    <3> QED BY <3>2 DEF s
  <2> QED BY <1>8, <2>1, <2>2 DEF len
<1>10. \A i \in 1..bufferLength' : memory'[i - 1] = written'[i]
  <2> SUFFICES ASSUME NEW i \in 1..bufferLength + len PROVE memory'[i - 1] = written'[i]
    BY <1>8
  <2>1. CASE i <= bufferLength
    <3>1. i \in 1..bufferLength /\ i - 1 \in 0..bufferLength - 1 /\ i - 1 \in 0..size - 1 /\ i - 1 < bufferLength
      BY <1>1, <2>1
    <3>2. memory[i - 1] = written[i]
      BY <3>1 DEF Holding
    <3> QED BY <1>2, <1>5, <1>9, <3>1, <3>2
  <2>2. CASE ~(i <= bufferLength)
    <3>1. i - bufferLength \in 1..len /\ bufferLength + (i - bufferLength) - 1 = i - 1 /\ bufferLength + (i - bufferLength) = i
      BY <1>1, <2>2
    <3>2. memory'[bufferLength + (i - bufferLength) - 1] = v[i - bufferLength]
      BY <1>6, <3>1
    <3>3. written'[bufferLength + (i - bufferLength)] = v[i - bufferLength]
      BY <1>9, <3>1
    <3> QED BY <3>1, <3>2, <3>3
  <2> QED BY <2>1, <2>2
<1>11. read' = SubSeq(written', 1, readPos')
  <2>1. readPos \in Nat /\ readPos <= bufferLength /\ written \in Seq(Octets) /\ Len(written) = bufferLength
    BY DEF Holding
  <2>2. SubSeq(written', 1, readPos) = [i \in 1..readPos |-> written'[i]]
    BY <1>1, <1>8, <1>9, <2>1
  <2>3. SubSeq(written, 1, readPos) = [i \in 1..readPos |-> written[i]]
    BY <2>1
  <2>4. \A i \in 1..readPos : written'[i] = written[i]
    BY <1>1, <1>9, <2>1
  <2>5. SubSeq(written', 1, readPos) = SubSeq(written, 1, readPos)
    BY <2>2, <2>3, <2>4
  <2> QED BY <1>8, <2>5 DEF Holding
<1>12. DOMAIN memory' = 0..size - 1
  BY <1>2, <1>3
<1>13. ~beyond'
  <2>1. \A i \in DOMAIN v : bufferLength + i - 1 \in DOMAIN memory'
    BY <1>4, <1>6, <1>12
  <2> QED BY <2>1 DEF B!AppendBytes
<1>14. readPos \in Nat /\ readPos <= bufferLength
  BY DEF Holding
<1>15. /\ bufferCapacity' \in Nat /\ bufferLength' \in Nat /\ readPos' \in Nat
       /\ readPos' <= bufferLength' /\ bufferLength' <= bufferCapacity'
  BY <1>1, <1>8, <1>14
<1>16. DOMAIN memory' = 0..bufferCapacity' - 1 /\ \A i \in 0..bufferCapacity' - 1 : memory'[i] \in Octets
  BY <1>7, <1>8, <1>12
<1>17. written' \in Seq(Octets) /\ Len(written') = bufferLength'
  BY <1>9
<1> QED BY <1>10, <1>11, <1>13, <1>15, <1>16, <1>17 DEF Holding

LEMMA DeltaSizeIs ==
  ASSUME Holding, NEW n \in Nat
  PROVE  B!DeltaSize(n) \in Nat /\ bufferCapacity <= B!DeltaSize(n) /\ bufferLength + n <= B!DeltaSize(n)
BY DEF B!DeltaSize, Holding

\* Other memory, with all that was written.
LEMMA RoomKeeps ==
  ASSUME Holding, ~beyond, NEW size \in Nat, bufferCapacity <= size, NEW n \in {bufferLength, bufferCapacity},
         memory' = B!Moved(size, n), bufferCapacity' = size,
         UNCHANGED <<bufferLength, readPos, written, read, beyond>>
  PROVE  Holding' /\ ~beyond'
<1>1. n \in Nat /\ n <= bufferCapacity /\ n <= size /\ bufferLength <= n
  BY DEF Holding
<1>2. /\ DOMAIN memory' = 0..size - 1
      /\ \A i \in 0..size - 1 : memory'[i] \in Octets
      /\ \A i \in 0..n - 1 : memory'[i] = memory[i]
  BY <1>1, BytesMovedIs
<1>3. \A i \in 1..bufferLength : memory'[i - 1] = written[i]
  <2> SUFFICES ASSUME NEW i \in 1..bufferLength PROVE memory'[i - 1] = written[i]
    OBVIOUS
  <2>1. i - 1 \in 0..n - 1 /\ memory[i - 1] = written[i]
    BY <1>1 DEF Holding
  <2> QED BY <1>2, <2>1
<1>4. bufferLength <= size
  BY <1>1 DEF Holding
<1> QED BY <1>2, <1>3, <1>4 DEF Holding

\* A buffer without bytes.
LEMMA EmptiedHolds ==
  ASSUME bufferCapacity' \in Nat, DOMAIN memory' = 0..bufferCapacity' - 1,
         \A i \in 0..bufferCapacity' - 1 : memory'[i] \in Octets, B!Emptied, ~beyond'
  PROVE  Holding' /\ ~beyond'
<1>1. Len(written') = 0 /\ written' \in Seq(Octets) /\ SubSeq(written', 1, 0) = <<>>
  BY DEF B!Emptied
<1>2. bufferLength' = 0 /\ readPos' = 0 /\ read' = <<>> /\ SubSeq(written', 1, readPos') = <<>>
  BY <1>1 DEF B!Emptied
<1>3. \A i \in 1..bufferLength' : FALSE
  BY <1>2
<1>4. /\ bufferCapacity' \in Nat /\ bufferLength' \in Nat /\ readPos' \in Nat
      /\ readPos' <= bufferLength' /\ bufferLength' <= bufferCapacity'
  BY <1>2
<1>5. \A i \in 1..bufferLength' : memory'[i - 1] = written'[i]
  BY <1>3
<1>6. Len(written') = bufferLength' /\ read' = SubSeq(written', 1, readPos')
  BY <1>1, <1>2
<1> HIDE DEF B!Emptied
<1> QED BY <1>1, <1>4, <1>5, <1>6, Zenon DEF Holding

LEMMA BufferKeeps ==
  ASSUME StreamInv, B!BufferNext
  PROVE  odd' = {} => ~beyond' /\ Holding'
<1> SUFFICES ASSUME odd' = {} PROVE ~beyond' /\ Holding'
  OBVIOUS
<1> USE FileAssumption
<1>a. odd = {} => ~beyond /\ Holding
  BY DEF StreamInv
<1>b. \A v \in ByteStrings : v \in Seq(Octets) /\ Len(v) \in Nat
  <2> SUFFICES ASSUME NEW v \in ByteStrings PROVE v \in Seq(Octets) /\ Len(v) \in Nat
    OBVIOUS
  <2>1. v \in Seq(Nat)
    OBVIOUS
  <2> QED BY <2>1 DEF Octets
<1>1. ASSUME NEW v \in ByteStrings, B!Write(v)
      PROVE  ~beyond' /\ Holding'
  <2>1. ~beyond /\ Holding /\ B!AppendBytes(v, B!DeltaSize(Len(v)))
    BY <1>a, <1>1 DEF B!Write, B!Goes
  <2> DEFINE size == B!DeltaSize(Len(v))
  <2>2. size \in Nat /\ bufferLength + Len(v) <= size
    BY <1>b, <2>1, DeltaSizeIs
  <2> HIDE DEF size
  <2> QED BY <1>b, <2>1, <2>2, AppendBytesKeeps DEF size
<1>2. ASSUME NEW v \in ByteStrings, B!PushBytes(v)
      PROVE  ~beyond' /\ Holding'
  <2>1. ~beyond /\ Holding /\ B!AppendBytes(v, bufferCapacity)
    BY <1>a, <1>2 DEF B!PushBytes, B!Goes
  <2>2. bufferLength + Len(v) <= bufferCapacity /\ bufferCapacity \in Nat
    <3>1. Len(v) \in Nat /\ bufferLength \in Nat /\ bufferCapacity \in Nat
      BY <1>b, <2>1 DEF Holding
    <3>2. ~(bufferLength + Len(v) > bufferCapacity)
      BY <1>2 DEF B!PushBytes
    <3> QED BY <3>1, <3>2
  <2> QED BY <1>b, <2>1, <2>2, AppendBytesKeeps
<1>3. ASSUME NEW size \in Nat, B!Room(size), odd = {} => bufferCapacity <= size
      PROVE  ~beyond' /\ Holding'
  <2>1. ~beyond /\ Holding /\ bufferCapacity <= size
    BY <1>a, <1>3 DEF B!Room, B!Goes
  <2> QED BY <1>3, <2>1, RoomKeeps DEF B!Room
<1>4. ASSUME NEW v \in ByteStrings, B!DeltaResize(Len(v))
      PROVE  ~beyond' /\ Holding'
  <2>1. Holding
    BY <1>a, <1>4 DEF B!DeltaResize, B!Room, B!Goes
  <2>2. B!DeltaSize(Len(v)) \in Nat /\ bufferCapacity <= B!DeltaSize(Len(v))
    BY <1>b, <2>1, DeltaSizeIs
  <2> QED BY <1>3, <1>4, <2>2 DEF B!DeltaResize
<1>5. ASSUME NEW n \in 1..MaxBuffer, B!Resize(n)
      PROVE  ~beyond' /\ Holding'
  <2>1. Holding
    BY <1>a, <1>5 DEF B!Resize, B!Room, B!Goes
  <2>2. B!NewSize(n) \in Nat /\ bufferCapacity <= B!NewSize(n)
    BY <2>1 DEF B!NewSize, Holding
  <2> QED BY <1>3, <1>5, <2>2 DEF B!Resize
<1>6. ASSUME NEW n \in 1..MaxBuffer, B!Allocate(n)
      PROVE  ~beyond' /\ Holding'
  <2>1. ~beyond /\ Holding /\ beyond' = beyond
    BY <1>a, <1>6 DEF B!Allocate, B!Goes
  <2>2. CASE memory # <<>>
    <3> DEFINE size == IF n > bufferCapacity THEN n ELSE bufferCapacity
    <3>1. size \in Nat /\ bufferCapacity <= size
      BY <2>1 DEF Holding
    <3>2. memory' = B!Moved(size, bufferCapacity) /\ bufferCapacity' = size
          /\ UNCHANGED <<bufferLength, readPos, written, read, beyond>>
      BY <1>6, <2>2 DEF B!Allocate
    <3> HIDE DEF size
    <3> QED BY <2>1, <3>1, <3>2, RoomKeeps
  <2>3. CASE memory = <<>>
    <3>1. memory' = [i \in 0..(n - 1) |-> Unwritten] /\ bufferCapacity' = n /\ B!Emptied
      BY <1>6, <2>3 DEF B!Allocate
    <3> QED BY <2>1, <3>1, EmptiedHolds DEF Octets
  <2> QED BY <2>2, <2>3
<1>7. CASE B!Clear
  <2>1. ~beyond /\ Holding
    BY <1>a, <1>7 DEF B!Clear, B!Goes
  <2> QED BY <1>7, <2>1, EmptiedHolds DEF B!Clear, Holding
<1>8. CASE B!Renew
  <2>1. memory' = <<>> /\ DOMAIN <<>> = 1..0 /\ 1..0 = 0..0 - 1
    BY <1>8 DEF B!Renew
  <2> QED BY <1>8, <2>1, EmptiedHolds DEF B!Renew
<1>9. ASSUME NEW v \in ByteStrings, B!Read(Len(v))
      PROVE  ~beyond' /\ Holding'
  <2>1. ~beyond /\ Holding /\ readPos + Len(v) <= bufferLength
    <3>1. ~beyond /\ Holding
      BY <1>9, <1>a DEF B!Read, B!Goes
    <3>2. Len(v) \in Nat /\ bufferLength \in Nat /\ readPos \in Nat
      BY <1>b, <3>1 DEF Holding
    <3>3. ~(readPos + Len(v) > bufferLength)
      BY <1>9 DEF B!Read
    <3> QED BY <3>1, <3>2, <3>3
  <2> DEFINE n == Len(v)
             s == SubSeq(written, 1, readPos)
             t == [i \in 1..n |-> B!Cell(readPos + i - 1)]
             r == readPos + n
  <2>2. /\ n \in Nat /\ readPos \in Nat /\ bufferLength \in Nat /\ bufferLength <= bufferCapacity
        /\ bufferCapacity \in Nat /\ written \in Seq(Octets) /\ Len(written) = bufferLength
        /\ readPos + n <= bufferLength /\ read = s
    BY <1>b, <2>1 DEF Holding
  <2>3. read' = read \o t /\ readPos' = r
        /\ UNCHANGED <<memory, bufferCapacity, bufferLength, written, beyond>>
    BY <1>9 DEF B!Read
  <2> HIDE DEF n
  <2>4. \A i \in 1..n : t[i] = written[readPos + i] /\ readPos + i \in 1..bufferLength
    <3> SUFFICES ASSUME NEW i \in 1..n PROVE t[i] = written[readPos + i] /\ readPos + i \in 1..bufferLength
      OBVIOUS
    <3>1. /\ readPos + i - 1 \in 0..bufferCapacity - 1 /\ readPos + i \in 1..bufferLength
          /\ (readPos + i) - 1 = readPos + i - 1
      BY <2>2
    <3>2. B!Cell(readPos + i - 1) = memory[readPos + i - 1]
      BY <2>1, <3>1 DEF B!Cell, Holding
    <3>3. memory[(readPos + i) - 1] = written[readPos + i]
      BY <2>1, <3>1 DEF Holding
    <3> QED BY <3>1, <3>2, <3>3
  <2>5. \A k \in 1..bufferLength : written[k] \in Octets
    BY <2>2
  <2>6. t \in Seq(Octets) /\ Len(t) = n
    <3>1. \A i \in 1..n : t[i] \in Octets
      BY <2>4, <2>5
    <3>2. t \in [1..n -> Octets]
      BY <3>1
    <3> HIDE DEF t
    <3> QED BY <2>2, <3>2
  <2>7. s \in Seq(Octets) /\ Len(s) = readPos /\ \A i \in 1..readPos : s[i] = written[i]
    <3>1. readPos <= Len(written)
      BY <2>1 DEF Holding
    <3> QED BY <2>2, <3>1, Prefix
  <2>8. r \in Nat /\ r <= Len(written)
    BY <2>2
  <2> DEFINE u == SubSeq(written, 1, r)
  <2>9. u \in Seq(Octets) /\ Len(u) = r /\ \A i \in 1..r : u[i] = written[i]
    BY <2>2, <2>8, Prefix
  <2> HIDE DEF s, t, u
  <2>10. /\ s \o t \in Seq(Octets) /\ Len(s \o t) = Len(s) + Len(t)
         /\ \A i \in 1..Len(s) : (s \o t)[i] = s[i]
         /\ \A i \in 1..Len(t) : (s \o t)[Len(s) + i] = t[i]
    <3>1. s \in Seq(Octets) /\ t \in Seq(Octets)
      BY <2>6, <2>7
    <3> QED BY <3>1, Joined
  <2>11. Len(s \o t) = Len(u)
    BY <2>2, <2>6, <2>7, <2>9, <2>10
  <2>12. \A i \in 1..Len(u) : (s \o t)[i] = u[i]
    <3> SUFFICES ASSUME NEW i \in 1..readPos + n PROVE (s \o t)[i] = u[i]
      BY <2>9
    <3>1. CASE i <= readPos
      BY <2>2, <2>7, <2>9, <2>10, <3>1
    <3>2. CASE ~(i <= readPos)
      <4>1. i - readPos \in 1..n /\ readPos + (i - readPos) = i
        BY <2>2, <3>2
      <4>2. (s \o t)[readPos + (i - readPos)] = t[i - readPos]
        BY <2>6, <2>7, <2>10, <4>1
      <4> QED BY <2>4, <2>9, <4>1, <4>2
    <3> QED BY <3>1, <3>2
  <2>13. s \o t = u
    BY <2>9, <2>10, <2>11, <2>12, SeqEqual
  <2>14. read' = SubSeq(written', 1, readPos')
    BY <2>2, <2>3, <2>13 DEF u
  <2>15. r <= bufferLength
    BY <2>2
  <2> QED BY <2>1, <2>3, <2>8, <2>14, <2>15 DEF Holding
<1>10. ~B!MoveAway
  BY DEF B!MoveAway
<1> QED
  BY <1>1, <1>2, <1>4, <1>5, <1>6, <1>7, <1>8, <1>9, <1>10 DEF B!BufferNext

LEMMA ValuesAre == \A v \in ByteStrings : v \in Seq(Octets) /\ Len(v) \in Nat
<1> SUFFICES ASSUME NEW v \in ByteStrings PROVE v \in Seq(Octets) /\ Len(v) \in Nat
  OBVIOUS
<1>1. v \in Seq(Nat)
  BY FileAssumption
<1> QED BY <1>1 DEF Octets

LEMMA AppendsKeeps ==
  ASSUME FileInv, NEW v \in Seq(Octets), B!Appends(v)
  PROVE  FileInv'
<1>1. content \o v \in Seq(Octets)
  BY DEF FileInv
<1>2. content' \in Seq(Octets)
  BY <1>1 DEF B!Appends
<1>3. Len(content') \in Nat
  BY <1>2
<1> QED BY <1>2, <1>3 DEF B!Appends, FileInv

\* Between the calls on the buffer, one of the file leaves a sequence of bytes.
LEMMA FileKeeps ==
  ASSUME FileInv,
         \/ \E access \in {"READ", "WRITE"} : B!Open(access)
         \/ B!Close
         \/ \E v \in ByteStrings : B!WriteRange(v) \/ B!OtherAppends(v)
         \/ \E n \in 0..MaxFile : B!ReadRange(n) \/ B!ResizeFile(n) \/ B!SetPointer(n)
  PROVE  FileInv' /\ UNCHANGED B!bufferVars
<1>1. CASE B!Close \/ \E access \in {"READ", "WRITE"} : B!Open(access)
  BY <1>1 DEF B!Open, B!Close, FileInv
<1>2. ASSUME NEW v \in ByteStrings, B!WriteRange(v)
      PROVE  FileInv' /\ UNCHANGED B!bufferVars
  <2>1. PICK n \in 1..Len(v) : B!Appends(SubSeq(v, 1, n))
    BY <1>2 DEF B!WriteRange
  <2>2. v \in Seq(Octets) /\ n \in Nat /\ n <= Len(v)
    BY <2>1, ValuesAre
  <2>3. SubSeq(v, 1, n) \in Seq(Octets)
    BY <2>2, Prefix
  <2>4. FileInv'
    BY <2>1, <2>3, AppendsKeeps
  <2> QED BY <1>2, <2>4 DEF B!WriteRange
<1>3. ASSUME NEW v \in ByteStrings, B!OtherAppends(v)
      PROVE  FileInv' /\ UNCHANGED B!bufferVars
  <2>1. v \in Seq(Octets) /\ content \in Seq(Octets)
    BY ValuesAre DEF FileInv
  <2>2. content \o v \in Seq(Octets)
    BY <2>1
  <2> QED BY <1>3, <2>2 DEF B!OtherAppends, FileInv
<1>4. ASSUME NEW n \in 0..MaxFile, B!ReadRange(n)
      PROVE  FileInv' /\ UNCHANGED B!bufferVars
  <2>1. pointer \in Nat
    BY DEF FileInv
  <2>2. \A m : \A p \in (pointer + 1)..m : p \in Nat
    BY <2>1
  <2>3. pointer' \in Nat
    BY <1>4, <2>2 DEF B!ReadRange
  <2> QED BY <1>4, <2>3 DEF B!ReadRange, FileInv
<1>5. ASSUME NEW n \in 0..MaxFile, B!ResizeFile(n)
      PROVE  FileInv' /\ UNCHANGED B!bufferVars
  <2>1. n \in Nat
    OBVIOUS
  <2>2. content' = [i \in 1..n |-> IF i <= Len(content) THEN content[i] ELSE 0]
    BY <1>5 DEF B!ResizeFile
  <2>3. \A i \in 1..n : (IF i <= Len(content) THEN content[i] ELSE 0) \in Octets
    BY <2>1 DEF FileInv, Octets
  <2>4. content' \in [1..n -> Octets]
    BY <2>2, <2>3
  <2>5. content' \in Seq(Octets)
    BY <2>1, <2>4
  <2> QED BY <1>5, <2>5 DEF B!ResizeFile, FileInv
<1>6. ASSUME NEW n \in 0..MaxFile, B!SetPointer(n)
      PROVE  FileInv' /\ UNCHANGED B!bufferVars
  BY <1>6 DEF B!SetPointer, FileInv
<1> QED BY <1>1, <1>2, <1>3, <1>4, <1>5, <1>6

\* What WriteBuffer leaves in the buffer is empty, or odd.
LEMMA WriteBufferKeeps ==
  ASSUME StreamInv, NEW size \in {Unset, 1}, B!WriteBuffer(size)
  PROVE  StreamInv'
<1>1. ~beyond /\ Holding /\ odd = {}
  BY DEF B!WriteBuffer, B!Goes, StreamInv
<1> DEFINE asked == B!Given(size, bufferLength)
           bytes == [i \in 1..asked |-> B!Cell(i - 1)]
<1>2. asked \in Nat
  BY <1>1 DEF B!Given, Holding
<1>3. PICK n \in 0..asked :
           /\ B!Appends(SubSeq(bytes, 1, n))
           /\ bufferLength' = B!Removed(B!Given(size, n))
           /\ written' = SubSeq(written, n + 1, Len(written))
           /\ odd' = IF n = bufferLength /\ B!Given(size, n) = n /\ readPos = 0 THEN odd ELSE odd \union {"part"}
  BY DEF B!WriteBuffer
<1>4. bytes \in [1..asked -> Octets]
  <2>1. \A i \in 1..asked : B!Cell(i - 1) \in Octets
    BY <1>1, <1>2 DEF B!Cell, Holding, Octets
  <2> QED BY <2>1
<1> HIDE DEF bytes, asked
<1>5. bytes \in Seq(Octets) /\ Len(bytes) = asked
  BY <1>2, <1>4
<1>6. SubSeq(bytes, 1, n) \in Seq(Octets)
  <2>1. n \in Nat /\ n <= Len(bytes)
    BY <1>2, <1>5
  <2> QED BY <1>5, <2>1, Prefix
<1>7. FileInv'
  <2>1. FileInv
    BY DEF StreamInv
  <2> QED BY <1>3, <1>6, <2>1, AppendsKeeps
<1>8. ASSUME odd' = {} PROVE ~beyond' /\ Holding'
  <2>1. n = bufferLength /\ B!Given(size, n) = n /\ readPos = 0
    BY <1>3, <1>8
  <2>2. bufferLength - n = 0 /\ bufferLength \in Nat
    BY <1>1, <2>1 DEF Holding
  <2>3. 0 % LengthModulus = 0
    BY FileAssumption
  <2>4. bufferLength' = 0
    BY <1>3, <2>1, <2>2, <2>3 DEF B!Removed
  <2>5. Len(written) = n /\ written \in Seq(Octets) /\ n \in Nat
    BY <1>1, <2>1 DEF Holding
  <2>6. written' = <<>>
    BY <1>3, <2>5
  <2>7. read = <<>>
    BY <1>1, <2>1, <2>5 DEF Holding
  <2>8. UNCHANGED <<memory, bufferCapacity, readPos, read, beyond>>
    BY DEF B!WriteBuffer
  <2>9. B!Emptied
    BY <2>1, <2>4, <2>6, <2>7, <2>8 DEF B!Emptied
  <2>10. /\ bufferCapacity' \in Nat /\ DOMAIN memory' = 0..bufferCapacity' - 1 /\ ~beyond'
         /\ \A i \in 0..bufferCapacity' - 1 : memory'[i] \in Octets
    BY <1>1, <2>8 DEF Holding
  <2> QED BY <2>9, <2>10, EmptiedHolds
<1> QED BY <1>7, <1>8 DEF StreamInv

\* What ReadBuffer leaves in the buffer fits, or the file was odd.
LEMMA ReadBufferKeeps ==
  ASSUME StreamInv, NEW size \in {Unset, 1}, NEW more \in {<<>>} \union ByteStrings,
         B!ReadBuffer(size, more)
  PROVE  StreamInv'
<1>1. ~beyond /\ Holding /\ odd = {} /\ FileInv
  BY DEF B!ReadBuffer, B!Goes, StreamInv
<1> DEFINE there == content \o more
           asked == B!Given(size, Len(there))
           all == B!From(there, asked)
           needed == B!DeltaSize(B!Given(size, B!GetSize))
<1>2. more \in Seq(Octets) /\ content \in Seq(Octets)
  <2>1. <<>> \in Seq(Octets)
    OBVIOUS
  <2> QED BY <1>1, <2>1, ValuesAre DEF FileInv
<1>3. there \in Seq(Octets) /\ (more = <<>> => there = content)
  BY <1>2
<1>4. PICK n \in 0..Len(all) :
           /\ B!AppendBytes(SubSeq(all, 1, n), needed)
           /\ pointer' = pointer + n
  BY DEF B!ReadBuffer
<1>5. content' = there /\ odd' = IF size = Unset /\ more # <<>> THEN odd \union {"grown"} ELSE odd
  BY DEF B!ReadBuffer
<1> HIDE DEF there
<1>6. Len(there) \in Nat /\ asked \in Nat /\ pointer \in Nat
  BY <1>1, <1>3 DEF B!Given, FileInv
<1>7. all \in Seq(Octets) /\ Len(all) <= asked /\ Len(all) \in Nat
  <2> DEFINE last == IF pointer + asked > Len(there) THEN Len(there) ELSE pointer + asked
  <2> HIDE DEF asked
  <2>1. last \in Nat /\ last <= Len(there) /\ last <= pointer + asked
    BY <1>6
  <2>2. all = SubSeq(there, pointer + 1, last)
    BY DEF B!From
  <2> HIDE DEF last, all
  <2>3. /\ SubSeq(there, pointer + 1, last) \in Seq(Octets)
        /\ Len(SubSeq(there, pointer + 1, last)) = IF pointer <= last THEN last - pointer ELSE 0
    BY <1>3, <1>6, <2>1, Stretch
  <2> QED BY <1>6, <2>1, <2>2, <2>3
<1>8. n \in Nat /\ n <= Len(all) /\ n <= asked
  <2> HIDE DEF asked, all
  <2> QED BY <1>4, <1>6, <1>7
<1> HIDE DEF all
<1> DEFINE v == SubSeq(all, 1, n)
<1>9. v \in Seq(Octets) /\ Len(v) = n
  BY <1>7, <1>8, Prefix
<1>10. FileInv'
  BY <1>3, <1>4, <1>5, <1>6, <1>8 DEF FileInv
<1>11. ASSUME odd' = {} PROVE ~beyond' /\ Holding'
  <2>1. B!Given(size, B!GetSize) = asked
    BY <1>3, <1>5, <1>11 DEF B!Given, B!GetSize
  <2> HIDE DEF asked
  <2>2. needed \in Nat /\ bufferLength + asked <= needed
    BY <1>1, <1>6, <2>1, DeltaSizeIs
  <2>3. bufferLength \in Nat
    BY <1>1 DEF Holding
  <2> HIDE DEF needed, v
  <2>4. bufferLength + Len(v) <= needed
    BY <1>6, <1>8, <1>9, <2>2, <2>3
  <2>5. B!AppendBytes(v, needed)
    BY <1>4 DEF v
  <2> QED BY <1>1, <1>9, <2>2, <2>4, <2>5, AppendBytesKeeps
<1> QED BY <1>10, <1>11 DEF StreamInv

\* Calls of the kernel that fail leave a buffer of which nothing is said.
LEMMA FailsKeep ==
  ASSUME StreamInv, NEW size, B!WriteBufferFails(size) \/ B!ReadBufferFails(size)
  PROVE  StreamInv'
<1>1. odd' # {}
  BY DEF B!WriteBufferFails, B!ReadBufferFails
<1>2. FileInv'
  BY DEF StreamInv, FileInv, B!WriteBufferFails, B!ReadBufferFails, B!fileVars
<1> QED BY <1>1, <1>2 DEF StreamInv

\* StreamInv is an inductive invariant, and is what the property says.
LEMMA StreamInvariant ==
  /\ B!Init => StreamInv
  /\ StreamInv /\ [B!Next]_(B!vars) => StreamInv'
  /\ StreamInv => B!StreamOfBytes
<1>1. B!Init => StreamInv
  <2> SUFFICES ASSUME B!Init PROVE StreamInv
    OBVIOUS
  <2>1. DOMAIN memory = 0..bufferCapacity - 1 /\ \A i \in 0..bufferCapacity - 1 : FALSE
    BY DEF B!Init, B!InitBuffer
  <2>2. <<>> \in Seq(Octets) /\ Len(<<>>) = 0 /\ SubSeq(<<>>, 1, 0) = <<>>
    OBVIOUS
  <2>3. \A i \in 1..bufferLength : FALSE
    BY DEF B!Init, B!InitBuffer
  <2>4. Holding
    BY <2>1, <2>2, <2>3 DEF B!Init, B!InitBuffer, Holding
  <2> QED BY <2>2, <2>4 DEF B!Init, B!InitBuffer, StreamInv, FileInv
<1>2. StreamInv /\ [B!Next]_(B!vars) => StreamInv'
  <2> SUFFICES ASSUME StreamInv, [B!Next]_(B!vars) PROVE StreamInv'
    OBVIOUS
  <2>1. CASE B!BufferNext /\ UNCHANGED B!fileVars
    BY <2>1, BufferKeeps DEF StreamInv, FileInv, B!fileVars
  <2>2. ASSUME \/ \E access \in {"READ", "WRITE"} : B!Open(access)
               \/ B!Close
               \/ \E v \in ByteStrings : B!WriteRange(v) \/ B!OtherAppends(v)
               \/ \E n \in 0..MaxFile : B!ReadRange(n) \/ B!ResizeFile(n) \/ B!SetPointer(n)
        PROVE  StreamInv'
    <3>1. FileInv' /\ UNCHANGED B!bufferVars
      BY <2>2, FileKeeps DEF StreamInv
    <3> QED BY <3>1 DEF StreamInv, Holding, B!bufferVars
  <2>3. ASSUME NEW size \in {Unset, 1}, B!WriteBuffer(size)
        PROVE  StreamInv'
    BY <2>3, WriteBufferKeeps
  <2>4. ASSUME NEW size \in {Unset, 1}, B!WriteBufferFails(size) \/ B!ReadBufferFails(size)
        PROVE  StreamInv'
    BY <2>4, FailsKeep
  <2>5. ASSUME NEW size \in {Unset, 1}, NEW more \in {<<>>} \union ByteStrings, B!ReadBuffer(size, more)
        PROVE  StreamInv'
    BY <2>5, ReadBufferKeeps
  <2>6. CASE UNCHANGED B!vars
    BY <2>6 DEF B!vars, B!bufferVars, B!fileVars, StreamInv, FileInv, Holding
  <2> QED BY <2>1, <2>2, <2>3, <2>4, <2>5, <2>6 DEF B!Next
<1>3. StreamInv => B!StreamOfBytes
  <2> SUFFICES ASSUME StreamInv, odd = {}
               PROVE  /\ B!Goes /\ bufferLength = Len(written)
                      /\ \A i \in DOMAIN written : B!Cell(i - 1) = written[i]
                      /\ read = SubSeq(written, 1, readPos)
    BY DEF B!StreamOfBytes
  <2>1. Holding /\ ~beyond
    BY DEF StreamInv
  <2>2. ASSUME NEW i \in DOMAIN written PROVE B!Cell(i - 1) = written[i]
    <3>1. i \in 1..bufferLength
      BY <2>1 DEF Holding
    <3>2. i - 1 \in 0..bufferCapacity - 1
      BY <2>1, <3>1 DEF Holding
    <3> QED BY <2>1, <3>1, <3>2 DEF Holding, B!Cell
  <2> QED BY <2>1, <2>2 DEF Holding, B!Goes
<1> QED BY <1>1, <1>2, <1>3

\* What is read from a Buffer is what was written to it, in its order, through files also.
THEOREM BytesStream == B!Spec => []B!StreamOfBytes
  BY StreamInvariant, PTL DEF B!Spec

\* The same in every behaviour of the library.
THEOREM LibraryBytesStream == CoreSpec => []StreamOfBytes
<1>1. CoreInit => B!Init
  BY DEF CoreInit
<1>2. [CoreNext]_<<focus, coreVars>> => [B!Next]_(B!vars)
  BY DEF CoreNext, coreVars, CoreRests, Rests, file, B!bufferVars, B!fileVars, B!vars
<1>3. B!StreamOfBytes => StreamOfBytes
  BY DEF StreamOfBytes
<1> QED
  BY <1>1, <1>2, <1>3,
     StreamInvariant, PTL DEF CoreSpec

-----------------------------------------------------------------------------
(* Window.                                                                 *)

\* What the application has been told.
Viewed == [wheel |-> wheel, focus |-> keyboard, down |-> down]

\* What Update makes of one more event.
After(v, e) ==
  [wheel |-> IF e.type = "press" /\ e.of \in W!Wheel
             THEN v.wheel + (IF e.of = "4" THEN 1 ELSE -1) ELSE v.wheel,
   focus |-> IF e.type = "map" THEN TRUE ELSE IF e.type = "unmap" THEN FALSE ELSE v.focus,
   down  |-> IF e.type = "press" /\ e.of \notin W!Wheel THEN v.down \union {W!NameOf(e.of)}
             ELSE IF e.type = "release" /\ e.of \notin W!Wheel THEN v.down \ {W!NameOf(e.of)}
             ELSE v.down]

\* Told all the events of q, one who knows v knows w.
Leads(v, q, w) ==
  \E f : /\ f[0] = v /\ f[Len(q)] = w
         /\ \A k \in 1..Len(q) : f[k] = After(f[k - 1], q[k])

\* What is said to be down, by the name of its key or button.
KnowsWhatIsHeld(keys) ==
  /\ \A name \in keys : \E i \in held \union missed : W!NameOf(i) = name
  /\ \A i \in W!Inputs \ missed :
       (\A j \in W!Inputs \ {i} : W!NameOf(j) # W!NameOf(i)) => (W!NameOf(i) \in keys <=> i \in held)

\* What events are about, and the events.
Matters == BOOLEAN \union W!Inputs \union W!Wheel \union CursorPoints \union {"wmDeleteWin"}
Sent == [type : {"map", "unmap", "press", "release", "motion", "elsewhere", "client"}, of : Matters]

QueueInv ==
  /\ queue \in Seq(Sent)
  /\ \A k \in 1..Len(queue) : queue[k].type = "motion" => queue[k].of \in CursorPoints
  /\ mapped \in BOOLEAN
  /\ bound # "yes" => queue = <<>>

\* When the events that wait have been told, the application knows what the user does.
KnowsInv ==
  \E keys : /\ Leads(Viewed, queue, [wheel |-> turned, focus |-> mapped, down |-> keys])
             /\ KnowsWhatIsHeld(keys)

\* The pointer's moves.
PointerInv ==
  /\ lastMousePosition = cursor
  /\ moved \in [1..2 -> Int]
  /\ \/ cursor = W!Nowhere /\ moved = [d \in 1..2 |-> 0]
     \/ /\ cursor \in [1..2 -> Int] /\ origin \in [1..2 -> Int]
        /\ \A d \in 1..2 : cursor[d] = origin[d] + moved[d]

CrashInv ==
  /\ bound \in {"no", "error", "yes"}
  /\ bound = "error" => ~up
  /\ crashed => ~up

WindowInv == QueueInv /\ KnowsInv /\ PointerInv /\ CrashInv

LEMMA LeadsNowhere ==
  ASSUME NEW v
  PROVE  Leads(v, <<>>, v) /\ \A w : Leads(v, <<>>, w) => v = w
<1>1. Len(<<>>) = 0 /\ \A k \in 1..0 : FALSE
  OBVIOUS
<1>2. Leads(v, <<>>, v)
  <2> DEFINE f == [i \in {0} |-> v]
  <2>1. f[0] = v /\ f[Len(<<>>)] = v
    BY <1>1
  <2> HIDE DEF f
  <2> QED BY <1>1, <2>1 DEF Leads
<1> QED BY <1>1, <1>2 DEF Leads

LEMMA LeadsOn ==
  ASSUME NEW Elems, NEW q \in Seq(Elems), q # <<>>, NEW v, NEW w, Leads(v, q, w)
  PROVE  Leads(After(v, Head(q)), Tail(q), w)
<1> DEFINE len == Len(q)
           t == Tail(q)
<1>1. /\ len \in Nat \ {0} /\ Len(t) = len - 1 /\ Head(q) = q[1]
      /\ \A k \in 1..len - 1 : t[k] = q[k + 1]
  OBVIOUS
<1>2. PICK f : /\ f[0] = v /\ f[len] = w
               /\ \A k \in 1..len : f[k] = After(f[k - 1], q[k])
  BY DEF Leads
<1> HIDE DEF len, t
<1> DEFINE g == [k \in 0..len - 1 |-> f[k + 1]]
<1>3. g[0] = After(v, q[1])
  <2>1. 1 \in 1..len /\ 1 - 1 = 0 /\ 0 \in 0..len - 1 /\ 0 + 1 = 1
    BY <1>1
  <2>2. f[1] = After(f[1 - 1], q[1])
    BY <1>2, <2>1
  <2> QED BY <1>2, <2>1, <2>2
<1>4. g[len - 1] = w
  BY <1>1, <1>2
<1>5. \A k \in 1..len - 1 : g[k] = After(g[k - 1], t[k])
  <2> SUFFICES ASSUME NEW k \in 1..len - 1 PROVE g[k] = After(g[k - 1], t[k])
    OBVIOUS
  <2>1. /\ k + 1 \in 1..len /\ (k + 1) - 1 = k /\ k \in 0..len - 1 /\ k - 1 \in 0..len - 1
        /\ (k - 1) + 1 = k
    BY <1>1
  <2>2. f[k + 1] = After(f[k], q[k + 1])
    BY <1>2, <2>1
  <2>3. g[k] = f[k + 1] /\ g[k - 1] = f[k] /\ t[k] = q[k + 1]
    BY <1>1, <2>1
  <2> QED BY <2>2, <2>3
<1> HIDE DEF g
<1>6. Leads(After(v, q[1]), t, w)
  BY <1>1, <1>3, <1>4, <1>5 DEF Leads
<1> QED BY <1>1, <1>6 DEF t

LEMMA LeadsFurther ==
  ASSUME NEW Elems, NEW q \in Seq(Elems), NEW e \in Elems, NEW v, NEW w, Leads(v, q, w)
  PROVE  Leads(v, q \o <<e>>, After(w, e))
<1> DEFINE len == Len(q)
           r == q \o <<e>>
<1>1. /\ len \in Nat /\ Len(r) = len + 1 /\ r[len + 1] = e
      /\ \A k \in 1..len : r[k] = q[k]
  OBVIOUS
<1>2. PICK f : /\ f[0] = v /\ f[len] = w
               /\ \A k \in 1..len : f[k] = After(f[k - 1], q[k])
  BY DEF Leads
<1> HIDE DEF len, r
<1> DEFINE x == After(w, e)
           g == [k \in 0..len + 1 |-> IF k = len + 1 THEN x ELSE f[k]]
<1> HIDE DEF x
<1>3. g[0] = v /\ g[len + 1] = x
  BY <1>1, <1>2
<1>4. \A k \in 1..len + 1 : g[k] = After(g[k - 1], r[k])
  <2> SUFFICES ASSUME NEW k \in 1..len + 1 PROVE g[k] = After(g[k - 1], r[k])
    OBVIOUS
  <2>1. CASE k = len + 1
    <3>1. g[k] = x /\ g[k - 1] = w /\ r[k] = e
      BY <1>1, <1>2, <2>1
    <3> QED BY <3>1 DEF x
  <2>2. CASE k # len + 1
    <3>1. k \in 1..len /\ k \in 0..len + 1 /\ k - 1 \in 0..len + 1 /\ k - 1 # len + 1
      BY <1>1, <2>2
    <3>2. g[k] = f[k] /\ g[k - 1] = f[k - 1] /\ r[k] = q[k]
      BY <1>1, <2>2, <3>1
    <3> QED BY <1>2, <3>1, <3>2
  <2> QED BY <2>1, <2>2
<1> HIDE DEF g
<1>5. Leads(v, r, x)
  BY <1>1, <1>3, <1>4 DEF Leads
<1> QED BY <1>5 DEF r, x

\* What one who knows everything knows, with these names down.
Knowing(keys) == [wheel |-> turned, focus |-> mapped, down |-> keys]

\* Update tells the first event that waits.
LEMMA PolledKeeps ==
  ASSUME QueueInv, KnowsInv, NEW type, W!Polled(type), Viewed' = After(Viewed, Head(queue))
  PROVE  QueueInv' /\ KnowsInv'
<1> DEFINE len == Len(queue)
           t == Tail(queue)
<1>1. queue \in Seq(Sent) /\ queue # <<>> /\ queue' = t
  BY DEF QueueInv, W!Polled
<1>2. /\ t \in Seq(Sent) /\ len \in Nat /\ Len(t) = len - 1
      /\ \A k \in 1..len - 1 : t[k] = queue[k + 1]
  BY <1>1
<1> HIDE DEF len, t
<1>3. \A k \in 1..Len(t) : t[k].type = "motion" => t[k].of \in CursorPoints
  <2> SUFFICES ASSUME NEW k \in 1..len - 1, t[k].type = "motion" PROVE t[k].of \in CursorPoints
    BY <1>2
  <2>1. k + 1 \in 1..len /\ t[k] = queue[k + 1]
    BY <1>2
  <2> QED BY <2>1 DEF QueueInv, len
<1>4. QueueInv'
  BY <1>1, <1>2, <1>3 DEF QueueInv, W!Polled
<1>5. PICK keys : Leads(Viewed, queue, Knowing(keys)) /\ KnowsWhatIsHeld(keys)
  BY DEF KnowsInv, Knowing
<1>6. Leads(After(Viewed, Head(queue)), t, Knowing(keys))
  BY <1>1, <1>5, LeadsOn DEF t
<1>7. KnowsWhatIsHeld(keys)' /\ Knowing(keys)' = Knowing(keys)
  BY <1>5 DEF W!Polled, KnowsWhatIsHeld, Knowing
<1>8. Leads(Viewed', queue', Knowing(keys)')
  BY <1>1, <1>6, <1>7
<1> QED BY <1>4, <1>7, <1>8 DEF KnowsInv, Knowing

\* An event is sent.
LEMMA SendKeeps ==
  ASSUME QueueInv, NEW e \in Sent, e.type = "motion" => e.of \in CursorPoints,
         W!Send(<<e>>), mapped' \in BOOLEAN, UNCHANGED <<bound, Viewed>>,
         NEW keys, Leads(Viewed, queue, Knowing(keys))
  PROVE  QueueInv' /\ Leads(Viewed', queue', After(Knowing(keys), e))
<1> DEFINE len == Len(queue)
           r == queue \o <<e>>
<1>1. queue \in Seq(Sent) /\ queue' = r /\ bound' = "yes"
  BY DEF QueueInv, W!Send
<1>2. /\ r \in Seq(Sent) /\ len \in Nat /\ Len(r) = len + 1 /\ r[len + 1] = e
      /\ \A k \in 1..len : r[k] = queue[k]
  BY <1>1
<1>3. Leads(Viewed, r, After(Knowing(keys), e))
  BY <1>1, LeadsFurther
<1> HIDE DEF len, r
<1>4. \A k \in 1..Len(r) : r[k].type = "motion" => r[k].of \in CursorPoints
  <2> SUFFICES ASSUME NEW k \in 1..len + 1, r[k].type = "motion" PROVE r[k].of \in CursorPoints
    BY <1>2
  <2>1. CASE k = len + 1
    BY <1>2, <2>1
  <2>2. CASE k # len + 1
    <3>1. k \in 1..len /\ r[k] = queue[k]
      BY <1>2, <2>2
    <3> QED BY <3>1 DEF QueueInv, len
  <2> QED BY <2>1, <2>2
<1>5. QueueInv'
  BY <1>1, <1>2, <1>4 DEF QueueInv
<1> QED BY <1>1, <1>3, <1>5

\* Two events are sent.
LEMMA SendTwoKeeps ==
  ASSUME QueueInv, NEW d \in Sent, NEW e \in Sent, d.type # "motion", e.type # "motion",
         W!Send(<<d>> \o <<e>>), UNCHANGED <<bound, mapped, Viewed>>,
         NEW keys, Leads(Viewed, queue, Knowing(keys))
  PROVE  QueueInv' /\ Leads(Viewed', queue', After(After(Knowing(keys), d), e))
<1> DEFINE len == Len(queue)
           q == queue \o <<d>>
           r == q \o <<e>>
<1>1. queue \in Seq(Sent) /\ queue' = queue \o (<<d>> \o <<e>>) /\ bound' = "yes"
  BY DEF QueueInv, W!Send
<1>2. q \in Seq(Sent) /\ r \in Seq(Sent) /\ queue' = r
  BY <1>1
<1>3. /\ len \in Nat /\ Len(r) = len + 2 /\ r[len + 1] = d /\ r[len + 2] = e
      /\ \A k \in 1..len : r[k] = queue[k]
  BY <1>1
<1>4. Leads(Viewed, q, After(Knowing(keys), d))
  BY <1>1, LeadsFurther
<1> HIDE DEF q
<1>5. Leads(Viewed, r, After(After(Knowing(keys), d), e))
  BY <1>2, <1>4, LeadsFurther
<1> HIDE DEF len, r
<1>6. \A k \in 1..Len(r) : r[k].type = "motion" => r[k].of \in CursorPoints
  <2> SUFFICES ASSUME NEW k \in 1..len + 2, r[k].type = "motion" PROVE r[k].of \in CursorPoints
    BY <1>3
  <2>1. k \in 1..len
    BY <1>3
  <2> QED BY <1>3, <2>1 DEF QueueInv, len
<1>7. QueueInv'
  BY <1>1, <1>2, <1>6 DEF QueueInv
<1> QED BY <1>2, <1>5, <1>7

\* The inputs are not the wheel.
LEMMA InputsAre == \A i \in W!Inputs : i \notin W!Wheel
BY WindowAssumption DEF W!Inputs, W!Wheel

\* A key or a button goes down or up.
LEMMA ToggleKeeps ==
  ASSUME QueueInv, KnowsInv, NEW i \in W!Inputs, W!Toggle(i)
  PROVE  QueueInv' /\ KnowsInv'
<1>1. PICK keys : Leads(Viewed, queue, Knowing(keys)) /\ KnowsWhatIsHeld(keys)
  BY DEF KnowsInv, Knowing
<1>2. UNCHANGED <<bound, mapped, Viewed, turned>>
  BY DEF W!Toggle, W!viewVars, W!windowVars, Viewed
<1>3. CASE missed' = missed \union {i} /\ UNCHANGED queue
  <2>1. KnowsWhatIsHeld(keys)'
    <3>1. \A j : j # i => (j \in held' <=> j \in held) /\ (j \in missed' <=> j \in missed)
      BY <1>3 DEF W!Toggle
    <3> QED BY <1>1, <1>3, <3>1 DEF KnowsWhatIsHeld
  <2>2. QueueInv' /\ Leads(Viewed', queue', Knowing(keys)')
    BY <1>1, <1>2, <1>3 DEF QueueInv, Knowing
  <2> QED BY <2>1, <2>2 DEF KnowsInv, Knowing
<1>4. CASE ~(missed' = missed \union {i} /\ UNCHANGED queue)
  <2> DEFINE type == IF i \in held THEN "release" ELSE "press"
             e == [type |-> type, of |-> i]
  <2>0. PICK n : n = IF i \in held THEN keys \ {W!NameOf(i)} ELSE keys \union {W!NameOf(i)}
    OBVIOUS
  <2>1. W!Send(<<e>>) /\ missed' = missed \ {i}
    BY <1>4 DEF W!Toggle, W!Event
  <2>2. e \in Sent /\ e.type = type /\ e.of = i /\ e.type # "motion"
    <3>1. i \in Matters
      BY Zenon DEF Matters
    <3>2. type \in {"press", "release"}
      OBVIOUS
    <3> HIDE DEF type
    <3> QED BY <3>1, <3>2 DEF Sent
  <2>3. After(Knowing(keys), e) = [wheel |-> turned, focus |-> mapped, down |-> n]
    BY <2>0, InputsAre DEF After, Knowing
  <2> HIDE DEF e
  <2>4. QueueInv' /\ Leads(Viewed', queue', After(Knowing(keys), e))
    BY <1>1, <1>2, <2>1, <2>2, SendKeeps DEF QueueInv
  <2>5. KnowsWhatIsHeld(n)'
    <3>1. \A j : j # i => (j \in held' <=> j \in held) /\ (j \in missed' <=> j \in missed)
      BY <2>1 DEF W!Toggle
    <3>2. (i \in held' <=> i \notin held) /\ i \notin missed'
      BY <2>1 DEF W!Toggle
    <3>3. \A name \in n : \E j \in held' \union missed' : W!NameOf(j) = name
      BY <1>1, <2>0, <3>1, <3>2 DEF KnowsWhatIsHeld
    <3>4. ASSUME NEW j \in W!Inputs \ missed', \A k \in W!Inputs \ {j} : W!NameOf(k) # W!NameOf(j)
          PROVE  W!NameOf(j) \in n <=> j \in held'
      <4>1. CASE j = i
        BY <2>0, <3>2, <4>1
      <4>2. CASE j # i
        <5>1. W!NameOf(i) # W!NameOf(j) /\ j \in W!Inputs \ missed
          BY <3>1, <3>4, <4>2
        <5>2. W!NameOf(j) \in keys <=> j \in held
          BY <1>1, <3>4, <5>1 DEF KnowsWhatIsHeld
        <5> QED BY <2>0, <3>1, <4>2, <5>1, <5>2
      <4> QED BY <4>1, <4>2
    <3> QED BY <3>3, <3>4 DEF KnowsWhatIsHeld
  <2>6. Leads(Viewed', queue', [wheel |-> turned', focus |-> mapped', down |-> n])
    BY <1>2, <2>3, <2>4
  <2> QED BY <2>4, <2>5, <2>6 DEF KnowsInv
<1> QED BY <1>3, <1>4

\* A key repeats.
LEMMA RepeatKeeps ==
  ASSUME QueueInv, KnowsInv, NEW i \in W!Inputs, W!Repeat(i)
  PROVE  QueueInv' /\ KnowsInv'
<1>1. PICK keys : Leads(Viewed, queue, Knowing(keys)) /\ KnowsWhatIsHeld(keys)
  BY DEF KnowsInv, Knowing
<1>2. UNCHANGED <<bound, mapped, Viewed, turned, held>> /\ i \in held /\ missed' = missed \ {i}
  BY DEF W!Repeat, W!viewVars, W!windowVars, Viewed
<1> DEFINE d == [type |-> "release", of |-> i]
           e == [type |-> "press", of |-> i]
           n == (keys \ {W!NameOf(i)}) \union {W!NameOf(i)}
<1>3. d \in Sent /\ e \in Sent /\ d.type # "motion" /\ e.type # "motion"
  <2>1. i \in Matters
    BY Zenon DEF Matters
  <2> QED BY <2>1 DEF Sent
<1>4. W!Send(<<d>> \o <<e>>)
  BY DEF W!Repeat, W!Event
<1>5. After(After(Knowing(keys), d), e) = [wheel |-> turned, focus |-> mapped, down |-> n]
  BY InputsAre DEF After, Knowing
<1> HIDE DEF d, e
<1>6. QueueInv' /\ Leads(Viewed', queue', After(After(Knowing(keys), d), e))
  BY <1>1, <1>2, <1>3, <1>4, SendTwoKeeps
<1>7. KnowsWhatIsHeld(n)'
  <2>1. \A j : j # i => (j \in missed' <=> j \in missed)
    BY <1>2
  <2>2. \A name \in n : \E j \in held' \union missed' : W!NameOf(j) = name
    BY <1>1, <1>2, <2>1 DEF KnowsWhatIsHeld
  <2>3. ASSUME NEW j \in W!Inputs \ missed', \A k \in W!Inputs \ {j} : W!NameOf(k) # W!NameOf(j)
        PROVE  W!NameOf(j) \in n <=> j \in held'
    <3>1. CASE j = i
      BY <1>2, <3>1
    <3>2. CASE j # i
      <4>1. W!NameOf(i) # W!NameOf(j) /\ j \in W!Inputs \ missed
        BY <2>1, <2>3, <3>2
      <4>2. W!NameOf(j) \in keys <=> j \in held
        BY <1>1, <2>3, <4>1 DEF KnowsWhatIsHeld
      <4> QED BY <1>2, <4>1, <4>2
    <3> QED BY <3>1, <3>2
  <2> HIDE DEF n
  <2> QED BY <2>2, <2>3 DEF KnowsWhatIsHeld
<1>8. Leads(Viewed', queue', [wheel |-> turned', focus |-> mapped', down |-> n])
  BY <1>2, <1>5, <1>6
<1> HIDE DEF n
<1> QED BY <1>6, <1>7, <1>8 DEF KnowsInv

\* The wheel turns.
LEMMA TurnKeeps ==
  ASSUME QueueInv, KnowsInv, NEW i \in W!Wheel, W!Turn(i)
  PROVE  QueueInv' /\ KnowsInv'
<1>1. PICK keys : Leads(Viewed, queue, Knowing(keys)) /\ KnowsWhatIsHeld(keys)
  BY DEF KnowsInv, Knowing
<1>2. /\ UNCHANGED <<bound, mapped, Viewed, held, missed>>
      /\ turned' = turned + (IF i = "4" THEN 1 ELSE -1)
  BY DEF W!Turn, W!viewVars, W!windowVars, Viewed
<1> DEFINE d == [type |-> "press", of |-> i]
           e == [type |-> "release", of |-> i]
<1>3. d \in Sent /\ e \in Sent /\ d.type # "motion" /\ e.type # "motion"
  <2>1. i \in Matters
    BY Zenon DEF Matters
  <2> QED BY <2>1 DEF Sent
<1>4. W!Send(<<d>> \o <<e>>)
  BY DEF W!Turn, W!Event
<1>5. After(After(Knowing(keys), d), e) = Knowing(keys)'
  BY <1>2 DEF After, Knowing
<1> HIDE DEF d, e
<1>6. QueueInv' /\ Leads(Viewed', queue', After(After(Knowing(keys), d), e))
  BY <1>1, <1>2, <1>3, <1>4, SendTwoKeeps
<1>7. KnowsWhatIsHeld(keys)'
  BY <1>1, <1>2 DEF KnowsWhatIsHeld
<1>8. Leads(Viewed', queue', Knowing(keys)')
  BY <1>5, <1>6
<1> QED BY <1>6, <1>7, <1>8 DEF KnowsInv, Knowing

\* The window is shown or hidden, the pointer moves, or a client asks for something.
LEMMA SentKeeps ==
  ASSUME QueueInv, KnowsInv,
         NEW type \in {"map", "unmap", "motion", "elsewhere", "client"},
         NEW of \in BOOLEAN \union CursorPoints \union {"wmDeleteWin"},
         type = "motion" => of \in CursorPoints,
         W!Send(W!Event(type, of)),
         mapped' = (IF type = "map" THEN TRUE ELSE IF type = "unmap" THEN FALSE ELSE mapped),
         UNCHANGED <<bound, Viewed, turned, held, missed>>
  PROVE  QueueInv' /\ KnowsInv'
<1>1. PICK keys : Leads(Viewed, queue, Knowing(keys)) /\ KnowsWhatIsHeld(keys)
  BY DEF KnowsInv, Knowing
<1> DEFINE e == [type |-> type, of |-> of]
<1>2. e \in Sent /\ e.type = type /\ e.of = of
  <2>1. of \in Matters
    BY Zenon DEF Matters
  <2> QED BY <2>1 DEF Sent
<1>3. W!Send(<<e>>) /\ mapped' \in BOOLEAN
  BY DEF W!Event, QueueInv
<1>4. After(Knowing(keys), e) = Knowing(keys)'
  BY DEF After, Knowing
<1> HIDE DEF e
<1>5. QueueInv' /\ Leads(Viewed', queue', After(Knowing(keys), e))
  BY <1>1, <1>2, <1>3, SendKeeps
<1>6. KnowsWhatIsHeld(keys)'
  BY <1>1 DEF KnowsWhatIsHeld
<1> QED BY <1>4, <1>5, <1>6 DEF KnowsInv, Knowing

LEMMA PairIs ==
  ASSUME NEW a \in Int, NEW b \in Int
  PROVE  <<a, b>> \in [1..2 -> Int] /\ <<a, b>>[1] = a /\ <<a, b>>[2] = b
OBVIOUS

LEMMA NormalizedIs ==
  ASSUME NEW p \in CursorPoints
  PROVE  W!Normalized(p) \in [1..2 -> Int]
<1> DEFINE a == (2 * PositionScale * p[1]) \div WindowExtent[1] - PositionScale
           b == PositionScale - (2 * PositionScale * p[2]) \div WindowExtent[2]
<1>1. 2 * PositionScale * p[1] \in Int /\ 2 * PositionScale * p[2] \in Int
  BY WindowAssumption
<1>2. \A x \in Int, y \in Nat \ {0} : x \div y \in Int
  OBVIOUS
<1>3. a \in Int /\ b \in Int
  BY <1>1, <1>2, WindowAssumption
<1>4. W!Normalized(p) = <<a, b>>
  BY DEF W!Normalized
<1> HIDE DEF a, b
<1> QED BY <1>3, <1>4, PairIs

\* A move is told by its difference to the last one, but for the first.
LEMMA MotionKeeps ==
  ASSUME QueueInv, PointerInv, W!MotionNotify
  PROVE  PointerInv'
<1>1. W!What \in CursorPoints
  <2>1. /\ queue # <<>> /\ queue \in Seq(Sent) /\ Head(queue).type = "motion"
        /\ \A k \in 1..Len(queue) : queue[k].type = "motion" => queue[k].of \in CursorPoints
    BY DEF W!MotionNotify, W!Polled, QueueInv
  <2>2. Head(queue) = queue[1] /\ 1 \in 1..Len(queue)
    BY <2>1
  <2> QED BY <2>1, <2>2 DEF W!What
<1> DEFINE to == W!Normalized(W!What)
           delta == W!Minus(to, lastMousePosition)
<1>2. to \in [1..2 -> Int] /\ to # W!Nowhere
  <2>1. to \in [1..2 -> Int]
    BY <1>1, NormalizedIs
  <2>2. W!Nowhere[1] = NaN
    BY DEF W!Nowhere
  <2> QED BY <2>1, <2>2, WindowAssumption
<1>3. CASE ~up
  BY <1>3 DEF W!MotionNotify, PointerInv
<1>4. CASE up /\ cursor = W!Nowhere
  <2>1. delta[1] = NaN /\ moved = [d \in 1..2 |-> 0] /\ moved \in [1..2 -> Int]
    <3>2. cursor = W!Nowhere /\ lastMousePosition = W!Nowhere /\ moved \in [1..2 -> Int]
      BY <1>4 DEF PointerInv
    <3>3. lastMousePosition[1] = NaN
      BY <3>2 DEF W!Nowhere
    <3>4. NaN \in {to[1], lastMousePosition[1]}
      BY <3>3
    <3>5. delta[1] = NaN
      BY <3>4 DEF W!Minus
    <3>6. moved = [d \in 1..2 |-> 0]
      <4>1. W!Nowhere \notin [1..2 -> Int]
        BY WindowAssumption DEF W!Nowhere
      <4> QED BY <3>2, <4>1 DEF PointerInv
    <3> QED BY <3>2, <3>5, <3>6
  <2>2. lastMousePosition' = to /\ cursor' = to /\ origin' = to /\ moved' = moved
    BY <1>4, <2>1 DEF W!MotionNotify
  <2> HIDE DEF to
  <2>3. \A d \in 1..2 : cursor'[d] = origin'[d] + moved'[d]
    BY <1>2, <2>1, <2>2
  <2> QED BY <1>2, <2>1, <2>2, <2>3 DEF PointerInv
<1>5. CASE up /\ cursor # W!Nowhere
  <2>1. /\ lastMousePosition = cursor /\ cursor \in [1..2 -> Int] /\ origin \in [1..2 -> Int]
        /\ moved \in [1..2 -> Int] /\ \A d \in 1..2 : cursor[d] = origin[d] + moved[d]
    BY <1>5 DEF PointerInv
  <2>2. \A d \in 1..2 : delta[d] = to[d] - cursor[d] /\ delta[d] \in Int
    <3> HIDE DEF to
    <3> SUFFICES ASSUME NEW d \in 1..2 PROVE delta[d] = to[d] - cursor[d] /\ delta[d] \in Int
      OBVIOUS
    <3>1. to[d] \in Int /\ lastMousePosition[d] \in Int
      BY <1>2, <2>1
    <3>2. NaN \notin {to[d], lastMousePosition[d]}
      BY <3>1, WindowAssumption
    <3>3. delta[d] = to[d] - lastMousePosition[d]
      BY <3>2 DEF W!Minus
    <3> QED BY <2>1, <3>1, <3>3
  <2>3. NaN \notin {delta[1], delta[2]}
    BY <2>2, WindowAssumption
  <2>4. /\ lastMousePosition' = to /\ cursor' = to /\ origin' = origin
        /\ moved' = [d \in 1..2 |-> moved[d] + delta[d]]
    BY <1>5, <2>3 DEF W!MotionNotify
  <2> HIDE DEF to, delta
  <2>5. moved' \in [1..2 -> Int]
    BY <2>1, <2>2, <2>4
  <2>6. \A d \in 1..2 : cursor'[d] = origin'[d] + moved'[d]
    <3> SUFFICES ASSUME NEW d \in 1..2 PROVE to[d] = origin[d] + (moved[d] + delta[d])
      BY <2>4
    <3> QED BY <1>2, <2>1, <2>2
  <2> QED BY <1>2, <2>1, <2>4, <2>5, <2>6 DEF PointerInv
<1> QED BY <1>3, <1>4, <1>5

\* An event of Update.
LEMMA WindowUpdateKeeps ==
  ASSUME WindowInv, W!Update
  PROVE  WindowInv'
<1> USE DEF WindowInv
<1>1. CASE W!Visibility
  <2>1. PICK type \in {"map", "unmap"} : W!Polled(type) /\ keyboard' = (type = "map")
    BY <1>1 DEF W!Visibility
  <2>2. Viewed' = After(Viewed, Head(queue))
    BY <1>1, <2>1 DEF W!Visibility, W!Say, W!Polled, Viewed, After
  <2>3. QueueInv' /\ KnowsInv'
    BY <2>1, <2>2, PolledKeeps
  <2> QED BY <1>1, <2>1, <2>3 DEF W!Visibility, W!Say, W!Polled, PointerInv, CrashInv
<1>2. CASE W!Press
  <2>1. W!Polled("press") /\ Viewed' = After(Viewed, Head(queue))
    BY <1>2 DEF W!Press, W!Say, W!Polled, Viewed, After, W!What
  <2>2. QueueInv' /\ KnowsInv'
    BY <2>1, PolledKeeps
  <2> QED BY <1>2, <2>2 DEF W!Press, W!Say, W!Polled, PointerInv, CrashInv
<1>3. CASE W!Release
  <2>1. W!Polled("release") /\ Viewed' = After(Viewed, Head(queue))
    BY <1>3 DEF W!Release, W!Say, W!Polled, Viewed, After, W!What
  <2>2. QueueInv' /\ KnowsInv'
    BY <2>1, PolledKeeps
  <2> QED BY <1>3, <2>2 DEF W!Release, W!Say, W!Polled, PointerInv, CrashInv
<1>4. CASE W!MotionNotify
  <2>1. W!Polled("motion") /\ Viewed' = After(Viewed, Head(queue))
    BY <1>4 DEF W!MotionNotify, W!Polled, Viewed, After
  <2>2. QueueInv' /\ KnowsInv'
    BY <2>1, PolledKeeps
  <2>3. PointerInv'
    BY <1>4, MotionKeeps
  <2>4. CrashInv'
    BY <1>4 DEF W!MotionNotify, W!Polled, CrashInv
  <2> QED BY <2>2, <2>3, <2>4
<1>5. CASE W!Elsewhere
  <2>1. W!Polled("elsewhere") /\ Viewed' = After(Viewed, Head(queue))
    BY <1>5 DEF W!Elsewhere, W!Say, W!Polled, Viewed, After, W!viewVars
  <2>2. QueueInv' /\ KnowsInv'
    BY <2>1, PolledKeeps
  <2> QED BY <1>5, <2>2 DEF W!Elsewhere, W!Say, W!Polled, PointerInv, CrashInv, W!viewVars
<1>6. CASE W!ClientMessage
  <2>1. W!Polled("client") /\ Viewed' = After(Viewed, Head(queue))
    BY <1>6 DEF W!ClientMessage, W!Say, W!Polled, Viewed, After
  <2>2. QueueInv' /\ KnowsInv'
    BY <2>1, PolledKeeps
  <2> QED BY <1>6, <2>2 DEF W!ClientMessage, W!Say, W!Polled, PointerInv, CrashInv
<1> QED BY <1>1, <1>2, <1>3, <1>4, <1>5, <1>6 DEF W!Update

\* Where nothing is said of the queue, the user or the view.
LEMMA OthersKeep ==
  ASSUME WindowInv, UNCHANGED <<queue, mapped, turned, held, missed, Viewed>>,
         UNCHANGED <<lastMousePosition, cursor, moved, origin>>,
         bound' # "yes" => bound # "yes", CrashInv'
  PROVE  WindowInv'
BY DEF WindowInv, QueueInv, KnowsInv, KnowsWhatIsHeld, PointerInv

\* A window without events, of which nothing was said.
LEMMA NewKeeps ==
  ASSUME CrashInv', queue' = <<>>, mapped' = FALSE, held' = {}, turned' = 0, missed' = {},
         down' = {}, wheel' = 0, keyboard' = FALSE,
         lastMousePosition' = W!Nowhere, cursor' = W!Nowhere, moved' = <<0, 0>>
  PROVE  WindowInv'
<1>1. <<>> \in Seq(Sent) /\ \A k \in 1..Len(<<>>) : FALSE
  OBVIOUS
<1>2. QueueInv'
  BY <1>1 DEF QueueInv
<1>3. Viewed' = [wheel |-> turned', focus |-> mapped', down |-> {}]
  BY DEF Viewed
<1>4. Leads(Viewed', queue', [wheel |-> turned', focus |-> mapped', down |-> {}])
  BY <1>3, LeadsNowhere
<1>5. KnowsWhatIsHeld({})'
  BY DEF KnowsWhatIsHeld
<1>6. <<0, 0>> = [d \in 1..2 |-> 0]
  OBVIOUS
<1>7. PointerInv'
  BY <1>6 DEF PointerInv
<1> QED BY <1>2, <1>4, <1>5, <1>7 DEF WindowInv, KnowsInv

\* WindowInv is an inductive invariant, and is what the property says.
LEMMA WindowInvariant ==
  /\ W!Init => WindowInv
  /\ WindowInv /\ [W!Next]_(W!vars) => WindowInv'
  /\ WindowInv => W!SeesTheUser
<1>1. W!Init => WindowInv
  <2> SUFFICES ASSUME W!Init PROVE WindowInv
    OBVIOUS
  <2>1. <<>> \in Seq(Sent) /\ \A k \in 1..Len(<<>>) : FALSE
    OBVIOUS
  <2>2. QueueInv
    BY <2>1 DEF W!Init, QueueInv
  <2>3. Viewed = [wheel |-> turned, focus |-> mapped, down |-> {}]
    BY DEF Viewed, W!Init
  <2>4. Leads(Viewed, queue, [wheel |-> turned, focus |-> mapped, down |-> {}])
    BY <2>3, LeadsNowhere DEF W!Init
  <2>5. KnowsWhatIsHeld({})
    BY DEF KnowsWhatIsHeld, W!Init
  <2>6. <<0, 0>> = [d \in 1..2 |-> 0]
    OBVIOUS
  <2>7. PointerInv
    BY <2>6 DEF PointerInv, W!Init
  <2> QED BY <2>2, <2>4, <2>5, <2>7 DEF WindowInv, KnowsInv, CrashInv, W!Init
<1>2. WindowInv /\ [W!Next]_(W!vars) => WindowInv'
  <2> SUFFICES ASSUME WindowInv, [W!Next]_(W!vars) PROVE WindowInv'
    OBVIOUS
  <2>1. CASE W!BindToOS
    <3>1. UNCHANGED <<queue, mapped, turned, held, missed, Viewed>>
      BY <2>1 DEF W!BindToOS, W!serverVars, W!viewVars, Viewed
    <3>2. UNCHANGED <<lastMousePosition, cursor, moved, origin>> /\ CrashInv' /\ bound # "yes"
      BY <2>1 DEF W!BindToOS, W!serverVars, W!viewVars, WindowInv, CrashInv
    <3> QED BY <3>1, <3>2, OthersKeep
  <2>2. CASE W!Destroy
    BY <2>2, NewKeeps DEF W!Destroy, WindowInv, CrashInv
  <2>3. CASE W!Update
    BY <2>3, WindowUpdateKeeps
  <2>4. CASE W!GetWindowExtent
    <3>1. UNCHANGED <<queue, mapped, turned, held, missed, Viewed>>
      BY <2>4 DEF W!GetWindowExtent, W!serverVars, Viewed
    <3>2. UNCHANGED <<lastMousePosition, cursor, moved, origin>> /\ bound' = bound /\ up' = up
      BY <2>4 DEF W!GetWindowExtent, W!windowVars, W!serverVars
    <3>3. CrashInv'
      BY <2>4, <3>2 DEF W!GetWindowExtent, WindowInv, CrashInv
    <3> QED BY <3>1, <3>2, <3>3, OthersKeep
  <2>5. ASSUME NEW visible \in BOOLEAN, W!SetWindowVisibility(visible) PROVE WindowInv'
    <3>1. UNCHANGED <<bound, Viewed, turned, held, missed, up, crashed>>
          /\ UNCHANGED <<lastMousePosition, cursor, moved, origin>>
      BY <2>5 DEF W!SetWindowVisibility, W!windowVars, W!viewVars, Viewed
    <3>2. CASE mapped
      BY <2>5, <3>1, <3>2, OthersKeep DEF W!SetWindowVisibility, WindowInv, CrashInv
    <3>3. CASE ~mapped
      <4>1. W!Send(W!Event("map", mapped)) /\ mapped' = TRUE /\ mapped \in BOOLEAN
        BY <2>5, <3>3 DEF W!SetWindowVisibility, WindowInv, QueueInv
      <4>2. QueueInv' /\ KnowsInv'
        BY <3>1, <4>1, SentKeeps DEF WindowInv
      <4> QED BY <3>1, <4>2 DEF WindowInv, PointerInv, CrashInv
    <3> QED BY <3>2, <3>3
  <2>6. ASSUME NEW i \in W!Inputs, W!Toggle(i) PROVE WindowInv'
    <3>1. QueueInv' /\ KnowsInv'
      BY <2>6, ToggleKeeps DEF WindowInv
    <3> QED BY <2>6, <3>1 DEF WindowInv, PointerInv, CrashInv, W!Toggle, W!windowVars, W!viewVars
  <2>7. ASSUME NEW i \in W!Inputs, W!Repeat(i) PROVE WindowInv'
    <3>1. QueueInv' /\ KnowsInv'
      BY <2>7, RepeatKeeps DEF WindowInv
    <3> QED BY <2>7, <3>1 DEF WindowInv, PointerInv, CrashInv, W!Repeat, W!windowVars, W!viewVars
  <2>8. ASSUME NEW i \in W!Wheel, W!Turn(i) PROVE WindowInv'
    <3>1. QueueInv' /\ KnowsInv'
      BY <2>8, TurnKeeps DEF WindowInv
    <3> QED BY <2>8, <3>1 DEF WindowInv, PointerInv, CrashInv, W!Turn, W!windowVars, W!viewVars
  <2>9. ASSUME NEW p \in CursorPoints, NEW sameScreen \in BOOLEAN, W!Move(p, sameScreen) PROVE WindowInv'
    <3>1. UNCHANGED <<bound, mapped, Viewed, turned, held, missed, up, crashed>>
          /\ UNCHANGED <<lastMousePosition, cursor, moved, origin>>
      BY <2>9 DEF W!Move, W!windowVars, W!viewVars, Viewed
    <3>2. PICK type \in {"motion", "elsewhere"} : W!Send(W!Event(type, p))
      BY <2>9 DEF W!Move
    <3>3. QueueInv' /\ KnowsInv'
      BY <3>1, <3>2, SentKeeps DEF WindowInv
    <3> QED BY <3>1, <3>3 DEF WindowInv, PointerInv, CrashInv
  <2>10. CASE W!Hide
    <3>1. UNCHANGED <<bound, Viewed, turned, held, missed, up, crashed>>
          /\ UNCHANGED <<lastMousePosition, cursor, moved, origin>>
      BY <2>10 DEF W!Hide, W!windowVars, W!viewVars, Viewed
    <3>2. W!Send(W!Event("unmap", mapped)) /\ mapped' = FALSE /\ mapped \in BOOLEAN
      BY <2>10 DEF W!Hide, WindowInv, QueueInv
    <3>3. QueueInv' /\ KnowsInv'
      BY <3>1, <3>2, SentKeeps DEF WindowInv
    <3> QED BY <3>1, <3>3 DEF WindowInv, PointerInv, CrashInv
  <2>11. CASE W!Focus
    <3>1. UNCHANGED <<queue, mapped, turned, held, missed, Viewed>>
      BY <2>11 DEF W!Focus, W!viewVars, Viewed
    <3>2. UNCHANGED <<lastMousePosition, cursor, moved, origin, bound>> /\ CrashInv'
      BY <2>11 DEF W!Focus, W!windowVars, W!viewVars, WindowInv, CrashInv
    <3> QED BY <3>1, <3>2, OthersKeep
  <2>12. CASE W!AskToClose
    <3>1. UNCHANGED <<bound, mapped, Viewed, turned, held, missed, up, crashed>>
          /\ UNCHANGED <<lastMousePosition, cursor, moved, origin>>
      BY <2>12 DEF W!AskToClose, W!windowVars, W!viewVars, Viewed
    <3>2. W!Send(W!Event("client", "wmDeleteWin"))
      BY <2>12 DEF W!AskToClose
    <3>3. QueueInv' /\ KnowsInv'
      BY <3>1, <3>2, SentKeeps DEF WindowInv
    <3> QED BY <3>1, <3>3 DEF WindowInv, PointerInv, CrashInv
  <2>13. CASE W!ServerGoes
    <3>1. UNCHANGED <<queue, mapped, turned, held, missed, Viewed>>
      BY <2>13 DEF W!ServerGoes, W!viewVars, Viewed
    <3>2. UNCHANGED <<lastMousePosition, cursor, moved, origin, bound>> /\ CrashInv'
      BY <2>13 DEF W!ServerGoes, W!windowVars, W!viewVars, WindowInv, CrashInv
    <3> QED BY <3>1, <3>2, OthersKeep
  <2>14. CASE UNCHANGED W!vars
    <3>1. UNCHANGED <<queue, mapped, turned, held, missed, Viewed>>
      BY <2>14 DEF W!vars, W!serverVars, W!viewVars, Viewed
    <3>2. UNCHANGED <<lastMousePosition, cursor, moved, origin, bound>> /\ CrashInv'
      BY <2>14 DEF W!vars, W!windowVars, W!serverVars, W!viewVars, WindowInv, CrashInv
    <3> QED BY <3>1, <3>2, OthersKeep
  <2> QED
    BY <2>1, <2>2, <2>3, <2>4, <2>5, <2>6, <2>7, <2>8, <2>9, <2>10, <2>11, <2>12, <2>13, <2>14
    DEF W!Next
<1>3. WindowInv => W!SeesTheUser
  <2> SUFFICES ASSUME WindowInv PROVE W!SeesTheUser
    OBVIOUS
  <2>1. ASSUME queue = <<>>
        PROVE  /\ wheel = turned
               /\ keyboard = mapped
               /\ KnowsWhatIsHeld(down)
    <3>1. PICK keys : /\ Leads(Viewed, queue, [wheel |-> turned, focus |-> mapped, down |-> keys])
                       /\ KnowsWhatIsHeld(keys)
      BY DEF WindowInv, KnowsInv
    <3>2. Viewed = [wheel |-> turned, focus |-> mapped, down |-> keys]
      BY <2>1, <3>1, LeadsNowhere
    <3>3. wheel = turned /\ keyboard = mapped /\ down = keys
      BY <3>2 DEF Viewed
    <3> QED BY <3>1, <3>3
  <2>2. ASSUME cursor # W!Nowhere PROVE cursor = [d \in 1..2 |-> origin[d] + moved[d]]
    <3>1. cursor \in [1..2 -> Int] /\ \A d \in 1..2 : cursor[d] = origin[d] + moved[d]
      BY <2>2 DEF WindowInv, PointerInv
    <3> QED BY <3>1
  <2>3. crashed => ~up
    BY DEF WindowInv, CrashInv
  <2> QED BY <2>1, <2>2, <2>3 DEF W!SeesTheUser, KnowsWhatIsHeld
<1> QED BY <1>1, <1>2, <1>3

\* The application's view of keys, buttons, pointer and focus is the user's when the queue is empty.
THEOREM ApplicationSees == W!Spec => []W!SeesTheUser
  BY WindowInvariant, PTL DEF W!Spec

\* The same in every behaviour of the library.
THEOREM LibraryApplicationSees == CoreSpec => []SeesTheUser
<1>1. CoreInit => W!Init
  BY DEF CoreInit
<1>2. [CoreNext]_<<focus, coreVars>> => [W!Next]_(W!vars)
  BY DEF CoreNext, coreVars, CoreRests, Rests, window, W!windowVars, W!serverVars, W!viewVars, W!vars
<1>3. W!SeesTheUser => SeesTheUser
  BY DEF SeesTheUser
<1> QED
  BY <1>1, <1>2, <1>3,
     WindowInvariant, PTL DEF CoreSpec

-----------------------------------------------------------------------------
(* Tree.                                                                   *)

\* FlattenSeq, one list at a time.
LEMMA FlattenDef ==
  ASSUME NEW Elems, NEW ss \in Seq(Seq(Elems))
  PROVE  \E f : /\ f[0] = << >>
                /\ \A i \in 1..Len(ss) : f[i] = f[i - 1] \o ss[i]
                /\ T!FlattenSeq(ss) = f[Len(ss)]
<1> DEFINE last == Len(ss)
           turn(was, i) == IF i = 1 THEN ss[i] ELSE was \o ss[i]
           loop(f, n) == [i \in 1..n |-> turn(f[i - 1], i)]
           Turns == {n \in Nat : \E f : f = loop(f, n)}
           made == CHOOSE f : f = loop(f, last)
<1>1. T!FlattenSeq(ss) = IF last = 0 THEN ss ELSE made[last]
  BY DEF T!FlattenSeq
<1> HIDE DEF turn
<1>2. 0 \in Turns
  <2>1. [i \in 1..0 |-> 0] = loop([i \in 1..0 |-> 0], 0)
    OBVIOUS
  <2> QED BY <2>1
<1>3. ASSUME NEW n \in Nat, n \in Turns PROVE n + 1 \in Turns
  <2>1. PICK f : f = loop(f, n)
    BY <1>3
  <2> DEFINE g == [i \in 1..n + 1 |-> IF i = n + 1 THEN turn(f[n], n + 1) ELSE f[i]]
  <2>2. ASSUME NEW i \in 1..n + 1 PROVE g[i] = turn(g[i - 1], i)
    <3>1. CASE i = n + 1
      <4>1. n # 0 => g[n] = f[n]
        OBVIOUS
      <4>2. turn(f[n], n + 1) = turn(g[n], n + 1)
        BY <4>1 DEF turn
      <4> QED BY <3>1, <4>2
    <3>2. CASE i \in 1..n
      <4>1. g[i] = f[i] /\ (i # 1 => g[i - 1] = f[i - 1])
        BY <3>2
      <4>2. f[i] = turn(f[i - 1], i)
        BY <2>1, <3>2
      <4>3. turn(f[i - 1], i) = turn(g[i - 1], i)
        BY <4>1 DEF turn
      <4> QED BY <4>1, <4>2, <4>3
    <3> QED BY <3>1, <3>2
  <2>3. g = loop(g, n + 1)
    <3>1. g = [i \in 1..n + 1 |-> g[i]]
      OBVIOUS
    <3> HIDE DEF g
    <3> QED BY <2>2, <3>1
  <2> HIDE DEF g
  <2> QED BY <2>3
<1>4. last \in Nat
  OBVIOUS
<1> HIDE DEF last
<1>5. last \in Turns
  <2> HIDE DEF Turns
  <2>1. Nat \subseteq Turns
    BY <1>2, <1>3, Induction, Zenon
  <2> QED BY <1>4, <2>1
<1>6. made = loop(made, last)
  BY <1>5
<1> HIDE DEF made
<1>7. \A i \in 1..last : made[i] = IF i = 1 THEN ss[i] ELSE made[i - 1] \o ss[i]
  BY <1>4, <1>6 DEF turn
<1> DEFINE h == [i \in 0..last |-> IF i = 0 THEN << >> ELSE made[i]]
<1>8. h[0] = << >> /\ (last # 0 => h[last] = made[last])
  BY <1>4
<1>9. ASSUME NEW i \in 1..last PROVE h[i] = h[i - 1] \o ss[i]
  <2>1. h[i] = made[i] /\ (i # 1 => h[i - 1] = made[i - 1]) /\ (i = 1 => h[i - 1] = << >>)
    BY <1>4
  <2>2. ss[i] \in Seq(Elems)
    BY DEF last
  <2>3. << >> \o ss[i] = ss[i]
    BY <2>2
  <2> QED BY <1>7, <2>1, <2>3
<1>10. T!FlattenSeq(ss) = h[last]
  <2>1. CASE last = 0
    <3>1. ss = << >>
      BY <2>1 DEF last
    <3> QED BY <1>1, <1>8, <2>1, <3>1
  <2>2. CASE last # 0
    BY <1>1, <1>8, <2>2
  <2> QED BY <2>1, <2>2
<1> HIDE DEF h
<1> QED BY <1>8, <1>9, <1>10 DEF last

\* A list without a repetition.
Distinct(s) == \A i, j \in 1..Len(s) : s[i] = s[j] => i = j

\* Lists with nothing in common.
Scattered(ss) ==
  /\ \A a \in 1..Len(ss) : Distinct(ss[a])
  /\ \A a, b \in 1..Len(ss) : \A i \in 1..Len(ss[a]), j \in 1..Len(ss[b]) : ss[a][i] = ss[b][j] => a = b

\* The first n lists, joined.
Flattened(s, ss, n) ==
  /\ \A i \in 1..Len(s) : \E a \in 1..n : \E b \in 1..Len(ss[a]) : s[i] = ss[a][b]
  /\ \A a \in 1..n : \A b \in 1..Len(ss[a]) : \E i \in 1..Len(s) : s[i] = ss[a][b]
  /\ Scattered(ss) => Distinct(s)

\* Of lists behind one another, each element has its list.
LEMMA JoinedParts ==
  ASSUME NEW Elems, NEW s \in Seq(Elems), NEW t \in Seq(Elems)
  PROVE  /\ \A i \in 1..Len(s \o t) : \/ i \in 1..Len(s) /\ (s \o t)[i] = s[i]
                                      \/ \E j \in 1..Len(t) : i = Len(s) + j /\ (s \o t)[i] = t[j]
         /\ \A i \in 1..Len(s) : i \in 1..Len(s \o t) /\ (s \o t)[i] = s[i]
         /\ \A j \in 1..Len(t) : Len(s) + j \in 1..Len(s \o t) /\ (s \o t)[Len(s) + j] = t[j]
<1> DEFINE u == s \o t
<1>1. /\ Len(u) = Len(s) + Len(t) /\ Len(s) \in Nat /\ Len(t) \in Nat
      /\ \A i \in 1..Len(s) : u[i] = s[i]
      /\ \A i \in 1..Len(t) : u[Len(s) + i] = t[i]
  BY Joined
<1> HIDE DEF u
<1>2. ASSUME NEW i \in 1..Len(u) PROVE \/ i \in 1..Len(s) /\ u[i] = s[i]
                                       \/ \E j \in 1..Len(t) : i = Len(s) + j /\ u[i] = t[j]
  <2>1. CASE i <= Len(s)
    BY <1>1, <2>1
  <2>2. CASE i > Len(s)
    <3>1. i - Len(s) \in 1..Len(t) /\ i = Len(s) + (i - Len(s))
      BY <1>1, <2>2
    <3> QED BY <1>1, <3>1
  <2> QED BY <1>1, <2>1, <2>2
<1>3. \A i \in 1..Len(s) : i \in 1..Len(u) /\ u[i] = s[i]
  BY <1>1
<1>4. \A j \in 1..Len(t) : Len(s) + j \in 1..Len(u) /\ u[Len(s) + j] = t[j]
  BY <1>1
<1> QED BY <1>2, <1>3, <1>4 DEF u

\* The same for FlattenSeq.
LEMMA FlattenIs ==
  ASSUME NEW Elems, NEW ss \in Seq(Seq(Elems))
  PROVE  T!FlattenSeq(ss) \in Seq(Elems) /\ Flattened(T!FlattenSeq(ss), ss, Len(ss))
<1> DEFINE last == Len(ss)
<1>1. PICK f : /\ f[0] = << >>
               /\ \A i \in 1..last : f[i] = f[i - 1] \o ss[i]
               /\ T!FlattenSeq(ss) = f[last]
  BY FlattenDef, Zenon
<1>2. last \in Nat /\ \A a \in 1..last : ss[a] \in Seq(Elems)
  OBVIOUS
<1> HIDE DEF last
<1> DEFINE Turns == {n \in 0..last : f[n] \in Seq(Elems) /\ Flattened(f[n], ss, n)}
<1>3. 0 \in Turns
  <2>1. f[0] = << >> /\ << >> \in Seq(Elems) /\ Len(<< >>) = 0 /\ 1..0 = {} /\ 0 \in 0..last
    BY <1>1, <1>2
  <2>2. Flattened(f[0], ss, 0)
    BY <2>1 DEF Flattened, Distinct
  <2> QED BY <2>1, <2>2
<1>4. ASSUME NEW n \in 0..last - 1, n \in Turns PROVE n + 1 \in Turns
  <2> DEFINE s == f[n]
             m == n + 1
             t == ss[m]
             u == f[m]
  <2>1. m \in 1..last /\ m \in 0..last /\ m - 1 = n /\ n \in Nat /\ \A a \in 1..m : a = m \/ a \in 1..n
    BY <1>2
  <2>2. u = s \o t /\ s \in Seq(Elems) /\ t \in Seq(Elems) /\ Flattened(s, ss, n)
    BY <1>1, <1>2, <1>4, <2>1
  <2>3. \A a \in 1..n : a \in 1..m /\ a # m /\ a \in 1..last
    BY <1>2, <2>1
  <2>4. m \in 1..m
    BY <2>1
  <2> HIDE DEF s, m, t, u
  <2>5. u \in Seq(Elems)
    BY <2>2, Joined
  <2>6. /\ \A i \in 1..Len(u) : \/ i \in 1..Len(s) /\ u[i] = s[i]
                                \/ \E j \in 1..Len(t) : i = Len(s) + j /\ u[i] = t[j]
        /\ \A i \in 1..Len(s) : i \in 1..Len(u) /\ u[i] = s[i]
        /\ \A j \in 1..Len(t) : Len(s) + j \in 1..Len(u) /\ u[Len(s) + j] = t[j]
    BY <2>2, JoinedParts
  <2>7. ASSUME NEW i \in 1..Len(u) PROVE \E a \in 1..m : \E b \in 1..Len(ss[a]) : u[i] = ss[a][b]
    <3>1. CASE i \in 1..Len(s) /\ u[i] = s[i]
      <4>1. PICK a \in 1..n : \E b \in 1..Len(ss[a]) : s[i] = ss[a][b]
        BY <2>2, <3>1 DEF Flattened
      <4> QED BY <2>3, <3>1, <4>1
    <3>2. CASE \E j \in 1..Len(t) : u[i] = t[j]
      BY <2>4, <3>2 DEF t
    <3> QED BY <2>6, <3>1, <3>2, Zenon
  <2>8. ASSUME NEW a \in 1..m, NEW b \in 1..Len(ss[a]) PROVE \E i \in 1..Len(u) : u[i] = ss[a][b]
    <3>1. CASE a = m
      BY <2>6, <3>1 DEF t
    <3>2. CASE a \in 1..n
      <4>1. PICK i \in 1..Len(s) : s[i] = ss[a][b]
        BY <2>2, <3>2 DEF Flattened
      <4> QED BY <2>6, <4>1, Zenon
    <3> QED BY <2>1, <3>1, <3>2
  <2>9. ASSUME Scattered(ss) PROVE Distinct(u)
    <3>0. Distinct(s) /\ Distinct(t)
      <4>1. Distinct(s)
        BY <2>2, <2>9 DEF Flattened
      <4>2. Distinct(ss[m])
        BY <2>1, <2>9 DEF Scattered, last
      <4> QED BY <4>1, <4>2 DEF t
    <3>1. ASSUME NEW i \in 1..Len(s), NEW j \in 1..Len(t), s[i] = t[j] PROVE FALSE
      <4>1. PICK a \in 1..n : \E b \in 1..Len(ss[a]) : s[i] = ss[a][b]
        BY <2>2 DEF Flattened
      <4>2. PICK b \in 1..Len(ss[a]) : s[i] = ss[a][b]
        BY <4>1
      <4>3. ss[a][b] = ss[m][j] /\ j \in 1..Len(ss[m])
        BY <3>1, <4>2 DEF t
      <4>4. a \in 1..Len(ss) /\ m \in 1..Len(ss) /\ a # m
        BY <2>1, <2>3 DEF last
      <4>5. a = m
        BY <2>9, <4>3, <4>4, Zenon DEF Scattered
      <4> QED BY <4>4, <4>5
    <3>2. ASSUME NEW i \in 1..Len(u), NEW k \in 1..Len(u), u[i] = u[k] PROVE i = k
      <4>1. CASE i \in 1..Len(s) /\ u[i] = s[i] /\ k \in 1..Len(s) /\ u[k] = s[k]
        BY <3>0, <3>2, <4>1 DEF Distinct
      <4>2. CASE (\E j \in 1..Len(t) : i = Len(s) + j /\ u[i] = t[j]) /\ (\E j \in 1..Len(t) : k = Len(s) + j /\ u[k] = t[j])
        BY <3>0, <3>2, <4>2, Zenon DEF Distinct
      <4>3. CASE i \in 1..Len(s) /\ u[i] = s[i] /\ \E j \in 1..Len(t) : u[k] = t[j]
        BY <3>1, <3>2, <4>3
      <4>4. CASE k \in 1..Len(s) /\ u[k] = s[k] /\ \E j \in 1..Len(t) : u[i] = t[j]
        BY <3>1, <3>2, <4>4
      <4> QED BY <2>6, <4>1, <4>2, <4>3, <4>4
    <3> QED BY <3>2 DEF Distinct
  <2>10. Flattened(u, ss, m)
    BY <2>7, <2>8, <2>9 DEF Flattened
  <2> QED BY <2>1, <2>5, <2>10 DEF u, m
<1> HIDE DEF Turns
<1>5. last \in Turns
  <2>1. 0..last \subseteq Turns
    BY <1>2, <1>3, <1>4, InductionUpTo
  <2> QED BY <1>2, <2>1
<1>6. f[last] \in Seq(Elems) /\ Flattened(f[last], ss, last)
  BY <1>5 DEF Turns
<1> QED BY <1>1, <1>6 DEF last


\* What holds of every number whenever it holds of the greater ones.
LEMMA InductionDown ==
  ASSUME NEW b \in Nat, NEW A, \A h \in 1..b : (\A k \in 1..b : k > h => k \in A) => h \in A
  PROVE  1..b \subseteq A
<1> DEFINE U == {m \in Nat : \A h \in 1..b : h > b - m => h \in A}
<1>1. 0 \in U
  OBVIOUS
<1>2. ASSUME NEW m \in Nat, m \in U PROVE m + 1 \in U
  <2>1. ASSUME NEW h \in 1..b, h > b - (m + 1) PROVE h \in A
    <3>1. \A k \in 1..b : k > h => k > b - m
      BY <2>1
    <3>2. \A k \in 1..b : k > h => k \in A
      BY <1>2, <3>1
    <3> QED BY <3>2
  <2> QED BY <2>1
<1>3. b \in U
  <2> HIDE DEF U
  <2>1. Nat \subseteq U
    BY <1>1, <1>2, Induction
  <2> QED BY <2>1
<1>4. \A h \in 1..b : h > b - b
  OBVIOUS
<1> QED BY <1>3, <1>4

-----------------------------------------------------------------------------
(* Walks of trees in which children come after their parents.              *)

\* The children of each node are numbered higher than it.
Downward(kids, n) ==
  \A h \in 1..n : kids[h] \in Seq(1..n) /\ \A i \in 1..Len(kids[h]) : kids[h][i] > h

\* A node and the walks of its children, behind it or before it.
WalkOf(kids, f, h, post) ==
  IF post THEN T!FlattenSeq([i \in DOMAIN kids[h] |-> f[kids[h][i]]]) \o <<h>>
  ELSE <<h>> \o T!FlattenSeq([i \in DOMAIN kids[h] |-> f[kids[h][i]]])

\* f is such a walk from every node.
Walks(kids, n, f, post) == \A h \in 1..n : f[h] = WalkOf(kids, f, h, post)

\* It depends on the children's walks only.
LEMMA WalkSame ==
  ASSUME NEW n \in Nat, NEW kids, Downward(kids, n), NEW post, NEW h \in 1..n,
         NEW f, NEW g, \A k \in 1..n : k > h => f[k] = g[k]
  PROVE  WalkOf(kids, f, h, post) = WalkOf(kids, g, h, post)
<1> DEFINE c == kids[h]
<1>1. c \in Seq(1..n) /\ DOMAIN c = 1..Len(c) /\ \A i \in 1..Len(c) : c[i] > h
  BY DEF Downward
<1>2. \A i \in DOMAIN c : f[c[i]] = g[c[i]]
  <2>1. \A i \in 1..Len(c) : c[i] \in 1..n
    BY <1>1
  <2> QED BY <1>1, <2>1
<1> HIDE DEF c
<1>3. [i \in DOMAIN c |-> f[c[i]]] = [i \in DOMAIN c |-> g[c[i]]]
  BY <1>2
<1> QED BY <1>3, Zenon DEF WalkOf, c

\* Such walks exist.
LEMMA WalkExists ==
  ASSUME NEW n \in Nat, NEW kids, Downward(kids, n), NEW post \in BOOLEAN
  PROVE  \E f : f = [h \in 1..n |-> WalkOf(kids, f, h, post)]
<1> DEFINE U == {m \in Nat : \E f : \A h \in 1..n : h > n - m => f[h] = WalkOf(kids, f, h, post)}
<1>1. 0 \in U
  OBVIOUS
<1>2. ASSUME NEW m \in Nat, m \in U PROVE m + 1 \in U
  <2>1. PICK f : \A h \in 1..n : h > n - m => f[h] = WalkOf(kids, f, h, post)
    BY <1>2
  <2> DEFINE new == n - m
             g == [h \in 1..n |-> IF h = new THEN WalkOf(kids, f, h, post) ELSE f[h]]
  <2>2. \A h \in 1..n : g[h] = IF h = new THEN WalkOf(kids, f, h, post) ELSE f[h]
    OBVIOUS
  <2>3. new \in Int
    OBVIOUS
  <2>4. \A h \in 1..n : h > n - (m + 1) => h = new \/ h > new
    OBVIOUS
  <2>5. \A h \in 1..n : h > new => f[h] = WalkOf(kids, f, h, post)
    BY <2>1
  <2> HIDE DEF g, new
  <2>6. ASSUME NEW h \in 1..n, h = new \/ h > new PROVE g[h] = WalkOf(kids, g, h, post)
    <3>1. \A k \in 1..n : k > h => g[k] = f[k]
      BY <2>2, <2>3, <2>6
    <3>2. WalkOf(kids, g, h, post) = WalkOf(kids, f, h, post)
      BY <3>1, WalkSame
    <3>3. g[h] = WalkOf(kids, f, h, post)
      BY <2>2, <2>5, <2>6
    <3> QED BY <3>2, <3>3
  <2>7. \A h \in 1..n : h > n - (m + 1) => g[h] = WalkOf(kids, g, h, post)
    BY <2>4, <2>6
  <2>8. m + 1 \in Nat
    OBVIOUS
  <2> QED BY <2>7, <2>8
<1>3. n \in U
  <2> HIDE DEF U
  <2>1. Nat \subseteq U
    BY <1>1, <1>2, Induction
  <2> QED BY <2>1
<1>4. PICK f : \A h \in 1..n : h > n - n => f[h] = WalkOf(kids, f, h, post)
  BY <1>3
<1> DEFINE g == [h \in 1..n |-> f[h]]
<1>5. \A h \in 1..n : h > n - n
  OBVIOUS
<1>6. \A h \in 1..n : g[h] = f[h]
  OBVIOUS
<1>7. ASSUME NEW h \in 1..n PROVE f[h] = WalkOf(kids, g, h, post)
  <2>1. WalkOf(kids, g, h, post) = WalkOf(kids, f, h, post)
    <3>1. \A k \in 1..n : k > h => g[k] = f[k]
      BY <1>6
    <3> HIDE DEF g
    <3> QED BY <3>1, WalkSame
  <2> QED BY <1>4, <1>5, <2>1
<1>8. g = [h \in 1..n |-> WalkOf(kids, g, h, post)]
  <2>1. [h \in 1..n |-> f[h]] = [h \in 1..n |-> WalkOf(kids, g, h, post)]
    BY <1>7
  <2> QED BY <2>1
<1> QED BY <1>8, Zenon

\* There is one walk of each kind.
LEMMA WalkUnique ==
  ASSUME NEW n \in Nat, NEW kids, Downward(kids, n), NEW post \in BOOLEAN,
         NEW f, Walks(kids, n, f, post), NEW g, Walks(kids, n, g, post)
  PROVE  \A h \in 1..n : f[h] = g[h]
<1> DEFINE U == {h \in 1..n : f[h] = g[h]}
<1>1. ASSUME NEW h \in 1..n, \A k \in 1..n : k > h => k \in U PROVE h \in U
  <2>1. \A k \in 1..n : k > h => f[k] = g[k]
    BY <1>1
  <2>2. WalkOf(kids, f, h, post) = WalkOf(kids, g, h, post)
    BY <2>1, WalkSame
  <2>3. f[h] = g[h]
    BY <2>2 DEF Walks
  <2> QED BY <2>3
<1>2. 1..n \subseteq U
  <2> HIDE DEF U
  <2> QED BY <1>1, InductionDown
<1> QED BY <1>2

\* x is in the list.
Meets(s, x) == \E i \in 1..Len(s) : s[i] = x

\* The walks of a node's children have nothing in common, and are without it.
Separate(kids, f, h) ==
  /\ \A i \in 1..Len(kids[h]) : Distinct(f[kids[h][i]]) /\ ~Meets(f[kids[h][i]], h)
  /\ \A i, j \in 1..Len(kids[h]) : \A x : Meets(f[kids[h][i]], x) /\ Meets(f[kids[h][j]], x) => i = j

\* What a walk comes to, if the walks of the children are lists of nodes.
LEMMA WalkMeets ==
  ASSUME NEW n \in Nat, NEW kids, Downward(kids, n), NEW post \in BOOLEAN, NEW h \in 1..n, NEW f,
         \A k \in 1..n : k > h => f[k] \in Seq(1..n)
  PROVE  /\ WalkOf(kids, f, h, post) \in Seq(1..n)
         /\ \A x : Meets(WalkOf(kids, f, h, post), x) <=>
                     x = h \/ \E i \in 1..Len(kids[h]) : Meets(f[kids[h][i]], x)
         /\ Separate(kids, f, h) => Distinct(WalkOf(kids, f, h, post))
<1> DEFINE Elems == 1..n
           c == kids[h]
           ss == [i \in DOMAIN c |-> f[c[i]]]
           F == T!FlattenSeq(ss)
           u == WalkOf(kids, f, h, post)
           one == <<h>>
<1>1. c \in Seq(1..n) /\ DOMAIN c = 1..Len(c) /\ Len(c) \in Nat
      /\ \A i \in 1..Len(c) : c[i] \in 1..n /\ c[i] > h
  <2>1. c \in Seq(1..n) /\ \A i \in 1..Len(c) : c[i] > h
    BY DEF Downward
  <2> HIDE DEF c
  <2> QED BY <2>1
<1>2. u = IF post THEN F \o one ELSE one \o F
  BY Zenon DEF WalkOf
<1> HIDE DEF c, u
<1>3. ss \in Seq(Seq(Elems)) /\ Len(ss) = Len(c) /\ \A i \in 1..Len(c) : ss[i] = f[c[i]]
  <2>1. \A i \in 1..Len(c) : f[c[i]] \in Seq(Elems)
    BY <1>1
  <2> DEFINE v(i) == f[c[i]]
             size == Len(c)
             L == Seq(Elems)
  <2>2. \A i \in 1..size : v(i) \in L
    BY <2>1
  <2>3. size \in Nat /\ ss = [i \in 1..size |-> v(i)]
    BY <1>1
  <2> HIDE DEF v, size, L, ss, Elems
  <2>4. [i \in 1..size |-> v(i)] \in Seq(L) /\ Len([i \in 1..size |-> v(i)]) = size
        /\ \A i \in 1..size : [k \in 1..size |-> v(k)][i] = v(i)
    BY <2>2, <2>3
  <2> QED BY <2>3, <2>4 DEF v, size, L
<1>4. one \in Seq(Elems) /\ Len(one) = 1 /\ one[1] = h
  OBVIOUS
<1> HIDE DEF ss, one, Elems
<1>5. F \in Seq(Elems) /\ Flattened(F, ss, Len(ss))
  BY <1>3, FlattenIs
<1> HIDE DEF F
<1>6. \A x : Meets(F, x) <=> \E i \in 1..Len(c) : Meets(f[c[i]], x)
  <2>1. ASSUME NEW x, Meets(F, x) PROVE \E i \in 1..Len(c) : Meets(f[c[i]], x)
    <3>1. PICK k \in 1..Len(F) : F[k] = x
      BY <2>1 DEF Meets
    <3>2. PICK a \in 1..Len(ss) : \E b \in 1..Len(ss[a]) : F[k] = ss[a][b]
      BY <1>5 DEF Flattened
    <3>3. a \in 1..Len(c) /\ ss[a] = f[c[a]]
      BY <1>3
    <3>4. Meets(ss[a], x)
      BY <3>1, <3>2 DEF Meets
    <3> QED BY <3>3, <3>4
  <2>2. ASSUME NEW x, NEW i \in 1..Len(c), Meets(f[c[i]], x) PROVE Meets(F, x)
    <3>1. i \in 1..Len(ss) /\ ss[i] = f[c[i]]
      BY <1>3
    <3>2. PICK b \in 1..Len(ss[i]) : ss[i][b] = x
      BY <2>2, <3>1 DEF Meets
    <3> QED BY <1>5, <3>1, <3>2 DEF Flattened, Meets
  <2> QED BY <2>1, <2>2
<1>7. /\ u \in Seq(Elems)
      /\ \A x : Meets(u, x) <=> x = h \/ Meets(F, x)
      /\ Distinct(F) /\ ~Meets(F, h) => Distinct(u)
  <2>0. F \in Seq(Elems) /\ one \in Seq(Elems) /\ Len(F) \in Nat /\ Len(one) = 1 /\ one[1] = h
    BY <1>4, <1>5
  <2>1. CASE post
    <3>1. u = F \o one
      BY <1>2, <2>1
    <3>2. /\ u \in Seq(Elems) /\ Len(u) = Len(F) + 1
          /\ \A i \in 1..Len(F) : u[i] = F[i]
          /\ u[Len(F) + 1] = h
      <4>0. /\ F \o one \in Seq(Elems) /\ Len(F \o one) = Len(F) + Len(one)
            /\ \A i \in 1..Len(F) : (F \o one)[i] = F[i]
            /\ \A i \in 1..Len(one) : (F \o one)[Len(F) + i] = one[i]
        <5> DEFINE X == Elems
        <5>1. F \in Seq(X) /\ one \in Seq(X)
          BY <2>0
        <5> HIDE DEF X
        <5> QED BY <5>1, Joined DEF X
      <4>1. /\ u \in Seq(Elems) /\ Len(u) = Len(F) + Len(one)
            /\ \A i \in 1..Len(F) : u[i] = F[i]
            /\ \A i \in 1..Len(one) : u[Len(F) + i] = one[i]
        BY <3>1, <4>0, Zenon
      <4> QED BY <2>0, <4>1
    <3>3. \A i \in 1..Len(u) : (i \in 1..Len(F) /\ u[i] = F[i]) \/ (i = Len(F) + 1 /\ u[i] = h)
      <4>1. ASSUME NEW i \in 1..Len(u), i # Len(F) + 1 PROVE i \in 1..Len(F)
        BY <2>0, <3>2, <4>1
      <4> QED BY <3>2, <4>1
    <3>4. \A i \in 1..Len(F) : i \in 1..Len(u) /\ u[i] = F[i]
      BY <2>0, <3>2
    <3>5. Len(F) + 1 \in 1..Len(u) /\ u[Len(F) + 1] = h
      BY <2>0, <3>2
    <3>6. \A x : Meets(u, x) <=> x = h \/ Meets(F, x)
      <4>1. ASSUME NEW x, Meets(u, x) PROVE x = h \/ Meets(F, x)
        BY <3>3, <4>1, Zenon DEF Meets
      <4>2. ASSUME NEW x, x = h \/ Meets(F, x) PROVE Meets(u, x)
        BY <3>4, <3>5, <4>2, Zenon DEF Meets
      <4> QED BY <4>1, <4>2
    <3>7. ASSUME Distinct(F), ~Meets(F, h) PROVE Distinct(u)
      <4>1. ASSUME NEW i \in 1..Len(u), NEW j \in 1..Len(u), u[i] = u[j] PROVE i = j
        <5>1. ~ (i \in 1..Len(F) /\ F[i] = h) /\ ~ (j \in 1..Len(F) /\ F[j] = h)
          BY <3>7 DEF Meets
        <5>2. i \in 1..Len(F) /\ j \in 1..Len(F) /\ F[i] = F[j] => i = j
          BY <3>7 DEF Distinct
        <5> QED BY <3>3, <4>1, <5>1, <5>2
      <4> QED BY <4>1, Zenon DEF Distinct
    <3> QED BY <3>2, <3>6, <3>7
  <2>2. CASE ~post
    <3>1. u = one \o F
      BY <1>2, <2>2
    <3>2. /\ u \in Seq(Elems) /\ Len(u) = 1 + Len(F)
          /\ \A i \in 1..Len(F) : u[1 + i] = F[i]
          /\ u[1] = h
      <4>0. /\ one \o F \in Seq(Elems) /\ Len(one \o F) = Len(one) + Len(F)
            /\ \A i \in 1..Len(one) : (one \o F)[i] = one[i]
            /\ \A i \in 1..Len(F) : (one \o F)[Len(one) + i] = F[i]
        <5> DEFINE X == Elems
        <5>1. F \in Seq(X) /\ one \in Seq(X)
          BY <2>0
        <5> HIDE DEF X
        <5> QED BY <5>1, Joined DEF X
      <4>1. /\ u \in Seq(Elems) /\ Len(u) = Len(one) + Len(F)
            /\ \A i \in 1..Len(one) : u[i] = one[i]
            /\ \A i \in 1..Len(F) : u[Len(one) + i] = F[i]
        BY <3>1, <4>0, Zenon
      <4> QED BY <2>0, <4>1
    <3>3. \A i \in 1..Len(u) : (i - 1 \in 1..Len(F) /\ u[i] = F[i - 1]) \/ (i = 1 /\ u[i] = h)
      <4>1. ASSUME NEW i \in 1..Len(u), i # 1 PROVE i - 1 \in 1..Len(F) /\ u[i] = F[i - 1]
        <5>1. i - 1 \in 1..Len(F) /\ 1 + (i - 1) = i
          BY <2>0, <3>2, <4>1
        <5> QED BY <3>2, <5>1
      <4> QED BY <3>2, <4>1
    <3>4. \A i \in 1..Len(F) : 1 + i \in 1..Len(u) /\ u[1 + i] = F[i]
      BY <2>0, <3>2
    <3>5. 1 \in 1..Len(u) /\ u[1] = h
      BY <2>0, <3>2
    <3>6. \A x : Meets(u, x) <=> x = h \/ Meets(F, x)
      <4>1. ASSUME NEW x, Meets(u, x) PROVE x = h \/ Meets(F, x)
        BY <3>3, <4>1, Zenon DEF Meets
      <4>2. ASSUME NEW x, x = h \/ Meets(F, x) PROVE Meets(u, x)
        BY <3>4, <3>5, <4>2, Zenon DEF Meets
      <4> QED BY <4>1, <4>2
    <3>7. ASSUME Distinct(F), ~Meets(F, h) PROVE Distinct(u)
      <4>1. ASSUME NEW i \in 1..Len(u), NEW j \in 1..Len(u), u[i] = u[j] PROVE i = j
        <5>1. ~ (i - 1 \in 1..Len(F) /\ F[i - 1] = h) /\ ~ (j - 1 \in 1..Len(F) /\ F[j - 1] = h)
          BY <3>7 DEF Meets
        <5>2. i - 1 \in 1..Len(F) /\ j - 1 \in 1..Len(F) /\ F[i - 1] = F[j - 1] => i - 1 = j - 1
          BY <3>7, Zenon DEF Distinct
        <5>3. i - 1 = j - 1 => i = j
          BY <2>0, <3>2
        <5> QED BY <3>3, <4>1, <5>1, <5>2, <5>3
      <4> QED BY <4>1, Zenon DEF Distinct
    <3> QED BY <3>2, <3>6, <3>7
  <2> QED BY <2>1, <2>2
<1>8. ASSUME Separate(kids, f, h) PROVE Distinct(F) /\ ~Meets(F, h)
  <2>0. /\ \A i \in 1..Len(c) : Distinct(f[c[i]]) /\ ~Meets(f[c[i]], h)
        /\ \A i, j \in 1..Len(c) : \A x : Meets(f[c[i]], x) /\ Meets(f[c[j]], x) => i = j
    BY <1>8 DEF Separate, c
  <2>1. ASSUME NEW a \in 1..Len(ss), NEW b \in 1..Len(ss), NEW i \in 1..Len(ss[a]), NEW j \in 1..Len(ss[b]),
               ss[a][i] = ss[b][j]
        PROVE  a = b
    <3>1. a \in 1..Len(c) /\ b \in 1..Len(c) /\ ss[a] = f[c[a]] /\ ss[b] = f[c[b]]
      BY <1>3
    <3>2. Meets(f[c[a]], ss[a][i]) /\ Meets(f[c[b]], ss[a][i])
      BY <2>1, <3>1 DEF Meets
    <3> QED BY <2>0, <3>1, <3>2
  <2>2. \A a \in 1..Len(ss) : Distinct(ss[a])
    BY <1>3, <2>0
  <2>3. Scattered(ss)
    BY <2>1, <2>2, Zenon DEF Scattered
  <2> QED BY <1>5, <1>6, <2>0, <2>3 DEF Flattened
<1> QED BY <1>6, <1>7, <1>8 DEF c, u, Elems


\* Walks are lists of nodes.
LEMMA WalkTyped ==
  ASSUME NEW n \in Nat, NEW kids, Downward(kids, n), NEW post \in BOOLEAN, NEW f, Walks(kids, n, f, post)
  PROVE  \A h \in 1..n : f[h] \in Seq(1..n)
<1> DEFINE U == {h \in 1..n : f[h] \in Seq(1..n)}
<1>1. ASSUME NEW h \in 1..n, \A k \in 1..n : k > h => k \in U PROVE h \in U
  <2>1. \A k \in 1..n : k > h => f[k] \in Seq(1..n)
    BY <1>1
  <2>2. WalkOf(kids, f, h, post) \in Seq(1..n)
    BY <2>1, WalkMeets
  <2>3. f[h] \in Seq(1..n)
    BY <2>2 DEF Walks
  <2> QED BY <2>3
<1>2. 1..n \subseteq U
  <2> HIDE DEF U
  <2> QED BY <1>1, InductionDown
<1> QED BY <1>2

\* What they come to.
WalkIn(kids, f, h) ==
  \A x : Meets(f[h], x) <=> x = h \/ \E i \in 1..Len(kids[h]) : Meets(f[kids[h][i]], x)

\* What a walk of a node is to those of its children.
LEMMA WalkIs ==
  ASSUME NEW n \in Nat, NEW kids, Downward(kids, n), NEW post \in BOOLEAN, NEW f, Walks(kids, n, f, post),
         NEW h \in 1..n
  PROVE  /\ \A i \in 1..Len(kids[h]) : kids[h][i] \in 1..n /\ kids[h][i] > h
         /\ WalkIn(kids, f, h)
         /\ Separate(kids, f, h) => Distinct(f[h])
<1>1. \A k \in 1..n : k > h => f[k] \in Seq(1..n)
  BY WalkTyped
<1>2. f[h] = WalkOf(kids, f, h, post)
  BY DEF Walks
<1>3. \A i \in 1..Len(kids[h]) : kids[h][i] \in 1..n /\ kids[h][i] > h
  <2>1. kids[h] \in Seq(1..n) /\ \A i \in 1..Len(kids[h]) : kids[h][i] > h
    BY DEF Downward
  <2> QED BY <2>1
<1>4. \A x : Meets(WalkOf(kids, f, h, post), x) <=>
             x = h \/ \E i \in 1..Len(kids[h]) : Meets(f[kids[h][i]], x)
  BY <1>1, WalkMeets
<1>5. Separate(kids, f, h) => Distinct(WalkOf(kids, f, h, post))
  BY <1>1, WalkMeets
<1> QED BY <1>2, <1>3, <1>4, <1>5, Zenon DEF WalkIn

\* Walks of either kind come to the same nodes.
LEMMA WalksMeet ==
  ASSUME NEW n \in Nat, NEW kids, Downward(kids, n),
         NEW f, Walks(kids, n, f, TRUE), NEW g, Walks(kids, n, g, FALSE)
  PROVE  \A h \in 1..n : \A x : Meets(f[h], x) <=> Meets(g[h], x)
<1> DEFINE U == {h \in 1..n : \A x : Meets(f[h], x) <=> Meets(g[h], x)}
<1>1. ASSUME NEW h \in 1..n, \A k \in 1..n : k > h => k \in U PROVE h \in U
  <2>1. /\ \A i \in 1..Len(kids[h]) : kids[h][i] \in 1..n /\ kids[h][i] > h
        /\ \A x : Meets(f[h], x) <=> x = h \/ \E i \in 1..Len(kids[h]) : Meets(f[kids[h][i]], x)
    <3>1. TRUE \in BOOLEAN
      OBVIOUS
    <3>2. (\A i \in 1..Len(kids[h]) : kids[h][i] \in 1..n /\ kids[h][i] > h) /\ WalkIn(kids, f, h)
      BY <3>1, WalkIs, Zenon
    <3> QED BY <3>2, Zenon DEF WalkIn
  <2>2. \A x : Meets(g[h], x) <=> x = h \/ \E i \in 1..Len(kids[h]) : Meets(g[kids[h][i]], x)
    <3>1. FALSE \in BOOLEAN
      OBVIOUS
    <3>2. WalkIn(kids, g, h)
      BY <3>1, WalkIs, Zenon
    <3> QED BY <3>2, Zenon DEF WalkIn
  <2>3. \A i \in 1..Len(kids[h]) : \A x : Meets(f[kids[h][i]], x) <=> Meets(g[kids[h][i]], x)
    BY <1>1, <2>1
  <2>4. \A x : Meets(f[h], x) <=> Meets(g[h], x)
    BY <2>1, <2>2, <2>3
  <2> QED BY <2>4
<1>2. 1..n \subseteq U
  <2> HIDE DEF U
  <2> QED BY <1>1, InductionDown
<1> QED BY <1>2

\* Which node each is a child of, once.
Begotten(kids, n, par) ==
  \A h \in 1..n : /\ \A i \in 1..Len(kids[h]) : par[kids[h][i]] = h
                  /\ Distinct(kids[h])

\* A node in a walk is its first, or its parent is in the walk.
LEMMA WalkBelow ==
  ASSUME NEW n \in Nat, NEW kids, Downward(kids, n), NEW post \in BOOLEAN, NEW f, Walks(kids, n, f, post),
         NEW par, Begotten(kids, n, par)
  PROVE  \A h \in 1..n : \A x : Meets(f[h], x) =>
           /\ x \in 1..n /\ x >= h
           /\ x = h \/ (par[x] \in 1..n /\ par[x] >= h /\ par[x] < x /\ Meets(f[h], par[x]))
<1> DEFINE Right(h, x) == /\ x \in 1..n /\ x >= h
                          /\ x = h \/ (par[x] \in 1..n /\ par[x] >= h /\ par[x] < x /\ Meets(f[h], par[x]))
           U == {h \in 1..n : \A x : Meets(f[h], x) => Right(h, x)}
<1>1. ASSUME NEW h \in 1..n, \A k \in 1..n : k > h => k \in U PROVE h \in U
  <2> HIDE DEF Right
  <2>0. \A i \in 1..Len(kids[h]) : kids[h][i] \in 1..n /\ kids[h][i] > h
    BY WalkIs
  <2>1. /\ \A i \in 1..Len(kids[h]) : kids[h][i] \in 1..n /\ kids[h][i] > h
        /\ \A x : Meets(f[h], x) <=> x = h \/ \E i \in 1..Len(kids[h]) : Meets(f[kids[h][i]], x)
    <3>1. \A x : Meets(f[h], x) <=> x = h \/ \E i \in 1..Len(kids[h]) : Meets(f[kids[h][i]], x)
      <4>1. WalkIn(kids, f, h)
        BY WalkIs, Zenon
      <4> QED BY <4>1, Zenon DEF WalkIn
    <3> QED BY <2>0, <3>1
  <2> USE DEF Right
  <2>2. ASSUME NEW x, NEW i \in 1..Len(kids[h]), Meets(f[kids[h][i]], x) PROVE Right(h, x)
    <3> DEFINE k == kids[h][i]
    <3>1. k \in 1..n /\ k > h /\ par[k] = h
      BY <2>1 DEF Begotten
    <3>2. Right(k, x)
      BY <1>1, <2>2, <3>1
    <3>3. Meets(f[h], h)
      BY <2>1
    <3>4. CASE x = k
      BY <3>1, <3>3, <3>4
    <3>5. CASE x # k
      <4>1. Meets(f[k], par[x]) /\ par[x] \in 1..n /\ par[x] >= k /\ par[x] < x /\ x \in 1..n /\ x >= k
        BY <3>2, <3>5
      <4>2. Meets(f[h], par[x])
        BY <2>1, <4>1
      <4> HIDE DEF k
      <4> QED BY <3>1, <4>1, <4>2
    <3> QED BY <3>4, <3>5
  <2>3. \A x : Meets(f[h], x) => Right(h, x)
    BY <2>1, <2>2
  <2> QED BY <2>3
<1>2. 1..n \subseteq U
  <2> HIDE DEF U
  <2> QED BY <1>1, InductionDown
<1> QED BY <1>2

\* The walks of two children of a node have nothing in common: the least node in both
\* would be one of the two, and the other one its parent or above it.
LEMMA WalksApart ==
  ASSUME NEW n \in Nat, NEW kids, Downward(kids, n), NEW post \in BOOLEAN, NEW f, Walks(kids, n, f, post),
         NEW par, Begotten(kids, n, par), NEW h \in 1..n,
         NEW a \in 1..n, NEW b \in 1..n, a > h, b > h, par[a] = h, par[b] = h, a # b
  PROVE  \A x : ~ (Meets(f[a], x) /\ Meets(f[b], x))
<1> DEFINE Both == {x \in Nat : Meets(f[a], x) /\ Meets(f[b], x)}
<1>1. \A x : Meets(f[a], x) => /\ x \in 1..n /\ x >= a
                               /\ x = a \/ (par[x] \in 1..n /\ par[x] >= a /\ par[x] < x /\ Meets(f[a], par[x]))
  BY WalkBelow
<1>2. \A x : Meets(f[b], x) => /\ x \in 1..n /\ x >= b
                               /\ x = b \/ (par[x] \in 1..n /\ par[x] >= b /\ par[x] < x /\ Meets(f[b], par[x]))
  BY WalkBelow
<1>3. SUFFICES ASSUME Both # {} PROVE FALSE
  <2>1. \A x : Meets(f[a], x) => x \in Nat
    BY <1>1
  <2> QED BY <2>1
<1>4. PICK x \in Both : \A y \in Both : x <= y
  <2>1. Both \subseteq Nat
    OBVIOUS
  <2> HIDE DEF Both
  <2> QED BY <1>3, <2>1, Least
<1>5. CASE x = a
  BY <1>2, <1>4, <1>5
<1>6. CASE x = b
  BY <1>1, <1>4, <1>6
<1>7. CASE x # a /\ x # b
  <2>1. par[x] \in 1..n /\ par[x] < x /\ Meets(f[a], par[x]) /\ Meets(f[b], par[x])
    BY <1>1, <1>2, <1>4, <1>7
  <2>2. par[x] \in Both
    BY <2>1
  <2>3. x <= par[x]
    BY <1>4, <2>2
  <2>4. x \in Nat
    BY <1>4
  <2> QED BY <2>1, <2>3, <2>4
<1> QED BY <1>5, <1>6, <1>7

\* A walk comes to no node twice.
LEMMA WalkDistinct ==
  ASSUME NEW n \in Nat, NEW kids, Downward(kids, n), NEW post \in BOOLEAN, NEW f, Walks(kids, n, f, post),
         NEW par, Begotten(kids, n, par)
  PROVE  \A h \in 1..n : Distinct(f[h])
<1> DEFINE U == {h \in 1..n : Distinct(f[h])}
<1>1. ASSUME NEW h \in 1..n, \A k \in 1..n : k > h => k \in U PROVE h \in U
  <2>1. \A i \in 1..Len(kids[h]) : kids[h][i] \in 1..n /\ kids[h][i] > h
    BY WalkIs
  <2>2. \A i \in 1..Len(kids[h]) : Distinct(f[kids[h][i]])
    BY <1>1, <2>1
  <2>3. \A i \in 1..Len(kids[h]) : ~Meets(f[kids[h][i]], h)
    <3>1. \A k \in 1..n : \A x : Meets(f[k], x) => x >= k
      BY WalkBelow, Zenon
    <3>2. ASSUME NEW i \in 1..Len(kids[h]), Meets(f[kids[h][i]], h) PROVE FALSE
      <4>1. kids[h][i] \in 1..n /\ kids[h][i] > h
        BY <2>1
      <4>2. h >= kids[h][i]
        BY <3>1, <3>2, <4>1, Zenon
      <4> QED BY <4>1, <4>2
    <3> QED BY <3>2, Zenon
  <2>4. ASSUME NEW i \in 1..Len(kids[h]), NEW j \in 1..Len(kids[h]), NEW x,
               Meets(f[kids[h][i]], x) /\ Meets(f[kids[h][j]], x)
        PROVE  i = j
    <3> DEFINE a == kids[h][i]
               b == kids[h][j]
    <3>1. a \in 1..n /\ b \in 1..n /\ a > h /\ b > h /\ par[a] = h /\ par[b] = h /\ (a = b => i = j)
      BY <2>1 DEF Begotten, Distinct
    <3> HIDE DEF a, b
    <3>2. a # b => ~ (Meets(f[a], x) /\ Meets(f[b], x))
      BY <3>1, WalksApart
    <3> QED BY <2>4, <3>1, <3>2 DEF a, b
  <2>5. Separate(kids, f, h)
    BY <2>2, <2>3, <2>4, Zenon DEF Separate
  <2>6. Distinct(f[h])
    <3>1. Separate(kids, f, h) => Distinct(f[h])
      BY WalkIs, Zenon
    <3> QED BY <2>5, <3>1, Zenon
  <2> QED BY <2>6
<1>2. 1..n \subseteq U
  <2> HIDE DEF U
  <2> QED BY <1>1, InductionDown
<1> QED BY <1>2


-----------------------------------------------------------------------------
(* The loops of Tree.                                                      *)

\* The children of a node by the parents of all nodes.
EmplacedIn(par, h) ==
  LET upTo[x \in 0..Len(par)] ==
        IF x = 0 THEN << >> ELSE IF par[x] = h THEN Append(upTo[x - 1], x) ELSE upTo[x - 1]
  IN  upTo[Len(par)]

\* Emplaced, one node at a time.
LEMMA EmplacedDef ==
  ASSUME NEW par, NEW h, Len(par) \in Nat
  PROVE  \E f : /\ f[0] = << >>
                /\ \A i \in 1..Len(par) : f[i] = (IF par[i] = h THEN Append(f[i - 1], i) ELSE f[i - 1])
                /\ EmplacedIn(par, h) = f[Len(par)]
<1> DEFINE top == Len(par)
           base == << >>
           turn(was, i) == (IF par[i] = h THEN Append(was, i) ELSE was)
           loop(f, n) == [i \in 0..n |-> IF i = 0 THEN base ELSE turn(f[i - 1], i)]
           Turns == {n \in Nat : \E f : f = loop(f, n)}
           made == CHOOSE f : f = loop(f, top)
<1>1. EmplacedIn(par, h) = made[top]
  BY DEF EmplacedIn
<1> HIDE DEF turn, base
<1>2. 0 \in Turns
  <2>1. [i \in 0..0 |-> base] = loop([i \in 0..0 |-> base], 0)
    OBVIOUS
  <2> QED BY <2>1
<1>3. ASSUME NEW n \in Nat, n \in Turns PROVE n + 1 \in Turns
  <2>1. PICK f : f = loop(f, n)
    BY <1>3
  <2> DEFINE g == [i \in 0..n + 1 |-> IF i = n + 1 THEN turn(f[n], n + 1) ELSE f[i]]
  <2>2. ASSUME NEW i \in 0..n + 1 PROVE g[i] = IF i = 0 THEN base ELSE turn(g[i - 1], i)
    <3>1. CASE i = n + 1
      BY <3>1
    <3>2. CASE i \in 0..n
      <4>1. g[i] = f[i] /\ (i # 0 => g[i - 1] = f[i - 1])
        BY <3>2
      <4>2. f[i] = IF i = 0 THEN base ELSE turn(f[i - 1], i)
        BY <2>1, <3>2
      <4> QED BY <4>1, <4>2
    <3> QED BY <3>1, <3>2
  <2>3. g = loop(g, n + 1)
    <3>1. g = [i \in 0..n + 1 |-> g[i]]
      OBVIOUS
    <3> HIDE DEF g
    <3> QED BY <2>2, <3>1
  <2> HIDE DEF g
  <2> QED BY <2>3
<1>4. top \in Nat
  OBVIOUS
<1> HIDE DEF top
<1>5. top \in Turns
  <2> HIDE DEF Turns
  <2>1. Nat \subseteq Turns
    BY <1>2, <1>3, Induction, Zenon
  <2> QED BY <1>4, <2>1
<1>6. made = loop(made, top)
  BY <1>5, Zenon
<1> HIDE DEF made
<1>7. made[0] = base /\ \A i \in 1..top : made[i] = turn(made[i - 1], i)
  BY <1>4, <1>6
<1> QED BY <1>1, <1>7, Zenon DEF turn, base, top

\* ChildrenOf, one node at a time.
LEMMA ChildrenOfDef ==
  ASSUME NEW h, Len(nodes) \in Nat
  PROVE  \E f : /\ f[0] = [out |-> << >>, pos |-> nodes[h].down]
                /\ \A i \in 1..Len(nodes) : f[i] = (IF f[i - 1].pos = 0 THEN f[i - 1]
                   ELSE [out |-> Append(f[i - 1].out, f[i - 1].pos), pos |-> nodes[f[i - 1].pos].right])
                /\ T!ChildrenOf(h) = f[Len(nodes)].out
<1> DEFINE top == Len(nodes)
           base == [out |-> << >>, pos |-> nodes[h].down]
           turn(was, i) == (IF was.pos = 0 THEN was
                   ELSE [out |-> Append(was.out, was.pos), pos |-> nodes[was.pos].right])
           loop(f, n) == [i \in 0..n |-> IF i = 0 THEN base ELSE turn(f[i - 1], i)]
           Turns == {n \in Nat : \E f : f = loop(f, n)}
           made == CHOOSE f : f = loop(f, top)
<1>1. T!ChildrenOf(h) = made[top].out
  BY DEF T!ChildrenOf
<1> HIDE DEF turn, base
<1>2. 0 \in Turns
  <2>1. [i \in 0..0 |-> base] = loop([i \in 0..0 |-> base], 0)
    OBVIOUS
  <2> QED BY <2>1
<1>3. ASSUME NEW n \in Nat, n \in Turns PROVE n + 1 \in Turns
  <2>1. PICK f : f = loop(f, n)
    BY <1>3
  <2> DEFINE g == [i \in 0..n + 1 |-> IF i = n + 1 THEN turn(f[n], n + 1) ELSE f[i]]
  <2>2. ASSUME NEW i \in 0..n + 1 PROVE g[i] = IF i = 0 THEN base ELSE turn(g[i - 1], i)
    <3>1. CASE i = n + 1
      BY <3>1
    <3>2. CASE i \in 0..n
      <4>1. g[i] = f[i] /\ (i # 0 => g[i - 1] = f[i - 1])
        BY <3>2
      <4>2. f[i] = IF i = 0 THEN base ELSE turn(f[i - 1], i)
        BY <2>1, <3>2
      <4> QED BY <4>1, <4>2
    <3> QED BY <3>1, <3>2
  <2>3. g = loop(g, n + 1)
    <3>1. g = [i \in 0..n + 1 |-> g[i]]
      OBVIOUS
    <3> HIDE DEF g
    <3> QED BY <2>2, <3>1
  <2> HIDE DEF g
  <2> QED BY <2>3
<1>4. top \in Nat
  OBVIOUS
<1> HIDE DEF top
<1>5. top \in Turns
  <2> HIDE DEF Turns
  <2>1. Nat \subseteq Turns
    BY <1>2, <1>3, Induction, Zenon
  <2> QED BY <1>4, <2>1
<1>6. made = loop(made, top)
  BY <1>5, Zenon
<1> HIDE DEF made
<1>7. made[0] = base /\ \A i \in 1..top : made[i] = turn(made[i - 1], i)
  BY <1>4, <1>6
<1> QED BY <1>1, <1>7, Zenon DEF turn, base, top

\* What visitNode comes to, given what it does from the children on.
VisitLoop(v, h) ==
  LET loop[i \in 0..nodes[h].count] ==
        IF i = 0
        THEN [out |-> <<h>>,
              next |-> IF nodes[h].down # 0 THEN nodes[h].down ELSE nodes[h].right]
        ELSE LET child == v[loop[i - 1].next]
             IN  [out |-> loop[i - 1].out \o child.out, next |-> child.next]
  IN  loop[nodes[h].count].out

\* Before its loop, and after one more child.
VisitStart(h) ==
  [out |-> <<h>>, next |-> IF nodes[h].down # 0 THEN nodes[h].down ELSE nodes[h].right]

VisitChild(v, r) == [out |-> r.out \o v[r.next].out, next |-> v[r.next].next]

\* The loop of visitNode, one child at a time.
LEMMA VisitLoopDef ==
  ASSUME NEW v, NEW h, nodes[h].count \in Nat
  PROVE  \E f : /\ f[0] = VisitStart(h)
                /\ \A i \in 1..nodes[h].count : f[i] = (VisitChild(v, f[i - 1]))
                /\ VisitLoop(v, h) = f[nodes[h].count].out
<1> DEFINE top == nodes[h].count
           base == VisitStart(h)
           turn(was, i) == (VisitChild(v, was))
           loop(f, n) == [i \in 0..n |-> IF i = 0 THEN base ELSE turn(f[i - 1], i)]
           Turns == {n \in Nat : \E f : f = loop(f, n)}
           made == CHOOSE f : f = loop(f, top)
<1>1. VisitLoop(v, h) = made[top].out
  BY DEF VisitLoop, VisitStart, VisitChild
<1> HIDE DEF turn, base
<1>2. 0 \in Turns
  <2>1. [i \in 0..0 |-> base] = loop([i \in 0..0 |-> base], 0)
    OBVIOUS
  <2> QED BY <2>1
<1>3. ASSUME NEW n \in Nat, n \in Turns PROVE n + 1 \in Turns
  <2>1. PICK f : f = loop(f, n)
    BY <1>3
  <2> DEFINE g == [i \in 0..n + 1 |-> IF i = n + 1 THEN turn(f[n], n + 1) ELSE f[i]]
  <2>2. ASSUME NEW i \in 0..n + 1 PROVE g[i] = IF i = 0 THEN base ELSE turn(g[i - 1], i)
    <3>1. CASE i = n + 1
      BY <3>1
    <3>2. CASE i \in 0..n
      <4>1. g[i] = f[i] /\ (i # 0 => g[i - 1] = f[i - 1])
        BY <3>2
      <4>2. f[i] = IF i = 0 THEN base ELSE turn(f[i - 1], i)
        BY <2>1, <3>2
      <4> QED BY <4>1, <4>2
    <3> QED BY <3>1, <3>2
  <2>3. g = loop(g, n + 1)
    <3>1. g = [i \in 0..n + 1 |-> g[i]]
      OBVIOUS
    <3> HIDE DEF g
    <3> QED BY <2>2, <3>1
  <2> HIDE DEF g
  <2> QED BY <2>3
<1>4. top \in Nat
  OBVIOUS
<1> HIDE DEF top
<1>5. top \in Turns
  <2> HIDE DEF Turns
  <2>1. Nat \subseteq Turns
    BY <1>2, <1>3, Induction, Zenon
  <2> QED BY <1>4, <2>1
<1>6. made = loop(made, top)
  BY <1>5, Zenon
<1> HIDE DEF made
<1>7. made[0] = base /\ \A i \in 1..top : made[i] = turn(made[i - 1], i)
  BY <1>4, <1>6
<1> QED BY <1>1, <1>7, Zenon DEF turn, base, top


\* The children among the first x nodes, in their order.
Listed(s, par, h, x) ==
  /\ s \in Seq(Nat)
  /\ \A i \in 1..Len(s) : s[i] \in 1..x /\ par[s[i]] = h
  /\ \A i, j \in 1..Len(s) : i < j => s[i] < s[j]
  /\ \A y \in 1..x : par[y] = h => Meets(s, y)

\* The history lists the children so.
LEMMA EmplacedIs ==
  ASSUME NEW par, NEW h, Len(par) \in Nat
  PROVE  Listed(EmplacedIn(par, h), par, h, Len(par))
<1> DEFINE n == Len(par)
<1>1. PICK f : /\ f[0] = << >>
               /\ \A i \in 1..n : f[i] = (IF par[i] = h THEN Append(f[i - 1], i) ELSE f[i - 1])
               /\ EmplacedIn(par, h) = f[n]
  BY EmplacedDef
<1>2. n \in Nat
  OBVIOUS
<1> HIDE DEF n
<1> DEFINE U == {x \in 0..n : Listed(f[x], par, h, x)}
<1>3. 0 \in U
  <2>1. << >> \in Seq(Nat) /\ Len(<< >>) = 0 /\ 1..0 = {} /\ 0 \in 0..n
    BY <1>2
  <2>2. Listed(<< >>, par, h, 0)
    BY <2>1 DEF Listed
  <2> QED BY <1>1, <2>1, <2>2
<1>4. ASSUME NEW x \in 0..n - 1, x \in U PROVE x + 1 \in U
  <2> DEFINE s == f[x]
             u == f[x + 1]
             y == x + 1
  <2>1. Listed(s, par, h, x) /\ x \in Nat /\ y \in 1..n /\ y \in 0..n /\ y = x + 1 /\ y - 1 = x
    BY <1>2, <1>4
  <2>2. u = IF par[y] = h THEN Append(s, y) ELSE s
    BY <1>1, <2>1
  <2> HIDE DEF s, u, y
  <2>3. \A z \in 1..y : z = y \/ z \in 1..x
    BY <2>1
  <2>4. CASE par[y] # h
    <3>1. u = s
      BY <2>2, <2>4
    <3>2. \A i \in 1..Len(s) : s[i] \in 1..y
      BY <2>1 DEF Listed
    <3>3. Listed(u, par, h, y)
      BY <2>1, <2>3, <2>4, <3>1, <3>2 DEF Listed
    <3> QED BY <2>1, <3>3 DEF u, y
  <2>5. CASE par[y] = h
    <3>1. u = Append(s, y) /\ s \in Seq(Nat) /\ Len(s) \in Nat /\ y \in Nat
      BY <2>1, <2>2, <2>5 DEF Listed
    <3>2. /\ u \in Seq(Nat) /\ Len(u) = Len(s) + 1 /\ u[Len(s) + 1] = y
          /\ \A i \in 1..Len(s) : u[i] = s[i]
      BY <3>1
    <3>3. \A i \in 1..Len(u) : i = Len(s) + 1 \/ i \in 1..Len(s)
      BY <3>1, <3>2
    <3>4. \A i \in 1..Len(s) : s[i] \in 1..y /\ s[i] < y /\ par[s[i]] = h
      BY <2>1 DEF Listed
    <3>5. y \in 1..y
      BY <2>1
    <3>6. \A i \in 1..Len(u) : u[i] \in 1..y /\ par[u[i]] = h
      BY <2>5, <3>2, <3>3, <3>4, <3>5
    <3>7. ASSUME NEW i \in 1..Len(u), NEW j \in 1..Len(u), i < j PROVE u[i] < u[j]
      <4>1. i \in 1..Len(s)
        BY <3>1, <3>2, <3>3, <3>7
      <4>2. CASE j \in 1..Len(s)
        BY <2>1, <3>2, <3>7, <4>1, <4>2 DEF Listed
      <4>3. CASE j = Len(s) + 1
        BY <3>2, <3>4, <4>1, <4>3
      <4> QED BY <3>3, <4>2, <4>3
    <3>8. ASSUME NEW z \in 1..y, par[z] = h PROVE Meets(u, z)
      <4>1. CASE z = y
        <5>1. Len(s) + 1 \in 1..Len(u) /\ u[Len(s) + 1] = z
          BY <3>1, <3>2, <4>1
        <5> QED BY <5>1 DEF Meets
      <4>2. CASE z \in 1..x
        <5>1. PICK i \in 1..Len(s) : s[i] = z
          BY <2>1, <3>8, <4>2 DEF Listed, Meets
        <5>2. i \in 1..Len(u) /\ u[i] = z
          BY <3>1, <3>2, <5>1
        <5> QED BY <5>2 DEF Meets
      <4> QED BY <2>3, <4>1, <4>2
    <3>9. Listed(u, par, h, y)
      BY <3>2, <3>6, <3>7, <3>8 DEF Listed
    <3> QED BY <2>1, <3>9 DEF u, y
  <2> QED BY <2>4, <2>5
<1>5. n \in U
  <2> HIDE DEF U
  <2>1. 0..n \subseteq U
    BY <1>2, <1>3, <1>4, InductionUpTo
  <2> QED BY <1>2, <2>1
<1> QED BY <1>1, <1>5 DEF n

\* One more node.
LEMMA EmplacedGrows ==
  ASSUME NEW par \in Seq(Nat), NEW p \in Nat, NEW h
  PROVE  EmplacedIn(Append(par, p), h) =
           IF p = h THEN Append(EmplacedIn(par, h), Len(par) + 1) ELSE EmplacedIn(par, h)
<1> DEFINE n == Len(par)
           new == Append(par, p)
<1>1. n \in Nat /\ Len(new) = n + 1 /\ new[n + 1] = p /\ \A i \in 1..n : new[i] = par[i]
  OBVIOUS
<1> HIDE DEF new
<1>2. PICK f : /\ f[0] = << >>
               /\ \A i \in 1..n : f[i] = (IF par[i] = h THEN Append(f[i - 1], i) ELSE f[i - 1])
               /\ EmplacedIn(par, h) = f[n]
  BY <1>1, EmplacedDef
<1> HIDE DEF n
<1>3. PICK g : /\ g[0] = << >>
               /\ \A i \in 1..n + 1 : g[i] = (IF new[i] = h THEN Append(g[i - 1], i) ELSE g[i - 1])
               /\ EmplacedIn(new, h) = g[n + 1]
  <2>1. Len(new) \in Nat
    BY <1>1
  <2>2. \E g : /\ g[0] = << >>
               /\ \A i \in 1..Len(new) : g[i] = (IF new[i] = h THEN Append(g[i - 1], i) ELSE g[i - 1])
               /\ EmplacedIn(new, h) = g[Len(new)]
    BY <2>1, EmplacedDef
  <2> QED BY <1>1, <2>2
<1> DEFINE U == {x \in 0..n : g[x] = f[x]}
<1>4. 0 \in U
  BY <1>1, <1>2, <1>3
<1>5. ASSUME NEW x \in 0..n - 1, x \in U PROVE x + 1 \in U
  <2>1. x + 1 \in 1..n /\ x + 1 \in 1..n + 1 /\ (x + 1) - 1 = x /\ x + 1 \in 0..n
    BY <1>1
  <2>2. g[x] = f[x]
    BY <1>5
  <2>3. f[x + 1] = IF par[x + 1] = h THEN Append(f[x], x + 1) ELSE f[x]
    BY <1>2, <2>1
  <2>4. g[x + 1] = IF par[x + 1] = h THEN Append(g[x], x + 1) ELSE g[x]
    BY <1>1, <1>3, <2>1
  <2> QED BY <2>1, <2>2, <2>3, <2>4
<1>6. n \in U
  <2> HIDE DEF U
  <2>1. 0..n \subseteq U
    BY <1>1, <1>4, <1>5, InductionUpTo
  <2> QED BY <1>1, <2>1
<1>7. g[n + 1] = IF p = h THEN Append(g[n], n + 1) ELSE g[n]
  <2>1. n + 1 \in 1..n + 1 /\ (n + 1) - 1 = n
    BY <1>1
  <2> QED BY <1>1, <1>3, <2>1
<1>8. g[n] = f[n]
  BY <1>6
<1> QED BY <1>2, <1>3, <1>7, <1>8 DEF n, new

\* Ascending lists of numbers are no longer than their greatest.
LEMMA ListedFew ==
  ASSUME NEW s, NEW par, NEW h, NEW n \in Nat, Listed(s, par, h, n)
  PROVE  s \in Seq(1..n) /\ Len(s) \in Nat /\ Len(s) <= n /\ Distinct(s)
<1>1. s \in Seq(Nat) /\ Len(s) \in Nat /\ \A i \in 1..Len(s) : s[i] \in 1..n
  BY DEF Listed
<1>2. \A i, j \in 1..Len(s) : i < j => s[i] < s[j]
  BY DEF Listed
<1>3. s \in Seq(1..n)
  <2>1. s = [i \in 1..Len(s) |-> s[i]]
    BY <1>1
  <2> QED BY <1>1, <2>1
<1> DEFINE m == Len(s)
           U == {i \in 0..m : i # 0 => s[i] >= i}
<1>4. 0 \in U
  BY <1>1
<1>5. ASSUME NEW i \in 0..m - 1, i \in U PROVE i + 1 \in U
  <2>1. i + 1 \in 1..m /\ s[i + 1] \in 1..n /\ i \in Nat
    BY <1>1
  <2>2. CASE i = 0
    BY <2>1, <2>2
  <2>3. CASE i # 0
    <3>1. i \in 1..m /\ s[i] \in 1..n /\ s[i] >= i
      BY <1>1, <1>5, <2>3
    <3>2. s[i] < s[i + 1]
      BY <1>1, <1>2, <2>1, <3>1
    <3> QED BY <2>1, <3>1, <3>2
  <2> QED BY <2>2, <2>3
<1>6. m \in U
  <2>1. m \in Nat
    BY <1>1
  <2> HIDE DEF U, m
  <2>2. 0..m \subseteq U
    BY <1>4, <1>5, <2>1, InductionUpTo
  <2> QED BY <2>1, <2>2
<1>7. m <= n
  <2>1. CASE m = 0
    BY <2>1
  <2>2. CASE m # 0
    <3>1. s[m] >= m /\ s[m] \in 1..n
      BY <1>1, <1>6, <2>2
    <3> QED BY <1>1, <3>1
  <2> QED BY <2>1, <2>2
<1>8. Distinct(s)
  <2>1. ASSUME NEW i \in 1..m, NEW j \in 1..m, s[i] = s[j] PROVE i = j
    <3>1. s[i] \in 1..n /\ s[j] \in 1..n /\ ~ (s[i] < s[j]) /\ ~ (s[j] < s[i])
      BY <1>1, <2>1
    <3>2. ~ (i < j) /\ ~ (j < i)
      BY <1>2, <3>1
    <3> QED BY <1>1, <3>2
  <2> QED BY <2>1 DEF Distinct
<1> QED BY <1>1, <1>3, <1>7, <1>8

-----------------------------------------------------------------------------
(* The links.                                                              *)

\* The i-th of a list of nodes; 0 behind its end.
Nth(s, i) == IF i \in 1..Len(s) THEN s[i] ELSE 0

\* The links of a node to its children, and theirs to one another.
Linking(l, h, s) ==
  /\ l[h].count = Len(s) /\ l[h].down = Nth(s, 1) /\ (s # << >> => l[h].last = s[Len(s)])
  /\ \A i \in 1..Len(s) : l[s[i]].right = Nth(s, i + 1)

\* The iterator comes past the children.
LEMMA ChildrenOfIs ==
  ASSUME Len(nodes) \in Nat, NEW h, NEW s \in Seq(1..Len(nodes)), Len(s) <= Len(nodes), Linking(nodes, h, s)
  PROVE  T!ChildrenOf(h) = s
<1> DEFINE n == Len(nodes)
           size == Len(s)
           Past(i) == IF i <= size THEN i ELSE size
           At(r, i) == /\ r.out \in Seq(1..n) /\ Len(r.out) = Past(i)
                       /\ \A j \in 1..Past(i) : r.out[j] = s[j]
                       /\ r.pos = Nth(s, Past(i) + 1)
<1>1. PICK f : /\ f[0] = [out |-> << >>, pos |-> nodes[h].down]
               /\ \A i \in 1..n : f[i] = (IF f[i - 1].pos = 0 THEN f[i - 1]
                   ELSE [out |-> Append(f[i - 1].out, f[i - 1].pos), pos |-> nodes[f[i - 1].pos].right])
               /\ T!ChildrenOf(h) = f[n].out
  BY ChildrenOfDef
<1>2. n \in Nat /\ size \in Nat /\ size <= n /\ \A i \in 1..size : s[i] \in 1..n
  OBVIOUS
<1>3. nodes[h].down = Nth(s, 1) /\ \A i \in 1..size : nodes[s[i]].right = Nth(s, i + 1)
  BY DEF Linking
<1>4. \A i : (i \in 1..size => Nth(s, i) = s[i]) /\ (i \notin 1..size => Nth(s, i) = 0)
  BY DEF Nth
<1> HIDE DEF n, size
<1> DEFINE U == {i \in 0..n : At(f[i], i)}
<1>5. 0 \in U
  <2>1. f[0].out = << >> /\ f[0].pos = nodes[h].down /\ Past(0) = 0 /\ 0 + 1 = 1
    BY <1>1, <1>2
  <2>2. At(f[0], 0)
    BY <1>3, <2>1
  <2> QED BY <1>2, <2>2
<1>6. ASSUME NEW i \in 0..n - 1, i \in U PROVE i + 1 \in U
  <2> DEFINE r == f[i]
  <2>1. i \in Nat /\ i + 1 \in 1..n /\ (i + 1) - 1 = i /\ i + 1 \in 0..n
    BY <1>2
  <2>2. At(r, i)
    BY <1>6
  <2>3. f[i + 1] = IF r.pos = 0 THEN r ELSE [out |-> Append(r.out, r.pos), pos |-> nodes[r.pos].right]
    BY <1>1, <2>1
  <2> HIDE DEF r
  <2>4. CASE i >= size
    <3>1. Past(i) = size /\ Past(i + 1) = size /\ size + 1 \notin 1..size
      BY <1>2, <2>1, <2>4
    <3>2. r.pos = 0
      BY <1>4, <2>2, <3>1
    <3>3. f[i + 1] = r
      BY <2>3, <3>2
    <3>4. At(f[i + 1], i + 1)
      BY <2>2, <3>1, <3>3
    <3> QED BY <2>1, <3>4
  <2>5. CASE i < size
    <3>1. Past(i) = i /\ Past(i + 1) = i + 1 /\ i + 1 \in 1..size
      BY <1>2, <2>1, <2>5
    <3> HIDE DEF Past
    <3>2. r.pos = s[i + 1] /\ s[i + 1] \in 1..n /\ s[i + 1] # 0
      BY <1>2, <1>4, <2>2, <3>1
    <3>3. nodes[s[i + 1]].right = Nth(s, (i + 1) + 1)
      BY <1>3, <3>1
    <3>4. f[i + 1].out = Append(r.out, s[i + 1]) /\ f[i + 1].pos = Nth(s, (i + 1) + 1)
      BY <2>3, <3>2, <3>3
    <3>5. r.out \in Seq(1..n) /\ Len(r.out) = i /\ \A j \in 1..i : r.out[j] = s[j]
      BY <2>2, <3>1
    <3> DEFINE a == r.out
               b == f[i + 1].out
    <3>6. a \in Seq(1..n) /\ Len(a) = i /\ (\A j \in 1..i : a[j] = s[j]) /\ b = Append(a, s[i + 1])
      BY <3>4, <3>5
    <3> HIDE DEF a, b
    <3>7. b \in Seq(1..n) /\ Len(b) = i + 1 /\ \A j \in 1..i + 1 : b[j] = s[j]
      BY <2>1, <3>2, <3>6
    <3>8. At(f[i + 1], i + 1)
      BY <3>1, <3>4, <3>7 DEF b
    <3> QED BY <2>1, <3>8
  <2> QED BY <1>2, <2>1, <2>4, <2>5
<1>7. n \in U
  <2> HIDE DEF U
  <2>1. 0..n \subseteq U
    BY <1>2, <1>5, <1>6, InductionUpTo
  <2> QED BY <1>2, <2>1
<1>8. Past(n) = size
  BY <1>2
<1>9. f[n].out \in Seq(1..n) /\ Len(f[n].out) = size /\ \A j \in 1..size : f[n].out[j] = s[j]
  BY <1>7, <1>8
<1>10. f[n].out = s
  <2> DEFINE u == f[n].out
             Elems == 1..n
  <2>1. u \in Seq(Elems) /\ Len(u) = Len(s) /\ \A j \in 1..Len(s) : u[j] = s[j]
    BY <1>9 DEF size
  <2>2. s \in Seq(Elems)
    BY DEF n
  <2> HIDE DEF u, Elems
  <2>3. u = s
    BY <2>1, <2>2, SeqEqual
  <2> QED BY <2>3 DEF u
<1> QED BY <1>1, <1>10 DEF n


\* Lists behind one another, behind another.
LEMMA JoinedTwice ==
  ASSUME NEW Elems, NEW s \in Seq(Elems), NEW t \in Seq(Elems), NEW u \in Seq(Elems)
  PROVE  (s \o t) \o u = s \o (t \o u)
OBVIOUS

\* What the shared variable of ForEach leads to: after a child to its right sibling,
\* whatever is below the child, so that every child is visited.
LEMMA VisitLoopIs ==
  ASSUME NEW n \in Nat, NEW h \in 1..n, NEW s \in Seq(1..n), Linking(nodes, h, s),
         NEW f, \A i \in 1..Len(s) : f[s[i]] \in Seq(1..n),
         NEW v, \A i \in 1..Len(s) : v[s[i]] = [out |-> f[s[i]], next |-> nodes[s[i]].right]
  PROVE  VisitLoop(v, h) = <<h>> \o T!FlattenSeq([i \in DOMAIN s |-> f[s[i]]])
<1> DEFINE size == Len(s)
           Elems == 1..n
           one == <<h>>
           ss == [i \in DOMAIN s |-> f[s[i]]]
<1>1. size \in Nat /\ DOMAIN s = 1..size /\ \A i \in 1..size : s[i] \in 1..n /\ s[i] # 0
  OBVIOUS
<1>2. nodes[h].count = size /\ nodes[h].down = Nth(s, 1) /\ \A i \in 1..size : nodes[s[i]].right = Nth(s, i + 1)
  BY DEF Linking
<1>3. PICK g : /\ g[0] = VisitStart(h)
               /\ \A i \in 1..size : g[i] = VisitChild(v, g[i - 1])
               /\ VisitLoop(v, h) = g[size].out
  <2> DEFINE d == nodes[h].count
  <2>1. d \in Nat
    BY <1>1, <1>2
  <2>2. \E g : /\ g[0] = VisitStart(h)
               /\ \A i \in 1..d : g[i] = VisitChild(v, g[i - 1])
               /\ VisitLoop(v, h) = g[d].out
    BY <2>1, VisitLoopDef
  <2> QED BY <1>2, <2>2
<1>4. g[0].out = one /\ (size # 0 => g[0].next = Nth(s, 1))
  <2>1. size # 0 => nodes[h].down = s[1] /\ s[1] # 0 /\ Nth(s, 1) = s[1]
    BY <1>1, <1>2 DEF Nth
  <2> QED BY <1>3, <2>1 DEF VisitStart
<1>5. ss \in Seq(Seq(Elems)) /\ Len(ss) = size /\ \A i \in 1..size : ss[i] = f[s[i]]
  <2> DEFINE w(i) == f[s[i]]
             L == Seq(Elems)
  <2>1. \A i \in 1..size : w(i) \in L
    OBVIOUS
  <2>2. size \in Nat /\ ss = [i \in 1..size |-> w(i)]
    BY <1>1
  <2> HIDE DEF w, size, L, ss, Elems
  <2>3. [i \in 1..size |-> w(i)] \in Seq(L) /\ Len([i \in 1..size |-> w(i)]) = size
        /\ \A i \in 1..size : [k \in 1..size |-> w(k)][i] = w(i)
    BY <2>1, <2>2
  <2> QED BY <2>2, <2>3 DEF w, L
<1>6. one \in Seq(Elems) /\ \A i \in 1..size : ss[i] \in Seq(Elems)
  <2>1. one \in Seq(Elems)
    OBVIOUS
  <2>2. \A i \in 1..size : f[s[i]] \in Seq(Elems)
    OBVIOUS
  <2> HIDE DEF ss, Elems, one
  <2> QED BY <1>5, <2>1, <2>2
<1> HIDE DEF size, ss, one, Elems
<1>7. PICK F : /\ F[0] = << >>
               /\ \A i \in 1..size : F[i] = F[i - 1] \o ss[i]
               /\ T!FlattenSeq(ss) = F[size]
  BY <1>5, FlattenDef
<1> DEFINE U == {i \in 0..size : /\ F[i] \in Seq(Elems) /\ g[i].out = one \o F[i]
                                 /\ i < size => g[i].next = Nth(s, i + 1)}
<1>8. 0 \in U
  <2>1. F[0] \in Seq(Elems) /\ one \o F[0] = one
    BY <1>6, <1>7
  <2>2. 0 \in 0..size /\ (0 < size => size # 0) /\ 0 + 1 = 1
    BY <1>1
  <2> QED BY <1>4, <2>1, <2>2
<1>9. ASSUME NEW i \in 0..size - 1, i \in U PROVE i + 1 \in U
  <2> DEFINE k == i + 1
             c == s[k]
  <2>1. i \in Nat /\ k \in 1..size /\ k - 1 = i /\ k \in 0..size /\ i < size
    BY <1>1
  <2>2. F[i] \in Seq(Elems) /\ g[i].out = one \o F[i] /\ g[i].next = Nth(s, k)
    BY <1>9, <2>1
  <2>3. Nth(s, k) = c
    BY <2>1 DEF Nth, size
  <2>4. v[c] = [out |-> f[c], next |-> nodes[c].right] /\ nodes[c].right = Nth(s, k + 1) /\ ss[k] = f[c]
    BY <1>2, <1>5, <2>1 DEF size
  <2>5. F[k] = F[i] \o ss[k] /\ g[k] = VisitChild(v, g[i])
    BY <1>3, <1>7, <2>1
  <2> HIDE DEF k, c
  <2>6. ss[k] \in Seq(Elems)
    BY <1>6, <2>1
  <2>7. g[k].out = (one \o F[i]) \o ss[k] /\ g[k].next = Nth(s, k + 1)
    <3>1. g[i].next = c
      BY <2>2, <2>3
    <3>2. v[c].out = f[c] /\ v[c].next = nodes[c].right
      BY <2>4
    <3>3. g[k].out = g[i].out \o v[c].out /\ g[k].next = v[c].next
      <4>1. g[k] = [out |-> g[i].out \o v[c].out, next |-> v[c].next]
        BY <2>5, <3>1 DEF VisitChild
      <4> DEFINE a == g[i].out \o v[c].out
                 b == v[c].next
                 r == g[k]
      <4>2. r = [out |-> a, next |-> b]
        BY <4>1
      <4> HIDE DEF a, b, r
      <4>3. r.out = a /\ r.next = b
        BY <4>2
      <4> QED BY <4>3 DEF a, b, r
    <3>4. g[k].out = (one \o F[i]) \o ss[k]
      BY <2>2, <2>4, <3>2, <3>3, Zenon
    <3> QED BY <2>4, <3>2, <3>3, <3>4, Zenon
  <2>8. (one \o F[i]) \o ss[k] = one \o F[k]
    <3>1. (one \o F[i]) \o ss[k] = one \o (F[i] \o ss[k])
      <4> DEFINE X == Elems
                 a == one
                 t == F[i]
                 u == ss[k]
      <4>1. a \in Seq(X) /\ t \in Seq(X) /\ u \in Seq(X)
        BY <1>6, <2>2, <2>6
      <4> HIDE DEF X, a, t, u
      <4>2. (a \o t) \o u = a \o (t \o u)
        BY <4>1, JoinedTwice, SMTT(20)
      <4> QED BY <4>2 DEF a, t, u
    <3> QED BY <2>5, <3>1
  <2>9. F[k] \in Seq(Elems)
    BY <2>2, <2>5, <2>6
  <2> QED BY <2>1, <2>7, <2>8, <2>9 DEF k
<1>10. size \in U
  <2> HIDE DEF U
  <2>1. 0..size \subseteq U
    BY <1>1, <1>8, <1>9, InductionUpTo
  <2> QED BY <1>1, <2>1
<1>11. g[size].out = one \o F[size]
  BY <1>10
<1>12. VisitLoop(v, h) = one \o T!FlattenSeq(ss)
  BY <1>3, <1>7, <1>11
<1> QED BY <1>12, Zenon DEF one, ss


\* The fields of a node.
LinkRecords == [down : Nat, right : Nat, count : Nat, last : Nat]

\* What linking a new node h below p changes: p's fields, and the link to the right of
\* what was its last child.
Relinked(l, p, h) ==
  /\ l \in Seq(LinkRecords) /\ Len(l) = Len(nodes)
  /\ \A q \in T!Handles : q # p => /\ l[q].count = nodes[q].count
                                 /\ l[q].down = nodes[q].down
                                 /\ l[q].last = nodes[q].last
  /\ l[p].count = nodes[p].count + 1 /\ l[p].last = h
  /\ l[p].down = IF nodes[p].count = 0 THEN h ELSE nodes[p].down
  /\ \A q \in T!Handles : l[q].right =
       IF nodes[p].count # 0 /\ q = nodes[p].last THEN h ELSE nodes[q].right

\* T!Linked does.
LEMMA LinkedIs ==
  ASSUME nodes \in Seq(LinkRecords), NEW p \in T!Handles, NEW h \in Nat,
         nodes[p].count # 0 => nodes[p].last \in T!Handles \ {p}
  PROVE  Relinked(T!Linked(p, h), p, h)
<1> DEFINE l == T!Linked(p, h)
           R == LinkRecords
<1>1. T!Handles = 1..Len(nodes) /\ Len(nodes) \in Nat /\ \A q \in T!Handles : nodes[q] \in R
  BY DEF T!Handles
<1>2. CASE nodes[p].count = 0
  <2> DEFINE new == [nodes[p] EXCEPT !.down = h, !.count = 1, !.last = h]
  <2>1. l = [nodes EXCEPT ![p] = new]
    BY <1>2 DEF T!Linked
  <2>2. /\ new \in R /\ new.down = h /\ new.count = 1 /\ new.last = h /\ new.right = nodes[p].right
    <3>1. nodes[p] \in LinkRecords
      BY <1>1
    <3> QED BY <3>1 DEF LinkRecords
  <2> HIDE DEF new, l, R
  <2>3. l \in Seq(R) /\ Len(l) = Len(nodes) /\ l[p] = new /\ \A q \in T!Handles : q # p => l[q] = nodes[q]
    BY <1>1, <2>1, <2>2 DEF R
  <2> QED BY <1>2, <2>2, <2>3 DEF l, R, Relinked
<1>3. CASE nodes[p].count # 0
  <2> DEFINE e == nodes[p].last
             left == [nodes[e] EXCEPT !.right = h]
             new == [nodes[p] EXCEPT !.count = @ + 1, !.last = h]
  <2>1. e \in T!Handles /\ e # p
    BY <1>3
  <2>2. l = [nodes EXCEPT ![e] = left, ![p] = new]
    <3>1. l = [nodes EXCEPT ![e].right = h, ![p].count = @ + 1, ![p].last = h]
      BY <1>3 DEF T!Linked
    <3> QED BY <1>1, <2>1, <3>1
  <2>3. /\ new \in R /\ new.down = nodes[p].down /\ new.count = nodes[p].count + 1 /\ new.last = h
        /\ new.right = nodes[p].right
    <3>1. nodes[p] \in LinkRecords
      BY <1>1
    <3> DEFINE r == nodes[p]
               c == r.count + 1
    <3>2. r \in LinkRecords
      BY <3>1
    <3> HIDE DEF r
    <3>3. c \in Nat
      <4>1. r.count \in Nat
        BY <3>2 DEF LinkRecords
      <4> QED BY <4>1
    <3>4. new = [r EXCEPT !.count = c, !.last = h]
      BY DEF r
    <3> HIDE DEF c, new
    <3>5. new \in R
      BY <3>2, <3>3, <3>4 DEF LinkRecords
    <3>6. new.down = r.down /\ new.count = c /\ new.last = h /\ new.right = r.right
      BY <3>2, <3>3, <3>4 DEF LinkRecords
    <3> QED BY <3>5, <3>6, Zenon DEF c, r
  <2>4. /\ left \in R /\ left.down = nodes[e].down /\ left.count = nodes[e].count /\ left.last = nodes[e].last
        /\ left.right = h
    <3>1. nodes[e] \in LinkRecords
      BY <1>1, <2>1
    <3> QED BY <3>1 DEF LinkRecords
  <2> HIDE DEF new, left, l, R, e
  <2>5. l \in Seq(R) /\ Len(l) = Len(nodes) /\ l[p] = new /\ l[e] = left
        /\ \A q \in T!Handles : q # p /\ q # e => l[q] = nodes[q]
    BY <1>1, <2>1, <2>2, <2>3, <2>4 DEF R
  <2>6. \A q \in T!Handles : q # p => l[q].count = nodes[q].count /\ l[q].down = nodes[q].down /\ l[q].last = nodes[q].last
    BY <2>4, <2>5
  <2>7. \A q \in T!Handles : l[q].right = IF q = e THEN h ELSE nodes[q].right
    BY <2>1, <2>3, <2>4, <2>5
  <2>8. l[p].count = nodes[p].count + 1 /\ l[p].last = h /\ l[p].down = nodes[p].down
    BY <2>3, <2>5
  <2> QED BY <1>3, <2>5, <2>6, <2>7, <2>8 DEF l, R, e, Relinked
<1> QED BY <1>2, <1>3

\* The inductive invariant: the links are those of the history, and parents come first.
TreeInv ==
  /\ nodes \in Seq(LinkRecords) /\ parent \in Seq(Nat) /\ Len(parent) = Len(nodes)
  /\ room \in Nat /\ Len(nodes) <= room
  /\ \A h \in T!Handles : parent[h] < h
  /\ \A h \in T!Handles : Linking(nodes, h, EmplacedIn(parent, h))

\* The children of a node.
LEMMA KidsAre ==
  ASSUME TreeInv
  PROVE  /\ Len(nodes) \in Nat /\ T!Handles = 1..Len(nodes) /\ DOMAIN parent = 1..Len(nodes)
         /\ \A h \in 1..Len(nodes) :
              /\ EmplacedIn(parent, h) \in Seq(1..Len(nodes)) /\ Len(EmplacedIn(parent, h)) \in Nat
              /\ Len(EmplacedIn(parent, h)) <= Len(nodes) /\ Distinct(EmplacedIn(parent, h))
              /\ \A i \in 1..Len(EmplacedIn(parent, h)) :
                   /\ EmplacedIn(parent, h)[i] \in 1..Len(nodes)
                   /\ parent[EmplacedIn(parent, h)[i]] = h
                   /\ EmplacedIn(parent, h)[i] > h
<1>1. nodes \in Seq(LinkRecords) /\ parent \in Seq(Nat) /\ Len(parent) = Len(nodes)
      /\ \A h \in T!Handles : parent[h] < h
  BY DEF TreeInv
<1> DEFINE n == Len(nodes)
<1>2. n \in Nat /\ T!Handles = 1..n /\ DOMAIN parent = 1..n /\ Len(parent) = n
      /\ \A h \in 1..n : parent[h] < h /\ parent[h] \in Nat
  BY <1>1 DEF T!Handles
<1> HIDE DEF n
<1>3. ASSUME NEW h \in 1..n
      PROVE  /\ EmplacedIn(parent, h) \in Seq(1..n) /\ Len(EmplacedIn(parent, h)) \in Nat
             /\ Len(EmplacedIn(parent, h)) <= n /\ Distinct(EmplacedIn(parent, h))
             /\ \A i \in 1..Len(EmplacedIn(parent, h)) :
                  /\ EmplacedIn(parent, h)[i] \in 1..n
                  /\ parent[EmplacedIn(parent, h)[i]] = h
                  /\ EmplacedIn(parent, h)[i] > h
  <2> DEFINE s == EmplacedIn(parent, h)
  <2>1. Listed(s, parent, h, n)
    BY <1>2, EmplacedIs
  <2> HIDE DEF s
  <2>2. s \in Seq(1..n) /\ Len(s) \in Nat /\ Len(s) <= n /\ Distinct(s)
    BY <1>2, <2>1, ListedFew
  <2>3. \A i \in 1..Len(s) : s[i] \in 1..n /\ parent[s[i]] = h
    BY <2>1 DEF Listed
  <2>4. \A i \in 1..Len(s) : s[i] > h
    BY <1>2, <2>3
  <2> QED BY <2>2, <2>3, <2>4 DEF s
<1> QED BY <1>2, <1>3 DEF n

\* A list of what lies before a new node, with it or without it, and its links.
LEMMA EmplaceKeeps ==
  ASSUME TreeInv, NEW p \in 0..Len(nodes), T!Emplace(p)
  PROVE  TreeInv'
<1> DEFINE n == Len(nodes)
           m == n + 1
           new == [down |-> 0, right |-> 0, count |-> 0, last |-> 0]
           l == IF p = 0 THEN nodes ELSE T!Linked(p, m)
           Was(h) == EmplacedIn(parent, h)
           Is(h) == EmplacedIn(parent', h)
<1>1. nodes' = Append(l, new) /\ room' = T!RoomForOne /\ parent' = Append(parent, p)
  BY DEF T!Emplace
<1>2. /\ nodes \in Seq(LinkRecords) /\ parent \in Seq(Nat) /\ Len(parent) = n
      /\ room \in Nat /\ n <= room
      /\ \A h \in T!Handles : parent[h] < h
      /\ \A h \in T!Handles : Linking(nodes, h, Was(h))
  BY DEF TreeInv
<1>3. n \in Nat /\ T!Handles = 1..n
  BY <1>2 DEF T!Handles
<1>4. \A h \in 1..n : /\ Was(h) \in Seq(1..n) /\ Len(Was(h)) \in Nat
                      /\ \A i \in 1..Len(Was(h)) : Was(h)[i] \in 1..n /\ parent[Was(h)[i]] = h /\ Was(h)[i] > h
  BY KidsAre
<1>5. \A h : Is(h) = IF p = h THEN Append(Was(h), m) ELSE Was(h)
  BY <1>1, <1>2, EmplacedGrows
<1> HIDE DEF Was, Is
<1>6. \A h \in 1..n : /\ nodes[h].count = Len(Was(h)) /\ nodes[h].down = Nth(Was(h), 1)
                      /\ Was(h) # << >> => nodes[h].last = Was(h)[Len(Was(h))]
                      /\ \A i \in 1..Len(Was(h)) : nodes[Was(h)[i]].right = Nth(Was(h), i + 1)
  BY <1>2, <1>3 DEF Linking
<1> DEFINE e == nodes[p].last
           some == p # 0 /\ nodes[p].count # 0
<1>7. some => e \in 1..n /\ e # p /\ p \in 1..n /\ Len(Was(p)) \in 1..Len(Was(p)) /\ e = Was(p)[Len(Was(p))]
  <2>1. SUFFICES ASSUME p # 0, nodes[p].count # 0
                 PROVE  e \in 1..n /\ e # p /\ p \in 1..n /\ Len(Was(p)) \in 1..Len(Was(p)) /\ e = Was(p)[Len(Was(p))]
    OBVIOUS
  <2>2. p \in 1..n
    BY <1>3, <2>1
  <2>3. Len(Was(p)) # 0 /\ Len(Was(p)) \in Nat
    BY <1>4, <1>6, <2>1, <2>2
  <2>4. Was(p) # << >> /\ Len(Was(p)) \in 1..Len(Was(p))
    BY <2>3
  <2> QED BY <1>4, <1>6, <2>2, <2>4
<1>8. /\ l \in Seq(LinkRecords) /\ Len(l) = n
      /\ \A q \in 1..n : q # p => l[q].count = nodes[q].count /\ l[q].down = nodes[q].down /\ l[q].last = nodes[q].last
      /\ p # 0 => /\ l[p].count = nodes[p].count + 1 /\ l[p].last = m
                  /\ l[p].down = IF nodes[p].count = 0 THEN m ELSE nodes[p].down
      /\ \A q \in 1..n : l[q].right = IF some /\ q = e THEN m ELSE nodes[q].right
  <2>1. CASE p = 0
    BY <1>2, <2>1
  <2>2. CASE p # 0
    <3>1. p \in T!Handles /\ m \in Nat /\ l = T!Linked(p, m)
      BY <1>3, <2>2
    <3>2. nodes[p].count # 0 => nodes[p].last \in T!Handles \ {p}
      BY <1>3, <1>7, <2>2
    <3> HIDE DEF m, l
    <3>3. /\ T!Linked(p, m) \in Seq(LinkRecords) /\ Len(T!Linked(p, m)) = Len(nodes)
          /\ \A q \in T!Handles : q # p => /\ T!Linked(p, m)[q].count = nodes[q].count
                                         /\ T!Linked(p, m)[q].down = nodes[q].down
                                         /\ T!Linked(p, m)[q].last = nodes[q].last
          /\ T!Linked(p, m)[p].count = nodes[p].count + 1 /\ T!Linked(p, m)[p].last = m
          /\ T!Linked(p, m)[p].down = IF nodes[p].count = 0 THEN m ELSE nodes[p].down
          /\ \A q \in T!Handles : T!Linked(p, m)[q].right =
               IF nodes[p].count # 0 /\ q = nodes[p].last THEN m ELSE nodes[q].right
      <4>1. nodes \in Seq(LinkRecords)
        BY <1>2
      <4>2. Relinked(T!Linked(p, m), p, m)
        BY <3>1, <3>2, <4>1, LinkedIs
      <4> QED BY <4>2 DEF Relinked
    <3> QED BY <1>3, <2>2, <3>1, <3>3
  <2> QED BY <2>1, <2>2
<1> HIDE DEF l, some, e
<1>9. /\ new \in LinkRecords /\ new.down = 0 /\ new.count = 0
  BY DEF LinkRecords
<1> HIDE DEF new
<1>10. /\ nodes' \in Seq(LinkRecords) /\ Len(nodes') = m /\ nodes'[m] = new /\ \A q \in 1..n : nodes'[q] = l[q]
  BY <1>1, <1>3, <1>8, <1>9
<1>11. /\ parent' \in Seq(Nat) /\ Len(parent') = m /\ \A h \in 1..m : parent'[h] < h
  <2>1. p \in Nat /\ p < m
    BY <1>3
  <2>2. parent' \in Seq(Nat) /\ Len(parent') = m /\ parent'[m] = p /\ \A h \in 1..n : parent'[h] = parent[h]
    BY <1>1, <1>2, <1>3, <2>1
  <2>3. \A h \in 1..m : h = m \/ h \in 1..n
    BY <1>3
  <2> QED BY <1>2, <1>3, <2>1, <2>2, <2>3
<1>12. room' \in Nat /\ m <= room'
  BY <1>1, <1>2, <1>3 DEF T!RoomForOne
<1>13. ASSUME NEW h \in 1..n, h # p PROVE Linking(nodes', h, Is(h))
  <2>1. Is(h) = Was(h)
    BY <1>5, <1>13
  <2>2. /\ nodes'[h].count = Len(Was(h)) /\ nodes'[h].down = Nth(Was(h), 1)
        /\ Was(h) # << >> => nodes'[h].last = Was(h)[Len(Was(h))]
    BY <1>6, <1>8, <1>10, <1>13
  <2>3. ASSUME NEW i \in 1..Len(Was(h)) PROVE nodes'[Was(h)[i]].right = Nth(Was(h), i + 1)
    <3>1. Was(h)[i] \in 1..n /\ parent[Was(h)[i]] = h
      BY <1>4
    <3>2. some => parent[e] = p
      BY <1>4, <1>7
    <3>3. ~ (some /\ Was(h)[i] = e)
      BY <1>13, <3>1, <3>2
    <3>4. l[Was(h)[i]].right = nodes[Was(h)[i]].right
      BY <1>8, <3>1, <3>3
    <3> QED BY <1>6, <1>10, <3>1, <3>4
  <2> QED BY <2>1, <2>2, <2>3 DEF Linking
<1>14. Linking(nodes', m, Is(m))
  <2>1. Was(m) = << >>
    <3>1. Listed(Was(m), parent, m, n)
      BY <1>2, <1>3, EmplacedIs DEF Was
    <3>2. Was(m) \in Seq(Nat) /\ \A i \in 1..Len(Was(m)) : Was(m)[i] \in 1..n /\ parent[Was(m)[i]] = m
      BY <3>1 DEF Listed
    <3>3. \A i \in 1..Len(Was(m)) : FALSE
      <4>1. \A q \in 1..n : parent[q] < q /\ q < m
        BY <1>2, <1>3
      <4> QED BY <1>3, <3>2, <4>1
    <3>4. Len(Was(m)) = 0
      BY <3>2, <3>3
    <3> QED BY <3>2, <3>4
  <2>2. Is(m) = << >>
    BY <1>3, <1>5, <2>1
  <2> QED BY <1>9, <1>10, <2>2 DEF Linking, Nth
<1>15. ASSUME p \in 1..n PROVE Linking(nodes', p, Is(p))
  <2> DEFINE s == Was(p)
             u == Is(p)
  <2>0. p # 0
    BY <1>15
  <2>1. u = Append(s, m) /\ s \in Seq(1..n) /\ Len(s) \in Nat /\ m \in Nat
    BY <1>3, <1>4, <1>5, <1>15
  <2>2. /\ nodes[p].count = Len(s) /\ nodes[p].down = Nth(s, 1)
        /\ \A i \in 1..Len(s) : nodes[s[i]].right = Nth(s, i + 1) /\ s[i] \in 1..n
    BY <1>4, <1>6, <1>15
  <2>3. some => e = s[Len(s)]
    BY <1>7
  <2>4. some <=> Len(s) # 0
    BY <2>0, <2>2 DEF some
  <2> HIDE DEF s, u
  <2>5. Distinct(s)
    BY <1>15, KidsAre DEF s, Was
  <2>6. Len(u) = Len(s) + 1 /\ u[Len(s) + 1] = m /\ (\A i \in 1..Len(s) : u[i] = s[i]) /\ u # << >>
    BY <2>1
  <2>7. nodes'[p].count = Len(u) /\ nodes'[p].last = u[Len(u)]
    BY <1>8, <1>10, <1>15, <2>0, <2>2, <2>6
  <2>8. nodes'[p].down = Nth(u, 1)
    <3>1. CASE Len(s) = 0
      BY <1>8, <1>10, <1>15, <2>0, <2>2, <2>6, <3>1 DEF Nth
    <3>2. CASE Len(s) # 0
      <4>1. Nth(s, 1) = Nth(u, 1)
        BY <2>1, <2>6, <3>2 DEF Nth
      <4> QED BY <1>8, <1>10, <1>15, <2>0, <2>2, <3>2, <4>1
    <3> QED BY <3>1, <3>2
  <2>9. ASSUME NEW i \in 1..Len(u) PROVE nodes'[u[i]].right = Nth(u, i + 1)
    <3>1. CASE i = Len(s) + 1
      <4>1. u[i] = m /\ nodes'[m] = new /\ i + 1 \notin 1..Len(u)
        BY <1>10, <2>1, <2>6, <3>1
      <4>2. new.right = 0
        BY DEF new
      <4> QED BY <4>1, <4>2 DEF Nth
    <3>2. CASE i = Len(s) /\ i # 0
      <4>1. u[i] = s[i] /\ u[i] = e /\ u[i] \in 1..n /\ some
        BY <2>1, <2>2, <2>3, <2>4, <2>6, <3>2
      <4>2. nodes'[u[i]].right = m
        BY <1>8, <1>10, <4>1
      <4>3. Nth(u, i + 1) = m
        BY <2>1, <2>6, <3>2 DEF Nth
      <4> QED BY <4>2, <4>3
    <3>3. CASE i \in 1..Len(s) /\ i # Len(s)
      <4>1. u[i] = s[i] /\ u[i] \in 1..n
        BY <2>2, <2>6, <3>3
      <4>2. u[i] # s[Len(s)]
        <5>1. Len(s) \in 1..Len(s)
          BY <2>1, <3>3
        <5> QED BY <2>5, <3>3, <4>1, <5>1 DEF Distinct
      <4>3. nodes'[u[i]].right = nodes[u[i]].right
        BY <1>8, <1>10, <2>3, <4>1, <4>2
      <4>4. Nth(u, i + 1) = Nth(s, i + 1)
        <5>1. i + 1 \in 1..Len(s) /\ i + 1 \in 1..Len(u)
          BY <2>1, <2>6, <3>3
        <5> QED BY <2>6, <5>1 DEF Nth
      <4> QED BY <2>2, <3>3, <4>1, <4>3, <4>4
    <3>4. i = Len(s) + 1 \/ (i = Len(s) /\ i # 0) \/ (i \in 1..Len(s) /\ i # Len(s))
      BY <2>1, <2>6
    <3> QED BY <3>1, <3>2, <3>3, <3>4
  <2> QED BY <2>7, <2>8, <2>9 DEF Linking, u
<1>16. \A h \in 1..m : Linking(nodes', h, Is(h))
  <2>1. \A h \in 1..m : h = m \/ h \in 1..n
    BY <1>3
  <2> QED BY <1>13, <1>14, <1>15, <2>1
<1>17. T!Handles' = 1..m
  <2>1. DOMAIN nodes' = 1..m
    BY <1>10
  <2> QED BY <2>1 DEF T!Handles
<1> QED BY <1>10, <1>11, <1>12, <1>16, <1>17 DEF TreeInv, Is


\* An empty tree.
LEMMA TreeStarts == ASSUME T!Init PROVE TreeInv
<1>1. nodes = << >> /\ parent = << >> /\ room = 0
  BY DEF T!Init
<1>2. DOMAIN nodes = {} /\ Len(nodes) = 0 /\ Len(parent) = 0
  BY <1>1
<1>3. nodes \in Seq(LinkRecords) /\ parent \in Seq(Nat)
  BY <1>1
<1> QED BY <1>1, <1>2, <1>3 DEF TreeInv, T!Handles

\* Every operation keeps the links; Remove and ~Tree change none.
LEMMA TreeKeeps == ASSUME TreeInv, [T!Next]_(T!vars) PROVE TreeInv'
<1>1. CASE \E p \in 0..Len(nodes) : T!Emplace(p)
  BY <1>1, EmplaceKeeps
<1>2. CASE nodes' = nodes /\ room' = room /\ parent' = parent
  <2>1. T!Handles' = T!Handles
    BY <1>2 DEF T!Handles
  <2> QED BY <1>2, <2>1 DEF TreeInv
<1>3. CASE \E h \in T!Handles : T!RemoveSubtree(h)
  BY <1>2, <1>3 DEF T!RemoveSubtree
<1>4. CASE T!Destroy
  BY <1>2, <1>4 DEF T!Destroy
<1>5. CASE UNCHANGED T!vars
  BY <1>2, <1>5 DEF T!vars
<1> QED BY <1>1, <1>3, <1>4, <1>5, Zenon DEF T!Next

\* The children of each node.
Kids == [h \in 1..Len(nodes) |-> EmplacedIn(parent, h)]

\* All three ways of asking for them answer this.
LEMMA KidsHang ==
  ASSUME TreeInv
  PROVE  /\ Len(nodes) \in Nat /\ T!Handles = 1..Len(nodes) /\ DOMAIN parent = 1..Len(nodes)
         /\ Downward(Kids, Len(nodes)) /\ Begotten(Kids, Len(nodes), parent)
         /\ \A h \in 1..Len(nodes) : /\ Linking(nodes, h, Kids[h])
                                     /\ T!ChildrenOf(h) = Kids[h] /\ T!Emplaced(h) = Kids[h]
<1> DEFINE n == Len(nodes)
<1>1. /\ n \in Nat /\ T!Handles = 1..n /\ DOMAIN parent = 1..n
      /\ \A h \in 1..n :
           /\ EmplacedIn(parent, h) \in Seq(1..n) /\ Len(EmplacedIn(parent, h)) \in Nat
           /\ Len(EmplacedIn(parent, h)) <= n /\ Distinct(EmplacedIn(parent, h))
           /\ \A i \in 1..Len(EmplacedIn(parent, h)) :
                /\ EmplacedIn(parent, h)[i] \in 1..n
                /\ parent[EmplacedIn(parent, h)[i]] = h
                /\ EmplacedIn(parent, h)[i] > h
  BY KidsAre
<1>2. \A h \in 1..n : Kids[h] = EmplacedIn(parent, h)
  BY DEF Kids
<1>3. \A h \in 1..n : Linking(nodes, h, Kids[h])
  <2>1. \A h \in T!Handles : Linking(nodes, h, EmplacedIn(parent, h))
    BY DEF TreeInv
  <2> HIDE DEF n
  <2> QED BY <1>1, <1>2, <2>1
<1>4. \A h : T!Emplaced(h) = EmplacedIn(parent, h)
  BY DEF T!Emplaced, EmplacedIn
<1>5. Downward(Kids, n) /\ Begotten(Kids, n, parent)
  <2> HIDE DEF n
  <2> QED BY <1>1, <1>2 DEF Downward, Begotten
<1>6. ASSUME NEW h \in 1..n PROVE T!ChildrenOf(h) = Kids[h]
  <2> DEFINE s == Kids[h]
  <2>1. s \in Seq(1..n) /\ Len(s) <= n /\ Linking(nodes, h, s)
    BY <1>1, <1>2, <1>3
  <2> HIDE DEF s
  <2> QED BY <1>1, <2>1, ChildrenOfIs DEF s
<1> QED BY <1>1, <1>2, <1>3, <1>4, <1>5, <1>6

\* The three traversals by recursion are walks.
LEMMA OrdersAre ==
  ASSUME TreeInv
  PROVE  /\ Walks(Kids, Len(nodes), T!PreOrder, FALSE) /\ Walks(Kids, Len(nodes), T!PostOrder, TRUE)
         /\ Walks(Kids, Len(nodes), T!Descent, FALSE)
<1> DEFINE n == Len(nodes)
<1>1. /\ n \in Nat /\ T!Handles = 1..n /\ DOMAIN parent = 1..n /\ Downward(Kids, n)
      /\ \A h \in 1..n : T!ChildrenOf(h) = Kids[h] /\ T!Emplaced(h) = Kids[h]
  BY KidsHang
<1> HIDE DEF n
<1>0. TRUE \in BOOLEAN /\ FALSE \in BOOLEAN
  OBVIOUS
<1>2. ASSUME NEW f, NEW post, f = [h \in 1..n |-> WalkOf(Kids, f, h, post)] PROVE Walks(Kids, n, f, post)
  BY <1>2 DEF Walks
<1>3. Walks(Kids, n, T!PreOrder, FALSE)
  <2> DEFINE body(f, h) == <<h>> \o T!FlattenSeq([i \in DOMAIN T!ChildrenOf(h) |-> f[T!ChildrenOf(h)[i]]])
  <2>1. T!PreOrder = CHOOSE f : f = [h \in T!Handles |-> body(f, h)]
    BY DEF T!PreOrder
  <2>2. \A f : \A h \in 1..n : body(f, h) = WalkOf(Kids, f, h, FALSE)
    BY <1>1 DEF WalkOf
  <2> HIDE DEF body
  <2>3. \A f : [h \in T!Handles |-> body(f, h)] = [h \in 1..n |-> WalkOf(Kids, f, h, FALSE)]
    BY <1>1, <2>2
  <2>4. \E f : f = [h \in 1..n |-> WalkOf(Kids, f, h, FALSE)]
    BY <1>0, <1>1, WalkExists, Zenon
  <2>5. T!PreOrder = [h \in 1..n |-> WalkOf(Kids, T!PreOrder, h, FALSE)]
    <3>1. \E f : f = [h \in T!Handles |-> body(f, h)]
      <4>1. PICK f : f = [h \in 1..n |-> WalkOf(Kids, f, h, FALSE)]
        BY <2>4, Zenon
      <4>2. f = [h \in T!Handles |-> body(f, h)]
        BY <2>3, <4>1
      <4> QED BY <4>2, Zenon
    <3>2. T!PreOrder = [h \in T!Handles |-> body(T!PreOrder, h)]
      BY <2>1, <3>1, Zenon
    <3> QED BY <2>3, <3>2
  <2> QED BY <1>2, <2>5
<1>4. Walks(Kids, n, T!PostOrder, TRUE)
  <2> DEFINE body(f, h) == T!FlattenSeq([i \in DOMAIN T!ChildrenOf(h) |-> f[T!ChildrenOf(h)[i]]]) \o <<h>>
  <2>1. T!PostOrder = CHOOSE f : f = [h \in T!Handles |-> body(f, h)]
    BY DEF T!PostOrder
  <2>2. \A f : \A h \in 1..n : body(f, h) = WalkOf(Kids, f, h, TRUE)
    BY <1>1 DEF WalkOf
  <2> HIDE DEF body
  <2>3. \A f : [h \in T!Handles |-> body(f, h)] = [h \in 1..n |-> WalkOf(Kids, f, h, TRUE)]
    BY <1>1, <2>2
  <2>4. \E f : f = [h \in 1..n |-> WalkOf(Kids, f, h, TRUE)]
    BY <1>0, <1>1, WalkExists, Zenon
  <2>5. T!PostOrder = [h \in 1..n |-> WalkOf(Kids, T!PostOrder, h, TRUE)]
    <3>1. \E f : f = [h \in T!Handles |-> body(f, h)]
      <4>1. PICK f : f = [h \in 1..n |-> WalkOf(Kids, f, h, TRUE)]
        BY <2>4, Zenon
      <4>2. f = [h \in T!Handles |-> body(f, h)]
        BY <2>3, <4>1
      <4> QED BY <4>2, Zenon
    <3>2. T!PostOrder = [h \in T!Handles |-> body(T!PostOrder, h)]
      BY <2>1, <3>1, Zenon
    <3> QED BY <2>3, <3>2
  <2> QED BY <1>2, <2>5
<1>5. Walks(Kids, n, T!Descent, FALSE)
  <2> DEFINE body(f, h) == <<h>> \o T!FlattenSeq([i \in DOMAIN T!Emplaced(h) |-> f[T!Emplaced(h)[i]]])
  <2>1. T!Descent = CHOOSE f : f = [h \in DOMAIN parent |-> body(f, h)]
    BY DEF T!Descent
  <2>2. \A f : \A h \in 1..n : body(f, h) = WalkOf(Kids, f, h, FALSE)
    BY <1>1 DEF WalkOf
  <2> HIDE DEF body
  <2>3. \A f : [h \in DOMAIN parent |-> body(f, h)] = [h \in 1..n |-> WalkOf(Kids, f, h, FALSE)]
    BY <1>1, <2>2
  <2>4. \E f : f = [h \in 1..n |-> WalkOf(Kids, f, h, FALSE)]
    BY <1>0, <1>1, WalkExists, Zenon
  <2>5. T!Descent = [h \in 1..n |-> WalkOf(Kids, T!Descent, h, FALSE)]
    <3>1. \E f : f = [h \in DOMAIN parent |-> body(f, h)]
      <4>1. PICK f : f = [h \in 1..n |-> WalkOf(Kids, f, h, FALSE)]
        BY <2>4, Zenon
      <4>2. f = [h \in DOMAIN parent |-> body(f, h)]
        BY <2>3, <4>1
      <4> QED BY <4>2, Zenon
    <3>2. T!Descent = [h \in DOMAIN parent |-> body(T!Descent, h)]
      BY <2>1, <3>1, Zenon
    <3> QED BY <2>3, <3>2
  <2> QED BY <1>2, <2>5
<1> QED BY <1>3, <1>4, <1>5 DEF n

\* ForEach comes to the same nodes in the same order.
LEMMA ForEachIs ==
  ASSUME TreeInv, nodes # << >>
  PROVE  T!ForEach = T!Descent[1]
<1> DEFINE n == Len(nodes)
           body(f, h) == [out |-> VisitLoop(f, h), next |-> nodes[h].right]
           visit == CHOOSE f : f = [h \in T!Handles |-> body(f, h)]
           g == [h \in 1..n |-> [out |-> T!Descent[h], next |-> nodes[h].right]]
<1>1. T!ForEach = visit[1].out
  BY DEF T!ForEach, VisitLoop
<1>2. /\ n \in Nat /\ T!Handles = 1..n /\ DOMAIN parent = 1..n /\ Downward(Kids, n)
      /\ \A h \in 1..n : Linking(nodes, h, Kids[h])
  BY KidsHang
<1>3. Walks(Kids, n, T!Descent, FALSE)
  BY OrdersAre
<1>4. 1 \in 1..n
  <2>1. nodes \in Seq(LinkRecords)
    BY DEF TreeInv
  <2> QED BY <2>1
<1> HIDE DEF n
<1>5. /\ \A h \in 1..n : T!Descent[h] \in Seq(1..n)
      /\ \A h \in 1..n : T!Descent[h] = <<h>> \o T!FlattenSeq([i \in DOMAIN Kids[h] |-> T!Descent[Kids[h][i]]])
  <2>1. FALSE \in BOOLEAN
    OBVIOUS
  <2>2. \A h \in 1..n : T!Descent[h] \in Seq(1..n)
    BY <1>2, <1>3, <2>1, WalkTyped
  <2>3. \A h \in 1..n : T!Descent[h] = WalkOf(Kids, T!Descent, h, FALSE)
    BY <1>3 DEF Walks
  <2>4. ASSUME NEW h \in 1..n
        PROVE  T!Descent[h] = <<h>> \o T!FlattenSeq([i \in DOMAIN Kids[h] |-> T!Descent[Kids[h][i]]])
    <3>1. T!Descent[h] = WalkOf(Kids, T!Descent, h, FALSE)
      BY <2>3
    <3> QED BY <3>1, Zenon DEF WalkOf
  <2> QED BY <2>2, <2>4
<1>6. ASSUME NEW v, NEW h \in 1..n,
             \A k \in 1..n : k > h => v[k] = [out |-> T!Descent[k], next |-> nodes[k].right]
      PROVE  VisitLoop(v, h) = T!Descent[h]
  <2> DEFINE s == Kids[h]
             f == T!Descent
  <2>1. s \in Seq(1..n) /\ Linking(nodes, h, s) /\ \A i \in 1..Len(s) : s[i] > h
    BY <1>2 DEF Downward
  <2> HIDE DEF s
  <2>2. \A i \in 1..Len(s) : s[i] \in 1..n
    <3> DEFINE Elems == 1..n
    <3>1. s \in Seq(Elems)
      BY <2>1
    <3> HIDE DEF Elems
    <3>2. \A i \in 1..Len(s) : s[i] \in Elems
      BY <3>1
    <3> QED BY <3>2 DEF Elems
  <2>3. \A i \in 1..Len(s) : f[s[i]] \in Seq(1..n)
    BY <1>5, <2>2
  <2>4. \A i \in 1..Len(s) : v[s[i]] = [out |-> f[s[i]], next |-> nodes[s[i]].right]
    BY <1>6, <2>1, <2>2
  <2>5. f[h] = <<h>> \o T!FlattenSeq([i \in DOMAIN s |-> f[s[i]]])
    BY <1>5 DEF s
  <2> HIDE DEF f
  <2>6. VisitLoop(v, h) = <<h>> \o T!FlattenSeq([i \in DOMAIN s |-> f[s[i]]])
    BY <1>2, <2>1, <2>3, <2>4, VisitLoopIs
  <2> QED BY <2>5, <2>6, Zenon DEF f
<1>7. \E f : f = [h \in T!Handles |-> body(f, h)]
  <2>1. \A h \in 1..n : g[h] = [out |-> T!Descent[h], next |-> nodes[h].right]
    OBVIOUS
  <2> DEFINE w(h) == [out |-> T!Descent[h], next |-> nodes[h].right]
  <2>2. g = [h \in 1..n |-> w(h)]
    OBVIOUS
  <2> HIDE DEF g
  <2>3. \A h \in 1..n : VisitLoop(g, h) = T!Descent[h]
    BY <1>6, <2>1
  <2>4. \A h \in 1..n : body(g, h) = w(h)
    BY <2>3
  <2> HIDE DEF body, w
  <2>5. g = [h \in T!Handles |-> body(g, h)]
    BY <1>2, <2>2, <2>4
  <2> QED BY <2>5, Zenon
<1>8. visit = [h \in T!Handles |-> body(visit, h)]
  <2> HIDE DEF body
  <2> QED BY <1>7, Zenon
<1> HIDE DEF visit
<1>9. \A h \in 1..n : visit[h] = [out |-> VisitLoop(visit, h), next |-> nodes[h].right]
  <2> DEFINE w(h) == body(visit, h)
  <2>1. \A h \in 1..n : w(h) = [out |-> VisitLoop(visit, h), next |-> nodes[h].right]
    OBVIOUS
  <2>2. visit = [h \in 1..n |-> w(h)]
    BY <1>2, <1>8
  <2> HIDE DEF w, body
  <2>3. \A h \in 1..n : visit[h] = w(h)
    BY <2>2
  <2> QED BY <2>1, <2>3
<1> DEFINE U == {h \in 1..n : VisitLoop(visit, h) = T!Descent[h]}
<1>10. ASSUME NEW h \in 1..n, \A k \in 1..n : k > h => k \in U PROVE h \in U
  <2>1. \A k \in 1..n : k > h => visit[k] = [out |-> T!Descent[k], next |-> nodes[k].right]
    BY <1>9, <1>10
  <2>2. VisitLoop(visit, h) = T!Descent[h]
    BY <1>6, <2>1
  <2> QED BY <2>2
<1>11. 1..n \subseteq U
  <2> HIDE DEF U
  <2> QED BY <1>2, <1>10, InductionDown
<1>12. VisitLoop(visit, 1) = T!Descent[1]
  BY <1>4, <1>11
<1>13. visit[1].out = VisitLoop(visit, 1)
  <2> DEFINE a == VisitLoop(visit, 1)
             b == nodes[1].right
             r == visit[1]
  <2>1. r = [out |-> a, next |-> b]
    BY <1>4, <1>9
  <2> HIDE DEF a, b, r
  <2>2. r.out = a
    BY <2>1
  <2> QED BY <2>2 DEF a, r
<1> QED BY <1>1, <1>12, <1>13, Zenon

\* The traversals of a tree whose links are those of its history agree.
LEMMA LinksWalk == ASSUME TreeInv PROVE T!WalksAgree
<1> DEFINE n == Len(nodes)
<1>1. /\ n \in Nat /\ T!Handles = 1..n /\ Downward(Kids, n) /\ Begotten(Kids, n, parent)
      /\ \A h \in 1..n : Linking(nodes, h, Kids[h]) /\ T!ChildrenOf(h) = Kids[h]
  BY KidsHang
<1>2. /\ Walks(Kids, n, T!PreOrder, FALSE) /\ Walks(Kids, n, T!PostOrder, TRUE)
      /\ Walks(Kids, n, T!Descent, FALSE)
  BY OrdersAre
<1> HIDE DEF n
<1>3. TRUE \in BOOLEAN /\ FALSE \in BOOLEAN
  OBVIOUS
<1>4. \A h \in 1..n : T!PreOrder[h] = T!Descent[h]
  <2> DEFINE f == T!PreOrder
             g == T!Descent
             post == FALSE
  <2>1. post \in BOOLEAN /\ Walks(Kids, n, f, post) /\ Walks(Kids, n, g, post)
    BY <1>2
  <2> HIDE DEF f, g, post
  <2>2. \A h \in 1..n : f[h] = g[h]
    BY <1>1, <2>1, WalkUnique
  <2> QED BY <2>2 DEF f, g
<1>5. \A h \in 1..n : Len(T!ChildrenOf(h)) = nodes[h].count
  BY <1>1 DEF Linking
<1>6. \A h \in 1..n : Distinct(T!PostOrder[h])
  BY <1>1, <1>2, <1>3, WalkDistinct
<1>7. \A h \in 1..n : T!PostOrder[h] \in Seq(1..n)
  BY <1>1, <1>2, <1>3, WalkTyped
<1>8. \A h \in 1..n : T!Descent[h] \in Seq(1..n)
  BY <1>1, <1>2, <1>3, WalkTyped
<1>9. \A h \in 1..n : \A x : Meets(T!PostOrder[h], x) <=> Meets(T!Descent[h], x)
  BY <1>1, <1>2, WalksMeet
<1>10. ASSUME NEW h \in 1..n
       PROVE  T!IsInjective(T!PostOrder[h]) /\ T!ToSet(T!PostOrder[h]) = T!ToSet(T!Descent[h])
  <2> DEFINE s == T!PostOrder[h]
             t == T!Descent[h]
  <2>1. /\ s \in Seq(1..n) /\ t \in Seq(1..n) /\ Distinct(s)
        /\ \A x : Meets(s, x) <=> Meets(t, x)
    BY <1>6, <1>7, <1>8, <1>9
  <2> HIDE DEF s, t
  <2>2. DOMAIN s = 1..Len(s) /\ DOMAIN t = 1..Len(t)
    BY <2>1
  <2>3. T!IsInjective(s)
    BY <2>1, <2>2 DEF T!IsInjective, Distinct
  <2>4. T!ToSet(s) = T!ToSet(t)
    BY <2>1, <2>2 DEF T!ToSet, Meets
  <2> QED BY <2>3, <2>4 DEF s, t
<1>11. nodes # << >> => T!ForEach = T!Descent[1]
  BY ForEachIs
<1>12. Len(nodes) <= room
  BY DEF TreeInv
<1> QED BY <1>1, <1>4, <1>5, <1>10, <1>11, <1>12 DEF T!WalksAgree

\* The traversals of a tree agree: ForEach, with its counter and its shared variable, and
\* the iterators come to what the emplacements put below each node, in their order.
THEOREM TreeWalks == T!Spec => []T!WalksAgree
<1>1. T!Init => TreeInv
  BY TreeStarts
<1>2. TreeInv /\ [T!Next]_(T!vars) => TreeInv'
  BY TreeKeeps
<1>3. TreeInv => T!WalksAgree
  BY LinksWalk
<1> QED BY <1>1, <1>2, <1>3, PTL DEF T!Spec

\* The same in every behaviour of the library.
THEOREM LibraryWalksAgree == CoreSpec => []WalksAgree
<1>1. CoreInit => TreeInv
  BY TreeStarts DEF CoreInit
<1>2. [CoreNext]_<<focus, coreVars>> => [T!Next]_(T!vars)
  BY DEF CoreNext, coreVars, CoreRests, Rests, tree, T!vars
<1>3. TreeInv /\ [T!Next]_(T!vars) => TreeInv'
  BY TreeKeeps
<1>4. TreeInv => WalksAgree
  BY LinksWalk DEF WalksAgree
<1> QED BY <1>1, <1>2, <1>3, <1>4, PTL DEF CoreSpec

-----------------------------------------------------------------------------
(* KeyMap: how often keys occur.                                           *)

\* Twice as many buckets split each bucket in two.
LEMMA BucketSplits ==
  ASSUME NEW k \in Nat, NEW c \in Nat \ {0}
  PROVE  /\ k % c \in 0..c - 1 /\ 2 * c \in Nat \ {0} /\ k % (2 * c) \in 0..2 * c - 1
         /\ (k % (2 * c)) % c = k % c
<1> DEFINE d == 2 * c
           q == k \div d
           r == k % d
           e == r \div c
           s == r % c
<1>1. d \in Nat \ {0}
  OBVIOUS
<1>2. q \in Nat /\ r \in 0..d - 1 /\ k = d * q + r
  <2> HIDE DEF d
  <2> QED BY <1>1, Division
<1>3. e \in Nat /\ s \in 0..c - 1 /\ r = c * e + s
  <2>1. r \in Nat
    BY <1>2
  <2> HIDE DEF r
  <2> QED BY <2>1, Division
<1>4. k % c \in 0..c - 1
  BY Division
<1> HIDE DEF q, r, e, s
<1>5. k = c * (2 * q + e) + s /\ 2 * q + e \in Nat
  <2>1. d * q = c * (2 * q)
    BY <1>2
  <2>2. c * (2 * q) + c * e = c * (2 * q + e)
    BY <1>2, <1>3
  <2>3. c * (2 * q) \in Nat /\ c * e \in Nat
    BY <1>2, <1>3
  <2> QED BY <1>2, <1>3, <2>1, <2>2, <2>3
<1>6. k % c = s
  <2> DEFINE u == 2 * q + e
  <2>1. k = c * u + s /\ u \in Nat
    BY <1>5
  <2> HIDE DEF u
  <2> QED BY <1>3, <2>1, Remainder
<1> QED BY <1>1, <1>2, <1>4, <1>6 DEF r, s

\* How many of the first m elements of s are in A.
Occurs(s, A, m) == Cardinality({i \in 1..m : s[i] \in A})

\* One more element.
LEMMA OccursNext ==
  ASSUME NEW s, NEW A, NEW m \in Nat
  PROVE  /\ Occurs(s, A, 0) = 0
         /\ Occurs(s, A, m) \in 0..m
         /\ Occurs(s, A, m + 1) = IF s[m + 1] \in A THEN Occurs(s, A, m) + 1 ELSE Occurs(s, A, m)
         /\ Occurs(s, A, m) # 0 <=> \E i \in 1..m : s[i] \in A
<1> DEFINE In(n) == {i \in 1..n : s[i] \in A}
<1>1. ASSUME NEW n \in Nat PROVE IsFiniteSet(In(n)) /\ Cardinality(In(n)) \in 0..n
  <2>1. IsFiniteSet(1..n) /\ Cardinality(1..n) = n
    BY FS_Interval
  <2>2. In(n) \in SUBSET (1..n)
    OBVIOUS
  <2> HIDE DEF In
  <2>3. IsFiniteSet(In(n)) /\ Cardinality(In(n)) <= n
    BY <2>1, <2>2, FS_Subset
  <2>4. Cardinality(In(n)) \in Nat
    BY <2>3, FS_CardinalityType
  <2> QED BY <2>3, <2>4
<1>2. In(m + 1) = IF s[m + 1] \in A THEN In(m) \union {m + 1} ELSE In(m)
  OBVIOUS
<1>3. m + 1 \notin In(m)
  OBVIOUS
<1>4. In(0) = {}
  OBVIOUS
<1>5. In(m) = {} <=> ~ \E i \in 1..m : s[i] \in A
  OBVIOUS
<1>6. \A n : Occurs(s, A, n) = Cardinality(In(n))
  BY DEF Occurs
<1> HIDE DEF In
<1>7. Cardinality(In(m + 1)) = IF s[m + 1] \in A THEN Cardinality(In(m)) + 1 ELSE Cardinality(In(m))
  BY <1>1, <1>2, <1>3, FS_AddElement
<1>8. Cardinality(In(m)) # 0 <=> \E i \in 1..m : s[i] \in A
  BY <1>1, <1>5, FS_EmptySet
<1>9. Cardinality(In(0)) = 0
  BY <1>4, FS_EmptySet
<1> QED BY <1>1, <1>6, <1>7, <1>8, <1>9

\* The step alone.
OneMore(s, A, m) ==
  Occurs(s, A, m + 1) = IF s[m + 1] \in A THEN Occurs(s, A, m) + 1 ELSE Occurs(s, A, m)
LEMMA OccursStep ==
  ASSUME NEW s, NEW A, NEW m \in Nat
  PROVE  OneMore(s, A, m)
BY OccursNext DEF OneMore

\* None of none.
LEMMA OccursNone ==
  ASSUME NEW s, NEW A
  PROVE  Occurs(s, A, 0) = 0
<1>1. 0 \in Nat
  OBVIOUS
<1> QED BY <1>1, OccursNext

\* The same elements.
LEMMA OccursSame ==
  ASSUME NEW s, NEW t, NEW A, NEW m \in Nat, \A i \in 1..m : s[i] = t[i]
  PROVE  Occurs(s, A, m) = Occurs(t, A, m)
<1>1. {i \in 1..m : s[i] \in A} = {i \in 1..m : t[i] \in A}
  OBVIOUS
<1> QED BY <1>1 DEF Occurs

\* All of them, and none.
LEMMA OccursAll ==
  ASSUME NEW s, NEW A, NEW m \in Nat
  PROVE  /\ (\A i \in 1..m : s[i] \in A) => Occurs(s, A, m) = m
         /\ (\A i \in 1..m : s[i] \notin A) => Occurs(s, A, m) = 0
<1>1. ASSUME \A i \in 1..m : s[i] \in A PROVE Occurs(s, A, m) = m
  <2>1. {i \in 1..m : s[i] \in A} = 1..m
    BY <1>1
  <2>2. Cardinality(1..m) = m
    BY FS_Interval
  <2> QED BY <2>1, <2>2 DEF Occurs
<1>2. ASSUME \A i \in 1..m : s[i] \notin A PROVE Occurs(s, A, m) = 0
  BY <1>2, OccursNext
<1> QED BY <1>1, <1>2

\* One more element at the end.
LEMMA OccursAppend ==
  ASSUME NEW Elems, NEW s \in Seq(Elems), NEW x \in Elems, NEW A
  PROVE  Occurs(Append(s, x), A, Len(Append(s, x))) =
           IF x \in A THEN Occurs(s, A, Len(s)) + 1 ELSE Occurs(s, A, Len(s))
<1> DEFINE t == Append(s, x)
           n == Len(s)
<1>1. n \in Nat /\ Len(t) = n + 1 /\ t[n + 1] = x /\ \A i \in 1..n : t[i] = s[i]
  OBVIOUS
<1> HIDE DEF t, n
<1>2. Occurs(t, A, n) = Occurs(s, A, n)
  BY <1>1, OccursSame
<1>3. OneMore(t, A, n)
  BY <1>1, OccursStep
<1> QED BY <1>1, <1>2, <1>3 DEF t, n, OneMore

\* Lists behind one another.
LEMMA OccursJoined ==
  ASSUME NEW Elems, NEW s \in Seq(Elems), NEW t \in Seq(Elems), NEW A
  PROVE  Occurs(s \o t, A, Len(s \o t)) = Occurs(s, A, Len(s)) + Occurs(t, A, Len(t))
<1> DEFINE u == s \o t
           n == Len(s)
           m == Len(t)
<1>1. /\ n \in Nat /\ m \in Nat /\ Len(u) = n + m
      /\ \A i \in 1..n : u[i] = s[i]
      /\ \A i \in 1..m : u[n + i] = t[i]
  BY Joined
<1> HIDE DEF u, n, m
<1> DEFINE U == {i \in 0..m : Occurs(u, A, n + i) = Occurs(s, A, n) + Occurs(t, A, i)}
<1>2. 0 \in U
  <2>1. Occurs(u, A, n) = Occurs(s, A, n)
    BY <1>1, OccursSame
  <2>2. Occurs(t, A, 0) = 0 /\ Occurs(s, A, n) \in 0..n
    BY <1>1, OccursNext
  <2> QED BY <1>1, <2>1, <2>2
<1>3. ASSUME NEW i \in 0..m - 1, i \in U PROVE i + 1 \in U
  <2>1. i \in Nat /\ i + 1 \in 0..m /\ n + i \in Nat /\ (n + i) + 1 = n + (i + 1) /\ u[n + (i + 1)] = t[i + 1]
    <3> DEFINE j == i + 1
    <3>1. i \in Nat /\ j \in 0..m /\ j \in 1..m /\ n + i \in Nat /\ (n + i) + 1 = n + j
      BY <1>1
    <3> HIDE DEF j
    <3>2. u[n + j] = t[j]
      BY <1>1, <3>1
    <3> QED BY <3>1, <3>2 DEF j
  <2>2. Occurs(u, A, (n + i) + 1) = IF u[(n + i) + 1] \in A THEN Occurs(u, A, n + i) + 1 ELSE Occurs(u, A, n + i)
    <3> DEFINE a == n + i
    <3>1. a \in Nat
      BY <2>1
    <3> HIDE DEF a
    <3>2. OneMore(u, A, a)
      BY <3>1, OccursStep
    <3> QED BY <3>2 DEF a, OneMore
  <2>3. Occurs(t, A, i + 1) = IF t[i + 1] \in A THEN Occurs(t, A, i) + 1 ELSE Occurs(t, A, i)
    <3>1. OneMore(t, A, i)
      BY <2>1, OccursStep
    <3> QED BY <3>1 DEF OneMore
  <2>4. Occurs(s, A, n) \in Nat /\ Occurs(t, A, i) \in Nat
    <3>1. Occurs(s, A, n) \in 0..n
      BY <1>1, OccursNext
    <3>2. Occurs(t, A, i) \in 0..i
      BY <2>1, OccursNext
    <3> QED BY <1>1, <2>1, <3>1, <3>2
  <2>5. Occurs(u, A, n + i) = Occurs(s, A, n) + Occurs(t, A, i)
    BY <1>3
  <2>6. Occurs(u, A, n + (i + 1)) = Occurs(s, A, n) + Occurs(t, A, i + 1)
    BY <2>1, <2>2, <2>3, <2>4, <2>5
  <2> QED BY <2>1, <2>6
<1>4. m \in U
  <2> HIDE DEF U
  <2>1. 0..m \subseteq U
    BY <1>1, <1>2, <1>3, InductionUpTo
  <2> QED BY <1>1, <2>1
<1> QED BY <1>1, <1>4 DEF u, n, m

\* Lists of which only the j-th has elements in A.
LEMMA OccursFlattened ==
  ASSUME NEW Elems, NEW ss \in Seq(Seq(Elems)), NEW A, NEW j \in 1..Len(ss),
         \A a \in 1..Len(ss) : a # j => \A i \in 1..Len(ss[a]) : ss[a][i] \notin A
  PROVE  /\ T!FlattenSeq(ss) \in Seq(Elems)
         /\ Occurs(T!FlattenSeq(ss), A, Len(T!FlattenSeq(ss))) = Occurs(ss[j], A, Len(ss[j]))
<1> DEFINE last == Len(ss)
           Of(s) == Occurs(s, A, Len(s))
<1>1. PICK f : /\ f[0] = << >>
               /\ \A i \in 1..last : f[i] = f[i - 1] \o ss[i]
               /\ T!FlattenSeq(ss) = f[last]
  BY FlattenDef, Zenon
<1>2. last \in Nat /\ j \in 1..last /\ \A a \in 1..last : ss[a] \in Seq(Elems) /\ Len(ss[a]) \in Nat
  OBVIOUS
<1>3. \A a \in 1..last : a # j => Of(ss[a]) = 0
  <2>1. ASSUME NEW a \in 1..last, a # j PROVE Of(ss[a]) = 0
    <3>1. \A i \in 1..Len(ss[a]) : ss[a][i] \notin A
      BY <2>1
    <3> QED BY <1>2, <3>1, OccursAll
  <2> QED BY <2>1
<1>4. Of(ss[j]) \in Nat
  <2>1. Of(ss[j]) \in 0..Len(ss[j])
    BY <1>2, OccursNext
  <2> QED BY <1>2, <2>1
<1> HIDE DEF last, Of
<1> DEFINE U == {i \in 0..last : f[i] \in Seq(Elems) /\ Of(f[i]) = IF j <= i THEN Of(ss[j]) ELSE 0}
<1>5. 0 \in U
  <2>1. f[0] \in Seq(Elems) /\ Len(f[0]) = 0
    BY <1>1
  <2>2. Occurs(f[0], A, 0) = 0
    BY OccursNone
  <2>3. 0 \in 0..last /\ ~ (j <= 0)
    BY <1>2
  <2> QED BY <2>1, <2>2, <2>3 DEF Of
<1>6. ASSUME NEW i \in 0..last - 1, i \in U PROVE i + 1 \in U
  <2> DEFINE s == f[i]
             t == ss[i + 1]
             u == f[i + 1]
  <2>1. i \in Nat /\ i + 1 \in 1..last /\ i + 1 \in 0..last /\ (i + 1) - 1 = i
    BY <1>2
  <2>2. u = s \o t /\ s \in Seq(Elems) /\ t \in Seq(Elems) /\ Of(s) = IF j <= i THEN Of(ss[j]) ELSE 0
    BY <1>1, <1>2, <1>6, <2>1
  <2>3. Of(t) = IF j = i + 1 THEN Of(ss[j]) ELSE 0
    BY <1>3, <2>1
  <2> HIDE DEF s, t, u
  <2>4. u \in Seq(Elems)
    BY <2>2, Joined
  <2>5. Of(u) = Of(s) + Of(t)
    BY <2>2, OccursJoined DEF Of
  <2>6. Of(u) = IF j <= i + 1 THEN Of(ss[j]) ELSE 0
    BY <1>2, <1>4, <2>1, <2>2, <2>3, <2>5
  <2> QED BY <2>1, <2>4, <2>6 DEF u
<1>7. last \in U
  <2> HIDE DEF U
  <2>1. 0..last \subseteq U
    BY <1>2, <1>5, <1>6, InductionUpTo
  <2> QED BY <1>2, <2>1
<1>8. f[last] \in Seq(Elems) /\ Of(f[last]) = Of(ss[j])
  BY <1>2, <1>7
<1> QED BY <1>1, <1>8 DEF Of

\* resize, one key at a time.
RehashSteps(n, keys) ==
  \E f : /\ f[0] = [b \in 0..n - 1 |-> << >>]
         /\ \A i \in 1..Len(keys) : f[i] = ([f[i - 1] EXCEPT ![keys[i] % n] = Append(@, keys[i])])
         /\ K!Rehash(n) = f[Len(keys)]

\* The recursive function is defined.
LEMMA RehashDef ==
  ASSUME NEW n, NEW keys, Len(keys) \in Nat,
         keys = K!FlattenSeq([i \in 1..count |-> buckets[i - 1]])
  PROVE  RehashSteps(n, keys)
<1> DEFINE top == Len(keys)
           base == [b \in 0..n - 1 |-> << >>]
           turn(was, i) == ([was EXCEPT ![keys[i] % n] = Append(@, keys[i])])
           loop(f, m) == [i \in 0..m |-> IF i = 0 THEN base ELSE turn(f[i - 1], i)]
           Turns == {m \in Nat : \E f : f = loop(f, m)}
           made == CHOOSE f : f = loop(f, top)
<1>1. K!Rehash(n) = made[top]
  BY DEF K!Rehash
<1> HIDE DEF turn, base
<1>2. 0 \in Turns
  <2>1. [i \in 0..0 |-> base] = loop([i \in 0..0 |-> base], 0)
    OBVIOUS
  <2> QED BY <2>1
<1>3. ASSUME NEW m \in Nat, m \in Turns PROVE m + 1 \in Turns
  <2>1. PICK f : f = loop(f, m)
    BY <1>3
  <2> DEFINE g == [i \in 0..m + 1 |-> IF i = m + 1 THEN turn(f[m], m + 1) ELSE f[i]]
  <2>2. ASSUME NEW i \in 0..m + 1 PROVE g[i] = IF i = 0 THEN base ELSE turn(g[i - 1], i)
    <3>1. CASE i = m + 1
      BY <3>1
    <3>2. CASE i \in 0..m
      <4>1. g[i] = f[i] /\ (i # 0 => g[i - 1] = f[i - 1])
        BY <3>2
      <4>2. f[i] = IF i = 0 THEN base ELSE turn(f[i - 1], i)
        BY <2>1, <3>2
      <4> QED BY <4>1, <4>2
    <3> QED BY <3>1, <3>2
  <2>3. g = loop(g, m + 1)
    <3>1. g = [i \in 0..m + 1 |-> g[i]]
      OBVIOUS
    <3> HIDE DEF g
    <3> QED BY <2>2, <3>1
  <2> HIDE DEF g
  <2> QED BY <2>3
<1>4. top \in Nat
  OBVIOUS
<1> HIDE DEF top
<1>5. top \in Turns
  <2> HIDE DEF Turns
  <2>1. Nat \subseteq Turns
    BY <1>2, <1>3, Induction, Zenon
  <2> QED BY <1>4, <2>1
<1>6. made = loop(made, top)
  BY <1>5, Zenon
<1> HIDE DEF made
<1>7. made[0] = base /\ \A i \in 1..top : made[i] = turn(made[i - 1], i)
  BY <1>4, <1>6
<1> QED BY <1>1, <1>7, Zenon DEF turn, base, top, RehashSteps

-----------------------------------------------------------------------------
(* The buckets.                                                            *)

\* Buckets that hold keys of their own.
Sorted(x, c) ==
  /\ x \in [0..c - 1 -> Seq(Keys)]
  /\ \A b \in 0..c - 1 : \A i \in 1..Len(x[b]) : x[b][i] % c = b

\* Every key is in its bucket as often as h says.
Counted(x, c, h) == \A z \in Keys : Occurs(x[z % c], {z}, Len(x[z % c])) = h[z]

\* The inductive invariant: every key is in its bucket as often as it was emplaced.
KeysInv ==
  /\ count \in Nat \ {0} /\ capacity \in Nat \ {0} /\ emplaced \in [Keys -> Nat]
  /\ Sorted(buckets, count)
  /\ \A b \in 0..count - 1 : Len(buckets[b]) <= capacity
  /\ Counted(buckets, count, emplaced)

\* What one more key changes.
OneMoreKey(x, y, c, k) ==
  /\ Sorted(y, c)
  /\ \A b \in 0..c - 1 : Len(y[b]) = IF b = k % c THEN Len(x[b]) + 1 ELSE Len(x[b])
  /\ \A b \in 0..c - 1 : \A A : Occurs(y[b], A, Len(y[b])) =
       IF b = k % c /\ k \in A THEN Occurs(x[b], A, Len(x[b])) + 1 ELSE Occurs(x[b], A, Len(x[b]))

\* A key goes to its bucket.
LEMMA KeyAppended ==
  ASSUME NEW c \in Nat \ {0}, NEW x, Sorted(x, c), NEW k \in Keys, NEW y,
         y = [x EXCEPT ![k % c] = Append(@, k)]
  PROVE  OneMoreKey(x, y, c, k)
<1> DEFINE h == k % c
           s == x[h]
           t == Append(s, k)
<1>1. h \in 0..c - 1 /\ k \in Nat
  <2>1. k \in Nat
    BY KeyMapAssumption
  <2> QED BY <2>1, Division
<1>2. /\ x \in [0..c - 1 -> Seq(Keys)] /\ DOMAIN x = 0..c - 1
      /\ \A b \in 0..c - 1 : x[b] \in Seq(Keys) /\ \A i \in 1..Len(x[b]) : x[b][i] % c = b
  BY DEF Sorted
<1>3. s \in Seq(Keys) /\ t \in Seq(Keys) /\ Len(t) = Len(s) + 1 /\ t[Len(s) + 1] = k
      /\ Len(s) \in Nat /\ \A i \in 1..Len(s) : t[i] = s[i]
  <2>1. s \in Seq(Keys)
    BY <1>1, <1>2
  <2> HIDE DEF s
  <2> QED BY <2>1
<1>4. y = [x EXCEPT ![h] = t]
  OBVIOUS
<1> HIDE DEF h, t
<1>5. y[h] = t /\ y \in [0..c - 1 -> Seq(Keys)] /\ \A b \in 0..c - 1 : b # h => y[b] = x[b]
  <2> DEFINE D == 0..c - 1
             L == Seq(Keys)
  <2>1. h \in D /\ x \in [D -> L] /\ t \in L
    BY <1>1, <1>2, <1>3
  <2> HIDE DEF D, L
  <2>2. y[h] = t /\ y \in [D -> L] /\ \A b \in D : b # h => y[b] = x[b]
    BY <1>4, <2>1
  <2> QED BY <2>2 DEF D, L
<1>6. \A i \in 1..Len(t) : t[i] % c = h
  <2>1. \A i \in 1..Len(t) : i = Len(s) + 1 \/ i \in 1..Len(s)
    BY <1>3
  <2>2. \A i \in 1..Len(s) : t[i] % c = h
    BY <1>1, <1>2, <1>3
  <2>3. t[Len(s) + 1] % c = h
    BY <1>3 DEF h
  <2> QED BY <2>1, <2>2, <2>3
<1>7. Sorted(y, c)
  BY <1>2, <1>5, <1>6 DEF Sorted
<1>8. \A A : Occurs(t, A, Len(t)) = IF k \in A THEN Occurs(s, A, Len(s)) + 1 ELSE Occurs(s, A, Len(s))
  <2> HIDE DEF s
  <2> QED BY <1>3, OccursAppend DEF t
<1>9. \A b \in 0..c - 1 : Len(y[b]) = IF b = h THEN Len(x[b]) + 1 ELSE Len(x[b])
  BY <1>3, <1>5
<1>10. ASSUME NEW b \in 0..c - 1, NEW A
       PROVE  Occurs(y[b], A, Len(y[b])) =
                IF b = h /\ k \in A THEN Occurs(x[b], A, Len(x[b])) + 1 ELSE Occurs(x[b], A, Len(x[b]))
  <2>1. CASE b = h
    BY <1>5, <1>8, <2>1
  <2>2. CASE b # h
    BY <1>5, <2>2
  <2> QED BY <2>1, <2>2
<1> QED BY <1>7, <1>9, <1>10 DEF h, OneMoreKey

\* Both instances join lists alike.
LEMMA FlattenSame == \A s : K!FlattenSeq(s) = T!FlattenSeq(s)
BY DEF K!FlattenSeq, T!FlattenSeq

\* All keys, bucket after bucket.
AllKeys == K!FlattenSeq([i \in 1..count |-> buckets[i - 1]])

\* Among all keys those of one bucket occur as often as in it.
LEMMA AllKeysAre ==
  ASSUME KeysInv, NEW b \in 0..count - 1, NEW A, \A k \in A : k % count = b
  PROVE  /\ AllKeys \in Seq(Keys)
         /\ Occurs(AllKeys, A, Len(AllKeys)) = Occurs(buckets[b], A, Len(buckets[b]))
<1> DEFINE ss == [i \in 1..count |-> buckets[i - 1]]
           j == b + 1
<1>1. /\ count \in Nat \ {0} /\ \A x \in 0..count - 1 : buckets[x] \in Seq(Keys)
      /\ \A x \in 0..count - 1 : \A i \in 1..Len(buckets[x]) : buckets[x][i] % count = x
  BY DEF KeysInv, Sorted
<1>2. \A i \in 1..count : i - 1 \in 0..count - 1
  BY <1>1
<1>3. ss \in Seq(Seq(Keys)) /\ Len(ss) = count /\ \A i \in 1..count : ss[i] = buckets[i - 1]
  <2> DEFINE w(i) == buckets[i - 1]
             L == Seq(Keys)
  <2>1. \A i \in 1..count : w(i) \in L
    BY <1>1, <1>2
  <2>2. ss = [i \in 1..count |-> w(i)]
    OBVIOUS
  <2> HIDE DEF w, L, ss
  <2>3. [i \in 1..count |-> w(i)] \in Seq(L) /\ Len([i \in 1..count |-> w(i)]) = count
        /\ \A i \in 1..count : [x \in 1..count |-> w(x)][i] = w(i)
    BY <1>1, <2>1
  <2> QED BY <2>2, <2>3 DEF w, L
<1>4. j \in 1..count /\ ss[j] = buckets[b]
  BY <1>1, <1>3
<1> HIDE DEF ss
<1>5. \A a \in 1..count : a # j => \A i \in 1..Len(ss[a]) : ss[a][i] \notin A
  <2>1. ASSUME NEW a \in 1..count, a # j, NEW i \in 1..Len(ss[a]) PROVE ss[a][i] \notin A
    <3>1. a - 1 \in 0..count - 1 /\ a - 1 # b
      BY <1>1, <2>1
    <3>2. ss[a] = buckets[a - 1]
      BY <1>3
    <3>3. ss[a][i] % count = a - 1
      BY <1>1, <3>1, <3>2
    <3> QED BY <3>1, <3>3
  <2> QED BY <2>1
<1>6. /\ T!FlattenSeq(ss) \in Seq(Keys)
      /\ Occurs(T!FlattenSeq(ss), A, Len(T!FlattenSeq(ss))) = Occurs(ss[j], A, Len(ss[j]))
  <2> HIDE DEF j
  <2>1. j \in 1..Len(ss) /\ \A a \in 1..Len(ss) : a # j => \A i \in 1..Len(ss[a]) : ss[a][i] \notin A
    BY <1>3, <1>4, <1>5
  <2> QED BY <1>3, <2>1, OccursFlattened
<1>7. AllKeys = T!FlattenSeq(ss)
  BY FlattenSame DEF AllKeys, ss
<1> QED BY <1>4, <1>6, <1>7

\* A resize leaves every key as often as it was, and no bucket larger than the one it
\* was split from.
LEMMA RehashIs ==
  ASSUME KeysInv, NEW n, n = 2 * count
  PROVE  /\ Sorted(K!Rehash(n), n)
         /\ \A b \in 0..n - 1 : Len(K!Rehash(n)[b]) <= capacity
         /\ Counted(K!Rehash(n), n, emplaced)
<1> DEFINE keys == AllKeys
           size == Len(keys)
           Split(x, i) == /\ Sorted(x, n)
                          /\ \A b \in 0..n - 1 : \A A : (\A k \in A : k % n = b) =>
                               Occurs(x[b], A, Len(x[b])) = Occurs(keys, A, i)
<1>1. /\ count \in Nat \ {0} /\ capacity \in Nat \ {0} /\ n \in Nat \ {0} /\ Keys \subseteq Nat
      /\ \A b \in 0..count - 1 : Len(buckets[b]) <= capacity /\ buckets[b] \in Seq(Keys)
  BY KeyMapAssumption DEF KeysInv, Sorted
<1>2. keys \in Seq(Keys) /\ size \in Nat /\ \A i \in 1..size : keys[i] \in Keys
  <2> DEFINE b == 0
             A == {}
  <2>1. b \in 0..count - 1 /\ \A k \in A : k % count = b
    BY <1>1
  <2> HIDE DEF b, A
  <2>2. keys \in Seq(Keys)
    BY <2>1, AllKeysAre
  <2> HIDE DEF keys
  <2> QED BY <2>2
<1>3. PICK f : /\ f[0] = [b \in 0..n - 1 |-> << >>]
               /\ \A i \in 1..size : f[i] = [f[i - 1] EXCEPT ![keys[i] % n] = Append(@, keys[i])]
               /\ K!Rehash(n) = f[size]
  <2>1. keys = K!FlattenSeq([i \in 1..count |-> buckets[i - 1]])
    BY DEF AllKeys
  <2> HIDE DEF keys
  <2>2. Len(keys) \in Nat
    BY <1>2
  <2>3. RehashSteps(n, keys)
    BY <2>1, <2>2, RehashDef
  <2> QED BY <2>3, Zenon DEF RehashSteps, size
<1> HIDE DEF keys, size
<1> DEFINE U == {i \in 0..size : Split(f[i], i)}
<1>4. 0 \in U
  <2> DEFINE e == << >>
  <2>1. e \in Seq(Keys) /\ Len(e) = 0 /\ \A i \in 1..0 : FALSE
    OBVIOUS
  <2>2. f[0] = [b \in 0..n - 1 |-> e]
    BY <1>3
  <2> HIDE DEF e
  <2>3. \A A : Occurs(e, A, 0) = 0 /\ Occurs(keys, A, 0) = 0
    <3>1. 0 \in Nat
      OBVIOUS
    <3> QED BY <3>1, OccursNext
  <2>4. \A b \in 0..n - 1 : f[0][b] = e
    BY <2>2
  <2>5. Sorted(f[0], n)
    BY <2>1, <2>2, <2>4 DEF Sorted
  <2>6. Split(f[0], 0)
    BY <2>1, <2>3, <2>4, <2>5
  <2> QED BY <1>2, <2>6
<1>5. ASSUME NEW i \in 0..size - 1, i \in U PROVE i + 1 \in U
  <2> DEFINE x == f[i]
             y == f[i + 1]
             k == keys[i + 1]
  <2>1. i \in Nat /\ i + 1 \in 1..size /\ i + 1 \in 0..size /\ (i + 1) - 1 = i
    BY <1>2
  <2>2. k \in Keys /\ y = [x EXCEPT ![k % n] = Append(@, k)]
    BY <1>2, <1>3, <2>1
  <2>3. Sorted(x, n)
    BY <1>5
  <2> HIDE DEF k, y, x
  <2>4. /\ Sorted(y, n)
        /\ \A b \in 0..n - 1 : \A A : Occurs(y[b], A, Len(y[b])) =
             IF b = k % n /\ k \in A THEN Occurs(x[b], A, Len(x[b])) + 1 ELSE Occurs(x[b], A, Len(x[b]))
    <3>1. n \in Nat \ {0} /\ k \in Keys /\ y = [x EXCEPT ![k % n] = Append(@, k)]
      BY <1>1, <2>2
    <3>2. OneMoreKey(x, y, n, k)
      BY <2>3, <3>1, KeyAppended
    <3> QED BY <3>2 DEF OneMoreKey
  <2>5. ASSUME NEW b \in 0..n - 1, NEW A, \A z \in A : z % n = b
        PROVE  Occurs(y[b], A, Len(y[b])) = Occurs(keys, A, i + 1)
    <3>1. Occurs(x[b], A, Len(x[b])) = Occurs(keys, A, i)
      BY <1>5, <2>5 DEF x
    <3>2. Occurs(keys, A, i + 1) = IF k \in A THEN Occurs(keys, A, i) + 1 ELSE Occurs(keys, A, i)
      BY <2>1, OccursNext DEF k
    <3>3. k \in A => b = k % n
      BY <2>5
    <3> QED BY <2>4, <3>1, <3>2, <3>3
  <2>6. Split(y, i + 1)
    BY <2>4, <2>5
  <2> QED BY <2>1, <2>6 DEF y
<1>6. size \in U
  <2> HIDE DEF U
  <2>1. 0..size \subseteq U
    BY <1>2, <1>4, <1>5, InductionUpTo
  <2> QED BY <1>2, <2>1
<1>7. Split(K!Rehash(n), size)
  BY <1>3, <1>6
<1> DEFINE x == K!Rehash(n)
<1>8. /\ Sorted(x, n)
      /\ \A b \in 0..n - 1 : \A A : (\A k \in A : k % n = b) => Occurs(x[b], A, Len(x[b])) = Occurs(keys, A, size)
  BY <1>7
<1> HIDE DEF x
<1>9. /\ \A k \in Nat : k % count \in 0..count - 1 /\ k % n \in 0..n - 1 /\ (k % n) % count = k % count
      /\ \A b \in 0..n - 1 : b \in Nat
  <2>1. ASSUME NEW k \in Nat
        PROVE  k % count \in 0..count - 1 /\ k % n \in 0..n - 1 /\ (k % n) % count = k % count
    <3>1. /\ k % count \in 0..count - 1 /\ k % (2 * count) \in 0..2 * count - 1
          /\ (k % (2 * count)) % count = k % count
      BY <1>1, BucketSplits, Zenon
    <3> QED BY <3>1
  <2>2. \A b \in 0..n - 1 : b \in Nat
    BY <1>1
  <2> QED BY <2>1, <2>2
<1>10. ASSUME NEW b \in 0..n - 1, NEW A, A \subseteq Nat, \A k \in A : k % n = b
       PROVE  /\ b % count \in 0..count - 1
              /\ Occurs(x[b], A, Len(x[b])) = Occurs(buckets[b % count], A, Len(buckets[b % count]))
  <2>1. b % count \in 0..count - 1 /\ \A k \in A : k % count = b % count
    BY <1>9, <1>10
  <2>2. Occurs(keys, A, size) = Occurs(buckets[b % count], A, Len(buckets[b % count]))
    BY <2>1, AllKeysAre DEF keys, size
  <2> QED BY <1>8, <1>10, <2>1, <2>2
<1>11. ASSUME NEW b \in 0..n - 1 PROVE Len(x[b]) <= capacity
  <2> DEFINE A == {k \in Nat : k % n = b}
             d == buckets[b % count]
  <2>1. x[b] \in Seq(Keys) /\ \A i \in 1..Len(x[b]) : x[b][i] % n = b
    BY <1>8 DEF Sorted
  <2>2. \A i \in 1..Len(x[b]) : x[b][i] \in A
    <3>1. \A i \in 1..Len(x[b]) : x[b][i] \in Keys
      BY <2>1
    <3> QED BY <1>1, <2>1, <3>1
  <2>3. A \subseteq Nat /\ \A k \in A : k % n = b
    OBVIOUS
  <2> HIDE DEF A
  <2>4. Len(x[b]) \in Nat
    BY <2>1
  <2>5. Occurs(x[b], A, Len(x[b])) = Len(x[b])
    BY <2>2, <2>4, OccursAll
  <2>6. b % count \in 0..count - 1 /\ Occurs(x[b], A, Len(x[b])) = Occurs(d, A, Len(d))
    BY <1>10, <2>3
  <2>7. Len(d) \in Nat /\ Len(d) <= capacity
    BY <1>1, <2>6
  <2>8. Occurs(d, A, Len(d)) \in 0..Len(d)
    <3> HIDE DEF d
    <3> QED BY <2>7, OccursNext
  <2> QED BY <1>1, <2>4, <2>5, <2>6, <2>7, <2>8
<1>12. ASSUME NEW k \in Keys PROVE Occurs(x[k % n], {k}, Len(x[k % n])) = emplaced[k]
  <2>1. k \in Nat /\ k % n \in 0..n - 1 /\ (k % n) % count = k % count
    BY <1>1, <1>9
  <2>2. {k} \subseteq Nat /\ \A z \in {k} : z % n = k % n
    BY <2>1
  <2>3. Occurs(x[k % n], {k}, Len(x[k % n])) = Occurs(buckets[k % count], {k}, Len(buckets[k % count]))
    <3> DEFINE b == k % n
               A == {k}
    <3>1. b \in 0..n - 1 /\ A \subseteq Nat /\ \A z \in A : z % n = b
      BY <2>1, <2>2
    <3> HIDE DEF b, A
    <3>2. Occurs(x[b], A, Len(x[b])) = Occurs(buckets[b % count], A, Len(buckets[b % count]))
      BY <1>10, <3>1
    <3> QED BY <2>1, <3>2 DEF b, A
  <2> QED BY <2>3 DEF KeysInv, Counted
<1>13. Counted(x, n, emplaced)
  BY <1>12 DEF Counted
<1> QED BY <1>8, <1>11, <1>13 DEF x

\* Both instances count buckets and pages alike.
LEMMA SameSizes == \A n : K!NextPowerOfTwo(n) = P!NextPowerOfTwo(n)
BY DEF K!NextPowerOfTwo, P!NextPowerOfTwo

\* What the constructor leaves.
LEMMA KeysStart == K!Init => KeysInv
<1> SUFFICES ASSUME K!Init PROVE KeysInv
  OBVIOUS
<1>1. PICK size \in Sizes : count = K!NextPowerOfTwo(size)
  BY DEF K!Init
<1>2. count \in Nat \ {0} /\ Keys \subseteq Nat
  <2>1. size \in Nat \ {0}
    BY <1>1, KeyMapAssumption
  <2> QED BY <1>1, <2>1, SameSizes, NextPowerOfTwoIs, KeyMapAssumption
<1>3. capacity = 4 /\ emplaced = [k \in Keys |-> 0]
  BY DEF K!Init
<1> DEFINE e == << >>
<1>4. buckets = [b \in 0..count - 1 |-> e] /\ e \in Seq(Keys) /\ Len(e) = 0 /\ \A i \in 1..0 : FALSE
  BY DEF K!Init
<1> HIDE DEF e
<1>5. \A b \in 0..count - 1 : buckets[b] = e
  BY <1>4
<1>6. Sorted(buckets, count)
  BY <1>4, <1>5 DEF Sorted
<1>7. \A b \in 0..count - 1 : Len(buckets[b]) <= capacity
  BY <1>3, <1>4, <1>5
<1>8. ASSUME NEW k \in Keys
      PROVE  Occurs(buckets[k % count], {k}, Len(buckets[k % count])) = emplaced[k]
  <2>1. k \in Nat
    BY <1>2
  <2>2. k % count \in 0..count - 1
    BY <1>2, <2>1, Division
  <2>3. buckets[k % count] = e /\ emplaced[k] = 0
    BY <1>3, <1>5, <2>2
  <2> DEFINE A == {k}
             h == k % count
  <2> HIDE DEF A, h
  <2>4. Occurs(e, A, 0) = 0
    BY OccursNone
  <2>5. buckets[h] = e /\ Len(buckets[h]) = 0
    BY <1>4, <2>3 DEF h
  <2>6. Occurs(buckets[h], A, Len(buckets[h])) = emplaced[k]
    BY <2>3, <2>4, <2>5
  <2> QED BY <2>6 DEF A, h
<1>9. Counted(buckets, count, emplaced)
  BY <1>8 DEF Counted
<1>10. capacity \in Nat \ {0} /\ emplaced \in [Keys -> Nat]
  BY <1>3
<1> QED BY <1>2, <1>6, <1>7, <1>9, <1>10 DEF KeysInv

\* One more call.
Called(before, after, k) == after = [before EXCEPT ![k] = @ + 1]

\* One more entry and one more call.
LEMMA KeyCounted ==
  ASSUME NEW c \in Nat \ {0}, NEW x, NEW y, NEW k \in Keys, OneMoreKey(x, y, c, k), Sorted(x, c),
         NEW before \in [Keys -> Nat], NEW after, Called(before, after, k),
         Counted(x, c, before)
  PROVE  after \in [Keys -> Nat] /\ Counted(y, c, after)
<1>1. after \in [Keys -> Nat] /\ \A z \in Keys : after[z] = IF z = k THEN before[z] + 1 ELSE before[z]
  BY DEF Called
<1>2. ASSUME NEW z \in Keys PROVE Occurs(y[z % c], {z}, Len(y[z % c])) = after[z]
  <2> DEFINE b == z % c
             A == {z}
  <2>1. b \in 0..c - 1
    <3>1. z \in Nat
      BY KeyMapAssumption
    <3> QED BY <3>1, Division
  <2>2. (b = k % c /\ k \in A) <=> z = k
    OBVIOUS
  <2>3. Occurs(x[b], A, Len(x[b])) = before[z]
    BY DEF Counted
  <2> HIDE DEF b, A
  <2>4. Occurs(y[b], A, Len(y[b])) =
          IF b = k % c /\ k \in A THEN Occurs(x[b], A, Len(x[b])) + 1 ELSE Occurs(x[b], A, Len(x[b]))
    BY <2>1 DEF OneMoreKey
  <2>5. Occurs(y[b], A, Len(y[b])) = after[z]
    BY <1>1, <2>2, <2>3, <2>4
  <2> QED BY <2>5 DEF b, A
<1> QED BY <1>1, <1>2 DEF Counted

\* Emplace keeps every key where Find looks for it, as often as it was emplaced.
LEMMA KeysKeep == KeysInv /\ [K!Next]_(K!vars) => KeysInv'
<1> SUFFICES ASSUME KeysInv, [K!Next]_(K!vars) PROVE KeysInv'
  OBVIOUS
<1>1. CASE UNCHANGED K!vars
  BY <1>1 DEF K!vars, KeysInv, Sorted, Occurs, Counted
<1>2. CASE K!Next
  <2>1. PICK k \in Keys : /\ emplaced' = [emplaced EXCEPT ![k] = @ + 1]
                          /\ K!AppendKey(k) \/ K!Grow(k)
    BY <1>2 DEF K!Next, K!Emplace
  <2>2. /\ count \in Nat \ {0} /\ capacity \in Nat \ {0} /\ emplaced \in [Keys -> Nat] /\ Sorted(buckets, count)
        /\ \A b \in 0..count - 1 : Len(buckets[b]) <= capacity
        /\ Counted(buckets, count, emplaced) /\ Called(emplaced, emplaced', k)
    BY <2>1 DEF KeysInv, Called
  <2>3. CASE K!AppendKey(k)
    <3>1. /\ Len(buckets[k % count]) + 1 <= capacity /\ count' = count /\ capacity' = capacity
          /\ buckets' = [buckets EXCEPT ![k % count] = Append(@, k)]
      BY <2>3 DEF K!AppendKey
    <3>2. OneMoreKey(buckets, buckets', count, k)
      BY <2>2, <3>1, KeyAppended
    <3>3. emplaced' \in [Keys -> Nat] /\ Counted(buckets', count, emplaced')
      BY <2>2, <3>2, KeyCounted
    <3>4. Sorted(buckets', count') /\ \A b \in 0..count' - 1 : Len(buckets'[b]) <= capacity'
      BY <2>2, <3>1, <3>2 DEF OneMoreKey
    <3> QED BY <2>2, <3>1, <3>3, <3>4 DEF KeysInv
  <2>4. CASE K!Grow(k)
    <3> DEFINE n == 2 * count
               x == K!Rehash(n)
    <3>1. /\ count' = n /\ capacity' = 2 * capacity /\ n \in Nat \ {0}
          /\ buckets' = [x EXCEPT ![k % n] = Append(@, k)]
      <4>1. count' = 2 * count /\ capacity' = 2 * capacity
        BY <2>4 DEF K!Grow
      <4>2. buckets' = [K!Rehash(count') EXCEPT ![k % count'] = Append(@, k)]
        BY <2>4 DEF K!Grow
      <4>3. n \in Nat \ {0}
        BY <2>2
      <4> QED BY <4>1, <4>2, <4>3
    <3>2. /\ Sorted(x, n)
          /\ \A b \in 0..n - 1 : Len(x[b]) <= capacity
          /\ Counted(x, n, emplaced)
      <4>1. n = 2 * count
        OBVIOUS
      <4> HIDE DEF n
      <4> QED BY <4>1, RehashIs
    <3> HIDE DEF n, x
    <3>3. OneMoreKey(x, buckets', n, k)
      BY <3>1, <3>2, KeyAppended
    <3>4. emplaced' \in [Keys -> Nat] /\ Counted(buckets', n, emplaced')
      BY <2>2, <3>1, <3>2, <3>3, KeyCounted
    <3>5. Sorted(buckets', count')
      BY <3>1, <3>3 DEF OneMoreKey
    <3>6. ASSUME NEW b \in 0..n - 1 PROVE Len(buckets'[b]) <= capacity'
      <4>1. x[b] \in Seq(Keys)
        BY <3>2 DEF Sorted
      <4>2. Len(x[b]) \in Nat /\ Len(x[b]) <= capacity
        BY <3>2, <4>1
      <4>3. Len(buckets'[b]) = Len(x[b]) + 1 \/ Len(buckets'[b]) = Len(x[b])
        BY <3>3 DEF OneMoreKey
      <4> QED BY <2>2, <3>1, <4>2, <4>3
    <3>7. capacity' \in Nat \ {0}
      BY <2>2, <3>1
    <3> QED BY <3>1, <3>4, <3>5, <3>6, <3>7 DEF KeysInv
  <2> QED BY <2>1, <2>3, <2>4
<1> QED BY <1>1, <1>2

\* A key is found in its bucket, and among all keys it is as often as there.
LEMMA KeysFound == KeysInv => K!FindsWhatWasEmplaced
<1> SUFFICES ASSUME KeysInv PROVE K!FindsWhatWasEmplaced
  OBVIOUS
<1>1. \A b \in 0..count - 1 : Len(buckets[b]) <= capacity
  BY DEF KeysInv
<1>2. ASSUME NEW k \in Keys
      PROVE  /\ K!Find(k) <=> emplaced[k] > 0
             /\ K!Cardinality({i \in 1..Len(AllKeys) : AllKeys[i] = k}) = emplaced[k]
  <2> DEFINE b == k % count
             A == {k}
             s == buckets[b]
  <2>1. /\ b \in 0..count - 1 /\ (\A z \in A : z % count = b) /\ s \in Seq(Keys) /\ emplaced[k] \in Nat
        /\ Occurs(s, A, Len(s)) = emplaced[k]
    <3>1. k \in Nat /\ count \in Nat \ {0}
      BY KeyMapAssumption DEF KeysInv
    <3>2. b \in 0..count - 1
      BY <3>1, Division
    <3> QED BY <3>2 DEF KeysInv, Sorted, Counted
  <2>2. K!Find(k) <=> \E i \in 1..Len(s) : s[i] \in A
    BY DEF K!Find, K!Contains
  <2>3. {i \in 1..Len(AllKeys) : AllKeys[i] = k} = {i \in 1..Len(AllKeys) : AllKeys[i] \in A}
    <3> DEFINE all == AllKeys
    <3> HIDE DEF all
    <3>1. {i \in 1..Len(all) : all[i] = k} = {i \in 1..Len(all) : all[i] \in A}
      OBVIOUS
    <3> QED BY <3>1 DEF all
  <2> HIDE DEF b, A, s
  <2>4. Len(s) \in Nat
    BY <2>1
  <2>5. Occurs(s, A, Len(s)) # 0 <=> \E i \in 1..Len(s) : s[i] \in A
    BY <2>4, OccursNext
  <2>6. Occurs(AllKeys, A, Len(AllKeys)) = Occurs(s, A, Len(s))
    BY <2>1, AllKeysAre DEF s
  <2>7. K!Cardinality({i \in 1..Len(AllKeys) : AllKeys[i] = k}) = emplaced[k]
    <3>1. \A X : K!Cardinality(X) = Cardinality(X)
      BY DEF K!Cardinality, Cardinality
    <3> QED BY <2>1, <2>3, <2>6, <3>1 DEF Occurs
  <2>8. emplaced[k] # 0 <=> emplaced[k] > 0
    BY <2>1
  <2> QED BY <2>1, <2>2, <2>5, <2>7, <2>8
<1> QED BY <1>1, <1>2 DEF K!FindsWhatWasEmplaced, AllKeys

\* Find reports exactly the keys that were emplaced.
THEOREM KeysAreFound ==
  K!Spec => []K!FindsWhatWasEmplaced
<1>1. K!Init => KeysInv
  BY KeysStart
<1>2. KeysInv /\ [K!Next]_(K!vars) => KeysInv'
  BY KeysKeep
<1>3. KeysInv => K!FindsWhatWasEmplaced
  BY KeysFound
<1> QED BY <1>1, <1>2, <1>3, PTL DEF K!Spec

\* The same in every behaviour of the library.
THEOREM LibraryFindsKeys == CoreSpec => []FindsWhatWasEmplaced
<1>1. CoreInit => KeysInv
  BY KeysStart DEF CoreInit
<1>2. [CoreNext]_<<focus, coreVars>> => [K!Next]_(K!vars)
  BY DEF CoreNext, coreVars, CoreRests, Rests, keyMap, K!vars
<1>3. KeysInv /\ [K!Next]_(K!vars) => KeysInv'
  BY KeysKeep
<1>4. KeysInv => FindsWhatWasEmplaced
  BY KeysFound DEF FindsWhatWasEmplaced
<1> QED BY <1>1, <1>2, <1>3, <1>4, PTL DEF CoreSpec
=============================================================================
