------------------------- MODULE BlockingQueueProofs -------------------------
(* Machine-checked proofs about BlockingQueue, for every set of threads    *)
(* and items and every assignment of methods to threads.                   *)
EXTENDS BlockingQueue, FiniteSetTheorems, SequenceTheorems, TLAPS

\* Every variable keeps its type.
LEMMA Typing == Spec => []TypeOK
<1>1. Init => TypeOK
  <2> SUFFICES ASSUME Init
               PROVE  TypeOK
    OBVIOUS
  <2>1. MonitorTypeOK
    BY DEF Init, MonitorInit, MonitorTypeOK
  <2>2. /\ queue \in Seq(Items)
        /\ pushed \in Seq(Items)
        /\ popped \in Seq(Items)
    BY SMT DEF Init
  <2>3. pc \in [Threads -> Labels]
    BY DEF Init, Labels
  <2>4. ret \in [Threads -> BOOLEAN] /\ busy \in [Threads -> BOOLEAN]
    BY Zenon DEF Init
  <2>5. done \in BOOLEAN /\ working \in BOOLEAN
    BY Zenon DEF Init
  <2>6. QED
    BY <2>1, <2>2, <2>3, <2>4, <2>5 DEF TypeOK
<1>2. TypeOK /\ [Next]_vars => TypeOK'
  <2> SUFFICES ASSUME TypeOK, [Next]_vars
               PROVE  TypeOK'
    OBVIOUS
  <2> USE DEF TypeOK, MonitorTypeOK, Labels, Methods, Goto, Return
  <2>1. ASSUME NEW t \in Threads, NEW m \in Methods, Enter(t, m)
        PROVE  TypeOK'
    BY <2>1 DEF Enter, Lock
  <2>2. ASSUME NEW t \in Threads, TryFails(t)
        PROVE  TypeOK'
    BY <2>2 DEF TryFails
  <2>3. ASSUME NEW t \in Threads, Rewake(t)
        PROVE  TypeOK'
    BY <2>3 DEF Rewake, Lock
  <2>4. ASSUME NEW t \in Threads, Spurious(t)
        PROVE  TypeOK'
    BY <2>4 DEF Spurious, SpuriousWakeup
  <2>5. ASSUME NEW t \in Threads, Push(t)
        PROVE  TypeOK'
    BY <2>5 DEF Push, PushItem, Accept, Fresh, Unlock
  <2>6. ASSUME NEW t \in Threads, TryPush(t)
        PROVE  TypeOK'
    <3>1. CASE working
      BY <2>6, <3>1 DEF TryPush, Unlock
    <3>2. CASE ~working
      <4>1. /\ PushItem(t) /\ Return(t, TRUE)
            /\ UNCHANGED <<waiting, done, working, busy, popped>>
        BY <2>6, <3>2, Zenon DEF TryPush
      <4>2. QED
        BY <4>1 DEF PushItem, Accept, Fresh, Unlock
    <3>3. QED
      BY <3>1, <3>2
  <2>7. ASSUME NEW t \in Threads, NotifyPushed(t)
        PROVE  TypeOK'
    BY <2>7 DEF NotifyPushed, NotifyOne
  <2>8. ASSUME NEW t \in Threads, PopWaits(t)
        PROVE  TypeOK'
    BY <2>8 DEF PopWaits, Wait, Unlock
  <2>9. ASSUME NEW t \in Threads, PopGivesUp(t)
        PROVE  TypeOK'
    BY <2>9 DEF PopGivesUp, Unlock
  <2>10. ASSUME NEW t \in Threads, PopTakes(t)
         PROVE  TypeOK'
    BY <2>10 DEF PopTakes, TakeFront, RemoveFront, Unlock
  <2>11. ASSUME NEW t \in Threads, TryPop(t)
         PROVE  TypeOK'
    <3>1. CASE queue = << >>
      BY <2>11, <3>1 DEF TryPop, TakeFront, Unlock
    <3>2. CASE queue # << >>
      <4>1. TakeFront(t) /\ UNCHANGED <<waiting, done, pushed>>
        BY <2>11, <3>2, Zenon DEF TryPop
      <4>2. QED
        BY <4>1 DEF TakeFront, RemoveFront, Unlock
    <3>3. QED
      BY <3>1, <3>2
  <2>12. ASSUME NEW t \in Threads, Done(t)
         PROVE  TypeOK'
    BY <2>12 DEF Done, Unlock
  <2>13. ASSUME NEW t \in Threads, End(t)
         PROVE  TypeOK'
    BY <2>13 DEF End, Unlock
  <2>14. ASSUME NEW t \in Threads, NotifyEnded(t)
         PROVE  TypeOK'
    BY <2>14 DEF NotifyEnded, NotifyAll
  <2>15. ASSUME NEW t \in Threads, Query(t)
         PROVE  TypeOK'
    BY <2>15 DEF Query, Unlock
  <2>16. CASE UNCHANGED vars
    BY <2>16 DEF vars
  <2>17. QED
    BY <2>1, <2>2, <2>3, <2>4, <2>5, <2>6, <2>7, <2>8, <2>9, <2>10, <2>11,
       <2>12, <2>13, <2>14, <2>15, <2>16 DEF Next, Run
<1>3. QED
  BY <1>1, <1>2, PTL DEF Spec

\* Exactly the thread inside a critical section holds the mutex, and only a
\* thread inside ready.Wait is a waiter.
THEOREM Discipline == Spec => []LockDiscipline
<1>1. Init => LockDiscipline
  BY NoThreadAssumption DEF Init, MonitorInit, LockDiscipline, Methods
<1>2. TypeOK /\ LockDiscipline /\ [Next]_vars => LockDiscipline'
  <2> SUFFICES ASSUME TypeOK, LockDiscipline, [Next]_vars
               PROVE  LockDiscipline'
    OBVIOUS
  <2> USE NoThreadAssumption DEF TypeOK, MonitorTypeOK, LockDiscipline, Labels,
      Methods, Goto, Return
  <2>1. ASSUME NEW t \in Threads, NEW m \in Methods, Enter(t, m)
        PROVE  LockDiscipline'
    BY <2>1 DEF Enter, Lock
  <2>2. ASSUME NEW t \in Threads, TryFails(t)
        PROVE  LockDiscipline'
    BY <2>2 DEF TryFails
  <2>3. ASSUME NEW t \in Threads, Rewake(t)
        PROVE  LockDiscipline'
    BY <2>3 DEF Rewake, Lock
  <2>4. ASSUME NEW t \in Threads, Spurious(t)
        PROVE  LockDiscipline'
    BY <2>4 DEF Spurious, SpuriousWakeup
  <2>5. ASSUME NEW t \in Threads, Push(t)
        PROVE  LockDiscipline'
    BY <2>5 DEF Push, PushItem, Unlock
  <2>6. ASSUME NEW t \in Threads, TryPush(t)
        PROVE  LockDiscipline'
    BY <2>6 DEF TryPush, PushItem, Unlock
  <2>7. ASSUME NEW t \in Threads, NotifyPushed(t)
        PROVE  LockDiscipline'
    BY <2>7 DEF NotifyPushed, NotifyOne
  <2>8. ASSUME NEW t \in Threads, PopWaits(t)
        PROVE  LockDiscipline'
    BY <2>8 DEF PopWaits, Wait, Unlock
  <2>9. ASSUME NEW t \in Threads, PopGivesUp(t)
        PROVE  LockDiscipline'
    BY <2>9 DEF PopGivesUp, Unlock
  <2>10. ASSUME NEW t \in Threads, PopTakes(t)
         PROVE  LockDiscipline'
    BY <2>10 DEF PopTakes, TakeFront, Unlock
  <2>11. ASSUME NEW t \in Threads, TryPop(t)
         PROVE  LockDiscipline'
    BY <2>11 DEF TryPop, TakeFront, Unlock
  <2>12. ASSUME NEW t \in Threads, Done(t)
         PROVE  LockDiscipline'
    BY <2>12 DEF Done, Unlock
  <2>13. ASSUME NEW t \in Threads, End(t)
         PROVE  LockDiscipline'
    BY <2>13 DEF End, Unlock
  <2>14. ASSUME NEW t \in Threads, NotifyEnded(t)
         PROVE  LockDiscipline'
    BY <2>14 DEF NotifyEnded, NotifyAll
  <2>15. ASSUME NEW t \in Threads, Query(t)
         PROVE  LockDiscipline'
    BY <2>15 DEF Query, Unlock
  <2>16. CASE UNCHANGED vars
    BY <2>16 DEF vars
  <2>17. QED
    BY <2>1, <2>2, <2>3, <2>4, <2>5, <2>6, <2>7, <2>8, <2>9, <2>10, <2>11, <2>12, <2>13, <2>14, <2>15, <2>16 DEF Next, Run
<1>3. QED
  BY <1>1, <1>2, Typing, PTL DEF Spec

-----------------------------------------------------------------------------
\* End's broadcast is still to come while a waiter does not know of it.
THEOREM EndIsHeard == Spec => []EndReachesWaiters
<1>1. Init => EndReachesWaiters
  BY DEF Init, EndReachesWaiters
<1>2. TypeOK /\ EndReachesWaiters /\ [Next]_vars => EndReachesWaiters'
  <2> SUFFICES ASSUME TypeOK, EndReachesWaiters, [Next]_vars
               PROVE  EndReachesWaiters'
    OBVIOUS
  <2> USE DEF TypeOK, MonitorTypeOK, EndReachesWaiters, Labels, Methods, Goto
  <2>1. ASSUME NEW t \in Threads, NEW m \in Methods, Enter(t, m)
        PROVE  EndReachesWaiters'
    BY <2>1 DEF Enter, Lock
  <2>2. ASSUME NEW t \in Threads, TryFails(t)
        PROVE  EndReachesWaiters'
    BY <2>2 DEF TryFails
  <2>3. ASSUME NEW t \in Threads, Rewake(t)
        PROVE  EndReachesWaiters'
    BY <2>3 DEF Rewake, Lock
  <2>4. ASSUME NEW t \in Threads, Spurious(t)
        PROVE  EndReachesWaiters'
    BY <2>4 DEF Spurious, SpuriousWakeup
  <2>5. ASSUME NEW t \in Threads, Push(t)
        PROVE  EndReachesWaiters'
    BY <2>5 DEF Push, PushItem, Unlock
  <2>6. ASSUME NEW t \in Threads, TryPush(t)
        PROVE  EndReachesWaiters'
    BY <2>6 DEF TryPush, PushItem, Unlock
  <2>7. ASSUME NEW t \in Threads, NotifyPushed(t)
        PROVE  EndReachesWaiters'
    BY <2>7 DEF NotifyPushed, NotifyOne
  <2>8. ASSUME NEW t \in Threads, PopWaits(t)
        PROVE  EndReachesWaiters'
    BY <2>8 DEF PopWaits, Wait, Unlock
  <2>9. ASSUME NEW t \in Threads, PopGivesUp(t)
        PROVE  EndReachesWaiters'
    BY <2>9 DEF PopGivesUp, Unlock
  <2>10. ASSUME NEW t \in Threads, PopTakes(t)
         PROVE  EndReachesWaiters'
    BY <2>10 DEF PopTakes, TakeFront, Unlock
  <2>11. ASSUME NEW t \in Threads, TryPop(t)
         PROVE  EndReachesWaiters'
    BY <2>11 DEF TryPop, TakeFront, Unlock
  <2>12. ASSUME NEW t \in Threads, Done(t)
         PROVE  EndReachesWaiters'
    BY <2>12 DEF Done, Unlock
  <2>13. ASSUME NEW t \in Threads, End(t)
         PROVE  EndReachesWaiters'
    BY <2>13 DEF End, Unlock
  <2>14. ASSUME NEW t \in Threads, NotifyEnded(t)
         PROVE  EndReachesWaiters'
    BY <2>14 DEF NotifyEnded, NotifyAll
  <2>15. ASSUME NEW t \in Threads, Query(t)
         PROVE  EndReachesWaiters'
    BY <2>15 DEF Query, Unlock
  <2>16. CASE UNCHANGED vars
    BY <2>16 DEF vars
  <2>17. QED
    BY <2>1, <2>2, <2>3, <2>4, <2>5, <2>6, <2>7, <2>8, <2>9, <2>10, <2>11, <2>12, <2>13, <2>14, <2>15, <2>16 DEF Next, Run
<1>3. QED
  BY <1>1, <1>2, Typing, PTL DEF Spec

-----------------------------------------------------------------------------
\* TryPush is never refused when no thread has an item in hand.
THEOREM WorkingIsJustified == Spec => []WorkingMeansBusy
<1>1. Init => WorkingMeansBusy
  BY DEF Init, WorkingMeansBusy
<1>2. TypeOK /\ WorkingMeansBusy /\ [Next]_vars => WorkingMeansBusy'
  <2> SUFFICES ASSUME TypeOK, WorkingMeansBusy, [Next]_vars
               PROVE  WorkingMeansBusy'
    OBVIOUS
  <2> USE DEF TypeOK, WorkingMeansBusy, Goto, Return
  <2>1. ASSUME NEW t \in Threads, NEW m \in Methods, Enter(t, m)
        PROVE  WorkingMeansBusy'
    BY <2>1 DEF Enter, Lock
  <2>2. ASSUME NEW t \in Threads, TryFails(t)
        PROVE  WorkingMeansBusy'
    BY <2>2 DEF TryFails
  <2>3. ASSUME NEW t \in Threads, Rewake(t)
        PROVE  WorkingMeansBusy'
    BY <2>3 DEF Rewake, Lock
  <2>4. ASSUME NEW t \in Threads, Spurious(t)
        PROVE  WorkingMeansBusy'
    BY <2>4 DEF Spurious, SpuriousWakeup
  <2>5. ASSUME NEW t \in Threads, Push(t)
        PROVE  WorkingMeansBusy'
    BY <2>5 DEF Push, PushItem, Unlock
  <2>6. ASSUME NEW t \in Threads, TryPush(t)
        PROVE  WorkingMeansBusy'
    BY <2>6 DEF TryPush, PushItem, Unlock
  <2>7. ASSUME NEW t \in Threads, NotifyPushed(t)
        PROVE  WorkingMeansBusy'
    BY <2>7 DEF NotifyPushed, NotifyOne
  <2>8. ASSUME NEW t \in Threads, PopWaits(t)
        PROVE  WorkingMeansBusy'
    BY <2>8 DEF PopWaits, Wait, Unlock
  <2>9. ASSUME NEW t \in Threads, PopGivesUp(t)
        PROVE  WorkingMeansBusy'
    BY <2>9 DEF PopGivesUp, Unlock
  <2>10. ASSUME NEW t \in Threads, PopTakes(t)
         PROVE  WorkingMeansBusy'
    BY <2>10 DEF PopTakes, TakeFront, Unlock
  <2>11. ASSUME NEW t \in Threads, TryPop(t)
         PROVE  WorkingMeansBusy'
    BY <2>11 DEF TryPop, TakeFront, Unlock
  <2>12. ASSUME NEW t \in Threads, Done(t)
         PROVE  WorkingMeansBusy'
    BY <2>12 DEF Done, Unlock
  <2>13. ASSUME NEW t \in Threads, End(t)
         PROVE  WorkingMeansBusy'
    BY <2>13 DEF End, Unlock
  <2>14. ASSUME NEW t \in Threads, NotifyEnded(t)
         PROVE  WorkingMeansBusy'
    BY <2>14 DEF NotifyEnded, NotifyAll
  <2>15. ASSUME NEW t \in Threads, Query(t)
         PROVE  WorkingMeansBusy'
    BY <2>15 DEF Query, Unlock
  <2>16. CASE UNCHANGED vars
    BY <2>16 DEF vars
  <2>17. QED
    BY <2>1, <2>2, <2>3, <2>4, <2>5, <2>6, <2>7, <2>8, <2>9, <2>10, <2>11, <2>12, <2>13, <2>14, <2>15, <2>16 DEF Next, Run
<1>3. QED
  BY <1>1, <1>2, Typing, PTL DEF Spec

-----------------------------------------------------------------------------
\* Putting an item at the back of q and taking one from its front, seen from
\* the sequence p of what was taken before.
LEMMA BackAndFront ==
  ASSUME NEW p \in Seq(Items), NEW q \in Seq(Items), NEW i \in Items
  PROVE  /\ Append(p \o q, i) = p \o Append(q, i)
         /\ q # << >> => /\ Append(p, Head(q)) \o Tail(q) = p \o q
                        /\ Head(q) = (p \o q)[Len(p) + 1]
                        /\ Len(p) < Len(p \o q)
<1>1. Append(p \o q, i) = p \o Append(q, i)
  OBVIOUS
<1>2. ASSUME q # << >>
      PROVE  Append(p, Head(q)) \o Tail(q) = p \o q
  BY <1>2
<1>3. ASSUME q # << >>
      PROVE  Head(q) = (p \o q)[Len(p) + 1] /\ Len(p) < Len(p \o q)
  BY <1>3
<1>4. QED
  BY <1>1, <1>2, <1>3

\* The three things a step can do to the ends of the queue.
LeavesEnds ==
  /\ UNCHANGED <<pushed, popped, queue>>
  /\ done' \in {done, TRUE}

AddsItem == Accept /\ UNCHANGED <<popped, done>>

TakesItem == RemoveFront /\ queue # << >> /\ UNCHANGED <<pushed, done>>

\* Every step does one of them.
LEMMA Ends == [Next]_vars => LeavesEnds \/ AddsItem \/ TakesItem
<1> SUFFICES ASSUME [Next]_vars
             PROVE  LeavesEnds \/ AddsItem \/ TakesItem
  OBVIOUS
<1> USE DEF LeavesEnds, AddsItem, TakesItem
<1>1. ASSUME NEW t \in Threads, NEW m \in Methods, Enter(t, m)
      PROVE  LeavesEnds \/ AddsItem \/ TakesItem
  BY <1>1 DEF Enter, Lock
<1>2. ASSUME NEW t \in Threads, TryFails(t)
      PROVE  LeavesEnds \/ AddsItem \/ TakesItem
  BY <1>2 DEF TryFails
<1>3. ASSUME NEW t \in Threads, Rewake(t)
      PROVE  LeavesEnds \/ AddsItem \/ TakesItem
  BY <1>3 DEF Rewake, Lock
<1>4. ASSUME NEW t \in Threads, Spurious(t)
      PROVE  LeavesEnds \/ AddsItem \/ TakesItem
  BY <1>4 DEF Spurious, SpuriousWakeup
<1>5. ASSUME NEW t \in Threads, Push(t)
      PROVE  LeavesEnds \/ AddsItem \/ TakesItem
  BY <1>5 DEF Push, PushItem, Unlock
<1>6. ASSUME NEW t \in Threads, TryPush(t)
      PROVE  LeavesEnds \/ AddsItem \/ TakesItem
  BY <1>6 DEF TryPush, PushItem, Unlock
<1>7. ASSUME NEW t \in Threads, NotifyPushed(t)
      PROVE  LeavesEnds \/ AddsItem \/ TakesItem
  BY <1>7 DEF NotifyPushed, NotifyOne
<1>8. ASSUME NEW t \in Threads, PopWaits(t)
      PROVE  LeavesEnds \/ AddsItem \/ TakesItem
  BY <1>8 DEF PopWaits, Wait, Unlock
<1>9. ASSUME NEW t \in Threads, PopGivesUp(t)
      PROVE  LeavesEnds \/ AddsItem \/ TakesItem
  BY <1>9 DEF PopGivesUp, Unlock
<1>10. ASSUME NEW t \in Threads, PopTakes(t)
       PROVE  LeavesEnds \/ AddsItem \/ TakesItem
  BY <1>10 DEF PopTakes, TakeFront, Unlock
<1>11. ASSUME NEW t \in Threads, TryPop(t)
       PROVE  LeavesEnds \/ AddsItem \/ TakesItem
  BY <1>11 DEF TryPop, TakeFront, Unlock
<1>12. ASSUME NEW t \in Threads, Done(t)
       PROVE  LeavesEnds \/ AddsItem \/ TakesItem
  BY <1>12 DEF Done, Unlock
<1>13. ASSUME NEW t \in Threads, End(t)
       PROVE  LeavesEnds \/ AddsItem \/ TakesItem
  BY <1>13 DEF End, Unlock
<1>14. ASSUME NEW t \in Threads, NotifyEnded(t)
       PROVE  LeavesEnds \/ AddsItem \/ TakesItem
  BY <1>14 DEF NotifyEnded, NotifyAll
<1>15. ASSUME NEW t \in Threads, Query(t)
       PROVE  LeavesEnds \/ AddsItem \/ TakesItem
  BY <1>15 DEF Query, Unlock
<1>16. CASE UNCHANGED vars
  BY <1>16 DEF vars
<1>17. QED
  BY <1>1, <1>2, <1>3, <1>4, <1>5, <1>6, <1>7, <1>8, <1>9, <1>10, <1>11, <1>12, <1>13, <1>14, <1>15, <1>16 DEF Next, Run

\* Nothing pushed is lost, duplicated or overtaken.
THEOREM InOrder == Spec => []FIFO
<1>1. Init => FIFO
  BY DEF Init, FIFO
<1>2. TypeOK /\ FIFO /\ [Next]_vars => FIFO'
  <2> SUFFICES ASSUME TypeOK, FIFO, [Next]_vars
               PROVE  FIFO'
    OBVIOUS
  <2>1. CASE LeavesEnds
    BY <2>1 DEF FIFO, LeavesEnds
  <2>2. CASE AddsItem
    <3>1. PICK i \in Items : /\ queue' = Append(queue, i)
                             /\ pushed' = Append(pushed, i)
      BY <2>2 DEF AddsItem, Accept, Fresh
    <3>2. popped' = popped
      BY <2>2 DEF AddsItem
    <3>3. QED
      BY <3>1, <3>2, BackAndFront DEF FIFO, TypeOK
  <2>3. CASE TakesItem
    <3>1. PICK i \in Items : TRUE
      BY <2>3 DEF TakesItem, TypeOK
    <3>2. Append(popped, Head(queue)) \o Tail(queue) = popped \o queue
      BY <2>3, <3>1, BackAndFront DEF TakesItem, TypeOK
    <3>3. QED
      BY <2>3, <3>2 DEF TakesItem, RemoveFront, FIFO
  <2>4. QED
    BY <2>1, <2>2, <2>3, Ends
<1>3. QED
  BY <1>1, <1>2, Typing, PTL DEF Spec

\* The queue implements the closable FIFO channel of Channel.tla.
THEOREM ImplementsChannel == Spec => ChannelSpec
<1>1. Init => Chan!Init
  BY DEF Init, Chan!Init
<1>2. TypeOK /\ FIFO /\ [Next]_vars => [Chan!Next]_(Chan!channelVars)
  <2> SUFFICES ASSUME TypeOK, FIFO, [Next]_vars
               PROVE  [Chan!Next]_(Chan!channelVars)
    OBVIOUS
  <2>1. CASE LeavesEnds
    BY <2>1 DEF LeavesEnds, Chan!Next, Chan!Close, Chan!channelVars
  <2>2. CASE AddsItem
    BY <2>2 DEF AddsItem, Accept, Fresh, Chan!Next, Chan!Send
  <2>3. CASE TakesItem
    <3>1. PICK i \in Items : TRUE
      BY <2>3 DEF TakesItem, TypeOK
    <3>2. Head(queue) = pushed[Len(popped) + 1] /\ Len(popped) < Len(pushed)
      BY <2>3, <3>1, BackAndFront DEF TakesItem, TypeOK, FIFO
    <3>3. Chan!Receive
      BY <2>3, <3>2 DEF TakesItem, RemoveFront, Chan!Receive
    <3>4. QED
      BY <3>3 DEF Chan!Next
  <2>4. QED
    BY <2>1, <2>2, <2>3, Ends
<1>3. QED
  BY <1>1, <1>2, Typing, InOrder, PTL DEF Spec, ChannelSpec, Chan!Spec

-----------------------------------------------------------------------------
\* The committed threads, before and after a step, are finitely many.
LEMMA CommittedFinite ==
  /\ IsFiniteSet(Committed) /\ Cardinality(Committed) \in Nat
  /\ IsFiniteSet(Committed') /\ Cardinality(Committed') \in Nat
<1>1. Committed \subseteq Threads /\ Committed' \subseteq Threads
  BY DEF Committed
<1>2. IsFiniteSet(Committed) /\ IsFiniteSet(Committed')
  BY <1>1, ThreadsAssumption, FS_Subset
<1>3. QED
  BY <1>2, FS_CardinalityType

\* A larger set of committed threads is no smaller in number.
LEMMA Subsets ==
  ASSUME Committed \subseteq Committed'
  PROVE  Cardinality(Committed) <= Cardinality(Committed')
BY CommittedFinite, FS_Subset

\* No wakeup is lost: while a thread waits, every item in the queue has a
\* push that will still notify, or a Pop that is awake and will look.
THEOREM WakeupsSuffice == Spec => []NoLostWakeup
<1>1. Init => NoLostWakeup
  BY DEF Init, MonitorInit, NoLostWakeup
<1>2. TypeOK /\ LockDiscipline /\ NoLostWakeup /\ [Next]_vars => NoLostWakeup'
  <2> SUFFICES ASSUME TypeOK, LockDiscipline, NoLostWakeup, [Next]_vars
               PROVE  NoLostWakeup'
    OBVIOUS
  <2>1. /\ Len(queue) \in Nat
        /\ IsFiniteSet(Committed) /\ Cardinality(Committed) \in Nat
        /\ IsFiniteSet(Committed') /\ Cardinality(Committed') \in Nat
    BY CommittedFinite DEF TypeOK
  <2> USE <2>1 DEF TypeOK, MonitorTypeOK, NoLostWakeup, Goto, Methods
  <2>2. ASSUME NEW t \in Threads, NEW m \in Methods, Enter(t, m)
        PROVE  NoLostWakeup'
    <3>1. Committed \subseteq Committed'
      BY <2>2 DEF Enter, Lock, Committed
    <3>2. QED
      BY <2>2, <3>1, Subsets DEF Enter
  <2>3. ASSUME NEW t \in Threads, TryFails(t)
        PROVE  NoLostWakeup'
    <3>1. Committed' = Committed
      BY <2>3 DEF TryFails, Committed
    <3>2. QED
      BY <2>3, <3>1 DEF TryFails
  <2>4. ASSUME NEW t \in Threads, Rewake(t)
        PROVE  NoLostWakeup'
    <3>1. Committed' = Committed
      BY <2>4 DEF Rewake, Committed
    <3>2. QED
      BY <2>4, <3>1 DEF Rewake
  <2>5. ASSUME NEW t \in Threads, Spurious(t)
        PROVE  NoLostWakeup'
    <3>1. Committed \subseteq Committed'
      BY <2>5 DEF Spurious, SpuriousWakeup, Committed
    <3>2. QED
      BY <2>5, <3>1, Subsets DEF Spurious, SpuriousWakeup
  <2>6. ASSUME NEW t \in Threads, Push(t)
        PROVE  NoLostWakeup'
    <3>1. t \notin Committed /\ Committed' = Committed \cup {t}
      BY <2>6 DEF Push, PushItem, Committed
    <3>2. Len(queue') = Len(queue) + 1
      BY <2>6 DEF Push, PushItem, Accept, Fresh
    <3>3. QED
      BY <2>6, <3>1, <3>2, FS_AddElement DEF Push
  <2>7. ASSUME NEW t \in Threads, TryPush(t)
        PROVE  NoLostWakeup'
    <3>1. CASE working
      <4>1. Goto(t, "idle") /\ UNCHANGED <<queue, waiting>>
        BY <2>7, <3>1, Zenon DEF TryPush
      <4>2. Committed' = Committed
        BY <2>7, <4>1 DEF TryPush, Committed
      <4>3. QED
        BY <4>1, <4>2
    <3>2. CASE ~working
      <4>1. PushItem(t) /\ UNCHANGED waiting
        BY <2>7, <3>2, Zenon DEF TryPush
      <4>2. t \notin Committed /\ Committed' = Committed \cup {t}
        BY <2>7, <4>1 DEF TryPush, PushItem, Committed
      <4>3. Len(queue') = Len(queue) + 1
        BY <4>1 DEF PushItem, Accept, Fresh
      <4>4. QED
        BY <4>1, <4>2, <4>3, FS_AddElement
    <3>3. QED
      BY <3>1, <3>2
  <2>8. ASSUME NEW t \in Threads, NotifyPushed(t)
        PROVE  NoLostWakeup'
    <3>1. CASE waiting = {}
      BY <2>8, <3>1 DEF NotifyPushed, NotifyOne
    <3>2. CASE waiting # {}
      <4>1. PICK x \in waiting : waiting' = waiting \ {x}
        BY <2>8, <3>2 DEF NotifyPushed, NotifyOne
      <4>2. x # t /\ x \notin Committed /\ t \in Committed
        BY <2>8 DEF NotifyPushed, Committed, LockDiscipline
      <4>3. Committed' = (Committed \ {t}) \cup {x}
        BY <2>8, <4>1, <4>2 DEF NotifyPushed, Committed, LockDiscipline
      <4>4. Cardinality(Committed') = Cardinality(Committed)
        <5>1. IsFiniteSet(Committed \ {t})
          BY FS_RemoveElement
        <5>2. Cardinality(Committed \ {t}) = Cardinality(Committed) - 1
          BY <4>2, FS_RemoveElement
        <5>3. Cardinality(Committed') = Cardinality(Committed \ {t}) + 1
          BY <4>2, <4>3, <5>1, FS_AddElement
        <5>4. QED
          BY <5>2, <5>3
      <4>5. QED
        BY <2>8, <3>2, <4>4 DEF NotifyPushed
    <3>3. QED
      BY <3>1, <3>2
  <2>9. ASSUME NEW t \in Threads, PopWaits(t)
        PROVE  NoLostWakeup'
    BY <2>9 DEF PopWaits
  <2>10. ASSUME NEW t \in Threads, PopGivesUp(t)
         PROVE  NoLostWakeup'
    BY <2>10 DEF PopGivesUp
  <2>11. ASSUME NEW t \in Threads, PopTakes(t)
         PROVE  NoLostWakeup'
    <3>1. t \in Committed /\ Committed' = Committed \ {t}
      BY <2>11 DEF PopTakes, TakeFront, Committed
    <3>2. Len(queue') = Len(queue) - 1
      BY <2>11 DEF PopTakes, TakeFront, RemoveFront
    <3>3. QED
      BY <2>11, <3>1, <3>2, FS_RemoveElement DEF PopTakes
  <2>12. ASSUME NEW t \in Threads, TryPop(t)
         PROVE  NoLostWakeup'
    <3>1. Committed' = Committed
      BY <2>12 DEF TryPop, TakeFront, Committed
    <3>2. Len(queue') <= Len(queue) /\ UNCHANGED waiting
      <4>1. CASE queue = << >>
        BY <2>12, <4>1 DEF TryPop, TakeFront
      <4>2. CASE queue # << >>
        <5>1. queue' = Tail(queue) /\ UNCHANGED waiting
          BY <2>12, <4>2, Zenon DEF TryPop, TakeFront, RemoveFront
        <5>2. QED
          BY <4>2, <5>1
      <4>3. QED
        BY <4>1, <4>2
    <3>3. QED
      BY <3>1, <3>2
  <2>13. ASSUME NEW t \in Threads, Done(t)
         PROVE  NoLostWakeup'
    <3>1. Committed' = Committed
      BY <2>13 DEF Done, Committed
    <3>2. QED
      BY <2>13, <3>1 DEF Done
  <2>14. ASSUME NEW t \in Threads, End(t)
         PROVE  NoLostWakeup'
    <3>1. Committed' = Committed
      BY <2>14 DEF End, Committed
    <3>2. QED
      BY <2>14, <3>1 DEF End
  <2>15. ASSUME NEW t \in Threads, NotifyEnded(t)
         PROVE  NoLostWakeup'
    BY <2>15 DEF NotifyEnded, NotifyAll
  <2>16. ASSUME NEW t \in Threads, Query(t)
         PROVE  NoLostWakeup'
    <3>1. Committed' = Committed
      BY <2>16 DEF Query, Committed
    <3>2. QED
      BY <2>16, <3>1 DEF Query
  <2>17. CASE UNCHANGED vars
    BY <2>17 DEF vars, Committed
  <2>18. QED
    BY <2>2, <2>3, <2>4, <2>5, <2>6, <2>7, <2>8, <2>9, <2>10, <2>11, <2>12, <2>13, <2>14, <2>15, <2>16, <2>17 DEF Next, Run
<1>3. QED
  BY <1>1, <1>2, Typing, Discipline, PTL DEF Spec
=============================================================================
