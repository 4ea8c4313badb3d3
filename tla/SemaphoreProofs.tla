--------------------------- MODULE SemaphoreProofs ---------------------------
(* Machine-checked proofs about Semaphore, for every finite set of threads *)
(* and every initial count.                                                *)
EXTENDS Semaphore, FiniteSetTheorems, TLAPS

\* Every variable keeps its type.
LEMMA Typing == Spec => []TypeOK
<1>1. Init => TypeOK
  BY CountAssumption DEF Init, MonitorInit, TypeOK, MonitorTypeOK, Labels
<1>2. TypeOK /\ [Next]_vars => TypeOK'
  <2> SUFFICES ASSUME TypeOK, [Next]_vars
               PROVE  TypeOK'
    OBVIOUS
  <2> USE CountAssumption DEF TypeOK, MonitorTypeOK, Labels, Methods, Goto
  <2>1. ASSUME NEW t \in Threads, EnterAdd(t)
        PROVE  TypeOK'
    BY <2>1 DEF EnterAdd, Lock
  <2>2. ASSUME NEW t \in Threads, EnterPost(t)
        PROVE  TypeOK'
    BY <2>2 DEF EnterPost, Lock
  <2>3. ASSUME NEW t \in Threads, EnterWait(t)
        PROVE  TypeOK'
    BY <2>3 DEF EnterWait, Lock
  <2>4. ASSUME NEW t \in Threads, Rewake(t)
        PROVE  TypeOK'
    BY <2>4 DEF Rewake, Lock
  <2>5. ASSUME NEW t \in Threads, Spurious(t)
        PROVE  TypeOK'
    BY <2>5 DEF Spurious, SpuriousWakeup
  <2>6. ASSUME NEW t \in Threads, Add(t)
        PROVE  TypeOK'
    BY <2>6 DEF Add, Unlock
  <2>7. ASSUME NEW t \in Threads, Post(t)
        PROVE  TypeOK'
    BY <2>7 DEF Post, Unlock
  <2>8. ASSUME NEW t \in Threads, Notify(t)
        PROVE  TypeOK'
    BY <2>8 DEF Notify, NotifyOne
  <2>9. ASSUME NEW t \in Threads, Block(t)
        PROVE  TypeOK'
    BY <2>9 DEF Block, Wait, Unlock
  <2>10. ASSUME NEW t \in Threads, Return(t)
         PROVE  TypeOK'
    BY <2>10 DEF Return, Unlock
  <2>11. CASE UNCHANGED vars
    BY <2>11 DEF vars
  <2>12. QED
    BY <2>1, <2>2, <2>3, <2>4, <2>5, <2>6, <2>7, <2>8, <2>9, <2>10, <2>11 DEF Next, Run
<1>3. QED
  BY <1>1, <1>2, PTL DEF Spec

-----------------------------------------------------------------------------
\* The threads inside Post are finitely many, before and after a step.
LEMMA PostingFinite ==
  /\ IsFiniteSet(Posting) /\ Cardinality(Posting) \in Nat
  /\ IsFiniteSet(Posting') /\ Cardinality(Posting') \in Nat
<1>1. Posting \subseteq Threads /\ Posting' \subseteq Threads
  BY DEF Posting
<1>2. IsFiniteSet(Posting) /\ IsFiniteSet(Posting')
  BY <1>1, ThreadsAssumption, FS_Subset
<1>3. QED
  BY <1>2, FS_CardinalityType

\* The count is exactly the work announced and not yet reported.
THEOREM CountIsExact == Spec => []CountIsOutstandingWork
<1>1. Init => CountIsOutstandingWork
  <2> SUFFICES ASSUME Init
               PROVE  CountIsOutstandingWork
    OBVIOUS
  <2>1. Posting = {}
    BY DEF Init, Posting
  <2>2. QED
    BY <2>1, FS_EmptySet, CountAssumption DEF Init, CountIsOutstandingWork
<1>2. TypeOK /\ CountIsOutstandingWork /\ [Next]_vars => CountIsOutstandingWork'
  <2> SUFFICES ASSUME TypeOK, CountIsOutstandingWork, [Next]_vars
               PROVE  CountIsOutstandingWork'
    OBVIOUS
  <2> USE PostingFinite DEF TypeOK, CountIsOutstandingWork, Goto, Methods
  <2>1. ASSUME NEW t \in Threads, EnterAdd(t)
        PROVE  CountIsOutstandingWork'
    <3>1. Posting' = Posting
      BY <2>1 DEF EnterAdd, Posting
    <3>2. QED
      BY <2>1, <3>1 DEF EnterAdd
  <2>2. ASSUME NEW t \in Threads, EnterPost(t)
        PROVE  CountIsOutstandingWork'
    <3>1. t \notin Posting /\ Posting' = Posting \cup {t}
      BY <2>2 DEF EnterPost, Posting
    <3>2. QED
      BY <2>2, <3>1, FS_AddElement DEF EnterPost
  <2>3. ASSUME NEW t \in Threads, EnterWait(t)
        PROVE  CountIsOutstandingWork'
    <3>1. Posting' = Posting
      BY <2>3 DEF EnterWait, Posting
    <3>2. QED
      BY <2>3, <3>1 DEF EnterWait
  <2>4. ASSUME NEW t \in Threads, Rewake(t)
        PROVE  CountIsOutstandingWork'
    <3>1. Posting' = Posting
      BY <2>4 DEF Rewake, Posting
    <3>2. QED
      BY <2>4, <3>1 DEF Rewake
  <2>5. ASSUME NEW t \in Threads, Spurious(t)
        PROVE  CountIsOutstandingWork'
    <3>1. Posting' = Posting
      BY <2>5 DEF Spurious, Posting
    <3>2. QED
      BY <2>5, <3>1 DEF Spurious
  <2>6. ASSUME NEW t \in Threads, Add(t)
        PROVE  CountIsOutstandingWork'
    <3>1. Posting' = Posting
      BY <2>6 DEF Add, Posting
    <3>2. QED
      BY <2>6, <3>1 DEF Add
  <2>7. ASSUME NEW t \in Threads, Post(t)
        PROVE  CountIsOutstandingWork'
    <3>1. t \in Posting /\ Posting' = Posting \ {t}
      BY <2>7 DEF Post, Posting
    <3>2. QED
      BY <2>7, <3>1, FS_RemoveElement DEF Post
  <2>8. ASSUME NEW t \in Threads, Notify(t)
        PROVE  CountIsOutstandingWork'
    <3>1. Posting' = Posting
      BY <2>8 DEF Notify, Posting
    <3>2. QED
      BY <2>8, <3>1 DEF Notify
  <2>9. ASSUME NEW t \in Threads, Block(t)
        PROVE  CountIsOutstandingWork'
    <3>1. Posting' = Posting
      BY <2>9 DEF Block, Posting
    <3>2. QED
      BY <2>9, <3>1 DEF Block
  <2>10. ASSUME NEW t \in Threads, Return(t)
         PROVE  CountIsOutstandingWork'
    <3>1. Posting' = Posting
      BY <2>10 DEF Return, Posting
    <3>2. QED
      BY <2>10, <3>1 DEF Return
  <2>11. CASE UNCHANGED vars
    BY <2>11 DEF vars, Posting
  <2>12. QED
    BY <2>1, <2>2, <2>3, <2>4, <2>5, <2>6, <2>7, <2>8, <2>9, <2>10, <2>11 DEF Next, Run
<1>3. QED
  BY <1>1, <1>2, Typing, PTL DEF Spec

-----------------------------------------------------------------------------
\* Wait lets a thread go only when no work is outstanding, and no Post takes
\* the count below zero.
THEOREM ImplementsLatch == Spec => LatchSpec
<1>1. Init => Gate!Init
  BY DEF Init, Gate!Init, Held
<1>2. TypeOK /\ CountIsOutstandingWork /\ [Next]_vars => [Gate!Next]_(Gate!latchVars)
  <2> SUFFICES ASSUME TypeOK, CountIsOutstandingWork, [Next]_vars
               PROVE  [Gate!Next]_(Gate!latchVars)
    OBVIOUS
  <2> USE DEF TypeOK, Goto, Labels, Methods
  <2>1. ASSUME NEW t \in Threads, EnterAdd(t)
        PROVE  [Gate!Next]_(Gate!latchVars)
    <3>1. Held' = Held /\ count' = count
      BY <2>1 DEF EnterAdd, Held
    <3>2. QED
      BY <3>1 DEF Gate!latchVars
  <2>2. ASSUME NEW t \in Threads, EnterPost(t)
        PROVE  [Gate!Next]_(Gate!latchVars)
    <3>1. Held' = Held /\ count' = count
      BY <2>2 DEF EnterPost, Held
    <3>2. QED
      BY <3>1 DEF Gate!latchVars
  <2>3. ASSUME NEW t \in Threads, EnterWait(t)
        PROVE  [Gate!Next]_(Gate!latchVars)
    <3>1. t \notin Held /\ Held' = Held \cup {t} /\ count' = count
      BY <2>3 DEF EnterWait, Held
    <3>2. QED
      BY <3>1 DEF Gate!Next, Gate!Arrive
  <2>4. ASSUME NEW t \in Threads, Rewake(t)
        PROVE  [Gate!Next]_(Gate!latchVars)
    <3>1. Held' = Held /\ count' = count
      BY <2>4 DEF Rewake, Held
    <3>2. QED
      BY <3>1 DEF Gate!latchVars
  <2>5. ASSUME NEW t \in Threads, Spurious(t)
        PROVE  [Gate!Next]_(Gate!latchVars)
    <3>1. Held' = Held /\ count' = count
      BY <2>5 DEF Spurious, Held
    <3>2. QED
      BY <3>1 DEF Gate!latchVars
  <2>6. ASSUME NEW t \in Threads, Add(t)
        PROVE  [Gate!Next]_(Gate!latchVars)
    <3>1. Held' = Held /\ count' = count + 1
      BY <2>6 DEF Add, Held
    <3>2. QED
      BY <3>1 DEF Gate!Next, Gate!Announce
  <2>7. ASSUME NEW t \in Threads, Post(t)
        PROVE  [Gate!Next]_(Gate!latchVars)
    <3>1. Held' = Held /\ count' = count - 1
      BY <2>7 DEF Post, Held
    <3>2. count > 0
      <4>1. t \in Posting
        BY <2>7 DEF Post, Posting
      <4>2. IsFiniteSet(Posting) /\ Cardinality(Posting) # 0
        BY <4>1, PostingFinite, FS_EmptySet
      <4>3. QED
        BY <4>2, PostingFinite DEF CountIsOutstandingWork, TypeOK
    <3>3. QED
      BY <3>1, <3>2 DEF Gate!Next, Gate!Report
  <2>8. ASSUME NEW t \in Threads, Notify(t)
        PROVE  [Gate!Next]_(Gate!latchVars)
    <3>1. Held' = Held /\ count' = count
      BY <2>8 DEF Notify, Held
    <3>2. QED
      BY <3>1 DEF Gate!latchVars
  <2>9. ASSUME NEW t \in Threads, Block(t)
        PROVE  [Gate!Next]_(Gate!latchVars)
    <3>1. Held' = Held /\ count' = count
      BY <2>9 DEF Block, Held
    <3>2. QED
      BY <3>1 DEF Gate!latchVars
  <2>10. ASSUME NEW t \in Threads, Return(t)
         PROVE  [Gate!Next]_(Gate!latchVars)
    <3>1. t \in Held /\ Held' = Held \ {t} /\ count' = count /\ count = 0
      BY <2>10 DEF Return, Held
    <3>2. QED
      BY <3>1 DEF Gate!Next, Gate!Leave
  <2>11. CASE UNCHANGED vars
    BY <2>11 DEF vars, Held, Gate!latchVars
  <2>12. QED
    BY <2>1, <2>2, <2>3, <2>4, <2>5, <2>6, <2>7, <2>8, <2>9, <2>10, <2>11 DEF Next, Run
<1>3. QED
  BY <1>1, <1>2, Typing, CountIsExact, PTL DEF Spec, LatchSpec, Gate!Spec

-----------------------------------------------------------------------------
\* Only a thread that calls Wait is ever inside it.
WaitersWait == \A t \in Threads : t \in waiting \/ pc[t] \in {"Wait", "wait"} => t \in Waiters

\* It is an invariant.
LEMMA Roles == Spec => []WaitersWait
<1>1. Init => WaitersWait
  BY DEF Init, MonitorInit, WaitersWait
<1>2. TypeOK /\ WaitersWait /\ [Next]_vars => WaitersWait'
  <2> SUFFICES ASSUME TypeOK, WaitersWait, [Next]_vars
               PROVE  WaitersWait'
    OBVIOUS
  <2> USE DEF TypeOK, MonitorTypeOK, WaitersWait, Goto, Methods, Labels
  <2>1. ASSUME NEW t \in Threads, EnterAdd(t)
        PROVE  WaitersWait'
    BY <2>1 DEF EnterAdd, Lock
  <2>2. ASSUME NEW t \in Threads, EnterPost(t)
        PROVE  WaitersWait'
    BY <2>2 DEF EnterPost, Lock
  <2>3. ASSUME NEW t \in Threads, EnterWait(t)
        PROVE  WaitersWait'
    BY <2>3 DEF EnterWait, Lock
  <2>4. ASSUME NEW t \in Threads, Rewake(t)
        PROVE  WaitersWait'
    BY <2>4 DEF Rewake, Lock
  <2>5. ASSUME NEW t \in Threads, Spurious(t)
        PROVE  WaitersWait'
    BY <2>5 DEF Spurious, SpuriousWakeup
  <2>6. ASSUME NEW t \in Threads, Add(t)
        PROVE  WaitersWait'
    BY <2>6 DEF Add, Unlock
  <2>7. ASSUME NEW t \in Threads, Post(t)
        PROVE  WaitersWait'
    BY <2>7 DEF Post, Unlock
  <2>8. ASSUME NEW t \in Threads, Notify(t)
        PROVE  WaitersWait'
    BY <2>8 DEF Notify, NotifyOne
  <2>9. ASSUME NEW t \in Threads, Block(t)
        PROVE  WaitersWait'
    BY <2>9 DEF Block, Wait, Unlock
  <2>10. ASSUME NEW t \in Threads, Return(t)
         PROVE  WaitersWait'
    BY <2>10 DEF Return, Unlock
  <2>11. CASE UNCHANGED vars
    BY <2>11 DEF vars
  <2>12. QED
    BY <2>1, <2>2, <2>3, <2>4, <2>5, <2>6, <2>7, <2>8, <2>9, <2>10, <2>11 DEF Next, Run
<1>3. QED
  BY <1>1, <1>2, Typing, PTL DEF Spec

\* While the only waiter sleeps at a count of zero, a Post has still to notify.
THEOREM SoleWaiterIsSafe == Spec => []SoleWaiterIsTold
<1>1. Init => SoleWaiterIsTold
  BY DEF Init, MonitorInit, SoleWaiterIsTold
<1>2. TypeOK /\ WaitersWait /\ CountIsOutstandingWork /\ SoleWaiterIsTold /\ [Next]_vars => SoleWaiterIsTold'
  <2> SUFFICES ASSUME TypeOK, WaitersWait, CountIsOutstandingWork, SoleWaiterIsTold,
                      [Next]_vars
               PROVE  SoleWaiterIsTold'
    OBVIOUS
  <2> USE DEF TypeOK, MonitorTypeOK, WaitersWait, SoleWaiterIsTold, Goto, Methods, Labels
  <2>1. ASSUME NEW t \in Threads, EnterAdd(t)
        PROVE  SoleWaiterIsTold'
    BY <2>1 DEF EnterAdd, Lock
  <2>2. ASSUME NEW t \in Threads, EnterPost(t)
        PROVE  SoleWaiterIsTold'
    BY <2>2 DEF EnterPost, Lock
  <2>3. ASSUME NEW t \in Threads, EnterWait(t)
        PROVE  SoleWaiterIsTold'
    BY <2>3 DEF EnterWait, Lock
  <2>4. ASSUME NEW t \in Threads, Rewake(t)
        PROVE  SoleWaiterIsTold'
    BY <2>4 DEF Rewake, Lock
  <2>5. ASSUME NEW t \in Threads, Spurious(t)
        PROVE  SoleWaiterIsTold'
    BY <2>5 DEF Spurious, SpuriousWakeup
  <2>6. ASSUME NEW t \in Threads, Add(t)
        PROVE  SoleWaiterIsTold'
    <3>1. count >= 0
      BY PostingFinite DEF CountIsOutstandingWork
    <3>2. count' # 0
      BY <2>6, <3>1 DEF Add
    <3>3. QED
      BY <3>2
  <2>7. ASSUME NEW t \in Threads, Post(t)
        PROVE  SoleWaiterIsTold'
    BY <2>7 DEF Post, Unlock
  <2>8. ASSUME NEW t \in Threads, Notify(t)
        PROVE  SoleWaiterIsTold'
    BY <2>8 DEF Notify, NotifyOne
  <2>9. ASSUME NEW t \in Threads, Block(t)
        PROVE  SoleWaiterIsTold'
    BY <2>9 DEF Block, Wait, Unlock
  <2>10. ASSUME NEW t \in Threads, Return(t)
         PROVE  SoleWaiterIsTold'
    BY <2>10 DEF Return, Unlock
  <2>11. CASE UNCHANGED vars
    BY <2>11 DEF vars
  <2>12. QED
    BY <2>1, <2>2, <2>3, <2>4, <2>5, <2>6, <2>7, <2>8, <2>9, <2>10, <2>11 DEF Next, Run
<1>3. QED
  BY <1>1, <1>2, Typing, Roles, CountIsExact, PTL DEF Spec
=============================================================================
