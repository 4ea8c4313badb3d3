------------------------------ MODULE Semaphore ------------------------------
(***************************************************************************)
(* GTSL::Semaphore (Semaphore.h): in spite of its name a latch that counts *)
(* outstanding work.  Add announces a piece of work, Post reports one      *)
(* finished, and Wait blocks until none is outstanding.                    *)
(*                                                                         *)
(* pc[t] is "idle", a method name inside that method's critical section,   *)
(* "wait" inside cv.Wait, or "notify" for a Post that has left its         *)
(* critical section and not yet called cv.NotifyOne.                       *)
(***************************************************************************)
EXTENDS Integers, FiniteSets, Monitor

CONSTANTS
  Waiters,    \* the threads that call Wait
  Workers,    \* the threads that call Add and Post
  Initial,    \* the count given to the constructor
  MaxAdds     \* bound on the number of calls of Add

\* Semaphore(count) asserts that count is more than -1.
ASSUME CountAssumption == Initial \in Nat /\ MaxAdds \in Nat
ASSUME ThreadsAssumption == IsFiniteSet(Threads)
ASSUME RoleAssumption == Waiters \subseteq Threads /\ Workers \subseteq Threads

VARIABLES
  count,      \* int32 count
  pc,         \* where each thread is
  tasks,      \* pieces of work announced whose Post has not started
  adds        \* the number of calls of Add so far

vars == <<owner, waiting, count, pc, tasks, adds>>

Methods == {"Add", "Post", "Wait"}
Labels == Methods \cup {"idle", "wait", "notify"}

\* The values the variables range over.
TypeOK ==
  /\ MonitorTypeOK
  /\ count \in Int
  /\ pc \in [Threads -> Labels]
  /\ tasks \in Nat
  /\ adds \in 0..MaxAdds

Init ==
  /\ MonitorInit
  /\ count = Initial
  /\ pc = [t \in Threads |-> "idle"]
  /\ tasks = Initial
  /\ adds = 0

Goto(t, label) == pc' = [pc EXCEPT ![t] = label]

\* t calls a method and gets the lock.  A Post belongs to a piece of work
\* that was announced before.
EnterAdd(t) ==
  /\ pc[t] = "idle"
  /\ t \in Workers
  /\ adds < MaxAdds
  /\ Lock(t)
  /\ Goto(t, "Add")
  /\ adds' = adds + 1
  /\ UNCHANGED <<waiting, count, tasks>>

EnterPost(t) ==
  /\ pc[t] = "idle"
  /\ t \in Workers
  /\ tasks > 0
  /\ Lock(t)
  /\ Goto(t, "Post")
  /\ tasks' = tasks - 1
  /\ UNCHANGED <<waiting, count, adds>>

EnterWait(t) ==
  /\ pc[t] = "idle"
  /\ t \in Waiters
  /\ Lock(t)
  /\ Goto(t, "Wait")
  /\ UNCHANGED <<waiting, count, tasks, adds>>

\* Mutant: forgets to count.
AddNothing(t) ==
  /\ pc[t] = "Add"
  /\ tasks' = tasks + 1
  /\ Unlock(t)
  /\ Goto(t, "idle")
  /\ UNCHANGED <<waiting, count, adds>>

\* The critical section of Add.
Add(t) ==
  /\ pc[t] = "Add"
  /\ count' = count + 1
  /\ tasks' = tasks + 1
  /\ Unlock(t)
  /\ Goto(t, "idle")
  /\ UNCHANGED <<waiting, adds>>

\* Mutant: forgets to notify.
PostSilently(t) ==
  /\ pc[t] = "Post"
  /\ count' = count - 1
  /\ Unlock(t)
  /\ Goto(t, "idle")
  /\ UNCHANGED <<waiting, tasks, adds>>

\* The critical section of Post, and the notification after it, which every
\* Post makes, whatever the count.
Post(t) ==
  /\ pc[t] = "Post"
  /\ count' = count - 1
  /\ Unlock(t)
  /\ Goto(t, "notify")
  /\ UNCHANGED <<waiting, tasks, adds>>

Notify(t) ==
  /\ pc[t] = "notify"
  /\ NotifyOne
  /\ Goto(t, "idle")
  /\ UNCHANGED <<owner, count, tasks, adds>>

\* Mutant: an `if' in place of the `while' around cv.Wait.
ReturnAlways(t) ==
  /\ pc[t] = "Wait"
  /\ Unlock(t)
  /\ Goto(t, "idle")
  /\ UNCHANGED <<waiting, count, tasks, adds>>

\* The critical section of Wait: while (count != 0) cv.Wait(lock).
Block(t) ==
  /\ pc[t] = "Wait"
  /\ count # 0
  /\ Wait(t)
  /\ Goto(t, "wait")
  /\ UNCHANGED <<count, tasks, adds>>

Return(t) ==
  /\ pc[t] = "Wait"
  /\ count = 0
  /\ Unlock(t)
  /\ Goto(t, "idle")
  /\ UNCHANGED <<waiting, count, tasks, adds>>

\* cv.Wait returns with the mutex locked again.
Rewake(t) ==
  /\ pc[t] = "wait"
  /\ t \notin waiting
  /\ Lock(t)
  /\ Goto(t, "Wait")
  /\ UNCHANGED <<waiting, count, tasks, adds>>

Spurious(t) ==
  /\ SpuriousWakeup(t)
  /\ UNCHANGED <<owner, count, pc, tasks, adds>>

Run(t) == Add(t) \/ Post(t) \/ Notify(t) \/ Block(t) \/ Return(t)

Next ==
  \E t \in Threads :
    \/ EnterAdd(t) \/ EnterPost(t) \/ EnterWait(t)
    \/ Rewake(t) \/ Spurious(t) \/ Run(t)

Spec == Init /\ [][Next]_vars

\* Announced work is done and reported; the lock is granted, in the end, to
\* a thread that keeps asking for it; a thread that runs keeps running.
Fairness ==
  \A t \in Threads : /\ WF_vars(Run(t))
                     /\ SF_vars(Rewake(t))
                     /\ SF_vars(EnterPost(t))

FairSpec == Spec /\ Fairness

-----------------------------------------------------------------------------
\* The count is the work announced and not yet reported: it never drops
\* below zero, where Wait could not return any more.
Posting == {t \in Threads : pc[t] = "Post"}
CountIsOutstandingWork == count = tasks + Cardinality(Posting)

\* The Post that brings the count to zero has yet to notify while the only
\* waiter sleeps: NotifyOne after the critical section comes early enough.
\* (A second waiter may sleep on at zero: one Post wakes one thread.)
SoleWaiterIsTold ==
  \A w \in Threads :
    Waiters = {w} /\ w \in waiting /\ count = 0 =>
      \E t \in Threads : pc[t] = "notify"

\* The only waiter returns from Wait after the last piece of work is
\* reported, through any number of wakeups that come too early.
WaitReturns ==
  \A w \in Waiters :
    Waiters = {w} => (pc[w] = "wait" ~> pc[w] = "idle")

-----------------------------------------------------------------------------
\* Wait is a latch: it lets a thread go only when no work is outstanding.
\* A thread is at the latch from the time it has the lock.
Held == {t \in Threads : pc[t] \in {"Wait", "wait"}}
Gate == INSTANCE Latch WITH outstanding <- count, inside <- Held
LatchSpec == Gate!Spec
=============================================================================
