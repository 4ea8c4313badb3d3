------------------------------ MODULE Notification ------------------------------
(***************************************************************************)
(* GTSL::Notification (Semaphore.h), on an Atomic<uint32> and a            *)
(* ConditionVariable: a latch like Semaphore, but nothing joins the test   *)
(* of the count to the wait.  Every waiter brings a mutex of its own, so   *)
(* no lock is ever contended and none is modelled; that several threads    *)
(* wait with different mutexes POSIX leaves undefined, and here it works.  *)
(***************************************************************************)
EXTENDS Naturals

CONSTANTS
  Waiters,    \* the threads that call Wait
  Workers,    \* the threads that call Add and Post
  MaxAdds     \* bound on the number of calls of Add

VARIABLES
  count,      \* Atomic<uint32> count
  pc,         \* where each thread is: "idle", "tested" between the test of the count and
              \* the wait, "wait", or "notify" for a Post that has counted
  waiting,    \* the threads blocked in cv.Wait
  adds,       \* the number of calls of Add
  overtaken   \* history: threads that were past the test when a Post notified

vars == <<count, pc, waiting, adds, overtaken>>

Init ==
  /\ count = 0
  /\ pc = [t \in Waiters \cup Workers |-> "idle"]
  /\ waiting = {} /\ adds = 0 /\ overtaken = {}

Goto(t, label) == pc' = [pc EXCEPT ![t] = label]

Add(t) ==
  /\ pc[t] = "idle" /\ adds < MaxAdds
  /\ count' = count + 1 /\ adds' = adds + 1
  /\ UNCHANGED <<pc, waiting, overtaken>>

Tested == {t \in Waiters : pc[t] = "tested"}

\* Post belongs to an Add; it counts, ...
Post(t) ==
  /\ pc[t] = "idle" /\ count > 0
  /\ count' = count - 1
  /\ Goto(t, "notify")
  /\ UNCHANGED <<waiting, adds, overtaken>>

\* Mutant: one waiter is notified.
NotifyAnyone(t) ==
  /\ pc[t] = "notify"
  /\ \/ waiting = {} /\ waiting' = {}
     \/ \E w \in waiting : waiting' = waiting \ {w}
  /\ overtaken' = overtaken \cup Tested
  /\ Goto(t, "idle")
  /\ UNCHANGED <<count, adds>>

\* ... and then notifies all.
NotifyAll(t) ==
  /\ pc[t] = "notify"
  /\ waiting' = {} /\ overtaken' = overtaken \cup Tested
  /\ Goto(t, "idle")
  /\ UNCHANGED <<count, adds>>

\* Wait returns at once when the count is zero.
Test(t) ==
  /\ pc[t] = "idle" /\ count # 0
  /\ Goto(t, "tested")
  /\ UNCHANGED <<count, waiting, adds, overtaken>>

Sleep(t) ==
  /\ pc[t] = "tested"
  /\ Goto(t, "wait") /\ waiting' = waiting \cup {t}
  /\ UNCHANGED <<count, adds, overtaken>>

\* Wait does not look at the count again.
Return(t) ==
  /\ pc[t] = "wait" /\ t \notin waiting
  /\ Goto(t, "idle") /\ overtaken' = overtaken \ {t}
  /\ UNCHANGED <<count, waiting, adds>>

Spurious(t) ==
  /\ t \in waiting
  /\ waiting' = waiting \ {t}
  /\ UNCHANGED <<count, pc, adds, overtaken>>

Next ==
  \/ \E t \in Workers : Add(t) \/ Post(t) \/ NotifyAll(t)
  \/ \E t \in Waiters : Test(t) \/ Sleep(t) \/ Return(t) \/ Spurious(t)

Spec == Init /\ [][Next]_vars

-----------------------------------------------------------------------------
\* A thread that sleeps at zero will be told by a Post that is about to notify, unless a
\* Post notified between its test and its wait: that gap is the only way to sleep on.
OnlyTheGapIsMissed ==
  \A t \in waiting : count = 0 => t \in overtaken \/ \E w \in Workers : pc[w] = "notify"
=============================================================================
