------------------------------- MODULE Monitor -------------------------------
(***************************************************************************)
(* A Mutex (Mutex.h) together with the one ConditionVariable that is       *)
(* waited on with it (ConditionVariable.h).  BlockingQueue and Semaphore   *)
(* are each built on one such pair, so both extend this module.            *)
(*                                                                         *)
(* The Mutex is a recursive pthread mutex / CRITICAL_SECTION.  None of the *)
(* clients locks it again while holding it, so the recursion depth is not  *)
(* kept here: it never exceeds one.                                        *)
(***************************************************************************)
CONSTANTS
  Threads,    \* the threads that share the monitor
  NoThread    \* the owner of a free mutex

ASSUME NoThreadAssumption == NoThread \notin Threads

VARIABLES
  owner,      \* the thread that holds the mutex, or NoThread
  waiting     \* the threads blocked in ConditionVariable::Wait

monitorVars == <<owner, waiting>>

MonitorTypeOK ==
  /\ owner \in Threads \cup {NoThread}
  /\ waiting \subseteq Threads

MonitorInit ==
  /\ owner = NoThread
  /\ waiting = {}

\* Mutex::Lock returns, and a TryLock that returns true.
Lock(t) ==
  /\ owner = NoThread
  /\ owner' = t

\* Mutex::Unlock.
Unlock(t) ==
  /\ owner = t
  /\ owner' = NoThread

\* Mutex::TryLock returns false: another thread holds the mutex.
TryLockFails(t) == owner \notin {t, NoThread}

\* ConditionVariable::Wait blocks: it frees the mutex and starts to wait in
\* one step.  Before it returns, the thread locks the mutex again.
Wait(t) ==
  /\ Unlock(t)
  /\ waiting' = waiting \cup {t}

\* pthread_cond_wait and SleepConditionVariableCS may also return when nobody
\* has notified (a spurious wakeup).
SpuriousWakeup(t) ==
  /\ t \in waiting
  /\ waiting' = waiting \ {t}

\* ConditionVariable::NotifyOne: some waiter, if there is one, is woken.
NotifyOne ==
  IF waiting = {} THEN UNCHANGED waiting
                  ELSE \E t \in waiting : waiting' = waiting \ {t}

\* ConditionVariable::NotifyAll.
NotifyAll == waiting' = {}
=============================================================================
