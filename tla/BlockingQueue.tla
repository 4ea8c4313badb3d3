---------------------------- MODULE BlockingQueue ----------------------------
(***************************************************************************)
(* GTSL::BlockingQueue (BlockingQueue.h): a std::queue guarded by a Mutex, *)
(* a ConditionVariable `ready' on which Pop waits, and two flags.  `done'  *)
(* is set by End; `working' is set by every successful Pop or TryPop and   *)
(* cleared by Done and End.                                                *)
(*                                                                         *)
(* Each thread is at one place of one call.  pc[t] is                      *)
(*   "idle"        outside every method (or still contending for the lock, *)
(*                 which has no effect until the lock is granted),         *)
(*   a method name inside that method's critical section,                  *)
(*   "wait"        inside ready.Wait(mutex), called by Pop,                *)
(*   "notifyOne"   a push that has left its critical section,              *)
(*   "notifyAll"   an End that has left its critical section.              *)
(***************************************************************************)
EXTENDS Naturals, Sequences, FiniteSets, Monitor

CONSTANTS
  Items,      \* the items; each is pushed at most once, so they tell the
              \* calls apart and bound the number of pushes
  May         \* May[t] is the set of methods that thread t calls

Methods == {"Push", "TryPush", "Pop", "TryPop", "Done", "End", "Query"}

ASSUME ThreadsAssumption == IsFiniteSet(Threads)
ASSUME MayAssumption == May \in [Threads -> SUBSET Methods]

VARIABLES
  queue,      \* std::queue<T> queue
  done,       \* bool done
  working,    \* bool working
  pc,         \* where each thread is
  ret,        \* ret[t]: what t's last bool-returning call returned
  busy,       \* busy[t]: t has taken an item and not called Done since
  pushed,     \* history: the items accepted, in order
  popped      \* history: the items taken, in order

vars == <<owner, waiting, queue, done, working, pc, ret, busy, pushed, popped>>

Labels == Methods \cup {"idle", "wait", "notifyOne", "notifyAll"}

\* The values the variables range over.
TypeOK ==
  /\ MonitorTypeOK
  /\ queue \in Seq(Items)
  /\ done \in BOOLEAN
  /\ working \in BOOLEAN
  /\ pc \in [Threads -> Labels]
  /\ ret \in [Threads -> BOOLEAN]
  /\ busy \in [Threads -> BOOLEAN]
  /\ pushed \in Seq(Items)
  /\ popped \in Seq(Items)

\* The constructor.
Init ==
  /\ MonitorInit
  /\ queue = << >>
  /\ done = FALSE
  /\ working = FALSE
  /\ pc = [t \in Threads |-> "idle"]
  /\ ret = [t \in Threads |-> TRUE]
  /\ busy = [t \in Threads |-> FALSE]
  /\ pushed = << >>
  /\ popped = << >>

Goto(t, label) == pc' = [pc EXCEPT ![t] = label]
Return(t, value) == ret' = [ret EXCEPT ![t] = value]

\* The items not pushed yet.  A push starts only while there is one: this
\* bounds the number of pushes.
Fresh == {i \in Items : \A k \in 1..Len(pushed) : pushed[k] # i}

-----------------------------------------------------------------------------
(* Entering and leaving the critical sections.                             *)

\* t calls m and gets the lock.  Done is called by a thread that has taken
\* an item and not yet reported it done.
Enter(t, m) ==
  /\ pc[t] = "idle"
  /\ m \in May[t]
  /\ m = "Done" => busy[t]
  /\ m \in {"Push", "TryPush"} => Fresh # {}
  /\ Lock(t)
  /\ Goto(t, m)
  /\ UNCHANGED <<waiting, queue, done, working, ret, busy, pushed, popped>>

\* TryPush or TryPop finds the mutex held by another thread.
TryFails(t) ==
  /\ pc[t] = "idle"
  /\ May[t] \cap {"TryPush", "TryPop"} # {}
  /\ TryLockFails(t)
  /\ Return(t, FALSE)
  /\ UNCHANGED <<owner, waiting, queue, done, working, pc, busy, pushed, popped>>

\* queue.push and queue.emplace: an item goes to the back of the queue.
Accept ==
  \E i \in Fresh :
    /\ queue' = Append(queue, i)
    /\ pushed' = Append(pushed, i)

\* The push releases the lock; its notification is a later step.
PushItem(t) ==
  /\ Accept
  /\ Unlock(t)
  /\ Goto(t, "notifyOne")

\* Mutant: notifies only when the queue was empty before the push.
PushNotifiesFirstOnly(t) ==
  /\ pc[t] = "Push"
  /\ Accept
  /\ Unlock(t)
  /\ Goto(t, IF queue = << >> THEN "notifyOne" ELSE "idle")
  /\ UNCHANGED <<waiting, done, working, ret, busy, popped>>

\* The critical section of both overloads of Push.
Push(t) ==
  /\ pc[t] = "Push"
  /\ PushItem(t)
  /\ UNCHANGED <<waiting, done, working, ret, busy, popped>>

\* The critical section of TryPush: refused while `working'.
TryPush(t) ==
  /\ pc[t] = "TryPush"
  /\ \/ /\ working
        /\ Unlock(t)
        /\ Goto(t, "idle")
        /\ Return(t, FALSE)
        /\ UNCHANGED <<queue, pushed>>
     \/ /\ ~working
        /\ PushItem(t)
        /\ Return(t, TRUE)
  /\ UNCHANGED <<waiting, done, working, busy, popped>>

\* ready.NotifyOne() after a push.
NotifyPushed(t) ==
  /\ pc[t] = "notifyOne"
  /\ NotifyOne
  /\ Goto(t, "idle")
  /\ UNCHANGED <<owner, queue, done, working, ret, busy, pushed, popped>>

\* Mutants: takes the newest item; leaves the item in the queue.
RemoveBack ==
  /\ popped' = Append(popped, queue[Len(queue)])
  /\ queue' = SubSeq(queue, 1, Len(queue) - 1)
CopyFront ==
  /\ popped' = Append(popped, Head(queue))
  /\ UNCHANGED queue

\* queue.front() and queue.pop().
RemoveFront ==
  /\ popped' = Append(popped, Head(queue))
  /\ queue' = Tail(queue)

\* The front item is moved out, `working' is set and the lock released.
TakeFront(t) ==
  /\ queue # << >>
  /\ RemoveFront
  /\ working' = TRUE
  /\ busy' = [busy EXCEPT ![t] = TRUE]
  /\ Unlock(t)
  /\ Goto(t, "idle")
  /\ Return(t, TRUE)

\* The critical section of Pop, entered when Pop is called and again each
\* time ready.Wait returns.
PopWaits(t) ==
  /\ pc[t] = "Pop"
  /\ queue = << >>
  /\ ~done
  /\ Wait(t)
  /\ Goto(t, "wait")
  /\ UNCHANGED <<queue, done, working, ret, busy, pushed, popped>>

\* Mutant: an `if' in place of the `while' around ready.Wait.
PopGivesUpEmpty(t) ==
  /\ pc[t] = "Pop"
  /\ queue = << >>
  /\ Unlock(t)
  /\ Goto(t, "idle")
  /\ Return(t, FALSE)
  /\ UNCHANGED <<waiting, queue, done, working, busy, pushed, popped>>

PopGivesUp(t) ==
  /\ pc[t] = "Pop"
  /\ queue = << >>
  /\ done
  /\ Unlock(t)
  /\ Goto(t, "idle")
  /\ Return(t, FALSE)
  /\ UNCHANGED <<waiting, queue, done, working, busy, pushed, popped>>

PopTakes(t) ==
  /\ pc[t] = "Pop"
  /\ TakeFront(t)
  /\ UNCHANGED <<waiting, done, pushed>>

\* ready.Wait returns: woken, with the mutex locked again.
Rewake(t) ==
  /\ pc[t] = "wait"
  /\ t \notin waiting
  /\ Lock(t)
  /\ Goto(t, "Pop")
  /\ UNCHANGED <<waiting, queue, done, working, ret, busy, pushed, popped>>

Spurious(t) ==
  /\ SpuriousWakeup(t)
  /\ UNCHANGED <<owner, queue, done, working, pc, ret, busy, pushed, popped>>

\* The critical section of TryPop.
TryPop(t) ==
  /\ pc[t] = "TryPop"
  /\ \/ /\ queue = << >>
        /\ Unlock(t)
        /\ Goto(t, "idle")
        /\ Return(t, FALSE)
        /\ UNCHANGED <<queue, working, busy, popped>>
     \/ TakeFront(t)
  /\ UNCHANGED <<waiting, done, pushed>>

\* The critical section of Done.
Done(t) ==
  /\ pc[t] = "Done"
  /\ working' = FALSE
  /\ busy' = [busy EXCEPT ![t] = FALSE]
  /\ Unlock(t)
  /\ Goto(t, "idle")
  /\ UNCHANGED <<waiting, queue, done, ret, pushed, popped>>

\* The critical section of End, and the notification after it.
End(t) ==
  /\ pc[t] = "End"
  /\ done' = TRUE
  /\ working' = FALSE
  /\ Unlock(t)
  /\ Goto(t, "notifyAll")
  /\ UNCHANGED <<waiting, queue, ret, busy, pushed, popped>>

\* Mutant: NotifyOne in place of NotifyAll.
NotifyEndedOne(t) ==
  /\ pc[t] = "notifyAll"
  /\ NotifyOne
  /\ Goto(t, "idle")
  /\ UNCHANGED <<owner, queue, done, working, ret, busy, pushed, popped>>

NotifyEnded(t) ==
  /\ pc[t] = "notifyAll"
  /\ NotifyAll
  /\ Goto(t, "idle")
  /\ UNCHANGED <<owner, queue, done, working, ret, busy, pushed, popped>>

\* IsEmpty and GetSize only read, but they hold the lock while they do.
Query(t) ==
  /\ pc[t] = "Query"
  /\ Unlock(t)
  /\ Goto(t, "idle")
  /\ UNCHANGED <<waiting, queue, done, working, ret, busy, pushed, popped>>

\* What a thread does once it has the lock, or has released it: these steps
\* wait for nobody.
Run(t) ==
  \/ Push(t) \/ TryPush(t) \/ NotifyPushed(t)
  \/ PopWaits(t) \/ PopGivesUp(t) \/ PopTakes(t) \/ TryPop(t)
  \/ Done(t) \/ End(t) \/ NotifyEnded(t) \/ Query(t)

Next ==
  \E t \in Threads :
    \/ \E m \in Methods : Enter(t, m)
    \/ TryFails(t)
    \/ Rewake(t)
    \/ Spurious(t)
    \/ Run(t)

Spec == Init /\ [][Next]_vars

\* The lock is granted, in the end, to a thread that keeps asking for it; a
\* thread that runs keeps running; a worker, that is a thread that calls Pop,
\* calls it again as long as it returns true.
Fairness ==
  \A t \in Threads :
    /\ WF_vars(Run(t))
    /\ SF_vars(Rewake(t))
    /\ SF_vars(Enter(t, "Pop") /\ ret[t])

FairSpec == Spec /\ Fairness

-----------------------------------------------------------------------------
(* Safety.                                                                 *)

\* Nothing pushed is lost, duplicated or overtaken: what was accepted is what
\* was taken followed by what is still in the queue (Push, TryPush, Pop,
\* TryPop, from any number of threads).
FIFO == pushed = popped \o queue

\* Threads that will look at the queue, or make a waiter look at it, without
\* any further call: pushes about to notify, and Pops that are awake.
Committed ==
  {t \in Threads : \/ pc[t] \in {"notifyOne", "Pop"}
                   \/ pc[t] = "wait" /\ t \notin waiting}

\* No wakeup is lost although NotifyOne is called after the lock is released:
\* while somebody waits, there is at least one committed thread per item.
NoLostWakeup == waiting # {} => Len(queue) <= Cardinality(Committed)

\* A waiter that does not know yet of End is about to be told: the broadcast
\* that follows the critical section of End is still to come.
EndReachesWaiters ==
  done /\ waiting # {} => \E t \in Threads : pc[t] = "notifyAll"

\* `working' never outlives the work: when TryPush refuses because of it,
\* some thread has an item it has not reported Done.
WorkingMeansBusy == working => \E t \in Threads : busy[t]

\* Who may be inside a critical section, and where waiters are.
LockDiscipline ==
  \A t \in Threads : /\ pc[t] \in Methods <=> owner = t
                     /\ t \in waiting => pc[t] = "wait"

\* The queue is a closable FIFO channel.
Chan == INSTANCE Channel WITH sent <- pushed, received <- popped, closed <- done
ChannelSpec == Chan!Spec

-----------------------------------------------------------------------------
(* Liveness, under FairSpec and with at least one worker.                  *)

\* What is accepted before End is taken, also when End comes before the
\* workers get to it: a worker's Pop fails only once the queue is drained.
AcceptedIsTaken ==
  \A n \in 1..Cardinality(Items) :
    (Len(pushed) >= n /\ ~done) ~> (Len(popped) >= n)

\* After End no Pop stays blocked.
PopReturnsAfterEnd ==
  \A t \in Threads : (done /\ pc[t] = "wait") ~> (pc[t] = "idle")
=============================================================================
