-------------------------------- MODULE Latch --------------------------------
(***************************************************************************)
(* What Semaphore.h promises: threads that arrive are held until no work   *)
(* is outstanding.                                                         *)
(***************************************************************************)
EXTENDS Integers

CONSTANTS
  Threads,
  Initial     \* the work outstanding at the start

VARIABLES
  outstanding,    \* pieces of work announced and not reported
  inside          \* the threads held at the latch

latchVars == <<outstanding, inside>>

Init ==
  /\ outstanding = Initial
  /\ inside = {}

Announce ==
  /\ outstanding' = outstanding + 1
  /\ UNCHANGED inside

Report ==
  /\ outstanding > 0
  /\ outstanding' = outstanding - 1
  /\ UNCHANGED inside

Arrive(t) ==
  /\ t \notin inside
  /\ inside' = inside \cup {t}
  /\ UNCHANGED outstanding

Leave(t) ==
  /\ t \in inside
  /\ outstanding = 0
  /\ inside' = inside \ {t}
  /\ UNCHANGED outstanding

Next ==
  \/ Announce
  \/ Report
  \/ \E t \in Threads : Arrive(t) \/ Leave(t)

Spec == Init /\ [][Next]_latchVars
=============================================================================
