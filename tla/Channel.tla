------------------------------- MODULE Channel -------------------------------
(***************************************************************************)
(* What BlockingQueue.h promises its callers: an unbounded first-in        *)
(* first-out channel that can be closed.  Every item accepted is handed to *)
(* exactly one receiver, in the order in which the items were accepted.    *)
(* Closing does not make the channel refuse items: it only lets a receiver *)
(* that finds the channel empty give up instead of waiting.                *)
(***************************************************************************)
EXTENDS Naturals, Sequences

CONSTANT Items

VARIABLES
  sent,       \* the items accepted so far, in order
  received,   \* the items handed to receivers so far, in order
  closed

channelVars == <<sent, received, closed>>

Init ==
  /\ sent = << >>
  /\ received = << >>
  /\ closed = FALSE

Send ==
  /\ \E i \in Items : sent' = Append(sent, i)
  /\ UNCHANGED <<received, closed>>

Receive ==
  /\ Len(received) < Len(sent)
  /\ received' = Append(received, sent[Len(received) + 1])
  /\ UNCHANGED <<sent, closed>>

Close ==
  /\ closed' = TRUE
  /\ UNCHANGED <<sent, received>>

Next == Send \/ Receive \/ Close

Spec == Init /\ [][Next]_channelVars
=============================================================================
