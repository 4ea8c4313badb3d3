--------------------------- MODULE MCBlockingQueue ---------------------------
(* An instance of BlockingQueue for TLC.                                   *)
EXTENDS BlockingQueue

CONSTANTS p, c1, c2

\* Two workers, and one thread that uses every method that does not wait.
Roles ==
  [t \in Threads |-> IF t = p THEN Methods \ {"Pop"} ELSE {"Pop", "Done"}]
=============================================================================
