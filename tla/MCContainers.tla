----------------------------- MODULE MCContainers ----------------------------
(***************************************************************************)
(* One instance for TLC of the containers that are proved about one by     *)
(* one: HashMap, Vector, FixedVector and DoubleAllocator share no state,   *)
(* so each behaviour exercises one of them, the one in focus, while the    *)
(* others rest in one of their initial states.                             *)
(***************************************************************************)
EXTENDS HashMap, Vector, FixedVector, DoubleAllocator

\* One quarter is small enough to give a table a capacity of zero.
QuarterOrOne == {<<1, 4>>, <<1, 1>>}

VARIABLE focus  \* the container whose methods are called

ContainersInit ==
  /\ focus \in {"HashMap", "Vector", "FixedVector", "DoubleAllocator"}
  /\ Init /\ VectorInit /\ FixedInit /\ AllocatorInit
  /\ focus # "HashMap" => table = Construct(2, 1)
  /\ focus # "Vector" => ~allocated
  /\ focus # "FixedVector" => slotCount = 0

\* Only the container in focus changes.
OthersRest ==
  /\ focus # "HashMap" => UNCHANGED vars
  /\ focus # "Vector" => UNCHANGED vectorVars
  /\ focus # "FixedVector" => UNCHANGED fixedVars
  /\ focus # "DoubleAllocator" => UNCHANGED allocatorVars

ContainersNext ==
  /\ \/ focus = "HashMap" /\ Next
     \/ focus = "Vector" /\ VectorNext
     \/ focus = "FixedVector" /\ FixedNext
     \/ focus = "DoubleAllocator" /\ AllocatorNext
  /\ OthersRest
  /\ UNCHANGED focus

ContainersSpec ==
  ContainersInit /\ [][ContainersNext]_<<focus, vars, vectorVars, fixedVars, allocatorVars>>
=============================================================================
