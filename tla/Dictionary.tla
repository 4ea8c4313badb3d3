----------------------------- MODULE Dictionary ------------------------------
(***************************************************************************)
(* What HashMap.hpp promises: a finite map.  Its index is the hash of the  *)
(* key, not the key, since a HashMap stores nothing else of a key.         *)
(***************************************************************************)
CONSTANTS
  Hashes,     \* the hashes of the keys in use
  Values

VARIABLE store      \* a function from the hashes present to values

Init == store = [h \in {} |-> CHOOSE v \in Values : TRUE]

Put(h, v) ==
  store' = [g \in DOMAIN store \cup {h} |-> IF g = h THEN v ELSE store[g]]

Delete(h) ==
  /\ h \in DOMAIN store
  /\ store' = [g \in DOMAIN store \ {h} |-> store[g]]

Clear == store' = [h \in {} |-> CHOOSE v \in Values : TRUE]

Next ==
  \/ \E h \in Hashes, v \in Values : Put(h, v)
  \/ \E h \in Hashes : Delete(h)
  \/ Clear

Spec == Init /\ [][Next]_store
=============================================================================
