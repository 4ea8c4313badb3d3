-------------------------------- MODULE KeyMap --------------------------------
(***************************************************************************)
(* GTSL::KeyMap, the specialization HashMap<K, void> of HashMap.hpp: a set *)
(* of keys.  Unlike HashMap, it appends to its buckets without order, and  *)
(* Emplace does not look for the key first, so a key may be held twice.    *)
(***************************************************************************)
EXTENDS Naturals, FiniteSets, SequencesExt

CONSTANTS
  Keys,         \* the keys, as 64-bit numbers
  Sizes,        \* the sizes given to the constructor, not 0; the default constructor
                \* leaves no buckets and is left out
  MaxCount,     \* bound: tables of this many buckets do not grow any more
  MaxCalls      \* bound on the number of calls of Emplace

VARIABLES
  count,        \* bucketCount
  capacity,     \* bucketCapacity
  buckets,      \* the buckets, each a sequence of keys
  calls         \* history: how often each key was passed to Emplace

vars == <<count, capacity, buckets, calls>>

NextPowerOfTwo(n) ==
  LET power[i \in 0..n] == IF i = 0 THEN 1 ELSE 2 * power[i - 1]
  IN  CHOOSE p \in {power[i] : i \in 0..n} : n <= p /\ p < 2 * n

Init ==
  /\ \E size \in Sizes : count = NextPowerOfTwo(size)
  /\ capacity = 4
  /\ buckets = [b \in 0..count - 1 |-> << >>]
  /\ calls = [k \in Keys |-> 0]

\* resize: every key moves to its bucket among twice as many.
Rehash(n) ==
  LET keys == FlattenSeq([i \in 1..count |-> buckets[i - 1]])
      upTo[i \in 0..Len(keys)] ==
        IF i = 0 THEN [b \in 0..n - 1 |-> << >>]
        ELSE [upTo[i - 1] EXCEPT ![keys[i] % n] = Append(@, keys[i])]
  IN  upTo[Len(keys)]

\* Emplace into a bucket with room.
AppendKey(k) ==
  /\ Len(buckets[k % count]) + 1 <= capacity
  /\ buckets' = [buckets EXCEPT ![k % count] = Append(@, k)]
  /\ UNCHANGED <<count, capacity>>

\* Mutant: doubles the buckets, not their capacity.
GrowWide(k) ==
  /\ Len(buckets[k % count]) + 1 > capacity
  /\ count < MaxCount
  /\ count' = 2 * count
  /\ buckets' = [Rehash(count') EXCEPT ![k % count'] = Append(@, k)]
  /\ UNCHANGED capacity

\* Emplace into a full bucket.
Grow(k) ==
  /\ Len(buckets[k % count]) + 1 > capacity
  /\ count < MaxCount
  /\ count' = 2 * count
  /\ capacity' = 2 * capacity
  /\ buckets' = [Rehash(count') EXCEPT ![k % count'] = Append(@, k)]

Emplace(k) ==
  /\ SumFunction(calls) < MaxCalls
  /\ AppendKey(k) \/ Grow(k)
  /\ calls' = [calls EXCEPT ![k] = @ + 1]

Next == \E k \in Keys : Emplace(k)

Spec == Init /\ [][Next]_vars

Find(k) == Contains(buckets[k % count], k)

-----------------------------------------------------------------------------
\* Find reports exactly the keys that were emplaced, before and after any
\* number of resizes; the table holds one entry per call of Emplace; and no
\* bucket is written beyond its capacity, although the same key may be
\* emplaced any number of times and a resize does not separate copies.
FindsWhatWasEmplaced ==
  /\ \A b \in 0..count - 1 : Len(buckets[b]) <= capacity
  /\ \A k \in Keys :
       LET all == FlattenSeq([i \in 1..count |-> buckets[i - 1]])
       IN  /\ Find(k) <=> calls[k] > 0
           /\ Cardinality({i \in 1..Len(all) : all[i] = k}) = calls[k]
=============================================================================
