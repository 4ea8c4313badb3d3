------------------------------- MODULE HashMap -------------------------------
(***************************************************************************)
(* GTSL::HashMap (HashMap.hpp).  The table is an array of buckets; each    *)
(* bucket holds up to `capacity' hashes in ascending order and, in a       *)
(* separate array, the values in the same order.  A full bucket doubles    *)
(* both the number of buckets and their capacity.                          *)
(*                                                                         *)
(* Keys appear as their 64-bit hashes, which is all the table stores; the  *)
(* hash of an integer is the integer.  Sequences count from 1 where the    *)
(* arrays count from 0.                                                    *)
(***************************************************************************)
EXTENDS Naturals, SequencesExt

CONSTANTS
  Hashes,       \* the hashes of the keys in use
  Values,
  Sizes,        \* the sizes given to the constructor
  LoadFactors,  \* the load factors given to it, as <<numerator, denominator>>
  MaxCount      \* bound: tables of this many buckets do not grow any more

ASSUME HashAssumption == Hashes \subseteq Nat
ASSUME LoadAssumption == LoadFactors \subseteq Nat \X (Nat \ {0})
\* NextPowerOfTwo(0) is 0, from which the constructor's doubling never leaves.
ASSUME SizeAssumption == Sizes \subseteq Nat \ {0} /\ MaxCount \in Nat

VARIABLES
  table,        \* [count, capacity, keys, values]
  cursor,       \* an Iterator, or Idle
  seen          \* the hashes that cursor has come past, in order

vars == <<table, cursor, seen>>

Idle == [bucket |-> 0, element |-> 0]

-----------------------------------------------------------------------------
(* The table.                                                              *)

\* ModuloByPowerOf2: key & (size - 1), with size a power of two.
BucketOf(h, count) == h % count

\* The power of two that is n or the next after it.
NextPowerOfTwo(n) ==
  LET power[i \in 0..n] == IF i = 0 THEN 1 ELSE 2 * power[i - 1]
  IN  CHOOSE p \in {power[i] : i \in 0..n} : n <= p /\ p < 2 * n

Empty(count, capacity) ==
  [count    |-> count,
   capacity |-> capacity,
   keys     |-> [b \in 0..count - 1 |-> << >>],
   values   |-> [b \in 0..count - 1 |-> << >>]]

\* The constructors: a capacity that comes out as zero is replaced, once the
\* number of buckets is doubled, by half of that number.
Construct(count, capacity) ==
  IF capacity = 0 THEN Empty(2 * count, count) ELSE Empty(count, capacity)

\* Mutant: always at the end.
LastPosition(bucket, h) == Len(bucket) + 1

\* The position of the first hash greater than h, or the end.
Position(bucket, h) ==
  CHOOSE i \in 1..Len(bucket) + 1 :
    /\ \A j \in 1..i - 1 : bucket[j] <= h
    /\ i <= Len(bucket) => bucket[i] > h

\* The loop of Emplace and of resize: a search and two InsertElements.
InsertPair(t, h, v) ==
  LET b == BucketOf(h, t.count)
      i == Position(t.keys[b], h)
  IN  [t EXCEPT !.keys[b] = InsertAt(@, i, h),
                !.values[b] = InsertAt(@, i, v)]

\* The inner loop of resize: the pairs of one bucket.
InsertPairs(t, hashes, values) ==
  LET upTo[i \in 0..Len(hashes)] ==
        IF i = 0 THEN t ELSE InsertPair(upTo[i - 1], hashes[i], values[i])
  IN  upTo[Len(hashes)]

\* Mutant: the buckets are copied without being split.
ResizeInPlace(t) ==
  LET n == 2 * t.count
      Old(f, b) == IF b < t.count THEN f[b] ELSE << >>
  IN  [count    |-> n,
       capacity |-> 2 * t.capacity,
       keys     |-> [b \in 0..n - 1 |-> Old(t.keys, b)],
       values   |-> [b \in 0..n - 1 |-> Old(t.values, b)]]

\* resize: every pair moves to a table with twice the buckets and capacity.
Resize(t) ==
  LET upTo[b \in 0..t.count] ==
        IF b = 0 THEN Empty(2 * t.count, 2 * t.capacity)
        ELSE InsertPairs(upTo[b - 1], t.keys[b - 1], t.values[b - 1])
  IN  upTo[t.count]

\* The copy constructor copies keys from and to the word before the first
\* key, where the length is: the last key of each bucket stays uninitialized.
Copies(t) ==
  LET Copied(bucket, last) == IF bucket = << >> THEN << >> ELSE Append(Front(bucket), last)
  IN  {[t EXCEPT !.keys = [b \in DOMAIN t.keys |-> Copied(t.keys[b], last[b])]] :
        last \in [DOMAIN t.keys -> Hashes]}

-----------------------------------------------------------------------------
(* Look-up.                                                                *)

\* findKeyInBucket gives up at the first greater hash.
Find(t, h) ==
  LET bucket == t.keys[BucketOf(h, t.count)]
  IN  \E i \in 1..Len(bucket) :
        /\ bucket[i] = h
        /\ \A j \in 1..i : bucket[j] <= h

\* getIndexForKeyInBucket looks at all of the bucket; 0 when h is not there.
IndexOf(t, h) ==
  SelectInSeq(t.keys[BucketOf(h, t.count)], LAMBDA k : k = h)

Has(t, h) == IndexOf(t, h) # 0

-----------------------------------------------------------------------------
(* Operations.                                                             *)

Init ==
  /\ \E size \in Sizes :
       LET count == NextPowerOfTwo(size)
       IN  \/ table = Construct(count, count \div 2)
           \/ \E f \in LoadFactors :
                table = Construct(count, (count * f[1]) \div f[2])
  /\ cursor = Idle
  /\ seen = << >>

\* Any change of the table ends an iteration: its iterator is not used again.
Invalidate == cursor' = Idle /\ seen' = << >>

Full(t, h) == Len(t.keys[BucketOf(h, t.count)]) + 1 > t.capacity

\* Emplace, which asserts that the key is not there.
Emplace(h, v) ==
  /\ ~Find(table, h)
  /\ Full(table, h) => table.count < MaxCount
  /\ table' = InsertPair(IF Full(table, h) THEN Resize(table) ELSE table, h, v)
  /\ Invalidate

\* TryEmplace of a key that is there, and all look-ups, change nothing.  When
\* it is not there, TryEmplace and EmplaceOrUpdate call Emplace.
TryEmplace(h, v) ==
  /\ ~Has(table, h)
  /\ Emplace(h, v)

\* EmplaceOrUpdate of a key that is there, and an assignment through the
\* reference that At, operator[] or TryGet return.
Update(h, v) ==
  /\ Has(table, h)
  /\ table' = [table EXCEPT !.values[BucketOf(h, table.count)][IndexOf(table, h)] = v]
  /\ UNCHANGED <<cursor, seen>>

\* Mutant: pops the last value with the key's hash.
RemoveLastValue(h) ==
  /\ Has(table, h)
  /\ LET b == BucketOf(h, table.count)
         i == IndexOf(table, h)
     IN  table' = [table EXCEPT !.keys[b] = RemoveAt(@, i),
                                !.values[b] = Front(@)]
  /\ Invalidate

\* Remove asserts that the key is there.
RemoveKey(h) ==
  /\ Has(table, h)
  /\ LET b == BucketOf(h, table.count)
         i == IndexOf(table, h)
     IN  table' = [table EXCEPT !.keys[b] = RemoveAt(@, i),
                                !.values[b] = RemoveAt(@, i)]
  /\ Invalidate

\* Clear keeps the buckets.
Clear ==
  /\ table' = Empty(table.count, table.capacity)
  /\ Invalidate

-----------------------------------------------------------------------------
(* Iteration.  Element 0 of a cursor stands for 0xFFFFFFFF, which ++ takes *)
(* to the first element.                                                   *)

End(t) == [bucket |-> t.count, element |-> 0]

\* Mutant: tries only the next bucket.
NextBucketOnly(t, b) ==
  IF b < t.count /\ t.keys[b] # << >> THEN [bucket |-> b, element |-> 1] ELSE End(t)

\* The first element of the first bucket from b on that has one, or the end.
FirstFrom(t, b) ==
  LET used == {c \in b..t.count - 1 : t.keys[c] # << >>}
  IN  IF used = {} THEN End(t) ELSE [bucket |-> Min(used), element |-> 1]

\* The element that a cursor inside the table stands on.
Current(t, c) == t.keys[c.bucket][c.element]

\* begin(), and the first element it stands on.
Begin ==
  /\ cursor = Idle
  /\ cursor' = FirstFrom(table, 0)
  /\ seen' = << >>
  /\ UNCHANGED table

\* operator++.
Advance ==
  /\ cursor \notin {Idle, End(table)}
  /\ seen' = Append(seen, Current(table, cursor))
  /\ cursor' = IF cursor.element + 1 <= Len(table.keys[cursor.bucket])
               THEN [cursor EXCEPT !.element = @ + 1]
               ELSE FirstFrom(table, cursor.bucket + 1)
  /\ UNCHANGED table

Next ==
  \/ \E h \in Hashes, v \in Values : TryEmplace(h, v) \/ Update(h, v)
  \/ \E h \in Hashes : RemoveKey(h)
  \/ Clear
  \/ Begin
  \/ Advance

Spec == Init /\ [][Next]_vars

-----------------------------------------------------------------------------
(* Serialization: Insert writes a table to a stream, and Extract reads it  *)
(* into a table that exists.                                               *)

\* Mutant: writes the values of a bucket before its keys.
InsertSwapped(t) ==
  LET upTo[b \in 0..t.count] ==
        IF b = 0 THEN <<t.count, t.capacity>>
        ELSE upTo[b - 1] \o <<Len(t.keys[b - 1])>> \o t.values[b - 1] \o t.keys[b - 1]
  IN  upTo[t.count]

Insert(t) ==
  LET upTo[b \in 0..t.count] ==
        IF b = 0 THEN <<t.count, t.capacity>>
        ELSE upTo[b - 1] \o <<Len(t.keys[b - 1])>> \o t.keys[b - 1] \o t.values[b - 1]
  IN  upTo[t.count]

\* Extract goes through as many buckets as the stream says and stores each in the
\* target's bucket of the same number; it keeps the count and the capacity of the
\* target.  at[b] is the stream position of bucket b's length.
Extract(target, s) ==
  LET at[b \in 0..s[1]] == IF b = 0 THEN 3 ELSE at[b - 1] + 2 * s[at[b - 1]] + 1
      n(b) == s[at[b]]
      Stored(old, b, from) == IF b < s[1] THEN SubSeq(s, from + 1, from + n(b)) ELSE old
  IN  [count    |-> target.count,
       capacity |-> target.capacity,
       keys     |-> [b \in DOMAIN target.keys |-> Stored(target.keys[b], b, at[b])],
       values   |-> [b \in DOMAIN target.values |-> Stored(target.values[b], b, at[b] + n(b))]]

\* Empty tables that Extract stays within the memory of when it reads what Insert
\* wrote of t: as many buckets or twice as many, each with room for the longest of t.
\* With fewer buckets or less room it writes beyond the target's memory.
Targets(t) ==
  {Empty(m * t.count, c) : m \in {1, 2},
     c \in {d \in 1..MaxCount : \A b \in 0..t.count - 1 : Len(t.keys[b]) <= d}}

-----------------------------------------------------------------------------
(* Properties.                                                             *)

\* The shape of the table and of the iterator.
TypeOK ==
  /\ table.count \in Nat \ {0} /\ table.capacity \in Nat \ {0}
  /\ table.keys \in [0..table.count - 1 -> Seq(Hashes)]
  /\ table.values \in [0..table.count - 1 -> Seq(Values)]
  /\ cursor \in [bucket : 0..table.count, element : Nat]
  /\ seen \in Seq(Hashes)

\* No bucket is written beyond its part of the allocation, also right after
\* a resize that leaves all of a full bucket together (Emplace).
BucketsFit ==
  \A b \in 0..table.count - 1 :
    /\ Len(table.keys[b]) <= table.capacity
    /\ Len(table.values[b]) = Len(table.keys[b])

\* Find, which stops early, and TryGet, which does not, agree about every
\* key: buckets stay sorted, and every hash stays in its bucket.
LookupsAgree == \A h \in Hashes : Find(table, h) <=> Has(table, h)

\* A key is reported present exactly when some bucket holds its hash, no hash is
\* held twice, and every bucket fits: a resize strands nothing and spills nothing.
NothingStranded ==
  /\ BucketsFit
  /\ \A h \in Hashes :
       LET places == {p \in UNION {{b} \X DOMAIN table.keys[b] : b \in 0..table.count - 1} :
                        table.keys[p[1]][p[2]] = h}
       IN  IF Has(table, h) THEN \E p \in places : places = {p} ELSE places = {}

\* An iteration that has reached end() has come past every hash exactly once.
IterationIsComplete ==
  cursor = End(table) =>
    /\ ToSet(seen) = {h \in Hashes : Has(table, h)}
    /\ \A i, j \in 1..Len(seen) : seen[i] = seen[j] => i = j

\* What Insert writes, Extract reads back, whatever the capacity of the target is, if
\* the target has as many buckets as the writer; in a target with more of them exactly
\* those keys are found whose bucket has the same number in both.
RoundTrip ==
  \A target \in Targets(table) :
    LET read == Extract(target, Insert(table))
    IN  \A h \in Hashes :
          /\ Has(read, h) <=>
               Has(table, h) /\ BucketOf(h, read.count) = BucketOf(h, table.count)
          /\ Has(read, h) =>
               read.values[BucketOf(h, read.count)][IndexOf(read, h)] =
                 table.values[BucketOf(h, table.count)][IndexOf(table, h)]

\* A key that was emplaced can be read from a copy of the table: At asserts
\* that there is an element with that key.
CopyHasEveryKey ==
  \A copy \in Copies(table), h \in Hashes : Has(table, h) => Has(copy, h)

\* The contents of the table, as a dictionary.
Contents ==
  [h \in {g \in Hashes : Has(table, g)} |->
     table.values[BucketOf(h, table.count)][IndexOf(table, h)]]

Dict == INSTANCE Dictionary WITH store <- Contents

\* HashMap behaves as a finite map from hashes to values: an emplacement,
\* update or removal changes the one entry it is about, also through resizes.
DictionarySpec == Dict!Spec
=============================================================================
