----------------------------- MODULE HashMapProofs ----------------------------
(***************************************************************************)
(* Proofs about HashMap, for any hashes, values, sizes and load factors    *)
(* and any bound on the number of buckets: the table is a finite map, its  *)
(* two look-ups agree, no resize loses or spills an entry, an iteration    *)
(* comes past every entry once.                                            *)
(*                                                                         *)
(* The loops of the model are recursive functions.  What such a function   *)
(* computes is proved by induction on the set of the numbers up to which   *)
(* it does so (Induction below).                                           *)
(***************************************************************************)
EXTENDS HashMap, Integers, SequenceTheorems, FiniteSetTheorems, TLAPS

-----------------------------------------------------------------------------
(* Natural numbers.                                                        *)

LEMMA Least ==
  ASSUME NEW T, T \subseteq Nat, T # {}
  PROVE  \E n \in T : \A m \in T : n <= m
<1> DEFINE less == {p \in Nat \X Nat : p[1] < p[2]}
<1>1. IsWellFoundedOn(less, Nat)
  BY NatLessThanWellFounded DEF OpToRel
<1>2. ASSUME NEW y \in Nat, NEW x \in Nat, y < x
      PROVE  <<y, x>> \in less
  <2>1. <<y, x>> \in Nat \X Nat /\ <<y, x>>[1] = y /\ <<y, x>>[2] = x
    OBVIOUS
  <2> QED BY <2>1, <1>2
<1> HIDE DEF less
<1>3. PICK x \in T : \A y \in T : ~ (<<y, x>> \in less)
  BY <1>1, WFMin
<1>4. ASSUME NEW y \in T PROVE x <= y
  <2>1. y \in Nat /\ x \in Nat
    OBVIOUS
  <2>2. ~ (y < x)
    BY <1>2, <1>3, <2>1
  <2> QED BY <2>1, <2>2
<1> QED BY <1>4

LEMMA Induction ==
  ASSUME NEW T, 0 \in T, \A n \in Nat : n \in T => n + 1 \in T
  PROVE  Nat \subseteq T
<1> SUFFICES ASSUME ~ (Nat \subseteq T) PROVE FALSE
  OBVIOUS
<1>1. PICK n \in Nat \ T : \A m \in Nat \ T : n <= m
  BY Least
<1>2. n # 0
  OBVIOUS
<1>3. n - 1 \in Nat /\ n - 1 < n /\ (n - 1) + 1 = n
  BY <1>2
<1>4. n - 1 \in T
  BY <1>1, <1>3
<1> QED BY <1>1, <1>3, <1>4

\* The same for the numbers up to a bound.
LEMMA InductionUpTo ==
  ASSUME NEW N \in Nat, NEW T, 0 \in T, \A n \in 0..N - 1 : n \in T => n + 1 \in T
  PROVE  0..N \subseteq T
<1> DEFINE U == {n \in Nat : n <= N => n \in T}
<1>1. 0 \in U
  OBVIOUS
<1>2. ASSUME NEW n \in Nat, n \in U PROVE n + 1 \in U
  <2>1. n + 1 \in Nat
    OBVIOUS
  <2>2. ASSUME n + 1 <= N PROVE n + 1 \in T
    BY <1>2, <2>2
  <2> QED BY <2>1, <2>2
<1> HIDE DEF U
<1>3. Nat \subseteq U
  BY <1>1, <1>2, Induction
<1> QED BY <1>3 DEF U

LEMMA Division ==
  ASSUME NEW h \in Nat, NEW n \in Nat \ {0}
  PROVE  /\ h \div n \in Nat /\ h % n \in 0..n - 1
         /\ h = n * (h \div n) + (h % n)
OBVIOUS

LEMMA Remainder ==
  ASSUME NEW h \in Nat, NEW n \in Nat \ {0}, NEW q \in Nat, NEW r \in 0..n - 1,
         h = n * q + r
  PROVE  h % n = r
OBVIOUS

\* A bucket splits into two when the number of buckets doubles.
LEMMA Split ==
  ASSUME NEW h \in Nat, NEW n \in Nat \ {0}
  PROVE  (h % (2 * n)) % n = h % n
<1> DEFINE m == 2 * n
           q == h \div m
           r == h % m
<1>1. m \in Nat \ {0}
  OBVIOUS
<1>2. h = m * q + r /\ q \in Nat /\ r \in 0..m - 1
  BY <1>1, Division
<1> HIDE DEF q, r
<1>3. CASE r < n
  <2>1. r % n = r
    BY <1>2, <1>3
  <2>2. h = n * (2 * q) + r /\ 2 * q \in Nat /\ r \in 0..n - 1
    BY <1>2, <1>3
  <2> QED BY <2>1, <2>2, Remainder DEF r
<1>4. CASE r >= n
  <2>1. r = n * 1 + (r - n) /\ r - n \in 0..n - 1 /\ r \in Nat
    BY <1>2, <1>4
  <2>2. r % n = r - n
    BY <2>1, Remainder
  <2>3. h = n * (2 * q + 1) + (r - n) /\ 2 * q + 1 \in Nat
    BY <1>2
  <2>4. h % n = r - n
    BY <2>1, <2>3, Remainder
  <2> QED BY <2>2, <2>4 DEF r
<1> QED BY <1>2, <1>3, <1>4

-----------------------------------------------------------------------------
(* Sequences.                                                              *)

\* The parts of a sequence up to i and from j on.
LEMMA Parts ==
  ASSUME NEW S, NEW s \in Seq(S), NEW i \in 0..Len(s), NEW j \in 1..Len(s) + 1
  PROVE  /\ SubSeq(s, 1, i) \in Seq(S) /\ Len(SubSeq(s, 1, i)) = i
         /\ \A k \in 1..i : SubSeq(s, 1, i)[k] = s[k]
         /\ SubSeq(s, j, Len(s)) \in Seq(S) /\ Len(SubSeq(s, j, Len(s))) = Len(s) - j + 1
         /\ \A k \in 1..Len(s) - j + 1 : SubSeq(s, j, Len(s))[k] = s[j + k - 1]
<1>1. Len(s) \in Nat /\ \A k \in 1..Len(s) : s[k] \in S
  BY ElementOfSeq, LenProperties
<1>2. /\ SubSeq(s, 1, i) \in Seq(S) /\ Len(SubSeq(s, 1, i)) = i
      /\ \A k \in 1..i : SubSeq(s, 1, i)[k] = s[k]
  BY <1>1, SubSeqProperties
<1>3. \A k \in j..Len(s) : s[k] \in S
  BY <1>1
<1>4. /\ SubSeq(s, j, Len(s)) \in Seq(S)
      /\ Len(SubSeq(s, j, Len(s))) = IF j <= Len(s) THEN Len(s) - j + 1 ELSE 0
      /\ \A k \in 1..Len(s) - j + 1 : SubSeq(s, j, Len(s))[k] = s[j + k - 1]
  BY <1>1, <1>3, SubSeqProperties
<1> QED BY <1>1, <1>2, <1>4

\* Two sequences, one after the other.
LEMMA Concatenation ==
  ASSUME NEW S, NEW a \in Seq(S), NEW b \in Seq(S)
  PROVE  /\ a \o b \in Seq(S) /\ Len(a \o b) = Len(a) + Len(b)
         /\ \A k \in 1..Len(a) : (a \o b)[k] = a[k]
         /\ \A k \in 1..Len(b) : (a \o b)[Len(a) + k] = b[k]
<1>1. /\ a \o b \in Seq(S) /\ Len(a \o b) = Len(a) + Len(b)
      /\ \A k \in 1..Len(a) + Len(b) : (a \o b)[k] = IF k <= Len(a) THEN a[k] ELSE b[k - Len(a)]
      /\ Len(a) \in Nat /\ Len(b) \in Nat
  BY ConcatProperties, LenProperties
<1>2. ASSUME NEW k \in 1..Len(a) PROVE (a \o b)[k] = a[k]
  BY <1>1
<1>3. ASSUME NEW k \in 1..Len(b) PROVE (a \o b)[Len(a) + k] = b[k]
  <2>1. Len(a) + k \in 1..Len(a) + Len(b) /\ ~(Len(a) + k <= Len(a)) /\ (Len(a) + k) - Len(a) = k
    BY <1>1
  <2> QED BY <1>1, <2>1
<1> QED BY <1>1, <1>2, <1>3

\* InsertElement.
LEMMA Insertion ==
  ASSUME NEW S, NEW s \in Seq(S), NEW i \in 1..Len(s) + 1, NEW e \in S
  PROVE  /\ InsertAt(s, i, e) \in Seq(S) /\ Len(InsertAt(s, i, e)) = Len(s) + 1
         /\ \A k \in 1..i - 1 : InsertAt(s, i, e)[k] = s[k]
         /\ InsertAt(s, i, e)[i] = e
         /\ \A k \in i..Len(s) : InsertAt(s, i, e)[k + 1] = s[k]
<1> DEFINE p == i - 1
           n == Len(s) - p
           a == SubSeq(s, 1, p)
           one == <<e>>
           m == a \o one
           b == SubSeq(s, i, Len(s))
           t == m \o b
<1>1. Len(s) \in Nat /\ p \in 0..Len(s) /\ p \in Nat /\ i = p + 1 /\ n \in Nat /\ 1 \in Nat
  BY LenProperties
<1>2. /\ a \in Seq(S) /\ Len(a) = p /\ \A k \in 1..p : a[k] = s[k]
      /\ b \in Seq(S) /\ Len(b) = n /\ \A k \in 1..n : b[k] = s[i + k - 1]
  BY <1>1, Parts
<1>3. one \in Seq(S) /\ Len(one) = 1 /\ one[1] = e /\ 1 \in 1..1
  OBVIOUS
<1>4. InsertAt(s, i, e) = t
  BY DEF InsertAt
<1> HIDE DEF a, b, one, p, n
<1>5. /\ m \in Seq(S) /\ Len(m) = i
      /\ \A k \in 1..p : m[k] = a[k]
      /\ m[i] = one[1]
  <2>0. a \in Seq(S) /\ one \in Seq(S)
    BY <1>2, <1>3
  <2>1. /\ a \o one \in Seq(S) /\ Len(a \o one) = Len(a) + Len(one)
        /\ \A k \in 1..Len(a) : (a \o one)[k] = a[k]
        /\ \A k \in 1..Len(one) : (a \o one)[Len(a) + k] = one[k]
    BY <2>0, Concatenation
  <2> QED BY <1>1, <1>2, <1>3, <2>1
<1> HIDE DEF m
<1>6. /\ t \in Seq(S) /\ Len(t) = i + n
      /\ \A k \in 1..i : t[k] = m[k]
      /\ \A k \in 1..n : t[i + k] = b[k]
  <2>0. m \in Seq(S) /\ b \in Seq(S)
    BY <1>2, <1>5
  <2>1. /\ m \o b \in Seq(S) /\ Len(m \o b) = Len(m) + Len(b)
        /\ \A k \in 1..Len(m) : (m \o b)[k] = m[k]
        /\ \A k \in 1..Len(b) : (m \o b)[Len(m) + k] = b[k]
    BY <2>0, Concatenation
  <2> QED BY <1>1, <1>2, <1>5, <2>1
<1> HIDE DEF t
<1>7. Len(t) = Len(s) + 1
  BY <1>1, <1>6 DEF n
<1>8. \A k \in 1..p : t[k] = s[k]
  BY <1>1, <1>2, <1>5, <1>6
<1>9. t[i] = e
  BY <1>1, <1>3, <1>5, <1>6
<1>10. ASSUME NEW k \in i..Len(s) PROVE t[k + 1] = s[k]
  <2>1. (k + 1) - i \in 1..n /\ i + ((k + 1) - i) = k + 1 /\ i + ((k + 1) - i) - 1 = k
    BY <1>1 DEF n
  <2> QED BY <1>2, <1>6, <2>1
<1> QED BY <1>4, <1>6, <1>7, <1>8, <1>9, <1>10 DEF p

\* PopElement.
LEMMA Removal ==
  ASSUME NEW S, NEW s \in Seq(S), NEW i \in 1..Len(s)
  PROVE  /\ RemoveAt(s, i) \in Seq(S) /\ Len(RemoveAt(s, i)) = Len(s) - 1
         /\ \A k \in 1..i - 1 : RemoveAt(s, i)[k] = s[k]
         /\ \A k \in i..Len(s) - 1 : RemoveAt(s, i)[k] = s[k + 1]
<1> DEFINE p == i - 1
           n == Len(s) - i
           a == SubSeq(s, 1, p)
           b == SubSeq(s, i + 1, Len(s))
           t == a \o b
<1>1. Len(s) \in Nat /\ p \in 0..Len(s) /\ p \in Nat /\ i = p + 1 /\ n \in Nat
      /\ i + 1 \in 1..Len(s) + 1
  BY LenProperties
<1>2. /\ a \in Seq(S) /\ Len(a) = p /\ \A k \in 1..p : a[k] = s[k]
      /\ b \in Seq(S) /\ Len(b) = n /\ \A k \in 1..n : b[k] = s[i + 1 + k - 1]
  BY <1>1, Parts
<1>3. RemoveAt(s, i) = t
  BY DEF RemoveAt
<1> HIDE DEF a, b, p, n
<1>4. /\ t \in Seq(S) /\ Len(t) = p + n
      /\ \A k \in 1..p : t[k] = a[k]
      /\ \A k \in 1..n : t[p + k] = b[k]
  <2>0. a \in Seq(S) /\ b \in Seq(S)
    BY <1>2
  <2>1. /\ a \o b \in Seq(S) /\ Len(a \o b) = Len(a) + Len(b)
        /\ \A k \in 1..Len(a) : (a \o b)[k] = a[k]
        /\ \A k \in 1..Len(b) : (a \o b)[Len(a) + k] = b[k]
    BY <2>0, Concatenation
  <2> QED BY <1>1, <1>2, <2>1
<1> HIDE DEF t
<1>5. Len(t) = Len(s) - 1
  BY <1>1, <1>4 DEF n
<1>6. \A k \in 1..p : t[k] = s[k]
  BY <1>2, <1>4
<1>7. ASSUME NEW k \in i..Len(s) - 1 PROVE t[k] = s[k + 1]
  <2>1. k - p \in 1..n /\ p + (k - p) = k /\ i + 1 + (k - p) - 1 = k + 1
    BY <1>1 DEF n
  <2>2. t[p + (k - p)] = b[k - p] /\ b[k - p] = s[i + 1 + (k - p) - 1]
    BY <1>2, <1>4, <2>1
  <2> QED BY <2>1, <2>2
<1> QED BY <1>3, <1>4, <1>5, <1>6, <1>7 DEF p

-----------------------------------------------------------------------------
(* One bucket.                                                             *)

Ascending(s) == \A i, j \in 1..Len(s) : i < j => s[i] < s[j]

\* The search of Emplace and resize stops between the smaller and the greater.
LEMMA PositionIs ==
  ASSUME NEW s \in Seq(Hashes), Ascending(s), NEW h \in Hashes,
         \A i \in 1..Len(s) : s[i] # h
  PROVE  /\ Position(s, h) \in 1..Len(s) + 1
         /\ \A j \in 1..Position(s, h) - 1 : s[j] < h
         /\ \A j \in Position(s, h)..Len(s) : s[j] > h
<1> DEFINE T == {i \in 1..Len(s) + 1 : i <= Len(s) => s[i] > h}
           Stops(i) == (\A j \in 1..i - 1 : s[j] <= h) /\ (i <= Len(s) => s[i] > h)
<1>0. Len(s) \in Nat /\ \A i \in 1..Len(s) : s[i] \in Hashes
  BY LenProperties, ElementOfSeq
<1>1. /\ Len(s) \in Nat /\ h \in Nat /\ Len(s) + 1 \in T
      /\ \A i \in 1..Len(s) : s[i] \in Nat
  <2>1. h \in Nat /\ \A i \in 1..Len(s) : s[i] \in Nat
    BY <1>0, HashAssumption
  <2>2. Len(s) + 1 \in 1..Len(s) + 1 /\ ~(Len(s) + 1 <= Len(s))
    BY <1>0
  <2>3. Len(s) + 1 \in T
    BY <2>2
  <2> QED BY <1>0, <2>1, <2>3
<1>2. T \subseteq Nat /\ T # {}
  BY <1>1
<1>3. PICK n \in T : \A m \in T : n <= m
  <2> HIDE DEF T
  <2> QED BY <1>2, Least
<1>4. n \in 1..Len(s) + 1 /\ Stops(n)
  <2>1. ASSUME NEW j \in 1..n - 1 PROVE s[j] <= h
    <3>1. j \in 1..Len(s) /\ j < n /\ j \in 1..Len(s) + 1
      BY <1>1, <1>3
    <3>2. j \notin T
      BY <1>1, <1>3, <3>1
    <3> QED BY <1>1, <3>1, <3>2
  <2> QED BY <1>3, <2>1
<1> DEFINE p == Position(s, h)
<1>5. p \in 1..Len(s) + 1 /\ Stops(p)
  BY <1>4 DEF Position
<1> HIDE DEF p
<1>6. ASSUME NEW j \in 1..p - 1 PROVE s[j] < h
  <2>1. j \in 1..Len(s)
    BY <1>1, <1>5
  <2> QED BY <1>1, <1>5, <2>1
<1>7. ASSUME NEW j \in p..Len(s) PROVE s[j] > h
  <2>1. /\ j \in 1..Len(s) /\ p \in 1..Len(s) /\ s[p] > h
    BY <1>1, <1>5
  <2>2. j = p \/ s[p] < s[j]
    BY <2>1 DEF Ascending
  <2> QED BY <1>1, <2>1, <2>2
<1> QED BY <1>5, <1>6, <1>7 DEF p

\* Every element of a sequence after an insertion, by where it was before.
LEMMA InsertionCases ==
  ASSUME NEW S, NEW s \in Seq(S), NEW i \in 1..Len(s) + 1, NEW e \in S,
         NEW k \in 1..Len(s) + 1
  PROVE  \/ k = i /\ InsertAt(s, i, e)[k] = e
         \/ k < i /\ k \in 1..Len(s) /\ InsertAt(s, i, e)[k] = s[k]
         \/ k > i /\ k - 1 \in 1..Len(s) /\ InsertAt(s, i, e)[k] = s[k - 1]
<1>0. Len(s) \in Nat
  BY LenProperties
<1>1. /\ \A j \in 1..i - 1 : InsertAt(s, i, e)[j] = s[j]
      /\ InsertAt(s, i, e)[i] = e
      /\ \A j \in i..Len(s) : InsertAt(s, i, e)[j + 1] = s[j]
  BY Insertion, SMTT(60)
<1>2. CASE k = i
  BY <1>1, <1>2
<1>3. CASE k < i
  <2>1. k \in 1..i - 1 /\ k \in 1..Len(s)
    BY <1>0, <1>3
  <2>2. InsertAt(s, i, e)[k] = s[k]
    BY <1>1, <2>1
  <2> QED BY <1>3, <2>1, <2>2
<1>4. CASE k > i
  <2>1. k - 1 \in i..Len(s) /\ k - 1 \in 1..Len(s) /\ (k - 1) + 1 = k
    BY <1>0, <1>4
  <2>2. InsertAt(s, i, e)[(k - 1) + 1] = s[k - 1]
    BY <1>1, <2>1
  <2> QED BY <1>4, <2>1, <2>2
<1> QED BY <1>0, <1>2, <1>3, <1>4

LEMMA AscendingInsertion ==
  ASSUME NEW s \in Seq(Hashes), Ascending(s), NEW h \in Hashes,
         \A i \in 1..Len(s) : s[i] # h
  PROVE  Ascending(InsertAt(s, Position(s, h), h))
<1> DEFINE p == Position(s, h)
           t == InsertAt(s, p, h)
<1>1. /\ p \in 1..Len(s) + 1
      /\ \A j \in 1..p - 1 : s[j] < h
      /\ \A j \in p..Len(s) : s[j] > h
  BY PositionIs
<1> HIDE DEF p
<1>2. /\ Len(s) \in Nat /\ h \in Nat
      /\ \A i \in 1..Len(s) : s[i] \in Nat
  BY HashAssumption, LenProperties, ElementOfSeq
<1>3. Len(t) = Len(s) + 1
  BY <1>1, Insertion
<1>4. \A k \in 1..Len(s) + 1 :
         \/ k = p /\ t[k] = h
         \/ k < p /\ k \in 1..Len(s) /\ t[k] = s[k]
         \/ k > p /\ k - 1 \in 1..Len(s) /\ t[k] = s[k - 1]
  BY <1>1, InsertionCases
<1> HIDE DEF t
<1>5. ASSUME NEW i \in 1..Len(s) + 1, NEW j \in 1..Len(s) + 1, i < j PROVE t[i] < t[j]
  <2>1. CASE i = p
    <3>1. j - 1 \in p..Len(s) /\ t[j] = s[j - 1]
      BY <1>1, <1>2, <1>4, <1>5, <2>1
    <3>2. t[i] = h
      BY <1>4, <2>1, <1>1
    <3> QED BY <1>1, <1>2, <3>1, <3>2
  <2>2. CASE i < p
    <3>1. i \in 1..p - 1 /\ i \in 1..Len(s) /\ t[i] = s[i]
      BY <1>1, <1>2, <1>4, <2>2
    <3>2. CASE j = p
      BY <1>1, <1>2, <1>4, <3>1, <3>2
    <3>3. CASE j < p
      <4>1. j \in 1..Len(s) /\ t[j] = s[j]
        BY <1>1, <1>2, <1>4, <3>3
      <4> QED BY <1>5, <3>1, <4>1 DEF Ascending
    <3>4. CASE j > p
      <4>1. j - 1 \in 1..Len(s) /\ t[j] = s[j - 1] /\ j - 1 \in p..Len(s)
        BY <1>1, <1>2, <1>4, <3>4
      <4>2. i < j - 1
        BY <1>1, <2>2, <3>4
      <4> QED BY <3>1, <4>1, <4>2 DEF Ascending
    <3> QED BY <1>1, <3>2, <3>3, <3>4
  <2>3. CASE i > p
    <3>1. /\ i - 1 \in 1..Len(s) /\ t[i] = s[i - 1]
          /\ j - 1 \in 1..Len(s) /\ t[j] = s[j - 1] /\ i - 1 < j - 1
      BY <1>1, <1>2, <1>4, <1>5, <2>3
    <3> QED BY <3>1 DEF Ascending
  <2> QED BY <1>1, <2>1, <2>2, <2>3
<1> QED BY <1>3, <1>5 DEF Ascending, t, p

LEMMA AscendingRemoval ==
  ASSUME NEW s \in Seq(Hashes), Ascending(s), NEW i \in 1..Len(s)
  PROVE  Ascending(RemoveAt(s, i))
<1> DEFINE t == RemoveAt(s, i)
<1>1. /\ Len(t) = Len(s) - 1 /\ Len(s) \in Nat
      /\ \A k \in 1..i - 1 : t[k] = s[k]
      /\ \A k \in i..Len(s) - 1 : t[k] = s[k + 1]
  BY Removal, LenProperties
<1> HIDE DEF t
<1>2. ASSUME NEW a \in 1..Len(s) - 1, NEW b \in 1..Len(s) - 1, a < b PROVE t[a] < t[b]
  <2>1. PICK c \in 1..Len(s) : t[a] = s[c] /\ c = IF a < i THEN a ELSE a + 1
    <3>1. CASE a < i
      BY <1>1, <3>1
    <3>2. CASE a >= i
      BY <1>1, <3>2
    <3> QED BY <3>1, <3>2
  <2>2. PICK d \in 1..Len(s) : t[b] = s[d] /\ d = IF b < i THEN b ELSE b + 1
    <3>1. CASE b < i
      BY <1>1, <3>1
    <3>2. CASE b >= i
      BY <1>1, <3>2
    <3> QED BY <3>1, <3>2
  <2>3. c < d
    BY <1>2, <2>1, <2>2
  <2> QED BY <2>1, <2>2, <2>3 DEF Ascending
<1> QED BY <1>1, <1>2 DEF Ascending, t

-----------------------------------------------------------------------------
(* Tables.                                                                 *)

Shape(t) ==
  /\ t.count \in Nat \ {0} /\ t.capacity \in Nat \ {0}
  /\ t \in [count    : Nat,
            capacity : Nat,
            keys     : [0..t.count - 1 -> Seq(Hashes)],
            values   : [0..t.count - 1 -> Seq(Values)]]

\* Buckets are in order, and every hash is in its bucket.
Arranged(t) ==
  \A b \in 0..t.count - 1 :
    /\ Len(t.values[b]) = Len(t.keys[b])
    /\ Ascending(t.keys[b])
    /\ \A i \in 1..Len(t.keys[b]) : BucketOf(t.keys[b][i], t.count) = b

\* The table holds h with the value v.
Entry(t, h, v) ==
  LET b == BucketOf(h, t.count)
  IN  \E i \in 1..Len(t.keys[b]) : t.keys[b][i] = h /\ t.values[b][i] = v

LEMMA Lengths ==
  ASSUME NEW t, Shape(t), Arranged(t), NEW b \in 0..t.count - 1
  PROVE  /\ t.keys[b] \in Seq(Hashes) /\ t.values[b] \in Seq(Values)
         /\ Len(t.keys[b]) \in Nat /\ Len(t.values[b]) = Len(t.keys[b])
         /\ \A i \in 1..Len(t.keys[b]) : t.keys[b][i] \in Hashes /\ t.values[b][i] \in Values
<1>1. t.keys[b] \in Seq(Hashes) /\ t.values[b] \in Seq(Values)
  BY DEF Shape
<1>2. Len(t.values[b]) = Len(t.keys[b])
  BY DEF Arranged
<1> QED BY <1>1, <1>2, LenProperties, ElementOfSeq

LEMMA BucketIs ==
  ASSUME NEW t, Shape(t), NEW h \in Hashes
  PROVE  BucketOf(h, t.count) \in 0..t.count - 1
<1>1. h \in Nat /\ t.count \in Nat \ {0}
  BY HashAssumption DEF Shape
<1> QED BY <1>1, Division DEF BucketOf

\* getIndexForKeyInBucket.
LEMMA IndexIs ==
  ASSUME NEW t, Shape(t), NEW h \in Hashes
  PROVE  LET b == BucketOf(h, t.count)
             i == IndexOf(t, h)
         IN  /\ Has(t, h) <=> \E j \in 1..Len(t.keys[b]) : t.keys[b][j] = h
             /\ Has(t, h) => i \in 1..Len(t.keys[b]) /\ t.keys[b][i] = h
<1> DEFINE b == BucketOf(h, t.count)
           s == t.keys[b]
           I == {j \in 1..Len(s) : s[j] = h}
<1>1. s \in Seq(Hashes)
  BY BucketIs DEF Shape
<1>2. Len(s) \in Nat
  BY <1>1, LenProperties
<1>3. IndexOf(t, h) = IF I # {} THEN Min(I) ELSE 0
  BY DEF IndexOf, SelectInSeq
<1> HIDE DEF s
<1>4. ASSUME I # {} PROVE Min(I) \in I
  <2>1. I \subseteq Nat
    OBVIOUS
  <2> HIDE DEF I
  <2>2. PICK n \in I : \A m \in I : n <= m
    BY <1>4, <2>1, Least
  <2> QED BY <2>2 DEF Min
<1>5. Has(t, h) <=> I # {}
  BY <1>2, <1>3, <1>4 DEF Has
<1>6. Has(t, h) => IndexOf(t, h) \in I
  BY <1>3, <1>4, <1>5
<1> QED BY <1>5, <1>6 DEF s

\* The elements of a bucket differ.
LEMMA Different ==
  ASSUME NEW t, Shape(t), Arranged(t), NEW b \in 0..t.count - 1,
         NEW i \in 1..Len(t.keys[b]), NEW j \in 1..Len(t.keys[b]), t.keys[b][i] = t.keys[b][j]
  PROVE  i = j
<1>1. Len(t.keys[b]) \in Nat /\ t.keys[b][i] \in Nat /\ t.keys[b][j] \in Nat
  BY Lengths, HashAssumption
<1>2. i < j => t.keys[b][i] < t.keys[b][j]
  BY DEF Arranged, Ascending
<1>3. j < i => t.keys[b][j] < t.keys[b][i]
  BY DEF Arranged, Ascending
<1> QED BY <1>1, <1>2, <1>3

\* Giving up at the first greater hash misses nothing.
LEMMA FindIs ==
  ASSUME NEW t, Shape(t), Arranged(t), NEW h \in Hashes
  PROVE  Find(t, h) <=> Has(t, h)
<1> DEFINE b == BucketOf(h, t.count)
<1>1. b \in 0..t.count - 1
  BY BucketIs
<1>2. Has(t, h) <=> \E j \in 1..Len(t.keys[b]) : t.keys[b][j] = h
  BY IndexIs
<1>3. ASSUME NEW j \in 1..Len(t.keys[b]), t.keys[b][j] = h
      PROVE  \A k \in 1..j : t.keys[b][k] <= h
  <2> SUFFICES ASSUME NEW k \in 1..j PROVE t.keys[b][k] <= h
    OBVIOUS
  <2>1. Len(t.keys[b]) \in Nat /\ k \in 1..Len(t.keys[b])
    BY <1>1, Lengths
  <2>2. t.keys[b][k] \in Nat /\ h \in Nat
    BY <1>1, <2>1, Lengths, HashAssumption
  <2>3. k < j => t.keys[b][k] < t.keys[b][j]
    BY <1>1, <2>1 DEF Arranged, Ascending
  <2> QED BY <1>3, <2>1, <2>2, <2>3
<1> HIDE DEF b
<1>4. Find(t, h) <=> \E j \in 1..Len(t.keys[b]) :
                       t.keys[b][j] = h /\ \A k \in 1..j : t.keys[b][k] <= h
  BY DEF Find, b
<1> QED BY <1>2, <1>3, <1>4

\* The value of a hash.
LEMMA EntryIs ==
  ASSUME NEW t, Shape(t), Arranged(t), NEW h \in Hashes, NEW v
  PROVE  Entry(t, h, v) <=> Has(t, h) /\ v = t.values[BucketOf(h, t.count)][IndexOf(t, h)]
<1> DEFINE b == BucketOf(h, t.count)
<1>1. b \in 0..t.count - 1
  BY BucketIs
<1>2. /\ Has(t, h) <=> \E j \in 1..Len(t.keys[b]) : t.keys[b][j] = h
      /\ Has(t, h) => IndexOf(t, h) \in 1..Len(t.keys[b]) /\ t.keys[b][IndexOf(t, h)] = h
  BY IndexIs
<1>3. ASSUME NEW j \in 1..Len(t.keys[b]), t.keys[b][j] = h
      PROVE  j = IndexOf(t, h)
  BY <1>1, <1>2, <1>3, Different
<1>4. Entry(t, h, v) <=> \E j \in 1..Len(t.keys[b]) : t.keys[b][j] = h /\ t.values[b][j] = v
  BY DEF Entry
<1> HIDE DEF b
<1> QED BY <1>2, <1>3, <1>4 DEF b

-----------------------------------------------------------------------------
(* One bucket of a table changes.                                          *)

Changed(t, b, hashes, values) == [t EXCEPT !.keys[b] = hashes, !.values[b] = values]

LEMMA ChangedIs ==
  ASSUME NEW t, Shape(t), NEW b \in 0..t.count - 1,
         NEW hashes \in Seq(Hashes), NEW values \in Seq(Values)
  PROVE  LET n == Changed(t, b, hashes, values)
         IN  /\ Shape(n) /\ n.count = t.count /\ n.capacity = t.capacity
             /\ n.keys[b] = hashes /\ n.values[b] = values
             /\ \A c \in 0..t.count - 1 :
                  c # b => n.keys[c] = t.keys[c] /\ n.values[c] = t.values[c]
<1> DEFINE n == Changed(t, b, hashes, values)
<1>1. /\ n.count = t.count /\ n.capacity = t.capacity
      /\ n.keys = [t.keys EXCEPT ![b] = hashes]
      /\ n.values = [t.values EXCEPT ![b] = values]
      /\ n \in [count : Nat, capacity : Nat,
                keys : [0..t.count - 1 -> Seq(Hashes)],
                values : [0..t.count - 1 -> Seq(Values)]]
  BY DEF Changed, Shape
<1> HIDE DEF n
<1>2. t.keys \in [0..t.count - 1 -> Seq(Hashes)] /\ t.values \in [0..t.count - 1 -> Seq(Values)]
  BY DEF Shape
<1>3. Shape(n)
  BY <1>1 DEF Shape
<1>4. n.keys[b] = hashes /\ n.values[b] = values
  BY <1>1, <1>2
<1>5. \A c \in 0..t.count - 1 : c # b => n.keys[c] = t.keys[c] /\ n.values[c] = t.values[c]
  BY <1>1, <1>2
<1> QED BY <1>1, <1>3, <1>4, <1>5 DEF n

LEMMA ChangedArranged ==
  ASSUME NEW t, Shape(t), Arranged(t), NEW b \in 0..t.count - 1,
         NEW hashes \in Seq(Hashes), NEW values \in Seq(Values),
         Len(values) = Len(hashes), Ascending(hashes),
         \A i \in 1..Len(hashes) : BucketOf(hashes[i], t.count) = b
  PROVE  Arranged(Changed(t, b, hashes, values))
<1> DEFINE n == Changed(t, b, hashes, values)
<1>1. /\ n.count = t.count /\ n.keys[b] = hashes /\ n.values[b] = values
      /\ \A c \in 0..t.count - 1 :
           c # b => n.keys[c] = t.keys[c] /\ n.values[c] = t.values[c]
  BY ChangedIs
<1> HIDE DEF n
<1>2. ASSUME NEW c \in 0..n.count - 1
      PROVE  /\ Len(n.values[c]) = Len(n.keys[c])
             /\ Ascending(n.keys[c])
             /\ \A i \in 1..Len(n.keys[c]) : BucketOf(n.keys[c][i], n.count) = c
  <2>1. CASE c = b
    BY <1>1, <2>1
  <2>2. CASE c # b
    <3>1. n.keys[c] = t.keys[c] /\ n.values[c] = t.values[c] /\ c \in 0..t.count - 1
      BY <1>1, <2>2
    <3> QED BY <1>1, <3>1 DEF Arranged
  <2> QED BY <2>1, <2>2
<1> QED BY <1>2 DEF Arranged, n

\* The other buckets' entries stay.
LEMMA ChangedElsewhere ==
  ASSUME NEW t, Shape(t), NEW b \in 0..t.count - 1,
         NEW hashes \in Seq(Hashes), NEW values \in Seq(Values),
         NEW g \in Hashes, NEW w, BucketOf(g, t.count) # b
  PROVE  Entry(Changed(t, b, hashes, values), g, w) <=> Entry(t, g, w)
<1> DEFINE n == Changed(t, b, hashes, values)
           c == BucketOf(g, t.count)
<1>1. c \in 0..t.count - 1
  BY BucketIs
<1>2. n.count = t.count /\ n.keys[c] = t.keys[c] /\ n.values[c] = t.values[c]
  BY <1>1, ChangedIs
<1> HIDE DEF n
<1> QED BY <1>2 DEF Entry, n

\* What one turn of the loops of Emplace and resize does with a new hash.
LEMMA InsertPairIs ==
  ASSUME NEW t, Shape(t), Arranged(t), NEW h \in Hashes, NEW v \in Values, ~Has(t, h)
  PROVE  LET n == InsertPair(t, h, v)
             b == BucketOf(h, t.count)
         IN  /\ Shape(n) /\ Arranged(n) /\ n.count = t.count /\ n.capacity = t.capacity
             /\ Len(n.keys[b]) = Len(t.keys[b]) + 1
             /\ \A c \in 0..t.count - 1 : c # b => Len(n.keys[c]) = Len(t.keys[c])
             /\ \A g \in Hashes, w \in Values :
                  Entry(n, g, w) <=> Entry(t, g, w) \/ (g = h /\ w = v)
<1> DEFINE n == InsertPair(t, h, v)
           b == BucketOf(h, t.count)
           s == t.keys[b]
           p == Position(s, h)
           hashes == InsertAt(s, p, h)
           values == InsertAt(t.values[b], p, v)
<1>1. b \in 0..t.count - 1
  BY BucketIs
<1>2. n = Changed(t, b, hashes, values)
  BY DEF InsertPair, Changed
<1>3. /\ s \in Seq(Hashes) /\ t.values[b] \in Seq(Values)
      /\ Len(s) \in Nat /\ Len(t.values[b]) = Len(s)
  BY <1>1, Lengths
<1>4. Ascending(s) /\ \A i \in 1..Len(s) : BucketOf(s[i], t.count) = b
  BY <1>1 DEF Arranged
<1>5. \A i \in 1..Len(s) : s[i] # h
  BY IndexIs
<1> HIDE DEF s
<1>6. p \in 1..Len(s) + 1
  BY <1>3, <1>4, <1>5, PositionIs
<1>7. Ascending(hashes)
  BY <1>3, <1>4, <1>5, AscendingInsertion
<1> HIDE DEF p
<1>8. /\ hashes \in Seq(Hashes) /\ Len(hashes) = Len(s) + 1
  BY <1>3, <1>6, Insertion, SMTT(30)
<1>9. /\ values \in Seq(Values) /\ Len(values) = Len(s) + 1
  BY <1>3, <1>6, Insertion, SMTT(30)
<1>10. \A k \in 1..Len(s) + 1 :
          \/ k = p /\ hashes[k] = h
          \/ k < p /\ k \in 1..Len(s) /\ hashes[k] = s[k]
          \/ k > p /\ k - 1 \in 1..Len(s) /\ hashes[k] = s[k - 1]
  BY <1>3, <1>6, InsertionCases, SMTT(30)
<1>11. \A k \in 1..Len(s) + 1 :
          \/ k = p /\ values[k] = v
          \/ k < p /\ k \in 1..Len(s) /\ values[k] = t.values[b][k]
          \/ k > p /\ k - 1 \in 1..Len(s) /\ values[k] = t.values[b][k - 1]
  BY <1>3, <1>6, InsertionCases, SMTT(30)
<1>12. /\ hashes[p] = h /\ values[p] = v
       /\ \A k \in 1..p - 1 : hashes[k] = s[k] /\ values[k] = t.values[b][k]
       /\ \A k \in p..Len(s) : hashes[k + 1] = s[k] /\ values[k + 1] = t.values[b][k]
  <2>1. /\ \A k \in 1..p - 1 : hashes[k] = s[k]
        /\ hashes[p] = h
        /\ \A k \in p..Len(s) : hashes[k + 1] = s[k]
    BY <1>3, <1>6, Insertion, SMTT(30)
  <2>2. /\ \A k \in 1..p - 1 : values[k] = t.values[b][k]
        /\ values[p] = v
        /\ \A k \in p..Len(t.values[b]) : values[k + 1] = t.values[b][k]
    <3>1. p \in 1..Len(t.values[b]) + 1 /\ t.values[b] \in Seq(Values)
      BY <1>3, <1>6
    <3> QED BY <3>1, Insertion, SMTT(30)
  <2> QED BY <1>3, <2>1, <2>2
<1> HIDE DEF hashes, values
<1>13. \A i \in 1..Len(hashes) : BucketOf(hashes[i], t.count) = b
  <2> HIDE DEF b
  <2>1. BucketOf(h, t.count) = b
    BY DEF b
  <2> QED BY <1>4, <1>8, <1>10, <2>1
<1>14. Arranged(n)
  BY <1>1, <1>2, <1>7, <1>8, <1>9, <1>13, ChangedArranged
<1>15. /\ Shape(n) /\ n.count = t.count /\ n.capacity = t.capacity
       /\ n.keys[b] = hashes /\ n.values[b] = values
       /\ \A c \in 0..t.count - 1 : c # b => n.keys[c] = t.keys[c]
  BY <1>1, <1>2, <1>8, <1>9, ChangedIs
<1> HIDE DEF n
<1>16. ASSUME NEW g \in Hashes, NEW w \in Values, BucketOf(g, t.count) = b
       PROVE  Entry(n, g, w) <=> Entry(t, g, w) \/ (g = h /\ w = v)
  <2>1. Entry(t, g, w) <=> \E i \in 1..Len(s) : s[i] = g /\ t.values[b][i] = w
    BY <1>16 DEF Entry, s
  <2>2. Entry(n, g, w) <=> \E i \in 1..Len(s) + 1 : hashes[i] = g /\ values[i] = w
    BY <1>8, <1>15, <1>16 DEF Entry
  <2>3. ASSUME NEW i \in 1..Len(s) + 1, hashes[i] = g, values[i] = w
        PROVE  (\E j \in 1..Len(s) : s[j] = g /\ t.values[b][j] = w) \/ (g = h /\ w = v)
    <3>1. CASE i = p
      BY <1>12, <2>3, <3>1
    <3>2. CASE i < p
      <4>1. i \in 1..Len(s) /\ hashes[i] = s[i] /\ values[i] = t.values[b][i]
        BY <1>3, <1>6, <1>10, <1>11, <3>2
      <4> QED BY <2>3, <4>1
    <3>3. CASE i > p
      <4>1. i - 1 \in 1..Len(s) /\ hashes[i] = s[i - 1] /\ values[i] = t.values[b][i - 1]
        BY <1>3, <1>6, <1>10, <1>11, <3>3
      <4> QED BY <2>3, <4>1
    <3> QED BY <1>3, <1>6, <3>1, <3>2, <3>3
  <2>4. ASSUME NEW j \in 1..Len(s), s[j] = g, t.values[b][j] = w
        PROVE  \E i \in 1..Len(s) + 1 : hashes[i] = g /\ values[i] = w
    <3>1. CASE j < p
      <4>1. j \in 1..p - 1 /\ j \in 1..Len(s) + 1
        BY <1>3, <1>6, <3>1
      <4>2. hashes[j] = g /\ values[j] = w
        BY <1>12, <2>4, <4>1
      <4> QED BY <4>1, <4>2
    <3>2. CASE j >= p
      <4>1. j \in p..Len(s) /\ j + 1 \in 1..Len(s) + 1
        BY <1>3, <1>6, <3>2
      <4>2. hashes[j + 1] = g /\ values[j + 1] = w
        BY <1>12, <2>4, <4>1
      <4> QED BY <4>1, <4>2
    <3> QED BY <1>3, <1>6, <3>1, <3>2
  <2>5. (g = h /\ w = v) => \E i \in 1..Len(s) + 1 : hashes[i] = g /\ values[i] = w
    BY <1>6, <1>12
  <2> QED BY <2>1, <2>2, <2>3, <2>4, <2>5
<1>17. ASSUME NEW g \in Hashes, NEW w \in Values, BucketOf(g, t.count) # b
       PROVE  Entry(n, g, w) <=> Entry(t, g, w) \/ (g = h /\ w = v)
  <2>1. Entry(n, g, w) <=> Entry(t, g, w)
    BY <1>1, <1>2, <1>8, <1>9, <1>17, ChangedElsewhere
  <2>2. g # h
    BY <1>17
  <2> QED BY <2>1, <2>2
<1>18. \A g \in Hashes, w \in Values : Entry(n, g, w) <=> Entry(t, g, w) \/ (g = h /\ w = v)
  BY <1>16, <1>17
<1>19. \A c \in 0..t.count - 1 : c # b => Len(n.keys[c]) = Len(t.keys[c])
  BY <1>15
<1> HIDE DEF b
<1>20. Len(n.keys[b]) = Len(t.keys[b]) + 1
  BY <1>8, <1>15 DEF s
<1> QED BY <1>14, <1>15, <1>18, <1>19, <1>20 DEF n, b

-----------------------------------------------------------------------------
(* The resize.                                                             *)

\* The loops do what the equations of their recursive functions say.
LEMMA InsertPairsDef ==
  ASSUME NEW t, NEW hashes, NEW values, Len(hashes) \in Nat
  PROVE  \E f : /\ f[0] = t
                /\ \A i \in 1..Len(hashes) : f[i] = InsertPair(f[i - 1], hashes[i], values[i])
                /\ InsertPairs(t, hashes, values) = f[Len(hashes)]
<1> DEFINE N == Len(hashes)
           turn(x, i) == InsertPair(x, hashes[i], values[i])
           loop(f, n) == [i \in 0..n |-> IF i = 0 THEN t ELSE turn(f[i - 1], i)]
           T == {n \in Nat : \E f : f = loop(f, n)}
<1>1. InsertPairs(t, hashes, values) = (CHOOSE f : f = loop(f, N))[N]
  BY DEF InsertPairs
<1> HIDE DEF turn
<1>2. 0 \in T
  <2>1. [i \in 0..0 |-> t] = loop([i \in 0..0 |-> t], 0)
    OBVIOUS
  <2> QED BY <2>1
<1>3. ASSUME NEW n \in Nat, n \in T PROVE n + 1 \in T
  <2>1. PICK f : f = loop(f, n)
    BY <1>3
  <2> DEFINE g == [i \in 0..n + 1 |-> IF i = n + 1 THEN turn(f[n], n + 1) ELSE f[i]]
  <2>2. ASSUME NEW i \in 0..n + 1 PROVE g[i] = IF i = 0 THEN t ELSE turn(g[i - 1], i)
    <3>1. CASE i = n + 1
      BY <3>1
    <3>2. CASE i \in 0..n
      <4>1. g[i] = f[i] /\ (i # 0 => g[i - 1] = f[i - 1])
        BY <3>2
      <4>2. f[i] = IF i = 0 THEN t ELSE turn(f[i - 1], i)
        BY <2>1, <3>2
      <4> QED BY <4>1, <4>2
    <3> QED BY <3>1, <3>2
  <2>3. g = loop(g, n + 1)
    <3>1. g = [i \in 0..n + 1 |-> g[i]]
      OBVIOUS
    <3> HIDE DEF g
    <3> QED BY <2>2, <3>1
  <2> HIDE DEF g
  <2> QED BY <2>3
<1>4. N \in T
  <2> HIDE DEF T
  <2>1. Nat \subseteq T
    BY <1>2, <1>3, Induction
  <2> QED BY <2>1
<1> DEFINE h == CHOOSE f : f = loop(f, N)
<1>5. h = loop(h, N)
  BY <1>4
<1> HIDE DEF h
<1>6. h[0] = t /\ \A i \in 1..N : h[i] = turn(h[i - 1], i)
  BY <1>5
<1>7. InsertPairs(t, hashes, values) = h[N]
  BY <1>1 DEF h
<1> QED BY <1>6, <1>7 DEF turn

LEMMA ResizeDef ==
  ASSUME NEW t, t.count \in Nat
  PROVE  \E f : /\ f[0] = Empty(2 * t.count, 2 * t.capacity)
                /\ \A b \in 1..t.count : f[b] = InsertPairs(f[b - 1], t.keys[b - 1], t.values[b - 1])
                /\ Resize(t) = f[t.count]
<1> DEFINE N == t.count
           new == Empty(2 * t.count, 2 * t.capacity)
           turn(x, i) == InsertPairs(x, t.keys[i - 1], t.values[i - 1])
           loop(f, n) == [i \in 0..n |-> IF i = 0 THEN new ELSE turn(f[i - 1], i)]
           T == {n \in Nat : \E f : f = loop(f, n)}
<1>1. Resize(t) = (CHOOSE f : f = loop(f, N))[N]
  BY DEF Resize
<1> HIDE DEF turn, new
<1>2. 0 \in T
  <2>1. [i \in 0..0 |-> new] = loop([i \in 0..0 |-> new], 0)
    OBVIOUS
  <2> QED BY <2>1
<1>3. ASSUME NEW n \in Nat, n \in T PROVE n + 1 \in T
  <2>1. PICK f : f = loop(f, n)
    BY <1>3
  <2> DEFINE g == [i \in 0..n + 1 |-> IF i = n + 1 THEN turn(f[n], n + 1) ELSE f[i]]
  <2>2. ASSUME NEW i \in 0..n + 1 PROVE g[i] = IF i = 0 THEN new ELSE turn(g[i - 1], i)
    <3>1. CASE i = n + 1
      BY <3>1
    <3>2. CASE i \in 0..n
      <4>1. g[i] = f[i] /\ (i # 0 => g[i - 1] = f[i - 1])
        BY <3>2
      <4>2. f[i] = IF i = 0 THEN new ELSE turn(f[i - 1], i)
        BY <2>1, <3>2
      <4> QED BY <4>1, <4>2
    <3> QED BY <3>1, <3>2
  <2>3. g = loop(g, n + 1)
    <3>1. g = [i \in 0..n + 1 |-> g[i]]
      OBVIOUS
    <3> HIDE DEF g
    <3> QED BY <2>2, <3>1
  <2> HIDE DEF g
  <2> QED BY <2>3
<1>4. N \in T
  <2> HIDE DEF T
  <2>1. Nat \subseteq T
    BY <1>2, <1>3, Induction
  <2> QED BY <2>1
<1> DEFINE h == CHOOSE f : f = loop(f, N)
<1>5. h = loop(h, N)
  BY <1>4
<1> HIDE DEF h
<1>6. h[0] = new /\ \A i \in 1..N : h[i] = turn(h[i - 1], i)
  BY <1>5
<1>7. Resize(t) = h[N]
  BY <1>1 DEF h
<1> QED BY <1>6, <1>7 DEF turn, new

\* x is the new table when the first b buckets and the first i entries of
\* bucket b have been moved.
Moved(t, b, i, h, v) ==
  LET c == BucketOf(h, t.count)
  IN  \E j \in 1..Len(t.keys[c]) :
        t.keys[c][j] = h /\ t.values[c][j] = v /\ (c < b \/ (c = b /\ j <= i))

Partial(t, x, b, i) ==
  /\ Shape(x) /\ Arranged(x) /\ x.count = 2 * t.count /\ x.capacity = 2 * t.capacity
  /\ \A c \in 0..2 * t.count - 1 :
       /\ c % t.count < b => Len(x.keys[c]) <= Len(t.keys[c % t.count])
       /\ c % t.count = b => Len(x.keys[c]) <= i
       /\ c % t.count > b => Len(x.keys[c]) = 0
  /\ \A h \in Hashes, v \in Values : Entry(x, h, v) <=> Moved(t, b, i, h, v)

LEMMA MovesOne ==
  ASSUME NEW t, Shape(t), Arranged(t), NEW b \in 0..t.count - 1,
         NEW i \in 1..Len(t.keys[b]), NEW x, Partial(t, x, b, i - 1)
  PROVE  Partial(t, InsertPair(x, t.keys[b][i], t.values[b][i]), b, i)
<1> DEFINE h == t.keys[b][i]
           v == t.values[b][i]
           y == InsertPair(x, h, v)
           d == BucketOf(h, x.count)
<1>1. /\ h \in Hashes /\ v \in Values /\ h \in Nat
      /\ Len(t.keys[b]) \in Nat
  BY Lengths, HashAssumption
<1>2. BucketOf(h, t.count) = b
  BY DEF Arranged
<1>3. /\ Shape(x) /\ Arranged(x) /\ x.count = 2 * t.count /\ x.capacity = 2 * t.capacity
      /\ t.count \in Nat \ {0}
  BY DEF Partial, Shape
<1> HIDE DEF h, v, d
<1>4. ~Has(x, h)
  <2> SUFFICES ASSUME Has(x, h) PROVE FALSE
    OBVIOUS
  <2>1. PICK j \in 1..Len(x.keys[d]) : x.keys[d][j] = h
    BY <1>1, <1>3, IndexIs DEF d
  <2>2. x.values[d][j] \in Values
    BY <1>1, <1>3, <2>1, BucketIs, Lengths DEF d
  <2>3. Entry(x, h, x.values[d][j])
    BY <2>1 DEF Entry, d
  <2>4. Moved(t, b, i - 1, h, x.values[d][j])
    BY <1>1, <2>2, <2>3 DEF Partial
  <2>5. PICK k \in 1..Len(t.keys[b]) : t.keys[b][k] = h /\ k <= i - 1
    BY <1>2, <2>4 DEF Moved
  <2>6. k = i
    BY <2>5, Different DEF h
  <2> QED BY <2>5, <2>6
<1>5. /\ Shape(y) /\ Arranged(y) /\ y.count = x.count /\ y.capacity = x.capacity
      /\ Len(y.keys[d]) = Len(x.keys[d]) + 1
      /\ \A c \in 0..x.count - 1 : c # d => Len(y.keys[c]) = Len(x.keys[c])
      /\ \A g \in Hashes, w \in Values : Entry(y, g, w) <=> Entry(x, g, w) \/ (g = h /\ w = v)
  <2>1. h \in Hashes /\ v \in Values /\ Shape(x) /\ Arranged(x)
    BY <1>1, <1>3
  <2> QED BY <2>1, <1>4, InsertPairIs DEF d
<1> HIDE DEF y
<1>6. d \in 0..2 * t.count - 1 /\ d % t.count = b
  <2>1. d \in 0..2 * t.count - 1
    BY <1>1, <1>3, BucketIs DEF d
  <2> QED BY <1>1, <1>2, <1>3, <2>1, Split DEF BucketOf, d
<1>7. \A c \in 0..2 * t.count - 1 :
        /\ c % t.count < b => Len(y.keys[c]) <= Len(t.keys[c % t.count])
        /\ c % t.count = b => Len(y.keys[c]) <= i
        /\ c % t.count > b => Len(y.keys[c]) = 0
  <2> SUFFICES ASSUME NEW c \in 0..2 * t.count - 1
               PROVE  /\ c % t.count < b => Len(y.keys[c]) <= Len(t.keys[c % t.count])
                      /\ c % t.count = b => Len(y.keys[c]) <= i
                      /\ c % t.count > b => Len(y.keys[c]) = 0
    OBVIOUS
  <2>1. /\ c % t.count < b => Len(x.keys[c]) <= Len(t.keys[c % t.count])
        /\ c % t.count = b => Len(x.keys[c]) <= i - 1
        /\ c % t.count > b => Len(x.keys[c]) = 0
    BY DEF Partial
  <2>2. Len(x.keys[c]) \in Nat
    BY <1>3, Lengths
  <2>3. CASE c = d
    BY <1>1, <1>5, <1>6, <2>1, <2>2, <2>3
  <2>4. CASE c # d
    <3>1. Len(y.keys[c]) = Len(x.keys[c])
      BY <1>3, <1>5, <2>4
    <3> QED BY <1>1, <2>1, <2>2, <3>1
  <2> QED BY <2>3, <2>4
<1>8. ASSUME NEW g \in Hashes, NEW w \in Values
      PROVE  Entry(y, g, w) <=> Moved(t, b, i, g, w)
  <2> DEFINE c == BucketOf(g, t.count)
  <2>1. Entry(x, g, w) <=> Moved(t, b, i - 1, g, w)
    BY DEF Partial
  <2>2. c \in 0..t.count - 1 /\ Len(t.keys[c]) \in Nat
    BY BucketIs, Lengths
  <2>3. Moved(t, b, i, g, w) <=> \E j \in 1..Len(t.keys[c]) :
          t.keys[c][j] = g /\ t.values[c][j] = w /\ (c < b \/ (c = b /\ j <= i))
    BY DEF Moved
  <2>4. Moved(t, b, i - 1, g, w) <=> \E j \in 1..Len(t.keys[c]) :
          t.keys[c][j] = g /\ t.values[c][j] = w /\ (c < b \/ (c = b /\ j <= i - 1))
    BY DEF Moved
  <2>5. g = h => c = b
    BY <1>2
  <2> HIDE DEF c
  <2>6. ASSUME Moved(t, b, i, g, w) PROVE Moved(t, b, i - 1, g, w) \/ (g = h /\ w = v)
    <3>1. PICK j \in 1..Len(t.keys[c]) :
            t.keys[c][j] = g /\ t.values[c][j] = w /\ (c < b \/ (c = b /\ j <= i))
      BY <2>3, <2>6
    <3>2. CASE c = b /\ j = i
      BY <3>1, <3>2 DEF h, v
    <3>3. CASE ~(c = b /\ j = i)
      <4>1. c < b \/ (c = b /\ j <= i - 1)
        BY <1>1, <2>2, <3>1, <3>3
      <4> QED BY <2>4, <3>1, <4>1
    <3> QED BY <3>2, <3>3
  <2>7. Moved(t, b, i - 1, g, w) => Moved(t, b, i, g, w)
    <3>1. \A j \in 1..Len(t.keys[c]) : j <= i - 1 => j <= i
      BY <1>1, <2>2
    <3> QED BY <2>3, <2>4, <3>1
  <2>8. ASSUME g = h, w = v PROVE Moved(t, b, i, g, w)
    <3>1. c = b /\ i \in 1..Len(t.keys[c]) /\ t.keys[c][i] = g /\ t.values[c][i] = w /\ i <= i
      BY <1>1, <2>5, <2>8 DEF h, v
    <3> QED BY <2>3, <3>1
  <2> QED BY <1>5, <2>1, <2>6, <2>7, <2>8
<1>9. Partial(t, y, b, i)
  BY <1>3, <1>5, <1>7, <1>8 DEF Partial
<1> QED BY <1>9 DEF y, h, v

LEMMA EmptyIs ==
  ASSUME NEW count \in Nat \ {0}, NEW capacity \in Nat \ {0}
  PROVE  LET x == Empty(count, capacity)
         IN  /\ Shape(x) /\ Arranged(x) /\ x.count = count /\ x.capacity = capacity
             /\ \A c \in 0..count - 1 : Len(x.keys[c]) = 0
             /\ \A h \in Hashes : \A v : ~Entry(x, h, v)
             /\ \A h \in Hashes : ~Has(x, h)
<1> DEFINE x == Empty(count, capacity)
<1>1. /\ x.count = count /\ x.capacity = capacity
      /\ x.keys = [b \in 0..count - 1 |-> << >>]
      /\ x.values = [b \in 0..count - 1 |-> << >>]
      /\ x \in [count : Nat, capacity : Nat,
                keys : [0..count - 1 -> Seq(Hashes)], values : [0..count - 1 -> Seq(Values)]]
  <2>1. << >> \in Seq(Hashes) /\ << >> \in Seq(Values)
    OBVIOUS
  <2> QED BY <2>1 DEF Empty
<1>2. Len(<< >>) = 0
  OBVIOUS
<1> HIDE DEF x
<1>3. \A c \in 0..count - 1 : x.keys[c] = << >> /\ x.values[c] = << >>
  BY <1>1
<1>4. \A c \in 0..count - 1 : Len(x.keys[c]) = 0 /\ Len(x.values[c]) = 0
  BY <1>2, <1>3
<1>5. Shape(x)
  BY <1>1 DEF Shape
<1>6. Arranged(x)
  BY <1>1, <1>4 DEF Arranged, Ascending
<1>7. ASSUME NEW h \in Hashes
      PROVE  ~Has(x, h) /\ \A v : ~Entry(x, h, v)
  <2> DEFINE b == BucketOf(h, x.count)
  <2>1. Len(x.keys[b]) = 0
    BY <1>1, <1>4, <1>5, BucketIs
  <2>2. ~ \E i \in 1..Len(x.keys[b]) : TRUE
    BY <2>1
  <2>3. ~Has(x, h)
    BY <1>5, <2>2, IndexIs
  <2>4. \A v : ~Entry(x, h, v)
    BY <2>2 DEF Entry
  <2> QED BY <2>3, <2>4
<1> QED BY <1>1, <1>4, <1>5, <1>6, <1>7 DEF x

LEMMA MovesBucket ==
  ASSUME NEW t, Shape(t), Arranged(t), NEW b \in 0..t.count - 1, NEW x, Partial(t, x, b, 0)
  PROVE  Partial(t, InsertPairs(x, t.keys[b], t.values[b]), b + 1, 0)
<1> DEFINE N == Len(t.keys[b])
<1>1. N \in Nat /\ t.count \in Nat \ {0}
  BY Lengths DEF Shape
<1>2. PICK f : /\ f[0] = x
               /\ \A i \in 1..N : f[i] = InsertPair(f[i - 1], t.keys[b][i], t.values[b][i])
               /\ InsertPairs(x, t.keys[b], t.values[b]) = f[N]
  <2> DEFINE hashes == t.keys[b]
             values == t.values[b]
  <2>1. Len(hashes) \in Nat
    BY <1>1
  <2> HIDE DEF hashes, values
  <2>2. \E f : /\ f[0] = x
               /\ \A i \in 1..Len(hashes) : f[i] = InsertPair(f[i - 1], hashes[i], values[i])
               /\ InsertPairs(x, hashes, values) = f[Len(hashes)]
    BY <2>1, InsertPairsDef
  <2> QED BY <2>2 DEF hashes, values
<1> HIDE DEF N
<1> DEFINE T == {i \in Nat : Partial(t, f[i], b, i)}
<1>3. 0 \in T
  BY <1>2
<1>4. ASSUME NEW i \in 0..N - 1, i \in T PROVE i + 1 \in T
  <2>1. i + 1 \in 1..N /\ (i + 1) - 1 = i /\ i + 1 \in Nat
    BY <1>1
  <2>2. Partial(t, f[i], b, (i + 1) - 1)
    BY <1>4, <2>1
  <2>3. Partial(t, InsertPair(f[i], t.keys[b][i + 1], t.values[b][i + 1]), b, i + 1)
    BY <2>1, <2>2, MovesOne DEF N
  <2>4. f[i + 1] = InsertPair(f[(i + 1) - 1], t.keys[b][i + 1], t.values[b][i + 1])
    BY <1>2, <2>1
  <2> QED BY <2>1, <2>3, <2>4
<1>5. Partial(t, f[N], b, N)
  <2> HIDE DEF T
  <2>1. 0..N \subseteq T
    BY <1>1, <1>3, <1>4, InductionUpTo
  <2>2. N \in 0..N
    BY <1>1
  <2> QED BY <2>1, <2>2 DEF T
<1> DEFINE y == f[N]
<1> HIDE DEF y
<1>6. Partial(t, y, b, N)
  BY <1>5 DEF y
<1>7. Shape(y) /\ Arranged(y) /\ y.count = 2 * t.count /\ y.capacity = 2 * t.capacity
  BY <1>6 DEF Partial
<1>8. ASSUME NEW c \in 0..2 * t.count - 1
      PROVE  /\ c % t.count < b + 1 => Len(y.keys[c]) <= Len(t.keys[c % t.count])
             /\ c % t.count = b + 1 => Len(y.keys[c]) <= 0
             /\ c % t.count > b + 1 => Len(y.keys[c]) = 0
  <2>1. /\ c % t.count < b => Len(y.keys[c]) <= Len(t.keys[c % t.count])
        /\ c % t.count = b => Len(y.keys[c]) <= N
        /\ c % t.count > b => Len(y.keys[c]) = 0
    BY <1>6 DEF Partial
  <2>2. c % t.count \in 0..t.count - 1
    <3>1. c \in Nat
      BY <1>1
    <3> QED BY <1>1, <3>1, Division
  <2> QED BY <1>1, <2>1, <2>2 DEF N
<1>9. ASSUME NEW h \in Hashes, NEW v \in Values
      PROVE  Entry(y, h, v) <=> Moved(t, b + 1, 0, h, v)
  <2> DEFINE c == BucketOf(h, t.count)
  <2>1. Entry(y, h, v) <=> Moved(t, b, N, h, v)
    BY <1>6 DEF Partial
  <2>2. c \in 0..t.count - 1 /\ Len(t.keys[c]) \in Nat
    BY BucketIs, Lengths
  <2>3. ASSUME NEW j \in 1..Len(t.keys[c])
        PROVE  (c < b \/ (c = b /\ j <= N)) <=> (c < b + 1 \/ (c = b + 1 /\ j <= 0))
    BY <1>1, <2>2 DEF N
  <2>4. Moved(t, b, N, h, v) <=> \E j \in 1..Len(t.keys[c]) :
          t.keys[c][j] = h /\ t.values[c][j] = v /\ (c < b \/ (c = b /\ j <= N))
    BY DEF Moved
  <2>5. Moved(t, b + 1, 0, h, v) <=> \E j \in 1..Len(t.keys[c]) :
          t.keys[c][j] = h /\ t.values[c][j] = v /\ (c < b + 1 \/ (c = b + 1 /\ j <= 0))
    BY DEF Moved
  <2> HIDE DEF c
  <2> QED BY <2>1, <2>3, <2>4, <2>5
<1>10. Partial(t, y, b + 1, 0)
  BY <1>7, <1>8, <1>9 DEF Partial
<1> QED BY <1>2, <1>10 DEF y

\* resize keeps every entry, in its bucket and in order, and no bucket of the
\* new table is longer than the one it comes from.
LEMMA ResizeIs ==
  ASSUME NEW t, Shape(t), Arranged(t)
  PROVE  LET x == Resize(t)
         IN  /\ Shape(x) /\ Arranged(x) /\ x.count = 2 * t.count /\ x.capacity = 2 * t.capacity
             /\ \A c \in 0..2 * t.count - 1 :
                  /\ c % t.count \in 0..t.count - 1
                  /\ Len(x.keys[c]) <= Len(t.keys[c % t.count])
             /\ \A h \in Hashes, v \in Values : Entry(x, h, v) <=> Entry(t, h, v)
<1> DEFINE N == t.count
<1>1. t.count \in Nat \ {0} /\ t.capacity \in Nat \ {0}
  BY DEF Shape
<1>2. PICK f : /\ f[0] = Empty(2 * t.count, 2 * t.capacity)
               /\ \A b \in 1..t.count : f[b] = InsertPairs(f[b - 1], t.keys[b - 1], t.values[b - 1])
               /\ Resize(t) = f[t.count]
  BY <1>1, ResizeDef
<1> DEFINE T == {b \in Nat : Partial(t, f[b], b, 0)}
<1>3. 0 \in T
  <2> DEFINE x == Empty(2 * t.count, 2 * t.capacity)
  <2>1. /\ Shape(x) /\ Arranged(x) /\ x.count = 2 * t.count /\ x.capacity = 2 * t.capacity
        /\ \A c \in 0..2 * t.count - 1 : Len(x.keys[c]) = 0
        /\ \A h \in Hashes : \A v : ~Entry(x, h, v)
    <3>1. 2 * t.count \in Nat \ {0} /\ 2 * t.capacity \in Nat \ {0}
      BY <1>1
    <3> QED BY <3>1, EmptyIs
  <2> HIDE DEF x
  <2>2. ASSUME NEW c \in 0..2 * t.count - 1 PROVE ~(c % t.count < 0) /\ c \in Nat
    BY <1>1, Division
  <2>3. ASSUME NEW h \in Hashes, NEW v \in Values PROVE ~Moved(t, 0, 0, h, v)
    <3>1. BucketOf(h, t.count) \in 0..t.count - 1
      BY BucketIs
    <3>2. Len(t.keys[BucketOf(h, t.count)]) \in Nat
      BY <3>1, Lengths
    <3> QED BY <1>1, <3>1, <3>2 DEF Moved
  <2>4. Partial(t, x, 0, 0)
    BY <2>1, <2>2, <2>3 DEF Partial
  <2> QED BY <1>2, <2>4 DEF x
<1>4. ASSUME NEW b \in 0..N - 1, b \in T PROVE b + 1 \in T
  <2>1. b + 1 \in 1..t.count /\ (b + 1) - 1 = b /\ b + 1 \in Nat
    BY <1>1
  <2>2. Partial(t, InsertPairs(f[b], t.keys[b], t.values[b]), b + 1, 0)
    BY <1>4, MovesBucket
  <2>3. f[b + 1] = InsertPairs(f[(b + 1) - 1], t.keys[(b + 1) - 1], t.values[(b + 1) - 1])
    BY <1>2, <2>1
  <2> QED BY <2>1, <2>2, <2>3
<1> DEFINE x == f[N]
<1>5. Partial(t, x, N, 0)
  <2> HIDE DEF T
  <2>1. 0..N \subseteq T
    BY <1>1, <1>3, <1>4, InductionUpTo
  <2>2. N \in 0..N
    BY <1>1
  <2> QED BY <2>1, <2>2 DEF T
<1>6. Resize(t) = x
  BY <1>2
<1> HIDE DEF x
<1>7. Shape(x) /\ Arranged(x) /\ x.count = 2 * t.count /\ x.capacity = 2 * t.capacity
  BY <1>5 DEF Partial
<1>8. ASSUME NEW c \in 0..2 * t.count - 1
      PROVE  c % t.count \in 0..t.count - 1 /\ Len(x.keys[c]) <= Len(t.keys[c % t.count])
  <2>1. c % t.count \in 0..t.count - 1
    <3>1. c \in Nat
      BY <1>1
    <3> QED BY <1>1, <3>1, Division
  <2> QED BY <1>1, <1>5, <2>1 DEF Partial
<1>9. ASSUME NEW h \in Hashes, NEW v \in Values PROVE Entry(x, h, v) <=> Entry(t, h, v)
  <2>1. Entry(x, h, v) <=> Moved(t, N, 0, h, v)
    BY <1>5 DEF Partial
  <2>2. BucketOf(h, t.count) < N
    BY <1>1, BucketIs
  <2> HIDE DEF N
  <2> QED BY <2>1, <2>2 DEF Moved, Entry
<1> QED BY <1>6, <1>7, <1>8, <1>9

-----------------------------------------------------------------------------
(* The constructors.                                                       *)

LEMMA NextPowerOfTwoIs ==
  ASSUME NEW n \in Nat \ {0}
  PROVE  NextPowerOfTwo(n) \in Nat \ {0} /\ n <= NextPowerOfTwo(n)
<1> DEFINE loop(f, m) == [i \in 0..m |-> IF i = 0 THEN 1 ELSE 2 * f[i - 1]]
           T == {m \in Nat : \E f : f = loop(f, m)}
<1>1. 0 \in T
  <2>1. [i \in 0..0 |-> 1] = loop([i \in 0..0 |-> 1], 0)
    OBVIOUS
  <2> QED BY <2>1
<1>2. ASSUME NEW m \in Nat, m \in T PROVE m + 1 \in T
  <2>1. PICK f : f = loop(f, m)
    BY <1>2
  <2> DEFINE g == [i \in 0..m + 1 |-> IF i = m + 1 THEN 2 * f[m] ELSE f[i]]
  <2>2. ASSUME NEW i \in 0..m + 1 PROVE g[i] = IF i = 0 THEN 1 ELSE 2 * g[i - 1]
    <3>1. CASE i = m + 1
      BY <3>1
    <3>2. CASE i \in 0..m
      <4>1. g[i] = f[i] /\ (i # 0 => g[i - 1] = f[i - 1])
        BY <3>2
      <4>2. f[i] = IF i = 0 THEN 1 ELSE 2 * f[i - 1]
        BY <2>1, <3>2
      <4> QED BY <4>1, <4>2
    <3> QED BY <3>1, <3>2
  <2>3. g = loop(g, m + 1)
    <3>1. g = [i \in 0..m + 1 |-> g[i]]
      OBVIOUS
    <3> HIDE DEF g
    <3> QED BY <2>2, <3>1
  <2> HIDE DEF g
  <2>4. \E f1 : f1 = loop(f1, m + 1)
    BY <2>3
  <2>5. m + 1 \in Nat
    OBVIOUS
  <2> QED BY <2>4, <2>5, Zenon
<1>3. n \in T
  <2> HIDE DEF T
  <2>1. Nat \subseteq T
    BY <1>1, <1>2, Induction
  <2> QED BY <2>1
<1> DEFINE power == CHOOSE f : f = loop(f, n)
<1>4. power = loop(power, n)
  BY <1>3
<1>5. NextPowerOfTwo(n) = CHOOSE p \in {power[i] : i \in 0..n} : n <= p /\ p < 2 * n
  BY DEF NextPowerOfTwo
<1> HIDE DEF power
<1>6. power[0] = 1 /\ \A i \in 1..n : power[i] = 2 * power[i - 1]
  BY <1>4
<1>7. \A i \in 0..n : power[i] \in Nat /\ power[i] > i
  <2> DEFINE P == {i \in Nat : power[i] \in Nat /\ power[i] > i}
  <2>1. 0 \in P
    BY <1>6
  <2>2. ASSUME NEW i \in 0..n - 1, i \in P PROVE i + 1 \in P
    <3>1. i + 1 \in 1..n /\ (i + 1) - 1 = i
      OBVIOUS
    <3>2. power[i + 1] = 2 * power[i]
      BY <1>6, <3>1
    <3> QED BY <2>2, <3>1, <3>2
  <2> HIDE DEF P
  <2>3. 0..n \subseteq P
    BY <2>1, <2>2, InductionUpTo
  <2> QED BY <2>3 DEF P
<1> DEFINE reach == {i \in 0..n : power[i] >= n}
<1>8. PICK i \in reach : \A j \in reach : i <= j
  <2>1. n \in reach /\ reach \subseteq Nat
    BY <1>7
  <2> HIDE DEF reach
  <2> QED BY <2>1, Least
<1>9. n <= power[i] /\ power[i] < 2 * n
  <2>1. CASE i = 0
    BY <1>6, <1>8, <2>1
  <2>2. CASE i # 0
    <3>1. i \in 1..n /\ i - 1 \in 0..n /\ ~(i <= i - 1)
      BY <1>8, <2>2
    <3>2. i - 1 \notin reach
      BY <1>8, <3>1
    <3>3. power[i - 1] < n /\ power[i] = 2 * power[i - 1]
      BY <1>6, <1>7, <3>1, <3>2
    <3> QED BY <1>7, <1>8, <3>1, <3>3
  <2> QED BY <2>1, <2>2
<1>10. \E p \in {power[j] : j \in 0..n} : n <= p /\ p < 2 * n
  BY <1>8, <1>9
<1>11. PICK j \in 0..n : NextPowerOfTwo(n) = power[j] /\ n <= power[j]
  BY <1>5, <1>10
<1> QED BY <1>7, <1>11

LEMMA ConstructIs ==
  ASSUME NEW count \in Nat \ {0}, NEW capacity \in Nat
  PROVE  \E c \in Nat \ {0}, d \in Nat \ {0} : Construct(count, capacity) = Empty(c, d)
<1>1. CASE capacity = 0
  <2>1. 2 * count \in Nat \ {0}
    OBVIOUS
  <2> QED BY <1>1, <2>1 DEF Construct
<1>2. CASE capacity # 0
  BY <1>2 DEF Construct
<1> QED BY <1>1, <1>2

-----------------------------------------------------------------------------
(* The inductive invariant.                                                *)

Fits(t) == \A b \in 0..t.count - 1 : Len(t.keys[b]) <= t.capacity

Sound(t) == Shape(t) /\ Arranged(t) /\ Fits(t)

\* Places that a cursor has come past.
Past(c, b, i) == b < c.bucket \/ (b = c.bucket /\ i < c.element)

\* s holds the hashes that c has come past, each once.
Visited(t, c, s) ==
  /\ s \in Seq(Hashes)
  /\ \A k \in 1..Len(s) :
       \E b \in 0..t.count - 1 : \E i \in 1..Len(t.keys[b]) :
         Past(c, b, i) /\ s[k] = t.keys[b][i]
  /\ \A b \in 0..t.count - 1 : \A i \in 1..Len(t.keys[b]) :
       Past(c, b, i) => \E k \in 1..Len(s) : s[k] = t.keys[b][i]
  /\ \A k, l \in 1..Len(s) : s[k] = s[l] => k = l

\* Between calls a cursor stands on an element, is at the end or is unused.
Placed(t, c) ==
  \/ c = Idle
  \/ c = End(t)
  \/ /\ c \in [bucket : 0..t.count - 1, element : Nat]
     /\ c.element \in 1..Len(t.keys[c.bucket])

IInv == Sound(table) /\ Placed(table, cursor) /\ Visited(table, cursor, seen)

\* Before the first step of an iteration.
LEMMA NothingVisited ==
  ASSUME NEW t, Sound(t), NEW c,
         \A b \in 0..t.count - 1 : \A i \in 1..Len(t.keys[b]) : ~Past(c, b, i)
  PROVE  Visited(t, c, << >>)
<1>1. << >> \in Seq(Hashes) /\ Len(<< >>) = 0
  OBVIOUS
<1>2. \A k \in 1..Len(<< >>) : FALSE
  BY <1>1
<1> QED BY <1>1, <1>2 DEF Visited

LEMMA InvalidateKeeps ==
  ASSUME Sound(table'), Invalidate
  PROVE  IInv'
<1>1. cursor' = Idle /\ seen' = << >>
  BY DEF Invalidate
<1>2. ASSUME NEW b \in 0..table'.count - 1, NEW i \in 1..Len(table'.keys[b])
      PROVE  ~Past(cursor', b, i)
  <2>1. table'.count \in Nat /\ Len(table'.keys[b]) \in Nat
    BY Lengths DEF Sound, Shape
  <2> QED BY <1>1, <2>1 DEF Past, Idle
<1>3. Visited(table', cursor', << >>)
  BY <1>2, NothingVisited
<1> QED BY <1>1, <1>3 DEF IInv, Placed

LEMMA HasEntry ==
  ASSUME NEW t, Shape(t), Arranged(t), NEW h \in Hashes
  PROVE  Has(t, h) <=> \E v \in Values : Entry(t, h, v)
<1> DEFINE b == BucketOf(h, t.count)
           v == t.values[b][IndexOf(t, h)]
<1>1. Has(t, h) => IndexOf(t, h) \in 1..Len(t.keys[b])
  BY IndexIs
<1>2. Has(t, h) => v \in Values
  BY <1>1, BucketIs, Lengths
<1> QED BY <1>2, EntryIs

\* What Emplace inserts into: the table, doubled when the bucket is full.
LEMMA RoomMade ==
  ASSUME NEW t, Sound(t), NEW h \in Hashes, ~Has(t, h),
         NEW r, r = IF Full(t, h) THEN Resize(t) ELSE t
  PROVE  /\ Sound(r) /\ ~Has(r, h)
         /\ Len(r.keys[BucketOf(h, r.count)]) + 1 <= r.capacity
         /\ \A g \in Hashes, w \in Values : Entry(r, g, w) <=> Entry(t, g, w)
<1> DEFINE b == BucketOf(h, r.count)
<1>1. Shape(t) /\ Arranged(t) /\ Fits(t) /\ t.count \in Nat \ {0} /\ t.capacity \in Nat \ {0}
  BY DEF Sound, Shape
<1>2. CASE Full(t, h)
  <2>1. /\ Shape(r) /\ Arranged(r) /\ r.count = 2 * t.count /\ r.capacity = 2 * t.capacity
        /\ \A c \in 0..2 * t.count - 1 :
             /\ c % t.count \in 0..t.count - 1
             /\ Len(r.keys[c]) <= Len(t.keys[c % t.count])
        /\ \A g \in Hashes, v \in Values : Entry(r, g, v) <=> Entry(t, g, v)
    BY <1>1, <1>2, ResizeIs
  <2>2. \A c \in 0..r.count - 1 : Len(r.keys[c]) + 1 <= r.capacity
    <3> SUFFICES ASSUME NEW c \in 0..r.count - 1 PROVE Len(r.keys[c]) + 1 <= r.capacity
      OBVIOUS
    <3> DEFINE d == c % t.count
    <3>1. d \in 0..t.count - 1 /\ Len(r.keys[c]) <= Len(t.keys[d])
      BY <2>1
    <3> HIDE DEF d
    <3>2. Len(t.keys[d]) <= t.capacity
      BY <1>1, <3>1 DEF Fits
    <3>3. Len(t.keys[d]) \in Nat /\ Len(r.keys[c]) \in Nat
      BY <1>1, <2>1, <3>1, Lengths
    <3>4. t.capacity \in Nat \ {0} /\ r.capacity = 2 * t.capacity
      BY <1>1, <2>1
    <3>5. \A k, l, m \in Nat : k <= l /\ l <= m /\ m # 0 => k + 1 <= 2 * m
      OBVIOUS
    <3>6. Len(r.keys[c]) + 1 <= 2 * t.capacity
      BY <3>1, <3>2, <3>3, <3>4, <3>5
    <3> QED BY <3>4, <3>6
  <2>3. Fits(r)
    <3> SUFFICES ASSUME NEW c \in 0..r.count - 1 PROVE Len(r.keys[c]) <= r.capacity
      BY DEF Fits
    <3>1. Len(r.keys[c]) \in Nat /\ r.capacity \in Nat
      BY <2>1, Lengths DEF Shape
    <3> QED BY <2>2, <3>1
  <2>4. ~Has(r, h)
    BY <1>1, <2>1, HasEntry
  <2>5. b \in 0..r.count - 1
    BY <2>1, BucketIs
  <2> QED BY <2>1, <2>2, <2>3, <2>4, <2>5 DEF Sound
<1>3. CASE ~Full(t, h)
  <2>1. b \in 0..t.count - 1 /\ Len(t.keys[b]) \in Nat
    BY <1>1, <1>3, BucketIs, Lengths
  <2> QED BY <1>1, <1>3, <2>1 DEF Full
<1> QED BY <1>2, <1>3

LEMMA EmplaceIs ==
  ASSUME Sound(table), NEW h \in Hashes, NEW v \in Values, TryEmplace(h, v)
  PROVE  /\ Sound(table')
         /\ \A g \in Hashes, w \in Values :
              Entry(table', g, w) <=> Entry(table, g, w) \/ (g = h /\ w = v)
<1> DEFINE r == IF Full(table, h) THEN Resize(table) ELSE table
           b == BucketOf(h, r.count)
<1>1. /\ Sound(r) /\ ~Has(r, h)
      /\ Len(r.keys[b]) + 1 <= r.capacity
      /\ \A g \in Hashes, w \in Values : Entry(r, g, w) <=> Entry(table, g, w)
  BY RoomMade DEF TryEmplace
<1>2. table' = InsertPair(r, h, v)
  BY DEF TryEmplace, Emplace
<1> HIDE DEF r
<1>3. /\ Shape(table') /\ Arranged(table')
      /\ table'.count = r.count /\ table'.capacity = r.capacity
      /\ Len(table'.keys[b]) = Len(r.keys[b]) + 1
      /\ \A c \in 0..r.count - 1 : c # b => Len(table'.keys[c]) = Len(r.keys[c])
      /\ \A g \in Hashes, w \in Values :
           Entry(table', g, w) <=> Entry(r, g, w) \/ (g = h /\ w = v)
  <2>1. Shape(r) /\ Arranged(r) /\ ~Has(r, h)
    BY <1>1 DEF Sound
  <2> QED BY <1>2, <2>1, InsertPairIs
<1>4. Fits(table')
  BY <1>1, <1>3 DEF Fits, Sound
<1> QED BY <1>1, <1>3, <1>4 DEF Sound

LEMMA UpdateIs ==
  ASSUME Sound(table), NEW h \in Hashes, NEW v \in Values, Update(h, v)
  PROVE  /\ Sound(table') /\ table'.count = table.count /\ table'.keys = table.keys
         /\ \A g \in Hashes, w \in Values :
              Entry(table', g, w) <=> IF g = h THEN w = v ELSE Entry(table, g, w)
<1> DEFINE b == BucketOf(h, table.count)
           i == IndexOf(table, h)
           s == table.keys[b]
           values == [table.values[b] EXCEPT ![i] = v]
<1>1. Shape(table) /\ Arranged(table) /\ Has(table, h)
  BY DEF Sound, Update
<1>2. /\ b \in 0..table.count - 1 /\ i \in 1..Len(s) /\ s[i] = h
  BY <1>1, BucketIs, IndexIs
<1>3. /\ s \in Seq(Hashes) /\ table.values[b] \in Seq(Values)
      /\ Len(s) \in Nat /\ Len(table.values[b]) = Len(s)
  BY <1>1, <1>2, Lengths
<1>4. table' = [table EXCEPT !.values[b] = values]
  BY DEF Update
<1>5. /\ values \in Seq(Values) /\ Len(values) = Len(s)
      /\ \A k \in 1..Len(s) : values[k] = IF k = i THEN v ELSE table.values[b][k]
  BY <1>2, <1>3, ExceptSeq
<1> HIDE DEF values
<1>6. table' = Changed(table, b, s, values)
  <2>1. [table.keys EXCEPT ![b] = s] = table.keys
    BY <1>1, <1>2 DEF Shape
  <2>2. /\ table \in [count : Nat, capacity : Nat,
                      keys : [0..table.count - 1 -> Seq(Hashes)],
                      values : [0..table.count - 1 -> Seq(Values)]]
    BY <1>1 DEF Shape
  <2> HIDE DEF b, s
  <2> QED BY <1>4, <2>1, <2>2 DEF Changed
<1>7. Ascending(s) /\ \A k \in 1..Len(s) : BucketOf(s[k], table.count) = b
  BY <1>1, <1>2 DEF Arranged
<1>8. Arranged(table')
  BY <1>1, <1>2, <1>3, <1>5, <1>6, <1>7, ChangedArranged
<1>9. /\ Shape(table') /\ table'.count = table.count /\ table'.capacity = table.capacity
      /\ table'.keys[b] = s /\ table'.values[b] = values
      /\ \A c \in 0..table.count - 1 : c # b => table'.keys[c] = table.keys[c]
  BY <1>1, <1>2, <1>3, <1>5, <1>6, ChangedIs
<1>10. table'.keys = table.keys
  BY <1>1, <1>4 DEF Shape
<1>11. Fits(table')
  BY <1>9, <1>10 DEF Fits, Sound
<1>12. ASSUME NEW g \in Hashes, NEW w \in Values
       PROVE  Entry(table', g, w) <=> IF g = h THEN w = v ELSE Entry(table, g, w)
  <2>1. CASE BucketOf(g, table.count) = b
    <3>1. Entry(table, g, w) <=> \E k \in 1..Len(s) : s[k] = g /\ table.values[b][k] = w
      BY <2>1 DEF Entry
    <3>2. Entry(table', g, w) <=> \E k \in 1..Len(s) : s[k] = g /\ values[k] = w
      BY <1>9, <2>1 DEF Entry
    <3>3. CASE g = h
      <4>1. \A k \in 1..Len(s) : s[k] = h => k = i
        BY <1>1, <1>2, Different
      <4> QED BY <1>2, <1>5, <3>2, <3>3, <4>1
    <3>4. CASE g # h
      <4>1. \A k \in 1..Len(s) : s[k] = g => values[k] = table.values[b][k]
        BY <1>2, <1>5, <3>4
      <4> QED BY <3>1, <3>2, <3>4, <4>1
    <3> QED BY <3>3, <3>4
  <2>2. CASE BucketOf(g, table.count) # b
    <3>1. Entry(table', g, w) <=> Entry(table, g, w)
      BY <1>1, <1>2, <1>3, <1>5, <1>6, <2>2, ChangedElsewhere
    <3> QED BY <2>2, <3>1
  <2> QED BY <2>1, <2>2
<1> QED BY <1>8, <1>9, <1>10, <1>11, <1>12 DEF Sound

LEMMA RemoveIs ==
  ASSUME Sound(table), NEW h \in Hashes, RemoveKey(h)
  PROVE  /\ Sound(table')
         /\ \A g \in Hashes, w \in Values :
              Entry(table', g, w) <=> Entry(table, g, w) /\ g # h
<1> DEFINE b == BucketOf(h, table.count)
           i == IndexOf(table, h)
           s == table.keys[b]
           hashes == RemoveAt(s, i)
           values == RemoveAt(table.values[b], i)
<1>1. Shape(table) /\ Arranged(table) /\ Has(table, h)
  BY DEF Sound, RemoveKey
<1>2. /\ b \in 0..table.count - 1 /\ i \in 1..Len(s) /\ s[i] = h
  BY <1>1, BucketIs, IndexIs
<1>3. /\ s \in Seq(Hashes) /\ table.values[b] \in Seq(Values)
      /\ Len(s) \in Nat /\ Len(table.values[b]) = Len(s)
  BY <1>1, <1>2, Lengths
<1>4. table' = Changed(table, b, hashes, values)
  BY DEF RemoveKey, Changed
<1>5. /\ hashes \in Seq(Hashes) /\ Len(hashes) = Len(s) - 1
      /\ \A k \in 1..i - 1 : hashes[k] = s[k]
      /\ \A k \in i..Len(s) - 1 : hashes[k] = s[k + 1]
  BY <1>2, <1>3, Removal
<1>6. /\ values \in Seq(Values) /\ Len(values) = Len(s) - 1
      /\ \A k \in 1..i - 1 : values[k] = table.values[b][k]
      /\ \A k \in i..Len(s) - 1 : values[k] = table.values[b][k + 1]
  <2>1. i \in 1..Len(table.values[b])
    BY <1>2, <1>3
  <2>2. /\ values \in Seq(Values) /\ Len(values) = Len(table.values[b]) - 1
        /\ \A k \in 1..i - 1 : values[k] = table.values[b][k]
        /\ \A k \in i..Len(table.values[b]) - 1 : values[k] = table.values[b][k + 1]
    BY <1>3, <2>1, Removal
  <2> QED BY <1>3, <2>2
<1>7. Ascending(s) /\ \A k \in 1..Len(s) : BucketOf(s[k], table.count) = b
  BY <1>1, <1>2 DEF Arranged
<1>8. Ascending(hashes)
  BY <1>2, <1>3, <1>7, AscendingRemoval
<1> HIDE DEF hashes, values
<1>9. \A k \in 1..Len(hashes) :
        \E j \in 1..Len(s) : j # i /\ hashes[k] = s[j] /\ values[k] = table.values[b][j]
  <2> SUFFICES ASSUME NEW k \in 1..Len(s) - 1
               PROVE  \E j \in 1..Len(s) : j # i /\ hashes[k] = s[j] /\ values[k] = table.values[b][j]
    BY <1>5
  <2>1. CASE k < i
    <3>1. k \in 1..i - 1 /\ k \in 1..Len(s) /\ k # i
      BY <1>2, <1>3, <2>1
    <3> QED BY <1>5, <1>6, <3>1
  <2>2. CASE k >= i
    <3>1. k \in i..Len(s) - 1 /\ k + 1 \in 1..Len(s) /\ k + 1 # i
      BY <1>2, <1>3, <2>2
    <3>2. hashes[k] = s[k + 1] /\ values[k] = table.values[b][k + 1]
      BY <1>5, <1>6, <3>1
    <3> QED BY <3>1, <3>2
  <2>3. k < i \/ k >= i
    BY <1>2, <1>3
  <2> QED BY <2>1, <2>2, <2>3
<1>10. \A j \in 1..Len(s) : j # i =>
         \E k \in 1..Len(hashes) : hashes[k] = s[j] /\ values[k] = table.values[b][j]
  <2> SUFFICES ASSUME NEW j \in 1..Len(s), j # i
               PROVE  \E k \in 1..Len(s) - 1 : hashes[k] = s[j] /\ values[k] = table.values[b][j]
    BY <1>5
  <2>1. CASE j < i
    <3>1. j \in 1..i - 1 /\ j \in 1..Len(s) - 1
      BY <1>2, <1>3, <2>1
    <3> QED BY <1>5, <1>6, <3>1
  <2>2. CASE j > i
    <3>1. j - 1 \in i..Len(s) - 1 /\ j - 1 \in 1..Len(s) - 1 /\ (j - 1) + 1 = j
      BY <1>2, <1>3, <2>2
    <3>2. hashes[j - 1] = s[(j - 1) + 1] /\ values[j - 1] = table.values[b][(j - 1) + 1]
      BY <1>5, <1>6, <3>1
    <3> QED BY <3>1, <3>2
  <2> QED BY <1>2, <1>3, <2>1, <2>2
<1>11. \A k \in 1..Len(hashes) : BucketOf(hashes[k], table.count) = b
  <2> HIDE DEF b
  <2> QED BY <1>7, <1>9
<1>12. Arranged(table')
  <2>1. Len(values) = Len(hashes)
    BY <1>5, <1>6
  <2> QED BY <1>1, <1>2, <1>4, <1>5, <1>6, <1>8, <1>11, <2>1, ChangedArranged
<1>13. /\ Shape(table') /\ table'.count = table.count /\ table'.capacity = table.capacity
       /\ table'.keys[b] = hashes /\ table'.values[b] = values
       /\ \A c \in 0..table.count - 1 : c # b => table'.keys[c] = table.keys[c]
  BY <1>1, <1>2, <1>4, <1>5, <1>6, ChangedIs
<1>14. Fits(table')
  <2> SUFFICES ASSUME NEW c \in 0..table.count - 1 PROVE Len(table'.keys[c]) <= table.capacity
    BY <1>13 DEF Fits
  <2>1. Len(table.keys[c]) <= table.capacity /\ table.capacity \in Nat
    BY DEF Sound, Fits, Shape
  <2>2. CASE c = b
    BY <1>3, <1>5, <1>13, <2>1, <2>2
  <2>3. CASE c # b
    BY <1>13, <2>1, <2>3
  <2> QED BY <2>2, <2>3
<1>15. ASSUME NEW g \in Hashes, NEW w \in Values
       PROVE  Entry(table', g, w) <=> Entry(table, g, w) /\ g # h
  <2>1. CASE BucketOf(g, table.count) = b
    <3>1. Entry(table, g, w) <=> \E k \in 1..Len(s) : s[k] = g /\ table.values[b][k] = w
      BY <2>1 DEF Entry
    <3>2. Entry(table', g, w) <=> \E k \in 1..Len(hashes) : hashes[k] = g /\ values[k] = w
      BY <1>13, <2>1 DEF Entry
    <3>3. \A k \in 1..Len(s) : s[k] = h => k = i
      BY <1>1, <1>2, Different
    <3> HIDE DEF s, b, i
    <3>4. ASSUME Entry(table', g, w) PROVE Entry(table, g, w) /\ g # h
      <4>1. PICK k \in 1..Len(hashes) : hashes[k] = g /\ values[k] = w
        BY <3>2, <3>4
      <4>2. PICK j \in 1..Len(s) : j # i /\ hashes[k] = s[j] /\ values[k] = table.values[b][j]
        BY <1>9, <4>1
      <4> QED BY <3>1, <3>3, <4>1, <4>2
    <3>5. ASSUME Entry(table, g, w), g # h PROVE Entry(table', g, w)
      <4>1. PICK j \in 1..Len(s) : s[j] = g /\ table.values[b][j] = w
        BY <3>1, <3>5
      <4>2. j # i
        BY <1>2, <3>5, <4>1
      <4> QED BY <1>10, <3>2, <4>1, <4>2
    <3> QED BY <3>4, <3>5
  <2>2. CASE BucketOf(g, table.count) # b
    <3>1. Entry(table', g, w) <=> Entry(table, g, w)
      BY <1>1, <1>2, <1>4, <1>5, <1>6, <2>2, ChangedElsewhere
    <3> QED BY <2>2, <3>1
  <2> QED BY <2>1, <2>2
<1> QED BY <1>12, <1>13, <1>14, <1>15 DEF Sound

LEMMA ClearIs ==
  ASSUME Sound(table), Clear
  PROVE  Sound(table') /\ \A g \in Hashes, w \in Values : ~Entry(table', g, w)
<1>1. table.count \in Nat \ {0} /\ table.capacity \in Nat \ {0}
  BY DEF Sound, Shape
<1>2. table' = Empty(table.count, table.capacity)
  BY DEF Clear
<1>3. /\ Shape(table') /\ Arranged(table')
      /\ table'.count = table.count /\ table'.capacity = table.capacity
      /\ \A c \in 0..table.count - 1 : Len(table'.keys[c]) = 0
      /\ \A h \in Hashes : \A v : ~Entry(table', h, v)
  BY <1>1, <1>2, EmptyIs
<1>4. Fits(table')
  BY <1>1, <1>3 DEF Fits
<1> QED BY <1>3, <1>4 DEF Sound

-----------------------------------------------------------------------------
(* Iteration.                                                              *)

LEMMA FirstFromIs ==
  ASSUME NEW t, Sound(t), NEW b \in 0..t.count
  PROVE  LET c == FirstFrom(t, b)
         IN  /\ Placed(t, c)
             /\ c.bucket \in b..t.count /\ c.element \in {0, 1}
             /\ \A d \in b..c.bucket - 1 : Len(t.keys[d]) = 0
<1> DEFINE used == {d \in b..t.count - 1 : t.keys[d] # << >>}
           c == FirstFrom(t, b)
<1>1. Shape(t) /\ Arranged(t) /\ t.count \in Nat \ {0}
  BY DEF Sound, Shape
<1>2. c = IF used = {} THEN End(t) ELSE [bucket |-> Min(used), element |-> 1]
  BY DEF FirstFrom
<1>3. used \subseteq Nat
  BY <1>1
<1> HIDE DEF c
<1>4. ASSUME NEW d \in b..t.count - 1, d \notin used PROVE Len(t.keys[d]) = 0
  <2>1. t.keys[d] = << >>
    BY <1>4
  <2> QED BY <2>1
<1>5. CASE used = {}
  <2>1. c.bucket = t.count /\ c.element = 0 /\ c = End(t)
    BY <1>2, <1>5 DEF End
  <2>2. \A d \in b..c.bucket - 1 : Len(t.keys[d]) = 0
    BY <1>4, <1>5, <2>1
  <2> QED BY <1>1, <2>1, <2>2 DEF Placed, c
<1>6. CASE used # {}
  <2> DEFINE m == Min(used)
  <2>1. m \in used /\ \A n \in used : m <= n
    <3> HIDE DEF used
    <3>1. PICK n \in used : \A k \in used : n <= k
      BY <1>3, <1>6, Least
    <3> QED BY <3>1 DEF Min
  <2>2. c = [bucket |-> m, element |-> 1]
    BY <1>2, <1>6
  <2> HIDE DEF m
  <2>3. m \in 0..t.count - 1 /\ m \in b..t.count /\ t.keys[m] # << >>
    BY <1>1, <2>1
  <2>4. t.keys[m] \in Seq(Hashes) /\ Len(t.keys[m]) \in Nat
    BY <1>1, <2>3, Lengths
  <2>5. Len(t.keys[m]) # 0
    BY <2>3, <2>4, EmptySeq
  <2>6. c.bucket = m /\ c.element = 1 /\ 1 \in 1..Len(t.keys[m])
    BY <2>2, <2>4, <2>5
  <2>7. c \in [bucket : 0..t.count - 1, element : Nat]
    BY <2>2, <2>3
  <2>8. \A d \in b..m - 1 : Len(t.keys[d]) = 0
    <3> SUFFICES ASSUME NEW d \in b..m - 1 PROVE Len(t.keys[d]) = 0
      OBVIOUS
    <3>1. d \in b..t.count - 1 /\ ~(m <= d)
      BY <1>1, <2>3
    <3>2. d \notin used
      BY <2>1, <3>1
    <3> QED BY <1>4, <3>1, <3>2
  <2>9. Placed(t, c)
    BY <2>6, <2>7 DEF Placed
  <2> QED BY <2>3, <2>6, <2>8, <2>9 DEF c
<1> QED BY <1>5, <1>6

\* One more element has been come past.
LEMMA VisitsOne ==
  ASSUME NEW t, Sound(t), NEW c, NEW s, Visited(t, c, s),
         c.bucket \in 0..t.count - 1, c.element \in 1..Len(t.keys[c.bucket]),
         NEW d,
         \A b \in 0..t.count - 1 : \A i \in 1..Len(t.keys[b]) :
           Past(d, b, i) <=> Past(c, b, i) \/ (b = c.bucket /\ i = c.element)
  PROVE  Visited(t, d, Append(s, Current(t, c)))
<1> DEFINE B == c.bucket
           E == c.element
           h == Current(t, c)
           r == Append(s, h)
<1>1. Shape(t) /\ Arranged(t) /\ t.count \in Nat
  BY DEF Sound, Shape
<1>2. h = t.keys[B][E] /\ h \in Hashes
  BY <1>1, Lengths DEF Current
<1> HIDE DEF h
<1>3. s \in Seq(Hashes) /\ Len(s) \in Nat
  BY LenProperties DEF Visited
<1>4. /\ r \in Seq(Hashes) /\ Len(r) = Len(s) + 1
      /\ \A k \in 1..Len(s) : r[k] = s[k]
      /\ r[Len(s) + 1] = h
  BY <1>2, <1>3, AppendProperties
<1> HIDE DEF r
<1>5. ~Past(c, B, E)
  <2>1. B \in Int /\ E \in Int
    BY <1>1
  <2> QED BY <2>1 DEF Past
<1>6. \A k \in 1..Len(s) : s[k] # h
  <2> SUFFICES ASSUME NEW k \in 1..Len(s), s[k] = h PROVE FALSE
    OBVIOUS
  <2>1. PICK b \in 0..t.count - 1 : \E i \in 1..Len(t.keys[b]) :
          Past(c, b, i) /\ s[k] = t.keys[b][i]
    BY DEF Visited
  <2>2. PICK i \in 1..Len(t.keys[b]) : Past(c, b, i) /\ s[k] = t.keys[b][i]
    BY <2>1
  <2>3. BucketOf(h, t.count) = b /\ BucketOf(h, t.count) = B
    <3>1. h = t.keys[b][i]
      BY <2>2
    <3>2. BucketOf(t.keys[b][i], t.count) = b
      BY <1>1, <2>2 DEF Arranged
    <3>3. BucketOf(h, t.count) = B
      BY <1>1, <1>2 DEF Arranged
    <3> QED BY <3>1, <3>2, <3>3
  <2>4. i = E
    <3>1. /\ B \in 0..t.count - 1
          /\ i \in 1..Len(t.keys[B]) /\ E \in 1..Len(t.keys[B])
          /\ t.keys[B][i] = t.keys[B][E]
      BY <1>2, <2>2, <2>3
    <3> HIDE DEF B, E
    <3> QED BY <1>1, <3>1, Different
  <2> QED BY <1>5, <2>2, <2>3, <2>4
<1>7. ASSUME NEW k \in 1..Len(r)
      PROVE  \E b \in 0..t.count - 1 : \E i \in 1..Len(t.keys[b]) :
               Past(d, b, i) /\ r[k] = t.keys[b][i]
  <2>1. CASE k = Len(s) + 1
    BY <1>2, <1>4, <2>1
  <2>2. CASE k # Len(s) + 1
    <3>1. k \in 1..Len(s) /\ r[k] = s[k]
      BY <1>3, <1>4, <2>2
    <3>2. PICK b \in 0..t.count - 1 : \E i \in 1..Len(t.keys[b]) :
            Past(c, b, i) /\ s[k] = t.keys[b][i]
      BY <3>1 DEF Visited
    <3>3. PICK i \in 1..Len(t.keys[b]) : Past(c, b, i) /\ s[k] = t.keys[b][i]
      BY <3>2
    <3> QED BY <3>1, <3>3
  <2> QED BY <2>1, <2>2
<1>8. ASSUME NEW b \in 0..t.count - 1, NEW i \in 1..Len(t.keys[b]), Past(d, b, i)
      PROVE  \E k \in 1..Len(r) : r[k] = t.keys[b][i]
  <2>1. CASE b = B /\ i = E
    <3>1. Len(s) + 1 \in 1..Len(r)
      BY <1>3, <1>4
    <3> QED BY <1>2, <1>4, <2>1, <3>1
  <2>2. CASE ~(b = B /\ i = E)
    <3>1. Past(c, b, i)
      BY <1>8, <2>2
    <3>2. PICK k \in 1..Len(s) : s[k] = t.keys[b][i]
      BY <3>1 DEF Visited
    <3>3. k \in 1..Len(r) /\ r[k] = s[k]
      BY <1>3, <1>4
    <3> QED BY <3>2, <3>3
  <2> QED BY <2>1, <2>2
<1>9. ASSUME NEW k \in 1..Len(r), NEW l \in 1..Len(r), r[k] = r[l]
      PROVE  k = l
  <2>1. \A m \in 1..Len(r) : (m \in 1..Len(s) /\ r[m] = s[m]) \/ (m = Len(s) + 1 /\ r[m] = h)
    BY <1>3, <1>4
  <2>2. \A m, n \in 1..Len(s) : s[m] = s[n] => m = n
    BY DEF Visited
  <2> QED BY <1>6, <1>9, <2>1, <2>2
<1>10. Visited(t, d, r)
  BY <1>4, <1>7, <1>8, <1>9 DEF Visited
<1> QED BY <1>10 DEF r, h

LEMMA BeginKeeps ==
  ASSUME IInv, Begin
  PROVE  IInv'
<1> DEFINE c == FirstFrom(table, 0)
<1>1. Sound(table) /\ cursor' = c /\ seen' = << >> /\ table' = table
  BY DEF IInv, Begin
<1>2. table.count \in Nat
  BY <1>1 DEF Sound, Shape
<1>3. /\ Placed(table, c) /\ c.bucket \in 0..table.count /\ c.element \in {0, 1}
      /\ \A d \in 0..c.bucket - 1 : Len(table.keys[d]) = 0
  <2>1. 0 \in 0..table.count
    BY <1>2
  <2> QED BY <1>1, <2>1, FirstFromIs
<1> HIDE DEF c
<1>4. ASSUME NEW b \in 0..table.count - 1, NEW i \in 1..Len(table.keys[b])
      PROVE  ~Past(c, b, i)
  <2>1. Len(table.keys[b]) \in Nat
    BY <1>1, Lengths DEF Sound
  <2>2. ~(b < c.bucket)
    <3> SUFFICES ASSUME b < c.bucket PROVE FALSE
      OBVIOUS
    <3>1. b \in 0..c.bucket - 1
      BY <1>2, <1>3
    <3> QED BY <1>3, <2>1, <3>1
  <2> QED BY <1>3, <2>1, <2>2 DEF Past
<1>5. Visited(table, c, << >>)
  BY <1>1, <1>4, NothingVisited
<1> QED BY <1>1, <1>3, <1>5 DEF IInv

LEMMA AdvanceKeeps ==
  ASSUME IInv, Advance
  PROVE  IInv'
<1> DEFINE B == cursor.bucket
           E == cursor.element
           N == Len(table.keys[B])
<1>1. /\ Sound(table) /\ Visited(table, cursor, seen)
      /\ seen' = Append(seen, Current(table, cursor)) /\ table' = table
  BY DEF IInv, Advance
<1>2. /\ cursor \in [bucket : 0..table.count - 1, element : Nat]
      /\ B \in 0..table.count - 1 /\ E \in 1..N
  BY DEF IInv, Advance, Placed
<1>3. Shape(table) /\ Arranged(table) /\ table.count \in Nat /\ N \in Nat
  BY <1>1, <1>2, Lengths DEF Sound, Shape
<1>4. CASE E + 1 <= N
  <2>1. /\ cursor' = [cursor EXCEPT !.element = E + 1]
        /\ cursor' \in [bucket : 0..table.count - 1, element : Nat]
        /\ cursor'.bucket = B /\ cursor'.element = E + 1
    BY <1>2, <1>3, <1>4 DEF Advance
  <2>2. E + 1 \in 1..N
    BY <1>2, <1>3, <1>4
  <2>3. Placed(table, cursor')
    BY <2>1, <2>2 DEF Placed
  <2>4. ASSUME NEW b \in 0..table.count - 1, NEW i \in 1..Len(table.keys[b])
        PROVE  Past(cursor', b, i) <=> Past(cursor, b, i) \/ (b = B /\ i = E)
    <3>1. Len(table.keys[b]) \in Nat
      BY <1>3, Lengths
    <3>2. i \in Int /\ E \in Int
      BY <1>2, <1>3, <3>1
    <3>3. i < E + 1 <=> i < E \/ i = E
      BY <3>2
    <3> QED BY <2>1, <3>3 DEF Past
  <2>5. Visited(table, cursor', seen')
    BY <1>1, <1>2, <2>4, VisitsOne
  <2> QED BY <1>1, <2>3, <2>5 DEF IInv
<1>5. CASE ~(E + 1 <= N)
  <2> DEFINE c == FirstFrom(table, B + 1)
  <2>1. cursor' = c
    BY <1>5 DEF Advance
  <2>2. /\ Placed(table, c) /\ c.bucket \in B + 1..table.count /\ c.element \in {0, 1}
        /\ \A d \in B + 1..c.bucket - 1 : Len(table.keys[d]) = 0
    <3>1. B + 1 \in 0..table.count
      BY <1>2, <1>3
    <3> QED BY <1>1, <3>1, FirstFromIs
  <2> HIDE DEF c
  <2>3. ASSUME NEW b \in 0..table.count - 1, NEW i \in 1..Len(table.keys[b])
        PROVE  Past(c, b, i) <=> Past(cursor, b, i) \/ (b = B /\ i = E)
    <3>1. Len(table.keys[b]) \in Nat
      BY <1>3, Lengths
    <3>2. Past(c, b, i) <=> b < c.bucket
      <4>1. ~(i < c.element)
        BY <2>2, <3>1
      <4> QED BY <4>1 DEF Past
    <3>3. b < c.bucket <=> b <= B
      <4>1. ASSUME b < c.bucket, ~(b <= B) PROVE FALSE
        <5>1. b \in B + 1..c.bucket - 1
          BY <1>2, <1>3, <2>2, <4>1
        <5> QED BY <2>2, <3>1, <5>1
      <4>2. b <= B => b < c.bucket
        BY <1>2, <1>3, <2>2
      <4> QED BY <4>1, <4>2
    <3>4. b = B => (i < E \/ i = E)
      BY <1>2, <1>3, <1>5, <3>1
    <3>5. b <= B <=> b < B \/ b = B
      BY <1>2, <1>3
    <3>6. Past(cursor, b, i) <=> b < B \/ (b = B /\ i < E)
      BY DEF Past
    <3> QED BY <3>2, <3>3, <3>4, <3>5, <3>6
  <2>4. Visited(table, c, seen')
    BY <1>1, <1>2, <2>3, VisitsOne
  <2> QED BY <1>1, <2>1, <2>2, <2>4 DEF IInv
<1> QED BY <1>4, <1>5

-----------------------------------------------------------------------------
(* The theorems.                                                           *)

LEMMA UpdateKeeps ==
  ASSUME IInv, NEW h \in Hashes, NEW v \in Values, Update(h, v)
  PROVE  IInv'
<1>1. Sound(table) /\ Placed(table, cursor) /\ Visited(table, cursor, seen)
  BY DEF IInv
<1>2. Sound(table') /\ table'.count = table.count /\ table'.keys = table.keys
  BY <1>1, UpdateIs
<1>3. cursor' = cursor /\ seen' = seen
  BY DEF Update
<1>4. Placed(table', cursor')
  BY <1>1, <1>2, <1>3 DEF Placed, End
<1>5. Visited(table', cursor', seen')
  BY <1>1, <1>2, <1>3 DEF Visited
<1> QED BY <1>2, <1>4, <1>5 DEF IInv

LEMMA InitKeeps ==
  ASSUME Init
  PROVE  /\ \E c \in Nat \ {0}, d \in Nat \ {0} : table = Empty(c, d)
         /\ Sound(table) /\ IInv
<1>1. PICK size \in Sizes :
        LET count == NextPowerOfTwo(size)
        IN  \/ table = Construct(count, count \div 2)
            \/ \E f \in LoadFactors : table = Construct(count, (count * f[1]) \div f[2])
  BY DEF Init
<1> DEFINE count == NextPowerOfTwo(size)
<1>2. count \in Nat \ {0}
  BY SizeAssumption, NextPowerOfTwoIs
<1>3. \/ table = Construct(count, count \div 2)
      \/ \E f \in LoadFactors : table = Construct(count, (count * f[1]) \div f[2])
  BY <1>1
<1> HIDE DEF count
<1>4. \E capacity \in Nat : table = Construct(count, capacity)
  <2>1. CASE table = Construct(count, count \div 2)
    <3>1. count \div 2 \in Nat
      BY <1>2
    <3> QED BY <2>1, <3>1
  <2>2. ASSUME NEW f \in LoadFactors, table = Construct(count, (count * f[1]) \div f[2])
        PROVE  \E capacity \in Nat : table = Construct(count, capacity)
    <3>1. f[1] \in Nat /\ f[2] \in Nat \ {0}
      BY LoadAssumption
    <3>2. count * f[1] \in Nat
      BY <1>2, <3>1
    <3>3. (count * f[1]) \div f[2] \in Nat
      BY <3>1, <3>2, Division
    <3> QED BY <2>2, <3>3
  <2> QED BY <1>3, <2>1, <2>2
<1>5. PICK c \in Nat \ {0}, d \in Nat \ {0} : table = Empty(c, d)
  BY <1>2, <1>4, ConstructIs
<1>6. /\ Shape(table) /\ Arranged(table) /\ table.count = c /\ table.capacity = d
      /\ \A b \in 0..c - 1 : Len(table.keys[b]) = 0
  BY <1>5, EmptyIs
<1>7. Sound(table)
  BY <1>6 DEF Sound, Fits
<1>8. cursor = Idle /\ seen = << >>
  BY DEF Init
<1>9. \A b \in 0..table.count - 1 : \A i \in 1..Len(table.keys[b]) : ~Past(cursor, b, i)
  BY <1>6
<1>10. Visited(table, cursor, seen)
  BY <1>7, <1>8, <1>9, NothingVisited
<1> QED BY <1>5, <1>7, <1>8, <1>10 DEF IInv, Placed

LEMMA NextKeeps ==
  ASSUME IInv, [Next]_vars
  PROVE  IInv'
<1>1. Sound(table)
  BY DEF IInv
<1>2. ASSUME NEW h \in Hashes, NEW v \in Values, TryEmplace(h, v) PROVE IInv'
  <2>1. Sound(table') /\ Invalidate
    BY <1>1, <1>2, EmplaceIs DEF TryEmplace, Emplace
  <2> QED BY <2>1, InvalidateKeeps
<1>3. ASSUME NEW h \in Hashes, NEW v \in Values, Update(h, v) PROVE IInv'
  BY <1>3, UpdateKeeps
<1>4. ASSUME NEW h \in Hashes, RemoveKey(h) PROVE IInv'
  <2>1. Sound(table') /\ Invalidate
    BY <1>1, <1>4, RemoveIs DEF RemoveKey
  <2> QED BY <2>1, InvalidateKeeps
<1>5. ASSUME Clear PROVE IInv'
  <2>1. Sound(table') /\ Invalidate
    BY <1>1, <1>5, ClearIs DEF Clear
  <2> QED BY <2>1, InvalidateKeeps
<1>6. ASSUME UNCHANGED vars PROVE IInv'
  BY <1>6 DEF IInv, vars
<1> QED BY <1>2, <1>3, <1>4, <1>5, <1>6, BeginKeeps, AdvanceKeeps DEF Next

\* The invariant: the table is well formed, sorted and within its buckets,
\* and a cursor has come past the entries before it, each once.
THEOREM Invariant == Spec => []IInv
<1>1. Init => IInv
  BY InitKeeps
<1>2. IInv /\ [Next]_vars => IInv'
  BY NextKeeps
<1> QED BY <1>1, <1>2, PTL DEF Spec

\* Find and TryGet agree about every key, whatever was called before.
THEOREM LookupsAlwaysAgree == Spec => []LookupsAgree
<1>1. IInv => LookupsAgree
  BY FindIs DEF IInv, Sound, LookupsAgree
<1> QED BY <1>1, Invariant, PTL

\* No bucket overflows, no key is held twice and none is held where a look-up
\* does not find it.
THEOREM NothingEverStranded == Spec => []NothingStranded
<1>1. ASSUME IInv PROVE NothingStranded
  <2>1. Shape(table) /\ Arranged(table) /\ Fits(table)
    BY <1>1 DEF IInv, Sound
  <2>2. BucketsFit
    BY <2>1 DEF BucketsFit, Arranged, Fits
  <2>3. ASSUME NEW h \in Hashes
        PROVE  LET places == {p \in UNION {{b} \X DOMAIN table.keys[b] : b \in 0..table.count - 1} :
                                table.keys[p[1]][p[2]] = h}
               IN  IF Has(table, h) THEN \E p \in places : places = {p} ELSE places = {}
    <3> DEFINE places == {p \in UNION {{b} \X DOMAIN table.keys[b] : b \in 0..table.count - 1} :
                                table.keys[p[1]][p[2]] = h}
               B == BucketOf(h, table.count)
    <3>1. ASSUME NEW p
          PROVE  p \in places <=> \E b \in 0..table.count - 1 : \E i \in 1..Len(table.keys[b]) :
                                    p = <<b, i>> /\ table.keys[b][i] = h
      <4>1. \A b \in 0..table.count - 1 : DOMAIN table.keys[b] = 1..Len(table.keys[b])
        BY <2>1, Lengths, LenProperties
      <4>2. p \in places <=> \E b \in 0..table.count - 1 : \E i \in DOMAIN table.keys[b] :
                               p = <<b, i>> /\ table.keys[p[1]][p[2]] = h
        OBVIOUS
      <4> HIDE DEF places
      <4> QED BY <4>1, <4>2
    <3> HIDE DEF places
    <3>2. B \in 0..table.count - 1
      BY <2>1, BucketIs
    <3>3. ASSUME NEW b \in 0..table.count - 1, NEW i \in 1..Len(table.keys[b]), table.keys[b][i] = h
          PROVE  b = B
      BY <2>1, <3>3 DEF Arranged
    <3>4. Has(table, h) <=> \E j \in 1..Len(table.keys[B]) : table.keys[B][j] = h
      BY <2>1, IndexIs
    <3> HIDE DEF B
    <3>5. CASE Has(table, h)
      <4>1. PICK j \in 1..Len(table.keys[B]) : table.keys[B][j] = h
        BY <3>4, <3>5
      <4>2. <<B, j>> \in places
        BY <3>1, <3>2, <4>1
      <4>3. ASSUME NEW p \in places PROVE p = <<B, j>>
        <5>1. PICK b \in 0..table.count - 1 : \E i \in 1..Len(table.keys[b]) :
                p = <<b, i>> /\ table.keys[b][i] = h
          BY <3>1, <4>3
        <5>2. PICK i \in 1..Len(table.keys[b]) : p = <<b, i>> /\ table.keys[b][i] = h
          BY <5>1
        <5>3. b = B
          BY <3>3, <5>2
        <5>4. i = j
          <6>1. /\ i \in 1..Len(table.keys[B]) /\ j \in 1..Len(table.keys[B])
                /\ table.keys[B][i] = table.keys[B][j]
            BY <4>1, <5>2, <5>3
          <6> QED BY <2>1, <3>2, <6>1, Different
        <5> QED BY <5>2, <5>3, <5>4
      <4>4. places = {<<B, j>>}
        BY <4>2, <4>3
      <4> QED BY <3>5, <4>2, <4>4 DEF places
    <3>6. CASE ~Has(table, h)
      <4>1. ASSUME NEW p \in places PROVE FALSE
        BY <3>1, <3>3, <3>4, <3>6, <4>1
      <4> QED BY <3>6, <4>1 DEF places
    <3> QED BY <3>5, <3>6
  <2> QED BY <2>2, <2>3 DEF NothingStranded
<1> QED BY <1>1, Invariant, PTL

\* An iteration that has reached the end has come past every entry once.
THEOREM IterationsAreComplete == Spec => []IterationIsComplete
<1>1. ASSUME IInv, cursor = End(table)
      PROVE  /\ ToSet(seen) = {h \in Hashes : Has(table, h)}
             /\ \A i, j \in 1..Len(seen) : seen[i] = seen[j] => i = j
  <2>1. Shape(table) /\ Arranged(table) /\ Visited(table, cursor, seen)
    BY <1>1 DEF IInv, Sound
  <2>2. cursor.bucket = table.count
    BY <1>1 DEF End
  <2>3. seen \in Seq(Hashes) /\ DOMAIN seen = 1..Len(seen)
    BY <2>1, LenProperties DEF Visited
  <2>4. ASSUME NEW h, h \in ToSet(seen) PROVE h \in Hashes /\ Has(table, h)
    <3>1. PICK k \in 1..Len(seen) : h = seen[k]
      BY <2>3, <2>4 DEF ToSet
    <3>2. PICK b \in 0..table.count - 1 : \E i \in 1..Len(table.keys[b]) : h = table.keys[b][i]
      BY <2>1, <3>1 DEF Visited
    <3>3. PICK i \in 1..Len(table.keys[b]) : h = table.keys[b][i]
      BY <3>2
    <3>4. h \in Hashes
      BY <2>1, <3>3, Lengths
    <3>5. BucketOf(h, table.count) = b
      BY <2>1, <3>3 DEF Arranged
    <3> QED BY <2>1, <3>3, <3>4, <3>5, IndexIs
  <2>5. ASSUME NEW h \in Hashes, Has(table, h) PROVE h \in ToSet(seen)
    <3> DEFINE B == BucketOf(h, table.count)
    <3>1. B \in 0..table.count - 1 /\ table.count \in Nat
      BY <2>1, BucketIs DEF Shape
    <3>2. PICK i \in 1..Len(table.keys[B]) : table.keys[B][i] = h
      BY <2>1, <2>5, IndexIs
    <3> HIDE DEF B
    <3>3. Past(cursor, B, i)
      BY <2>2, <3>1 DEF Past
    <3>4. PICK k \in 1..Len(seen) : seen[k] = h
      BY <2>1, <3>1, <3>2, <3>3 DEF Visited
    <3> QED BY <2>3, <3>4 DEF ToSet
  <2>6. \A i, j \in 1..Len(seen) : seen[i] = seen[j] => i = j
    BY <2>1 DEF Visited
  <2> QED BY <2>4, <2>5, <2>6
<1>2. IInv => IterationIsComplete
  BY <1>1 DEF IterationIsComplete
<1> QED BY <1>2, Invariant, PTL

-----------------------------------------------------------------------------
(* The table is a finite map.                                              *)

ContentsOf(t) ==
  [h \in {g \in Hashes : Has(t, g)} |-> t.values[BucketOf(h, t.count)][IndexOf(t, h)]]

LEMMA ContentsOfIs ==
  ASSUME NEW t, Sound(t)
  PROVE  /\ DOMAIN ContentsOf(t) = {g \in Hashes : \E w \in Values : Entry(t, g, w)}
         /\ ContentsOf(t) = [h \in DOMAIN ContentsOf(t) |-> ContentsOf(t)[h]]
         /\ \A g \in DOMAIN ContentsOf(t) :
              ContentsOf(t)[g] \in Values /\ Entry(t, g, ContentsOf(t)[g])
         /\ \A g \in Hashes, w \in Values : Entry(t, g, w) => ContentsOf(t)[g] = w
<1> DEFINE C == ContentsOf(t)
<1>1. Shape(t) /\ Arranged(t)
  BY DEF Sound
<1>2. /\ DOMAIN C = {g \in Hashes : Has(t, g)}
      /\ C = [h \in DOMAIN C |-> C[h]]
      /\ \A g \in DOMAIN C : C[g] = t.values[BucketOf(g, t.count)][IndexOf(t, g)]
  BY DEF ContentsOf
<1> HIDE DEF C
<1>3. \A g \in Hashes : Has(t, g) <=> \E w \in Values : Entry(t, g, w)
  BY <1>1, HasEntry
<1>4. DOMAIN C = {g \in Hashes : \E w \in Values : Entry(t, g, w)}
  BY <1>2, <1>3
<1>5. ASSUME NEW g \in Hashes, NEW w \in Values, Entry(t, g, w) PROVE C[g] = w
  <2>1. Has(t, g) /\ w = t.values[BucketOf(g, t.count)][IndexOf(t, g)]
    BY <1>1, <1>5, EntryIs
  <2> QED BY <1>2, <2>1
<1>6. ASSUME NEW g \in DOMAIN C PROVE C[g] \in Values /\ Entry(t, g, C[g])
  <2>1. g \in Hashes
    BY <1>4
  <2>2. PICK w \in Values : Entry(t, g, w)
    BY <1>4
  <2>3. C[g] = w
    BY <1>5, <2>1, <2>2
  <2> QED BY <2>2, <2>3
<1> QED BY <1>2, <1>4, <1>5, <1>6 DEF C

\* Two tables with the same entries have the same contents.
LEMMA SameContents ==
  ASSUME NEW t, Sound(t), NEW f, f = [g \in DOMAIN f |-> f[g]], DOMAIN f \subseteq Hashes,
         \A g \in DOMAIN f : f[g] \in Values,
         \A g \in Hashes, w \in Values : Entry(t, g, w) <=> g \in DOMAIN f /\ f[g] = w
  PROVE  ContentsOf(t) = f
<1> DEFINE C == ContentsOf(t)
<1>1. /\ DOMAIN C = {g \in Hashes : \E w \in Values : Entry(t, g, w)}
      /\ C = [h \in DOMAIN C |-> C[h]]
      /\ \A g \in Hashes, w \in Values : Entry(t, g, w) => C[g] = w
  BY ContentsOfIs
<1> HIDE DEF C
<1>2. DOMAIN C = DOMAIN f
  BY <1>1
<1>3. \A g \in DOMAIN f : C[g] = f[g]
  BY <1>1
<1>4. C = f
  BY <1>1, <1>2, <1>3
<1> QED BY <1>4 DEF C

\* The entries of a table, by its contents.
LEMMA EntryContents ==
  ASSUME NEW t, Sound(t), NEW g \in Hashes, NEW w \in Values
  PROVE  Entry(t, g, w) <=> g \in DOMAIN ContentsOf(t) /\ ContentsOf(t)[g] = w
<1> DEFINE C == ContentsOf(t)
<1>1. /\ DOMAIN C = {h \in Hashes : \E v \in Values : Entry(t, h, v)}
      /\ \A h \in DOMAIN C : C[h] \in Values /\ Entry(t, h, C[h])
      /\ \A h \in Hashes, v \in Values : Entry(t, h, v) => C[h] = v
  BY ContentsOfIs
<1> HIDE DEF C
<1>2. Entry(t, g, w) <=> g \in DOMAIN C /\ C[g] = w
  BY <1>1
<1> QED BY <1>2 DEF C

\* Every operation changes the one entry it is about, also through a resize.
THEOREM ImplementsDictionary == Spec => DictionarySpec
<1> DEFINE C == ContentsOf(table)
           D == ContentsOf(table')
<1>1. Contents = C /\ Contents' = D
  BY DEF Contents, ContentsOf
<1>2. ASSUME Init PROVE Dict!Init
  <2>1. PICK c \in Nat \ {0}, d \in Nat \ {0} : table = Empty(c, d)
    BY <1>2, InitKeeps
  <2>2. \A h \in Hashes : ~Has(table, h)
    BY <2>1, EmptyIs
  <2>3. {h \in Hashes : Has(table, h)} = {}
    BY <2>2
  <2> QED BY <1>1, <2>3 DEF Dict!Init, ContentsOf
<1>3. ASSUME IInv, [Next]_vars PROVE [Dict!Next]_Contents
  <2>1. Sound(table)
    BY <1>3 DEF IInv
  <2>2. /\ C = [g \in DOMAIN C |-> C[g]] /\ DOMAIN C \subseteq Hashes
        /\ \A g \in DOMAIN C : C[g] \in Values
        /\ \A g \in Hashes, w \in Values : Entry(table, g, w) <=> g \in DOMAIN C /\ C[g] = w
    <3>1. /\ DOMAIN C = {g \in Hashes : \E w \in Values : Entry(table, g, w)}
          /\ C = [h \in DOMAIN C |-> C[h]]
          /\ \A g \in DOMAIN C : C[g] \in Values /\ Entry(table, g, C[g])
      BY <2>1, ContentsOfIs
    <3>2. \A g \in Hashes, w \in Values : Entry(table, g, w) <=> g \in DOMAIN C /\ C[g] = w
      BY <2>1, EntryContents
    <3> HIDE DEF C
    <3> QED BY <3>1, <3>2
  <2> HIDE DEF C
  <2>3. ASSUME NEW h \in Hashes, NEW v \in Values, Sound(table'),
               \A g \in Hashes, w \in Values :
                 Entry(table', g, w) <=> IF g = h THEN w = v ELSE Entry(table, g, w)
        PROVE  Dict!Next
    <3> DEFINE f == [g \in DOMAIN C \cup {h} |-> IF g = h THEN v ELSE C[g]]
    <3>1. /\ f = [g \in DOMAIN f |-> f[g]] /\ DOMAIN f = DOMAIN C \cup {h}
          /\ \A g \in DOMAIN f : f[g] = IF g = h THEN v ELSE C[g]
      OBVIOUS
    <3> HIDE DEF f
    <3>2. DOMAIN f \subseteq Hashes /\ \A g \in DOMAIN f : f[g] \in Values
      BY <2>2, <3>1
    <3>3. \A g \in Hashes, w \in Values : Entry(table', g, w) <=> g \in DOMAIN f /\ f[g] = w
      BY <2>2, <2>3, <3>1
    <3>4. D = f
      BY <2>3, <3>1, <3>2, <3>3, SameContents
    <3>5. Dict!Put(h, v)
      BY <1>1, <3>4 DEF Dict!Put, f
    <3> QED BY <3>5 DEF Dict!Next
  <2>4. ASSUME NEW h \in Hashes, NEW v \in Values, TryEmplace(h, v) PROVE Dict!Next
    <3>1. /\ Sound(table')
          /\ \A g \in Hashes, w \in Values :
               Entry(table', g, w) <=> Entry(table, g, w) \/ (g = h /\ w = v)
      BY <2>1, <2>4, EmplaceIs
    <3>2. \A w \in Values : ~Entry(table, h, w)
      BY <2>1, <2>4, HasEntry DEF TryEmplace, Sound
    <3>3. \A g \in Hashes, w \in Values :
            Entry(table', g, w) <=> IF g = h THEN w = v ELSE Entry(table, g, w)
      BY <3>1, <3>2
    <3> QED BY <2>3, <3>1, <3>3
  <2>5. ASSUME NEW h \in Hashes, NEW v \in Values, Update(h, v) PROVE Dict!Next
    <3>1. /\ Sound(table')
          /\ \A g \in Hashes, w \in Values :
               Entry(table', g, w) <=> IF g = h THEN w = v ELSE Entry(table, g, w)
      BY <2>1, <2>5, UpdateIs
    <3> QED BY <2>3, <3>1
  <2>6. ASSUME NEW h \in Hashes, RemoveKey(h) PROVE Dict!Next
    <3> DEFINE f == [g \in DOMAIN C \ {h} |-> C[g]]
    <3>1. /\ Sound(table')
          /\ \A g \in Hashes, w \in Values :
               Entry(table', g, w) <=> Entry(table, g, w) /\ g # h
      BY <2>1, <2>6, RemoveIs
    <3>2. /\ f = [g \in DOMAIN f |-> f[g]] /\ DOMAIN f = DOMAIN C \ {h}
          /\ \A g \in DOMAIN f : f[g] = C[g]
      OBVIOUS
    <3> HIDE DEF f
    <3>3. DOMAIN f \subseteq Hashes /\ \A g \in DOMAIN f : f[g] \in Values
      BY <2>2, <3>2
    <3>4. \A g \in Hashes, w \in Values : Entry(table', g, w) <=> g \in DOMAIN f /\ f[g] = w
      BY <2>2, <3>1, <3>2
    <3>5. D = f
      BY <3>1, <3>2, <3>3, <3>4, SameContents
    <3>6. h \in DOMAIN C
      <4>1. Has(table, h)
        BY <2>6 DEF RemoveKey
      <4>2. PICK w \in Values : Entry(table, h, w)
        BY <2>1, <4>1, HasEntry DEF Sound
      <4> QED BY <2>2, <4>2
    <3>7. Dict!Delete(h)
      BY <1>1, <3>5, <3>6 DEF Dict!Delete, f
    <3> QED BY <3>7 DEF Dict!Next
  <2>7. ASSUME Clear PROVE Dict!Next
    <3> DEFINE f == [g \in {} |-> CHOOSE v \in Values : TRUE]
    <3>1. Sound(table') /\ \A g \in Hashes, w \in Values : ~Entry(table', g, w)
      BY <2>1, <2>7, ClearIs
    <3>2. f = [g \in DOMAIN f |-> f[g]] /\ DOMAIN f = {}
      OBVIOUS
    <3> HIDE DEF f
    <3>3. D = f
      BY <3>1, <3>2, SameContents
    <3> QED BY <1>1, <3>3 DEF Dict!Next, Dict!Clear, f
  <2>8. ASSUME table' = table PROVE Contents' = Contents
    BY <1>1, <2>8 DEF C
  <2> QED BY <1>3, <2>4, <2>5, <2>6, <2>7, <2>8 DEF Next, Begin, Advance, vars
<1>4. Init /\ [][IInv /\ [Next]_vars]_vars => Dict!Spec
  <2>1. Init => Dict!Init
    BY <1>2
  <2>2. IInv /\ [Next]_vars => [Dict!Next]_Contents
    BY <1>3
  <2>3. UNCHANGED vars => UNCHANGED Contents
    BY <1>1 DEF vars
  <2> QED BY <2>1, <2>2, <2>3, PTL DEF Dict!Spec
<1> QED BY <1>4, Invariant, PTL DEF Spec, DictionarySpec

-----------------------------------------------------------------------------
(* Serialization.                                                          *)

\* A bucket in a stream: its length, its hashes, its values.
LEMMA Chunk ==
  ASSUME NEW S, NEW w \in Seq(S), NEW e \in S, NEW k \in Seq(S), NEW v \in Seq(S),
         NEW x, x = w \o <<e>> \o k \o v
  PROVE  /\ x \in Seq(S) /\ Len(x) = Len(w) + 1 + Len(k) + Len(v)
         /\ \A j \in 1..Len(w) : x[j] = w[j]
         /\ x[Len(w) + 1] = e
         /\ \A j \in 1..Len(k) : x[Len(w) + 1 + j] = k[j]
         /\ \A j \in 1..Len(v) : x[Len(w) + 1 + Len(k) + j] = v[j]
<1> DEFINE one == <<e>>
           y == w \o one
           z == y \o k
<1>1. one \in Seq(S) /\ Len(one) = 1 /\ one[1] = e /\ 1 \in 1..Len(one)
  OBVIOUS
<1>2. x = z \o v
  OBVIOUS
<1>3. Len(w) \in Nat /\ Len(k) \in Nat /\ Len(v) \in Nat
  BY LenProperties
<1> HIDE DEF one
<1>4. /\ y \in Seq(S) /\ Len(y) = Len(w) + Len(one)
      /\ \A j \in 1..Len(w) : y[j] = w[j]
      /\ \A j \in 1..Len(one) : y[Len(w) + j] = one[j]
  <2>1. one \in Seq(S)
    BY <1>1
  <2> QED BY <2>1, Concatenation
<1> HIDE DEF y
<1>5. /\ z \in Seq(S) /\ Len(z) = Len(y) + Len(k)
      /\ \A j \in 1..Len(y) : z[j] = y[j]
      /\ \A j \in 1..Len(k) : z[Len(y) + j] = k[j]
  <2>1. y \in Seq(S)
    BY <1>4
  <2> QED BY <2>1, Concatenation
<1> HIDE DEF z
<1>6. /\ z \o v \in Seq(S) /\ Len(z \o v) = Len(z) + Len(v)
      /\ \A j \in 1..Len(z) : (z \o v)[j] = z[j]
      /\ \A j \in 1..Len(v) : (z \o v)[Len(z) + j] = v[j]
  <2>1. z \in Seq(S)
    BY <1>5
  <2> QED BY <2>1, Concatenation
<1>7. Len(y) = Len(w) + 1 /\ Len(z) = Len(w) + 1 + Len(k)
  BY <1>1, <1>3, <1>4, <1>5
<1>8. /\ x \in Seq(S) /\ Len(x) = Len(z) + Len(v)
      /\ \A j \in 1..Len(z) : x[j] = z[j]
      /\ \A j \in 1..Len(v) : x[Len(z) + j] = v[j]
  BY <1>2, <1>6
<1>9. \A j \in 1..Len(y) : x[j] = y[j]
  BY <1>3, <1>5, <1>7, <1>8
<1>10. \A j \in 1..Len(w) : x[j] = w[j]
  BY <1>3, <1>4, <1>7, <1>9
<1>11. x[Len(w) + 1] = e
  <2>1. Len(w) + 1 \in 1..Len(y) /\ y[Len(w) + 1] = one[1]
    BY <1>1, <1>3, <1>4, <1>7
  <2> QED BY <1>1, <1>9, <2>1
<1>12. ASSUME NEW j \in 1..Len(k) PROVE x[Len(y) + j] = k[j]
  <2>1. Len(y) + j \in 1..Len(z)
    BY <1>3, <1>5, <1>7
  <2> QED BY <1>5, <1>8, <2>1
<1>13. ASSUME NEW j \in 1..Len(v) PROVE x[Len(z) + j] = v[j]
  BY <1>8
<1> QED BY <1>3, <1>7, <1>8, <1>10, <1>11, <1>12, <1>13

\* A part of a sequence that is known element by element.
LEMMA PartIs ==
  ASSUME NEW S, NEW s, NEW u \in Seq(S), NEW m \in Nat, \A k \in 1..Len(u) : s[m + k] = u[k]
  PROVE  SubSeq(s, m + 1, m + Len(u)) = u
<1> DEFINE n == Len(u)
           p == SubSeq(s, m + 1, m + n)
<1>1. n \in Nat /\ \A k \in 1..n : u[k] \in S
  BY LenProperties, ElementOfSeq
<1> HIDE DEF n
<1>2. ASSUME NEW i \in m + 1..m + n PROVE s[i] \in S
  <2>1. i - m \in 1..n /\ m + (i - m) = i
    BY <1>1
  <2>2. s[m + (i - m)] = u[i - m]
    BY <2>1 DEF n
  <2> QED BY <1>1, <2>1, <2>2
<1>3. /\ p \in Seq(S)
      /\ Len(p) = IF m + 1 <= m + n THEN (m + n) - (m + 1) + 1 ELSE 0
      /\ \A i \in 1..(m + n) - (m + 1) + 1 : p[i] = s[(m + 1) + i - 1]
  <2>1. m + 1 \in Int /\ m + n \in Int
    BY <1>1
  <2> QED BY <1>2, <2>1, SubSeqProperties
<1> HIDE DEF p
<1>4. Len(p) = n
  BY <1>1, <1>3
<1>5. ASSUME NEW k \in 1..n PROVE p[k] = u[k]
  <2>1. k \in 1..(m + n) - (m + 1) + 1 /\ (m + 1) + k - 1 = m + k
    BY <1>1
  <2>2. p[k] = s[m + k]
    BY <1>3, <2>1
  <2> QED BY <2>2 DEF n
<1>6. p = u
  BY <1>3, <1>4, <1>5, SeqEqual DEF n
<1> QED BY <1>6 DEF p, n

LEMMA InsertDef ==
  ASSUME NEW t, t.count \in Nat
  PROVE  \E f : /\ f[0] = <<t.count, t.capacity>>
                /\ \A b \in 1..t.count :
                     f[b] = f[b - 1] \o <<Len(t.keys[b - 1])>> \o t.keys[b - 1] \o t.values[b - 1]
                /\ Insert(t) = f[t.count]
<1> DEFINE N == t.count
           new == <<t.count, t.capacity>>
           turn(x, i) == x \o <<Len(t.keys[i - 1])>> \o t.keys[i - 1] \o t.values[i - 1]
           loop(f, n) == [i \in 0..n |-> IF i = 0 THEN new ELSE turn(f[i - 1], i)]
           T == {n \in Nat : \E f : f = loop(f, n)}
<1>1. Insert(t) = (CHOOSE f : f = loop(f, N))[N]
  BY DEF Insert
<1> HIDE DEF turn, new
<1>2. 0 \in T
  <2>1. [i \in 0..0 |-> new] = loop([i \in 0..0 |-> new], 0)
    OBVIOUS
  <2> QED BY <2>1
<1>3. ASSUME NEW n \in Nat, n \in T PROVE n + 1 \in T
  <2>1. PICK f : f = loop(f, n)
    BY <1>3
  <2> DEFINE g == [i \in 0..n + 1 |-> IF i = n + 1 THEN turn(f[n], n + 1) ELSE f[i]]
  <2>2. ASSUME NEW i \in 0..n + 1 PROVE g[i] = IF i = 0 THEN new ELSE turn(g[i - 1], i)
    <3>1. CASE i = n + 1
      BY <3>1
    <3>2. CASE i \in 0..n
      <4>1. g[i] = f[i] /\ (i # 0 => g[i - 1] = f[i - 1])
        BY <3>2
      <4>2. f[i] = IF i = 0 THEN new ELSE turn(f[i - 1], i)
        BY <2>1, <3>2
      <4> QED BY <4>1, <4>2
    <3> QED BY <3>1, <3>2
  <2>3. g = loop(g, n + 1)
    <3>1. g = [i \in 0..n + 1 |-> g[i]]
      OBVIOUS
    <3> HIDE DEF g
    <3> QED BY <2>2, <3>1
  <2> HIDE DEF g
  <2> QED BY <2>3
<1>4. N \in T
  <2> HIDE DEF T
  <2>1. Nat \subseteq T
    BY <1>2, <1>3, Induction
  <2> QED BY <2>1
<1> DEFINE h == CHOOSE f : f = loop(f, N)
<1>5. h = loop(h, N)
  BY <1>4
<1> HIDE DEF h
<1>6. h[0] = new /\ \A i \in 1..N : h[i] = turn(h[i - 1], i)
  BY <1>5
<1>7. Insert(t) = h[N]
  BY <1>1 DEF h
<1> QED BY <1>6, <1>7 DEF turn, new

\* y is what x becomes when it is read from s, with the positions `at'.
Reads(x, s, y, at) ==
  /\ at[0] = 3
  /\ \A b \in 1..s[1] : at[b] = at[b - 1] + 2 * s[at[b - 1]] + 1
  /\ y = [count |-> x.count, capacity |-> x.capacity, keys |-> y.keys, values |-> y.values]
  /\ y.keys = [b \in DOMAIN x.keys |-> y.keys[b]]
  /\ y.values = [b \in DOMAIN x.values |-> y.values[b]]
  /\ \A b \in DOMAIN x.keys :
       y.keys[b] = IF b < s[1] THEN SubSeq(s, at[b] + 1, at[b] + s[at[b]]) ELSE x.keys[b]
  /\ \A b \in DOMAIN x.values :
       y.values[b] = IF b < s[1]
                     THEN SubSeq(s, at[b] + s[at[b]] + 1, at[b] + s[at[b]] + s[at[b]])
                     ELSE x.values[b]

LEMMA ExtractDef ==
  ASSUME NEW s, s[1] \in Nat, NEW x
  PROVE  \E at : Reads(x, s, Extract(x, s), at)
<1> DEFINE N == s[1]
           turn(y) == y + 2 * s[y] + 1
           three == 3
           loop(f, n) == [i \in 0..n |-> IF i = 0 THEN three ELSE turn(f[i - 1])]
           T == {n \in Nat : \E f : f = loop(f, n)}
           h == CHOOSE f : f = loop(f, N)
<1> DEFINE keys == [b \in DOMAIN x.keys |->
             IF b < s[1] THEN SubSeq(s, h[b] + 1, h[b] + s[h[b]]) ELSE x.keys[b]]
           values == [b \in DOMAIN x.values |->
             IF b < s[1] THEN SubSeq(s, h[b] + s[h[b]] + 1, h[b] + s[h[b]] + s[h[b]])
             ELSE x.values[b]]
<1>1. Extract(x, s) = [count |-> x.count, capacity |-> x.capacity, keys |-> keys, values |-> values]
  BY DEF Extract
<1> HIDE DEF turn, three
<1>2. 0 \in T
  <2>1. [i \in 0..0 |-> three] = loop([i \in 0..0 |-> three], 0)
    OBVIOUS
  <2> QED BY <2>1
<1>3. ASSUME NEW n \in Nat, n \in T PROVE n + 1 \in T
  <2>1. PICK f : f = loop(f, n)
    BY <1>3
  <2> DEFINE g == [i \in 0..n + 1 |-> IF i = n + 1 THEN turn(f[n]) ELSE f[i]]
  <2>2. ASSUME NEW i \in 0..n + 1 PROVE g[i] = IF i = 0 THEN three ELSE turn(g[i - 1])
    <3>1. CASE i = n + 1
      BY <3>1
    <3>2. CASE i \in 0..n
      <4>1. g[i] = f[i] /\ (i # 0 => g[i - 1] = f[i - 1])
        BY <3>2
      <4>2. f[i] = IF i = 0 THEN three ELSE turn(f[i - 1])
        BY <2>1, <3>2
      <4> QED BY <4>1, <4>2
    <3> QED BY <3>1, <3>2
  <2>3. g = loop(g, n + 1)
    <3>1. g = [i \in 0..n + 1 |-> g[i]]
      OBVIOUS
    <3> HIDE DEF g
    <3> QED BY <2>2, <3>1
  <2> HIDE DEF g
  <2> QED BY <2>3
<1>4. N \in T
  <2> HIDE DEF T
  <2>1. Nat \subseteq T
    BY <1>2, <1>3, Induction
  <2> QED BY <2>1
<1>5. h = loop(h, N)
  BY <1>4
<1> HIDE DEF h
<1>6. h[0] = three /\ \A i \in 1..N : h[i] = turn(h[i - 1])
  BY <1>5
<1>7. /\ keys = [b \in DOMAIN x.keys |-> keys[b]]
      /\ \A b \in DOMAIN x.keys : keys[b] =
           IF b < s[1] THEN SubSeq(s, h[b] + 1, h[b] + s[h[b]]) ELSE x.keys[b]
  OBVIOUS
<1>8. /\ values = [b \in DOMAIN x.values |-> values[b]]
      /\ \A b \in DOMAIN x.values : values[b] =
           IF b < s[1] THEN SubSeq(s, h[b] + s[h[b]] + 1, h[b] + s[h[b]] + s[h[b]])
           ELSE x.values[b]
  OBVIOUS
<1> HIDE DEF keys, values
<1>9. h[0] = 3 /\ \A b \in 1..s[1] : h[b] = h[b - 1] + 2 * s[h[b - 1]] + 1
  BY <1>6 DEF turn, three
<1>10. Extract(x, s).keys = keys /\ Extract(x, s).values = values
  BY <1>1
<1>11. Reads(x, s, Extract(x, s), h)
  BY <1>1, <1>7, <1>8, <1>9, <1>10 DEF Reads
<1> QED BY <1>11

\* The words of a stream.
Words == Nat \cup Values

\* s has bucket b of t after its first m words.
HasBucket(s, t, b, m) ==
  /\ m + 1 + 2 * Len(t.keys[b]) <= Len(s)
  /\ s[m + 1] = Len(t.keys[b])
  /\ \A j \in 1..Len(t.keys[b]) :
       /\ s[m + 1 + j] = t.keys[b][j]
       /\ s[m + 1 + Len(t.keys[b]) + j] = t.values[b][j]

\* What has been written after b buckets; f are the streams before each.
Written(t, f, b) ==
  /\ f[b] \in Seq(Words) /\ Len(f[b]) >= 2
  /\ f[b][1] = t.count /\ f[b][2] = t.capacity
  /\ \A c \in 0..b - 1 :
       /\ Len(f[c]) \in Nat /\ Len(f[c + 1]) = Len(f[c]) + 1 + 2 * Len(t.keys[c])
       /\ HasBucket(f[b], t, c, Len(f[c]))

LEMMA WritesBucket ==
  ASSUME NEW t, Shape(t), Arranged(t), NEW b \in 0..t.count - 1, NEW f, Written(t, f, b),
         f[b + 1] = f[b] \o <<Len(t.keys[b])>> \o t.keys[b] \o t.values[b]
  PROVE  Written(t, f, b + 1)
<1> DEFINE w == f[b]
           x == f[b + 1]
           n == Len(t.keys[b])
<1>1. /\ t.keys[b] \in Seq(Words) /\ t.values[b] \in Seq(Words)
      /\ n \in Words /\ n \in Nat /\ Len(t.values[b]) = n
  <2>1. /\ t.keys[b] \in Seq(Hashes) /\ t.values[b] \in Seq(Values)
        /\ n \in Nat /\ Len(t.values[b]) = n
    BY Lengths
  <2>2. Hashes \subseteq Words /\ Values \subseteq Words /\ Nat \subseteq Words
    BY HashAssumption DEF Words
  <2> QED BY <2>1, <2>2, SeqMonotonic
<1>2. w \in Seq(Words) /\ Len(w) \in Nat /\ Len(w) >= 2 /\ w[1] = t.count /\ w[2] = t.capacity
  BY LenProperties DEF Written
<1>3. x = w \o <<n>> \o t.keys[b] \o t.values[b]
  OBVIOUS
<1> HIDE DEF w, x, n
<1>4. /\ x \in Seq(Words) /\ Len(x) = Len(w) + 1 + Len(t.keys[b]) + Len(t.values[b])
      /\ \A j \in 1..Len(w) : x[j] = w[j]
      /\ x[Len(w) + 1] = n
      /\ \A j \in 1..Len(t.keys[b]) : x[Len(w) + 1 + j] = t.keys[b][j]
      /\ \A j \in 1..Len(t.values[b]) : x[Len(w) + 1 + Len(t.keys[b]) + j] = t.values[b][j]
  <2> DEFINE k == t.keys[b]
             v == t.values[b]
  <2>1. w \in Seq(Words) /\ n \in Words /\ k \in Seq(Words) /\ v \in Seq(Words)
    BY <1>1, <1>2
  <2>2. x = w \o <<n>> \o k \o v
    BY <1>3
  <2> HIDE DEF k, v
  <2>3. /\ x \in Seq(Words) /\ Len(x) = Len(w) + 1 + Len(k) + Len(v)
        /\ \A j \in 1..Len(w) : x[j] = w[j]
        /\ x[Len(w) + 1] = n
        /\ \A j \in 1..Len(k) : x[Len(w) + 1 + j] = k[j]
        /\ \A j \in 1..Len(v) : x[Len(w) + 1 + Len(k) + j] = v[j]
    BY <2>1, <2>2, Chunk
  <2> QED BY <2>3 DEF k, v
<1>5. Len(x) = Len(w) + 1 + 2 * n
  <2>1. Len(x) = Len(w) + 1 + Len(t.keys[b]) + Len(t.values[b])
    BY <1>4
  <2>2. Len(t.keys[b]) = n /\ Len(t.values[b]) = n /\ n \in Nat /\ Len(w) \in Nat
    BY <1>1, <1>2 DEF n
  <2> QED BY <2>1, <2>2
<1>6. Len(x) >= 2 /\ x[1] = t.count /\ x[2] = t.capacity
  <2>1. Len(w) \in Nat /\ Len(w) >= 2 /\ n \in Nat
    BY <1>1, <1>2
  <2>2. 1 \in 1..Len(w) /\ 2 \in 1..Len(w) /\ Len(x) >= 2
    BY <1>5, <2>1
  <2> QED BY <1>2, <1>4, <2>2
<1>7. HasBucket(x, t, b, Len(w))
  <2>1. Len(t.keys[b]) = n /\ Len(t.values[b]) = n /\ n \in Nat /\ Len(w) \in Nat
    BY <1>1, <1>2 DEF n
  <2>2. Len(w) + 1 + 2 * n <= Len(x)
    BY <1>5, <2>1
  <2> QED BY <1>4, <2>1, <2>2 DEF HasBucket
<1>8. ASSUME NEW c \in 0..b - 1
      PROVE  /\ Len(f[c]) \in Nat /\ Len(f[c + 1]) = Len(f[c]) + 1 + 2 * Len(t.keys[c])
             /\ HasBucket(x, t, c, Len(f[c]))
  <2> DEFINE m == Len(f[c])
             k == Len(t.keys[c])
  <2>1. m \in Nat /\ Len(f[c + 1]) = m + 1 + 2 * k /\ HasBucket(w, t, c, m)
    BY DEF Written, w
  <2>2. k \in Nat
    <3>1. c \in 0..t.count - 1
      BY DEF Shape
    <3> QED BY <3>1, Lengths
  <2> HIDE DEF m, k
  <2>3. /\ m + 1 + 2 * k <= Len(w) /\ w[m + 1] = k
        /\ \A j \in 1..k : w[m + 1 + j] = t.keys[c][j] /\ w[m + 1 + k + j] = t.values[c][j]
    BY <2>1 DEF HasBucket, k
  <2>0. Len(w) \in Nat /\ n \in Nat /\ m \in Nat /\ m + 1 + 2 * k <= Len(w)
    BY <1>1, <1>2, <2>1, <2>3
  <2>4. m + 1 + 2 * k <= Len(x)
    BY <1>5, <2>0, <2>2
  <2>5. x[m + 1] = k
    <3>1. m + 1 \in 1..Len(w)
      BY <2>0, <2>2
    <3> QED BY <1>4, <2>3, <3>1
  <2>6. ASSUME NEW j \in 1..k
        PROVE  x[m + 1 + j] = t.keys[c][j] /\ x[m + 1 + k + j] = t.values[c][j]
    <3>1. m + 1 + j \in 1..Len(w) /\ m + 1 + k + j \in 1..Len(w)
      BY <2>0, <2>2
    <3>2. x[m + 1 + j] = w[m + 1 + j] /\ x[m + 1 + k + j] = w[m + 1 + k + j]
      BY <1>4, <3>1
    <3> QED BY <2>3, <3>2
  <2>7. HasBucket(x, t, c, m)
    BY <2>4, <2>5, <2>6 DEF HasBucket, k
  <2> QED BY <2>1, <2>7 DEF m, k
<1>9. ASSUME NEW c \in 0..(b + 1) - 1
      PROVE  /\ Len(f[c]) \in Nat /\ Len(f[c + 1]) = Len(f[c]) + 1 + 2 * Len(t.keys[c])
             /\ HasBucket(x, t, c, Len(f[c]))
  <2>1. CASE c = b
    BY <1>2, <1>5, <1>7, <2>1 DEF w, x, n
  <2>2. CASE c # b
    <3>1. c \in 0..b - 1
      BY <2>2 DEF Shape
    <3> QED BY <1>8, <3>1
  <2> QED BY <2>1, <2>2
<1> QED BY <1>4, <1>6, <1>9 DEF Written, x

\* y has n buckets of capacity c, and the first of them are those of t.
ReadFrom(t, n, c, y) ==
  /\ y \in [count    : Nat,
            capacity : Nat,
            keys     : [0..n - 1 -> Seq(Hashes)],
            values   : [0..n - 1 -> Seq(Values)]]
  /\ y.count = n /\ y.capacity = c
  /\ \A b \in 0..n - 1 :
       IF b < t.count THEN y.keys[b] = t.keys[b] /\ y.values[b] = t.values[b]
       ELSE y.keys[b] = << >>

\* Extract fills the first buckets of an empty table with those that Insert wrote.
LEMMA ExtractInsert ==
  ASSUME NEW t, Shape(t), Arranged(t), NEW n \in Nat \ {0}, n >= t.count,
         NEW c \in Nat \ {0}
  PROVE  ReadFrom(t, n, c, Extract(Empty(n, c), Insert(t)))
<1> DEFINE N == t.count
           s == Insert(t)
<1>1. N \in Nat \ {0} /\ t.capacity \in Nat
  BY DEF Shape
<1>2. PICK f : /\ f[0] = <<t.count, t.capacity>>
               /\ \A b \in 1..t.count :
                    f[b] = f[b - 1] \o <<Len(t.keys[b - 1])>> \o t.keys[b - 1] \o t.values[b - 1]
               /\ Insert(t) = f[t.count]
  BY <1>1, InsertDef
<1>3. Written(t, f, N)
  <2> DEFINE T == {b \in Nat : Written(t, f, b)}
  <2>1. 0 \in T
    <3>1. f[0] \in Seq(Words) /\ Len(f[0]) = 2 /\ f[0][1] = t.count /\ f[0][2] = t.capacity
      <4>1. t.count \in Words /\ t.capacity \in Words
        BY <1>1 DEF Words
      <4> QED BY <1>2, <4>1
    <3>2. Len(f[0]) >= 2 /\ \A d \in 0..0 - 1 : FALSE
      BY <3>1
    <3>3. Written(t, f, 0)
      BY <3>1, <3>2 DEF Written
    <3> QED BY <3>3
  <2>2. ASSUME NEW b \in 0..N - 1, b \in T PROVE b + 1 \in T
    <3>1. b + 1 \in 1..t.count /\ (b + 1) - 1 = b /\ b + 1 \in Nat
      BY <1>1
    <3>2. f[b + 1] = f[b] \o <<Len(t.keys[b])>> \o t.keys[b] \o t.values[b]
      BY <1>2, <3>1
    <3>3. Written(t, f, b + 1)
      BY <2>2, <3>2, WritesBucket
    <3> QED BY <3>1, <3>3
  <2> HIDE DEF T
  <2>3. 0..N \subseteq T
    BY <1>1, <2>1, <2>2, InductionUpTo
  <2>4. N \in 0..N
    BY <1>1
  <2> QED BY <2>3, <2>4 DEF T
<1>4. s = f[N]
  BY <1>2
<1> HIDE DEF s
<1>5. /\ s \in Seq(Words) /\ s[1] = N /\ s[2] = t.capacity
      /\ \A d \in 0..N - 1 :
           /\ Len(f[d]) \in Nat /\ Len(f[d + 1]) = Len(f[d]) + 1 + 2 * Len(t.keys[d])
           /\ HasBucket(s, t, d, Len(f[d]))
  BY <1>3, <1>4 DEF Written
<1> DEFINE x == Empty(n, c)
<1> HIDE DEF x
<1> DEFINE y == Extract(x, s)
<1>6. PICK at : Reads(x, s, y, at)
  <2>1. s[1] \in Nat
    BY <1>1, <1>5
  <2> QED BY <2>1, ExtractDef
<1> HIDE DEF y
<1>7. \A b \in 0..N : at[b] = Len(f[b]) + 1
  <2> DEFINE T == {b \in Nat : at[b] = Len(f[b]) + 1}
  <2>1. 0 \in T
    <3>1. Len(f[0]) = 2
      BY <1>2
    <3>2. at[0] = Len(f[0]) + 1
      BY <1>6, <3>1 DEF Reads
    <3> QED BY <3>2
  <2>2. ASSUME NEW b \in 0..N - 1, b \in T PROVE b + 1 \in T
    <3>1. b + 1 \in 1..s[1] /\ (b + 1) - 1 = b /\ b + 1 \in Nat
      BY <1>1, <1>5
    <3>2. at[b + 1] = at[b] + 2 * s[at[b]] + 1
      BY <1>6, <3>1 DEF Reads
    <3>3. at[b] = Len(f[b]) + 1 /\ s[Len(f[b]) + 1] = Len(t.keys[b])
      BY <1>5, <2>2 DEF HasBucket
    <3>4. Len(f[b]) \in Nat /\ Len(t.keys[b]) \in Nat
      BY <1>5, Lengths
    <3>5. Len(f[b + 1]) = Len(f[b]) + 1 + 2 * Len(t.keys[b])
      BY <1>5
    <3>6. at[b + 1] = Len(f[b + 1]) + 1
      BY <3>2, <3>3, <3>4, <3>5
    <3> QED BY <3>1, <3>6
  <2> HIDE DEF T
  <2>3. 0..N \subseteq T
    BY <1>1, <2>1, <2>2, InductionUpTo
  <2> QED BY <2>3 DEF T
<1>8. ASSUME NEW b \in 0..N - 1
      PROVE  /\ SubSeq(s, at[b] + 1, at[b] + s[at[b]]) = t.keys[b]
             /\ SubSeq(s, at[b] + s[at[b]] + 1, at[b] + s[at[b]] + s[at[b]]) = t.values[b]
  <2> DEFINE l == Len(t.keys[b])
             p == at[b]
             q == p + l
  <2>1. /\ t.keys[b] \in Seq(Hashes) /\ t.values[b] \in Seq(Values)
        /\ l \in Nat /\ Len(t.values[b]) = l
    BY Lengths
  <2>2. Len(f[b]) \in Nat /\ HasBucket(s, t, b, Len(f[b]))
    BY <1>5
  <2>3. p = Len(f[b]) + 1 /\ p \in Nat /\ q \in Nat
    <3>1. at[b] = Len(f[b]) + 1
      BY <1>1, <1>7
    <3> HIDE DEF l
    <3> QED BY <2>1, <2>2, <3>1
  <2>4. s[p] = l
    BY <2>2, <2>3 DEF HasBucket
  <2>5. \A j \in 1..l : s[p + j] = t.keys[b][j] /\ s[q + j] = t.values[b][j]
    BY <2>2, <2>3 DEF HasBucket
  <2> HIDE DEF p
  <2>6. SubSeq(s, p + 1, p + Len(t.keys[b])) = t.keys[b]
    <3> DEFINE u == t.keys[b]
    <3>1. p \in Nat /\ u \in Seq(Hashes) /\ \A j \in 1..Len(u) : s[p + j] = u[j]
      BY <2>1, <2>3, <2>5
    <3> HIDE DEF u
    <3>2. SubSeq(s, p + 1, p + Len(u)) = u
      BY <3>1, PartIs
    <3> QED BY <3>2 DEF u
  <2> HIDE DEF q
  <2>7. SubSeq(s, q + 1, q + Len(t.values[b])) = t.values[b]
    <3> DEFINE u == t.values[b]
    <3>1. q \in Nat /\ u \in Seq(Values) /\ \A j \in 1..Len(u) : s[q + j] = u[j]
      BY <2>1, <2>3, <2>5 DEF q
    <3> HIDE DEF u
    <3>2. SubSeq(s, q + 1, q + Len(u)) = u
      BY <3>1, PartIs
    <3> QED BY <3>2 DEF u
  <2>8. q = p + l /\ q + Len(t.values[b]) = p + l + l
    <3>1. Len(t.values[b]) = l /\ l \in Nat /\ p \in Nat
      BY <2>1, <2>3
    <3> HIDE DEF l
    <3> QED BY <3>1 DEF q
  <2> QED BY <2>4, <2>6, <2>7, <2>8 DEF p
<1>9. /\ x \in [count : Nat, capacity : Nat,
                keys : [0..n - 1 -> Seq(Hashes)], values : [0..n - 1 -> Seq(Values)]]
      /\ x.count = n /\ x.capacity = c
      /\ \A b \in 0..n - 1 : x.keys[b] = << >>
  <2>1. << >> \in Seq(Hashes) /\ << >> \in Seq(Values)
    OBVIOUS
  <2> QED BY <2>1 DEF x, Empty
<1>10. 0..N - 1 \subseteq 0..n - 1
  BY <1>1
<1>11. \A b \in 0..N - 1 : t.keys[b] \in Seq(Hashes) /\ t.values[b] \in Seq(Values)
  BY DEF Shape
<1>12. DOMAIN x.keys = 0..n - 1 /\ DOMAIN x.values = 0..n - 1
  BY <1>9
<1>13. \A b \in 0..n - 1 :
         IF b < N THEN y.keys[b] = t.keys[b] /\ y.values[b] = t.values[b]
         ELSE y.keys[b] = << >> /\ y.values[b] = x.values[b]
  <2> TAKE b \in 0..n - 1
  <2>1. CASE b < N
    <3>1. b \in 0..N - 1
      BY <1>1, <2>1
    <3>2. /\ SubSeq(s, at[b] + 1, at[b] + s[at[b]]) = t.keys[b]
          /\ SubSeq(s, at[b] + s[at[b]] + 1, at[b] + s[at[b]] + s[at[b]]) = t.values[b]
      BY <1>8, <3>1
    <3>3. b < s[1]
      BY <1>5, <2>1
    <3> QED BY <1>6, <1>12, <2>1, <3>2, <3>3 DEF Reads
  <2>2. CASE ~(b < N)
    BY <1>5, <1>6, <1>9, <1>12, <2>2 DEF Reads
  <2> QED BY <2>1, <2>2
<1>14. y.keys \in [0..n - 1 -> Seq(Hashes)] /\ y.values \in [0..n - 1 -> Seq(Values)]
  <2>1. /\ y.keys = [b \in 0..n - 1 |-> y.keys[b]]
        /\ y.values = [b \in 0..n - 1 |-> y.values[b]]
    BY <1>6, <1>12 DEF Reads
  <2>2. ASSUME NEW b \in 0..n - 1
        PROVE  y.keys[b] \in Seq(Hashes) /\ y.values[b] \in Seq(Values)
    <3>1. CASE b < N
      <4>1. b \in 0..N - 1
        BY <1>1, <3>1
      <4> QED BY <1>11, <1>13, <3>1, <4>1
    <3>2. CASE ~(b < N)
      <4>1. << >> \in Seq(Hashes)
        OBVIOUS
      <4> QED BY <1>9, <1>13, <3>2, <4>1
    <3> QED BY <3>1, <3>2
  <2> QED BY <2>1, <2>2
<1>15. y = [count |-> n, capacity |-> c, keys |-> y.keys, values |-> y.values]
  BY <1>6, <1>9 DEF Reads
<1>16. y \in [count : Nat, capacity : Nat,
              keys : [0..n - 1 -> Seq(Hashes)], values : [0..n - 1 -> Seq(Values)]]
  <2>1. n \in Nat /\ c \in Nat
    OBVIOUS
  <2> QED BY <1>14, <1>15, <2>1
<1>17. y.count = n /\ y.capacity = c
  BY <1>15
<1>18. ReadFrom(t, n, c, y)
  BY <1>13, <1>16, <1>17 DEF ReadFrom
<1> QED BY <1>18 DEF s, x, y

\* What is found in a table that was read.
LEMMA ReadIs ==
  ASSUME NEW t, Shape(t), Arranged(t), NEW n \in Nat \ {0}, n >= t.count,
         NEW c \in Nat \ {0}, NEW h \in Hashes, NEW y, y = Extract(Empty(n, c), Insert(t))
  PROVE  /\ Has(y, h) <=> Has(t, h) /\ BucketOf(h, y.count) = BucketOf(h, t.count)
         /\ Has(y, h) => y.values[BucketOf(h, y.count)][IndexOf(y, h)] =
                           t.values[BucketOf(h, t.count)][IndexOf(t, h)]
<1> DEFINE b == BucketOf(h, t.count)
           d == BucketOf(h, y.count)
           i == IndexOf(t, h)
           j == IndexOf(y, h)
<1>1. /\ Shape(y) /\ y.count = n
      /\ \A e \in 0..n - 1 :
           IF e < t.count THEN y.keys[e] = t.keys[e] /\ y.values[e] = t.values[e]
           ELSE y.keys[e] = << >>
  <2>1. ReadFrom(t, n, c, y)
    BY ExtractInsert
  <2> QED BY <2>1 DEF ReadFrom, Shape
<1>2. b \in 0..t.count - 1 /\ d \in 0..n - 1 /\ t.count \in Nat
  BY <1>1, BucketIs DEF Shape
<1>3. /\ Has(t, h) <=> \E k \in 1..Len(t.keys[b]) : t.keys[b][k] = h
      /\ Has(t, h) => i \in 1..Len(t.keys[b]) /\ t.keys[b][i] = h
  BY IndexIs
<1>4. /\ Has(y, h) <=> \E k \in 1..Len(y.keys[d]) : y.keys[d][k] = h
      /\ Has(y, h) => j \in 1..Len(y.keys[d]) /\ y.keys[d][j] = h
  BY <1>1, IndexIs
<1> HIDE DEF i, j
<1>5. CASE d < t.count
  <2>1. y.keys[d] = t.keys[d] /\ y.values[d] = t.values[d] /\ d \in 0..t.count - 1
    BY <1>1, <1>2, <1>5
  <2>2. ASSUME Has(y, h) PROVE d = b
    BY <1>4, <2>1, <2>2 DEF Arranged
  <2>3. Has(y, h) <=> Has(t, h) /\ d = b
    <3> HIDE DEF b, d
    <3> QED BY <1>3, <1>4, <2>1, <2>2
  <2>4. ASSUME Has(y, h) PROVE y.values[d][j] = t.values[b][i]
    <3>1. d = b /\ Has(t, h)
      BY <2>3, <2>4
    <3>2. i \in 1..Len(t.keys[d]) /\ j \in 1..Len(t.keys[d]) /\ t.keys[d][i] = t.keys[d][j]
      <4> HIDE DEF b, d
      <4> QED BY <1>3, <1>4, <2>1, <2>4, <3>1
    <3>3. i = j
      <4> HIDE DEF b, d
      <4> QED BY <2>1, <3>2, Different
    <3> HIDE DEF b, d
    <3> QED BY <2>1, <3>1, <3>3
  <2> QED BY <2>3, <2>4 DEF i, j
<1>6. CASE ~(d < t.count)
  <2>1. y.keys[d] = << >> /\ d # b
    BY <1>1, <1>2, <1>6
  <2>2. ~ \E k \in 1..Len(<< >>) : TRUE
    OBVIOUS
  <2> QED BY <1>4, <2>1, <2>2
<1> QED BY <1>5, <1>6

\* A table that is written to a stream and read into another has the same entries, if that
\* one has as many buckets, and in one with twice as many those entries that stay in the
\* buckets they were in.
THEOREM RoundTrips == Spec => []RoundTrip
<1>1. IInv => RoundTrip
  <2> SUFFICES ASSUME IInv, NEW target \in Targets(table), NEW h \in Hashes,
                      NEW read, read = Extract(target, Insert(table))
               PROVE  /\ Has(read, h) <=>
                           Has(table, h) /\ BucketOf(h, read.count) = BucketOf(h, table.count)
                      /\ Has(read, h) =>
                           read.values[BucketOf(h, read.count)][IndexOf(read, h)] =
                             table.values[BucketOf(h, table.count)][IndexOf(table, h)]
    BY DEF RoundTrip
  <2>1. Shape(table) /\ Arranged(table)
    BY DEF IInv, Sound
  <2>2. PICK m \in {1, 2}, c \in 1..MaxCount : target = Empty(m * table.count, c)
    BY DEF Targets
  <2>3. c \in Nat \ {0}
    BY SizeAssumption
  <2>4. m * table.count \in Nat \ {0} /\ m * table.count >= table.count
    BY <2>1 DEF Shape
  <2> QED BY <2>1, <2>2, <2>3, <2>4, ReadIs
<1> QED BY <1>1, Invariant, PTL

=============================================================================
