---------------------------- MODULE MultiTreeProofs ----------------------------
(***************************************************************************)
(* Theorems about MultiTree.                                               *)
(***************************************************************************)
EXTENDS MultiTree, Integers, FiniteSetTheorems, WellFoundedInduction, TLAPS

-----------------------------------------------------------------------------
(* The inductive invariant.                                                *)

\* The places that a handle leads to.
InUse == {place[h] : h \in Handles}

\* The handles that are in the tree: others were merged into one of these.
Live == {h \in Handles : h = 1 \/ \E p \in InUse : h \in ToSet(children[p])}

\* The i-th of a list of handles; 0 behind its end.
Nth(kids, i) == IF i \in 1..Len(kids) THEN kids[i] ELSE 0

\* The links to the right, along a list of siblings.
Strung(l, at, kids) == \A i \in 1..Len(kids) : l[at[kids[i]]].right = Nth(kids, i + 1)

Shape ==
  /\ alpha \in Seq([key : NodeKeys, parent : Nat, mergeable : BOOLEAN])
  /\ links \in Seq([down : Nat, right : Nat, type : Types, way : BOOLEAN])
  /\ place \in Seq(Nat) /\ children \in Seq(Seq(Nat)) /\ stack \in Seq(Nat)
  /\ Len(links) = Len(alpha) /\ Len(place) = Len(alpha) /\ Len(children) = Len(alpha)
  /\ \A i \in 1..Len(stack) : stack[i] \in Handles
  /\ \A h \in Handles : place[h] \in Handles
  /\ \A h \in Handles : (h = 1 /\ alpha[h].parent = 0) \/ alpha[h].parent \in 1..h - 1

\* Children have one parent, and one place in its list; their places are their own.
Lists ==
  /\ \A p \in InUse : \A i \in 1..Len(children[p]) :
       /\ children[p][i] \in Handles \ {1}
       /\ place[alpha[children[p][i]].parent] = p
  /\ \A p, q \in InUse : \A i \in 1..Len(children[p]), j \in 1..Len(children[q]) :
       children[p][i] = children[q][j] => p = q /\ i = j
  /\ \A x, y \in Live : place[x] = place[y] => x = y
  /\ \A h \in Handles : \E x \in Live : place[x] = place[h]

\* The links are those of the lists.
Links ==
  /\ \A p \in InUse : links[p].down = Nth(children[p], 1) /\ Strung(links, place, children[p])
  /\ \A h \in Handles : h = 1 => links[place[h]].right = 0

\* Merged nodes are of one level, and nothing is below itself.
Levels ==
  \E level :
    /\ \A h \in Handles : level[h] \in 1..h
    /\ \A h \in Handles \ {1} : level[h] = level[alpha[h].parent] + 1
    /\ \A x, y \in Handles : place[x] = place[y] => level[x] = level[y]

Forest == Shape /\ Lists /\ Links /\ Levels

Memory ==
  /\ used \in Nat /\ room \in Nat
  /\ overrun \in BOOLEAN /\ (~overrun => used <= room)
  /\ overrun => stack = << >> /\ 2 * Size[Last(links).type] > used

Ended == destroyed # << >> => stack = << >> /\ EachDestroyedOnce

IInv == Memory /\ Ended /\ (~untidy => Forest)

-----------------------------------------------------------------------------
(* Natural numbers, and sequences.                                         *)

\* A set of natural numbers that is not empty has a least one.
LEMMA Least ==
  ASSUME NEW T, T \subseteq Nat, T # {}
  PROVE  \E n \in T : \A m \in T : n <= m
<1> DEFINE less == {p \in Nat \X Nat : p[1] < p[2]}
<1>1. IsWellFoundedOn(less, Nat)
  BY NatLessThanWellFounded DEF OpToRel
<1>2. ASSUME NEW y \in Nat, NEW x \in Nat, y < x
      PROVE  <<y, x>> \in less
  <2>1. <<y, x>> \in Nat \X Nat /\ <<y, x>>[1] = y /\ <<y, x>>[2] = x
    OBVIOUS
  <2> QED BY <2>1, <1>2
<1> HIDE DEF less
<1>3. PICK x \in T : \A y \in T : ~ (<<y, x>> \in less)
  BY <1>1, WFMin
<1>4. ASSUME NEW y \in T PROVE x <= y
  <2>1. y \in Nat /\ x \in Nat
    OBVIOUS
  <2>2. ~ (y < x)
    BY <1>2, <1>3, <2>1
  <2> QED BY <2>1, <2>2
<1> QED BY <1>4, SMTT(30)

\* A set with 0 and all successors has all natural numbers.
LEMMA Induction ==
  ASSUME NEW T, 0 \in T, \A n \in Nat : n \in T => n + 1 \in T
  PROVE  Nat \subseteq T
<1> SUFFICES ASSUME ~ (Nat \subseteq T) PROVE FALSE
  OBVIOUS
<1>1. PICK n \in Nat \ T : \A m \in Nat \ T : n <= m
  BY Least
<1>2. n # 0
  OBVIOUS
<1>3. n - 1 \in Nat /\ n - 1 < n /\ (n - 1) + 1 = n
  BY <1>2
<1>4. n - 1 \in T
  BY <1>1, <1>3
<1> QED BY <1>1, <1>3, <1>4

\* The same for the numbers up to a bound.
LEMMA InductionUpTo ==
  ASSUME NEW N \in Nat, NEW T, 0 \in T, \A n \in 0..N - 1 : n \in T => n + 1 \in T
  PROVE  0..N \subseteq T
<1> DEFINE U == {n \in Nat : n <= N => n \in T}
<1>1. 0 \in U
  OBVIOUS
<1>2. ASSUME NEW n \in Nat, n \in U PROVE n + 1 \in U
  <2>1. n + 1 \in Nat
    OBVIOUS
  <2>2. ASSUME n + 1 <= N PROVE n + 1 \in T
    BY <1>2, <2>2
  <2> QED BY <2>1, <2>2
<1> HIDE DEF U
<1>3. Nat \subseteq U
  BY <1>1, <1>2, Induction, SMTT(30)
<1> QED BY <1>3 DEF U

-----------------------------------------------------------------------------
(* The loops of the model.                                                 *)

\* ChainFrom, one node at a time.
LEMMA ChainDef ==
  ASSUME NEW l, NEW at, NEW h, Len(l) \in Nat
  PROVE  \E f : /\ f[0] = [x \in 0..Len(at) |-> << >>]
                /\ \A i \in 1..Len(l) : f[i] = [x \in 0..Len(at) |-> IF x = 0 THEN << >> ELSE <<x>> \o f[i - 1][l[at[x]].right]]
                /\ ChainFrom(l, at, h) = f[Len(l)][h]
<1> DEFINE N == Len(l)
           base == [x \in 0..Len(at) |-> << >>]
           turn(was, i) == [x \in 0..Len(at) |-> IF x = 0 THEN << >> ELSE <<x>> \o was[l[at[x]].right]]
           loop(f, n) == [i \in 0..n |-> IF i = 0 THEN base ELSE turn(f[i - 1], i)]
           T == {n \in Nat : \E f : f = loop(f, n)}
           made == CHOOSE f : f = loop(f, N)
<1>1. ChainFrom(l, at, h) = made[N][h]
  BY DEF ChainFrom, Td
<1> HIDE DEF turn, base
<1>2. 0 \in T
  <2>1. [i \in 0..0 |-> base] = loop([i \in 0..0 |-> base], 0)
    OBVIOUS
  <2> QED BY <2>1
<1>3. ASSUME NEW n \in Nat, n \in T PROVE n + 1 \in T
  <2>1. PICK f : f = loop(f, n)
    BY <1>3
  <2> DEFINE g == [i \in 0..n + 1 |-> IF i = n + 1 THEN turn(f[n], n + 1) ELSE f[i]]
  <2>2. ASSUME NEW i \in 0..n + 1 PROVE g[i] = IF i = 0 THEN base ELSE turn(g[i - 1], i)
    <3>1. CASE i = n + 1
      BY <3>1
    <3>2. CASE i \in 0..n
      <4>1. g[i] = f[i] /\ (i # 0 => g[i - 1] = f[i - 1])
        BY <3>2
      <4>2. f[i] = IF i = 0 THEN base ELSE turn(f[i - 1], i)
        BY <2>1, <3>2
      <4> QED BY <4>1, <4>2
    <3> QED BY <3>1, <3>2
  <2>3. g = loop(g, n + 1)
    <3>1. g = [i \in 0..n + 1 |-> g[i]]
      OBVIOUS
    <3> HIDE DEF g
    <3> QED BY <2>2, <3>1
  <2> HIDE DEF g
  <2> QED BY <2>3
<1>4. N \in Nat
  OBVIOUS
<1> HIDE DEF N
<1>5. N \in T
  <2> HIDE DEF T
  <2>1. Nat \subseteq T
    BY <1>2, <1>3, Induction
  <2> QED BY <1>4, <2>1
<1>6. made = loop(made, N)
  BY <1>5
<1> HIDE DEF made
<1>7. made[0] = base /\ \A i \in 1..N : made[i] = turn(made[i - 1], i)
  BY <1>4, <1>6
<1> QED BY <1>1, <1>7, Zenon DEF turn, base, N

\* Without, one element at a time.
LEMMA WithoutDef ==
  ASSUME NEW s, NEW S, Len(s) \in Nat
  PROVE  \E f : /\ f[0] = << >>
                /\ \A i \in 1..Len(s) : f[i] = (IF s[i] \in S THEN f[i - 1] ELSE Append(f[i - 1], s[i]))
                /\ Without(s, S) = f[Len(s)]
<1> DEFINE N == Len(s)
           base == << >>
           turn(was, i) == (IF s[i] \in S THEN was ELSE Append(was, s[i]))
           loop(f, n) == [i \in 0..n |-> IF i = 0 THEN base ELSE turn(f[i - 1], i)]
           T == {n \in Nat : \E f : f = loop(f, n)}
           made == CHOOSE f : f = loop(f, N)
<1>1. Without(s, S) = made[N]
  BY DEF Without
<1> HIDE DEF turn, base
<1>2. 0 \in T
  <2>1. [i \in 0..0 |-> base] = loop([i \in 0..0 |-> base], 0)
    OBVIOUS
  <2> QED BY <2>1
<1>3. ASSUME NEW n \in Nat, n \in T PROVE n + 1 \in T
  <2>1. PICK f : f = loop(f, n)
    BY <1>3
  <2> DEFINE g == [i \in 0..n + 1 |-> IF i = n + 1 THEN turn(f[n], n + 1) ELSE f[i]]
  <2>2. ASSUME NEW i \in 0..n + 1 PROVE g[i] = IF i = 0 THEN base ELSE turn(g[i - 1], i)
    <3>1. CASE i = n + 1
      BY <3>1
    <3>2. CASE i \in 0..n
      <4>1. g[i] = f[i] /\ (i # 0 => g[i - 1] = f[i - 1])
        BY <3>2
      <4>2. f[i] = IF i = 0 THEN base ELSE turn(f[i - 1], i)
        BY <2>1, <3>2
      <4> QED BY <4>1, <4>2
    <3> QED BY <3>1, <3>2
  <2>3. g = loop(g, n + 1)
    <3>1. g = [i \in 0..n + 1 |-> g[i]]
      OBVIOUS
    <3> HIDE DEF g
    <3> QED BY <2>2, <3>1
  <2> HIDE DEF g
  <2> QED BY <2>3
<1>4. N \in Nat
  OBVIOUS
<1> HIDE DEF N
<1>5. N \in T
  <2> HIDE DEF T
  <2>1. Nat \subseteq T
    BY <1>2, <1>3, Induction
  <2> QED BY <1>4, <2>1
<1>6. made = loop(made, N)
  BY <1>5
<1> HIDE DEF made
<1>7. made[0] = base /\ \A i \in 1..N : made[i] = turn(made[i - 1], i)
  BY <1>4, <1>6
<1> QED BY <1>1, <1>7 DEF turn, base, N

\* Visited, one level of the recursion at a time.
LEMMA VisitedDef ==
  ASSUME Len(place) \in Nat
  PROVE  \E f : /\ f[0] = [h \in Handles |-> << >>]
                /\ \A i \in 1..Len(place) : f[i] = [h \in Handles |->
                    IF Td(links, place, h).way
                    THEN LET c == Chain(links, place, h)
                         IN  <<h>> \o FlattenSeq([j \in DOMAIN c |-> f[i - 1][c[j]]])
                    ELSE << >>]
                /\ Visited = f[Len(place)][1]
<1> DEFINE N == Len(place)
           base == [h \in Handles |-> << >>]
           turn(was, i) == [h \in Handles |->
                    IF Td(links, place, h).way
                    THEN LET c == Chain(links, place, h)
                         IN  <<h>> \o FlattenSeq([j \in DOMAIN c |-> was[c[j]]])
                    ELSE << >>]
           loop(f, n) == [i \in 0..n |-> IF i = 0 THEN base ELSE turn(f[i - 1], i)]
           T == {n \in Nat : \E f : f = loop(f, n)}
           made == CHOOSE f : f = loop(f, N)
<1>1. Visited = made[N][1]
  BY DEF Visited
<1> HIDE DEF turn, base
<1>2. 0 \in T
  <2>1. [i \in 0..0 |-> base] = loop([i \in 0..0 |-> base], 0)
    OBVIOUS
  <2> QED BY <2>1
<1>3. ASSUME NEW n \in Nat, n \in T PROVE n + 1 \in T
  <2>1. PICK f : f = loop(f, n)
    BY <1>3
  <2> DEFINE g == [i \in 0..n + 1 |-> IF i = n + 1 THEN turn(f[n], n + 1) ELSE f[i]]
  <2>2. ASSUME NEW i \in 0..n + 1 PROVE g[i] = IF i = 0 THEN base ELSE turn(g[i - 1], i)
    <3>1. CASE i = n + 1
      BY <3>1
    <3>2. CASE i \in 0..n
      <4>1. g[i] = f[i] /\ (i # 0 => g[i - 1] = f[i - 1])
        BY <3>2
      <4>2. f[i] = IF i = 0 THEN base ELSE turn(f[i - 1], i)
        BY <2>1, <3>2
      <4> QED BY <4>1, <4>2
    <3> QED BY <3>1, <3>2
  <2>3. g = loop(g, n + 1)
    <3>1. g = [i \in 0..n + 1 |-> g[i]]
      OBVIOUS
    <3> HIDE DEF g
    <3> QED BY <2>2, <3>1
  <2> HIDE DEF g
  <2> QED BY <2>3
<1>4. N \in Nat
  OBVIOUS
<1> HIDE DEF N
<1>5. N \in T
  <2> HIDE DEF T
  <2>1. Nat \subseteq T
    BY <1>2, <1>3, Induction
  <2> QED BY <1>4, <2>1
<1>6. made = loop(made, N)
  BY <1>5
<1> HIDE DEF made
<1>7. made[0] = base /\ \A i \in 1..N : made[i] = turn(made[i - 1], i)
  BY <1>4, <1>6
<1> QED BY <1>1, <1>7, Zenon DEF turn, base, N

\* What mergeNodes starts its loop with, and what it makes of the end of it.
Beginning == [l |-> links, at |-> place, lowest |-> 0, next |-> 0, leftmost |-> 0, m |-> 0]

Tied(s, first) == [s.l EXCEPT ![s.at[first]].right = s.next, ![s.at[first]].down = s.leftmost]

Finish(s, first) ==
  [links |-> IF s.m = 0 THEN Tied(s, first) ELSE [Tied(s, first) EXCEPT ![s.at[s.m]].right = 0],
   place |-> s.at, next |-> s.next]

\* The loop of mergeNodes, one node at a time.
LEMMA MergedDef ==
  ASSUME NEW h, NEW first, first = FirstSame(h),
         NEW c, c = ChainFrom(links, place, first), Len(c) \in Nat
  PROVE  \E f : /\ f[0] = Beginning
                /\ \A i \in 1..Len(c) : f[i] = (IF Merges(c[i], h) THEN MergeOne(f[i - 1], c[i], first)
                    ELSE PassOne(f[i - 1], c[i]))
                /\ Merged(h) = Finish(f[Len(c)], first)
<1> DEFINE N == Len(c)
           base == Beginning
           turn(was, i) == (IF Merges(c[i], h) THEN MergeOne(was, c[i], first)
                    ELSE PassOne(was, c[i]))
           loop(f, n) == [i \in 0..n |-> IF i = 0 THEN base ELSE turn(f[i - 1], i)]
           T == {n \in Nat : \E f : f = loop(f, n)}
           made == CHOOSE f : f = loop(f, N)
<1>1. Merged(h) = Finish(made[N], first)
  BY DEF Merged, Beginning, Finish, Tied
<1> HIDE DEF turn, base
<1>2. 0 \in T
  <2>1. [i \in 0..0 |-> base] = loop([i \in 0..0 |-> base], 0)
    OBVIOUS
  <2> QED BY <2>1
<1>3. ASSUME NEW n \in Nat, n \in T PROVE n + 1 \in T
  <2>1. PICK f : f = loop(f, n)
    BY <1>3
  <2> DEFINE g == [i \in 0..n + 1 |-> IF i = n + 1 THEN turn(f[n], n + 1) ELSE f[i]]
  <2>2. ASSUME NEW i \in 0..n + 1 PROVE g[i] = IF i = 0 THEN base ELSE turn(g[i - 1], i)
    <3>1. CASE i = n + 1
      BY <3>1
    <3>2. CASE i \in 0..n
      <4>1. g[i] = f[i] /\ (i # 0 => g[i - 1] = f[i - 1])
        BY <3>2
      <4>2. f[i] = IF i = 0 THEN base ELSE turn(f[i - 1], i)
        BY <2>1, <3>2
      <4> QED BY <4>1, <4>2
    <3> QED BY <3>1, <3>2
  <2>3. g = loop(g, n + 1)
    <3>1. g = [i \in 0..n + 1 |-> g[i]]
      OBVIOUS
    <3> HIDE DEF g
    <3> QED BY <2>2, <3>1
  <2> HIDE DEF g
  <2> QED BY <2>3
<1>4. N \in Nat
  OBVIOUS
<1> HIDE DEF N
<1>5. N \in T
  <2> HIDE DEF T
  <2>1. Nat \subseteq T
    BY <1>2, <1>3, Induction
  <2> QED BY <1>4, <2>1
<1>6. made = loop(made, N)
  BY <1>5, Zenon
<1> HIDE DEF made
<1>7. made[0] = base /\ \A i \in 1..N : made[i] = turn(made[i - 1], i)
  BY <1>4, <1>6
<1> QED BY <1>1, <1>7 DEF turn, base, N

\* FlattenSeq, one list at a time.
LEMMA FlattenDef ==
  ASSUME NEW S, NEW ss \in Seq(Seq(S))
  PROVE  \E f : /\ f[0] = << >>
                /\ \A i \in 1..Len(ss) : f[i] = f[i - 1] \o ss[i]
                /\ FlattenSeq(ss) = f[Len(ss)]
<1> DEFINE N == Len(ss)
           turn(was, i) == IF i = 1 THEN ss[i] ELSE was \o ss[i]
           loop(f, n) == [i \in 1..n |-> turn(f[i - 1], i)]
           T == {n \in Nat : \E f : f = loop(f, n)}
           made == CHOOSE f : f = loop(f, N)
<1>1. FlattenSeq(ss) = IF N = 0 THEN ss ELSE made[N]
  BY DEF FlattenSeq
<1> HIDE DEF turn
<1>2. 0 \in T
  <2>1. [i \in 1..0 |-> 0] = loop([i \in 1..0 |-> 0], 0)
    OBVIOUS
  <2> QED BY <2>1
<1>3. ASSUME NEW n \in Nat, n \in T PROVE n + 1 \in T
  <2>1. PICK f : f = loop(f, n)
    BY <1>3
  <2> DEFINE g == [i \in 1..n + 1 |-> IF i = n + 1 THEN turn(f[n], n + 1) ELSE f[i]]
  <2>2. ASSUME NEW i \in 1..n + 1 PROVE g[i] = turn(g[i - 1], i)
    <3>1. CASE i = n + 1
      <4>1. n # 0 => g[n] = f[n]
        OBVIOUS
      <4>2. turn(f[n], n + 1) = turn(g[n], n + 1)
        BY <4>1 DEF turn
      <4> QED BY <3>1, <4>2
    <3>2. CASE i \in 1..n
      <4>1. g[i] = f[i] /\ (i # 1 => g[i - 1] = f[i - 1])
        BY <3>2
      <4>2. f[i] = turn(f[i - 1], i)
        BY <2>1, <3>2
      <4>3. turn(f[i - 1], i) = turn(g[i - 1], i)
        BY <4>1 DEF turn
      <4> QED BY <4>1, <4>2, <4>3
    <3> QED BY <3>1, <3>2
  <2>3. g = loop(g, n + 1)
    <3>1. g = [i \in 1..n + 1 |-> g[i]]
      OBVIOUS
    <3> HIDE DEF g
    <3> QED BY <2>2, <3>1
  <2> HIDE DEF g
  <2> QED BY <2>3
<1>4. N \in Nat
  OBVIOUS
<1> HIDE DEF N
<1>5. N \in T
  <2> HIDE DEF T
  <2>1. Nat \subseteq T
    BY <1>2, <1>3, Induction, Zenon
  <2> QED BY <1>4, <2>1
<1>6. made = loop(made, N)
  BY <1>5
<1> HIDE DEF made
<1>7. \A i \in 1..N : made[i] = IF i = 1 THEN ss[i] ELSE made[i - 1] \o ss[i]
  BY <1>4, <1>6 DEF turn
<1> DEFINE h == [i \in 0..N |-> IF i = 0 THEN << >> ELSE made[i]]
<1>8. h[0] = << >> /\ (N # 0 => h[N] = made[N])
  BY <1>4
<1>9. ASSUME NEW i \in 1..N PROVE h[i] = h[i - 1] \o ss[i]
  <2>1. h[i] = made[i] /\ (i # 1 => h[i - 1] = made[i - 1]) /\ (i = 1 => h[i - 1] = << >>)
    BY <1>4
  <2>2. ss[i] \in Seq(S)
    BY DEF N
  <2>3. << >> \o ss[i] = ss[i]
    BY <2>2
  <2> QED BY <1>7, <2>1, <2>3
<1>10. FlattenSeq(ss) = h[N]
  <2>1. CASE N = 0
    <3>1. ss = << >>
      BY <2>1 DEF N
    <3> QED BY <1>1, <1>8, <2>1, <3>1
  <2>2. CASE N # 0
    BY <1>1, <1>8, <2>2
  <2> QED BY <2>1, <2>2
<1> HIDE DEF h
<1> QED BY <1>8, <1>9, <1>10 DEF N

-----------------------------------------------------------------------------
(* Lists.                                                                  *)

Distinct(s) == \A i, j \in 1..Len(s) : s[i] = s[j] => i = j

\* Nth of a list of handles is 0 exactly behind the end.
LEMMA NthIs ==
  ASSUME NEW s \in Seq(Nat \ {0}), NEW i
  PROVE  Nth(s, i) \in Nat /\ (Nth(s, i) = 0 <=> i \notin 1..Len(s)) /\ (i \in 1..Len(s) => Nth(s, i) = s[i])
BY DEF Nth

\* A list of different handles is no longer than the number of handles.
LEMMA FewDistinct ==
  ASSUME NEW n \in Nat, NEW s \in Seq(1..n), Distinct(s)
  PROVE  Len(s) <= n
<1> DEFINE m == Len(s)
           D == 1..m
           f == [i \in D |-> s[i]]
<1>1. m \in Nat
  OBVIOUS
<1>2. f \in Injection(D, 1..n)
  <2>1. f \in [D -> 1..n]
    OBVIOUS
  <2>2. \A a, b \in D : f[a] = f[b] => a = b
    BY DEF Distinct
  <2> QED BY <2>1, <2>2 DEF Injection, IsInjective
<1>3. IsFiniteSet(1..n) /\ Cardinality(1..n) = n
  <2>1. Cardinality(1..n) = IF 1 > n THEN 0 ELSE n - 1 + 1
    BY FS_Interval
  <2> QED BY <2>1, FS_Interval
<1>4. Cardinality(D) = m
  <2> HIDE DEF m
  <2>1. Cardinality(D) = IF 1 > m THEN 0 ELSE m - 1 + 1
    BY <1>1, FS_Interval
  <2> QED BY <1>1, <2>1
<1> HIDE DEF f, D
<1>5. Cardinality(D) <= Cardinality(1..n)
  BY <1>2, <1>3, FS_Injection
<1> QED BY <1>3, <1>4, <1>5

\* What SubSeq does to the beginning of a list.
LEMMA Suffix ==
  ASSUME NEW S, NEW s \in Seq(S), NEW f \in 1..Len(s)
  PROVE  LET c == SubSeq(s, f, Len(s))
         IN  c \in Seq(S) /\ Len(c) = Len(s) - f + 1 /\ \A i \in 1..Len(c) : c[i] = s[f + i - 1]
OBVIOUS

\* An element at the end.
LEMMA Appended ==
  ASSUME NEW S, NEW s \in Seq(S), NEW e \in S
  PROVE  /\ Append(s, e) \in Seq(S) /\ Len(Append(s, e)) = Len(s) + 1
         /\ Append(s, e)[Len(s) + 1] = e
         /\ \A i \in 1..Len(s) : Append(s, e)[i] = s[i]
OBVIOUS

\* A sequence of elements of a smaller set.
LEMMA Within ==
  ASSUME NEW S, NEW s \in Seq(S), NEW T, \A i \in 1..Len(s) : s[i] \in T
  PROVE  s \in Seq(T)
<1>1. s = [i \in 1..Len(s) |-> s[i]] /\ Len(s) \in Nat
  OBVIOUS
<1> QED BY <1>1

\* A list behind another.
LEMMA Joined ==
  ASSUME NEW S, NEW s \in Seq(S), NEW t \in Seq(S)
  PROVE  /\ s \o t \in Seq(S) /\ Len(s \o t) = Len(s) + Len(t)
         /\ Len(s) \in Nat /\ Len(t) \in Nat
         /\ \A i \in 1..Len(s) : (s \o t)[i] = s[i]
         /\ \A i \in 1..Len(t) : (s \o t)[Len(s) + i] = t[i]
<1>1. s \o t \in Seq(S) /\ Len(s \o t) = Len(s) + Len(t) /\ Len(s) \in Nat /\ Len(t) \in Nat
  OBVIOUS
<1>2. \A i \in 1..Len(s) : (s \o t)[i] = s[i]
  OBVIOUS
<1>3. ASSUME NEW i \in 1..Len(t) PROVE (s \o t)[Len(s) + i] = t[i]
  <2>1. Len(s) + i \in 1..Len(s) + Len(t) /\ ~ (Len(s) + i <= Len(s)) /\ (Len(s) + i) - Len(s) = i
    BY <1>1
  <2> QED BY <2>1
<1> QED BY <1>1, <1>2, <1>3

\* A loop over TreeRight comes past the list whose links are strung together.
LEMMA ChainIs ==
  ASSUME NEW l, NEW at, Len(l) \in Nat, Len(at) \in Nat,
         NEW kids \in Seq(1..Len(at)), Len(kids) <= Len(l), Strung(l, at, kids),
         NEW h, h = Nth(kids, 1)
  PROVE  ChainFrom(l, at, h) = kids
<1> DEFINE N == Len(l)
           H == 1..Len(at)
<1>1. PICK f : /\ f[0] = [x \in 0..Len(at) |-> << >>]
               /\ \A i \in 1..N : f[i] = [x \in 0..Len(at) |-> IF x = 0 THEN << >>
                                                             ELSE <<x>> \o f[i - 1][l[at[x]].right]]
               /\ ChainFrom(l, at, h) = f[N][h]
  BY ChainDef
<1> DEFINE Right(n) == \A ks \in Seq(H) : Len(ks) <= n /\ Strung(l, at, ks) => f[n][Nth(ks, 1)] = ks
           T == {n \in 0..N : Right(n)}
<1>2. 0 \in T
  <2> SUFFICES ASSUME NEW ks \in Seq(H), Len(ks) <= 0 PROVE f[0][Nth(ks, 1)] = ks
    OBVIOUS
  <2>1. ks = << >>
    OBVIOUS
  <2>2. Nth(ks, 1) = 0
    BY <2>1 DEF Nth
  <2> QED BY <1>1, <2>1, <2>2
<1>3. ASSUME NEW n \in 0..N - 1, n \in T PROVE n + 1 \in T
  <2> SUFFICES ASSUME NEW ks \in Seq(H), Len(ks) <= n + 1, Strung(l, at, ks)
               PROVE  f[n + 1][Nth(ks, 1)] = ks
    BY SMTT(30)
  <2>1. f[n + 1] = [x \in 0..Len(at) |-> IF x = 0 THEN << >> ELSE <<x>> \o f[n][l[at[x]].right]]
    <3>1. n + 1 \in 1..N /\ (n + 1) - 1 = n
      OBVIOUS
    <3> QED BY <1>1, <3>1, ZenonT(30)
  <2>2. CASE ks = << >>
    <3>1. Nth(ks, 1) = 0
      BY <2>2 DEF Nth
    <3> QED BY <2>1, <2>2, <3>1, SMTT(30)
  <2>3. CASE ks # << >>
    <3> DEFINE x == ks[1]
               rest == Tail(ks)
    <3>1. /\ x \in H /\ Nth(ks, 1) = x /\ rest \in Seq(H) /\ Len(rest) = Len(ks) - 1
          /\ \A i \in 1..Len(rest) : rest[i] = ks[i + 1]
          /\ ks = <<x>> \o rest /\ 1 \in 1..Len(ks)
      BY <2>3 DEF Nth
    <3> HIDE DEF x, rest
    <3>2. Len(ks) \in Nat
      OBVIOUS
    <3>3. ASSUME NEW i \in Nat \ {0} PROVE Nth(rest, i) = Nth(ks, i + 1)
      BY <3>1, <3>2 DEF Nth
    <3>4. Strung(l, at, rest)
      <4> SUFFICES ASSUME NEW i \in 1..Len(rest) PROVE l[at[rest[i]]].right = Nth(rest, i + 1)
        BY Zenon DEF Strung
      <4>1. i + 1 \in 1..Len(ks) /\ i + 1 \in Nat \ {0}
        BY <3>1, <3>2, SMTT(30)
      <4>2. l[at[ks[i + 1]]].right = Nth(ks, (i + 1) + 1)
        BY <4>1 DEF Strung
      <4> QED BY <3>1, <3>3, <4>1, <4>2
    <3>5. l[at[x]].right = Nth(rest, 1)
      <4>1. l[at[ks[1]]].right = Nth(ks, 1 + 1)
        BY <3>1, ZenonT(30) DEF Strung
      <4> QED BY <3>3, <4>1 DEF x
    <3>6. f[n][Nth(rest, 1)] = rest
      BY <1>3, <3>1, <3>4
    <3>7. x # 0 /\ x \in 0..Len(at)
      BY <3>1, SMTT(30)
    <3>8. f[n + 1][x] = <<x>> \o f[n][l[at[x]].right]
      BY <2>1, <3>7, Zenon
    <3>9. f[n + 1][x] = <<x>> \o rest
      BY <3>5, <3>6, <3>8
    <3> QED BY <3>1, <3>9, Zenon
  <2> QED BY <2>2, <2>3
<1>4. N \in T
  <2> HIDE DEF T
  <2>1. 0..N \subseteq T
    BY <1>2, <1>3, InductionUpTo
  <2> QED BY <2>1
<1> QED BY <1>1, <1>4, SMTT(30)

\* The same from the i-th of the list on.
LEMMA ChainFromIs ==
  ASSUME NEW l, NEW at, Len(l) \in Nat, Len(at) \in Nat,
         NEW kids \in Seq(1..Len(at)), Len(kids) <= Len(l), Strung(l, at, kids),
         NEW i \in 1..Len(kids)
  PROVE  ChainFrom(l, at, kids[i]) = SubSeq(kids, i, Len(kids))
<1> DEFINE c == SubSeq(kids, i, Len(kids))
<1>0. Len(kids) \in Nat
  OBVIOUS
<1>1. c \in Seq(1..Len(at)) /\ Len(c) = Len(kids) - i + 1 /\ \A j \in 1..Len(c) : c[j] = kids[i + j - 1]
  BY Suffix, Zenon
<1> HIDE DEF c
<1>2. \A j \in 1..Len(c) + 1 : Nth(c, j) = Nth(kids, i + j - 1)
  BY <1>0, <1>1, SMTT(30) DEF Nth
<1>3. Strung(l, at, c)
  <2> SUFFICES ASSUME NEW j \in 1..Len(c) PROVE l[at[c[j]]].right = Nth(c, j + 1)
    BY DEF Strung
  <2>1. i + j - 1 \in 1..Len(kids) /\ j + 1 \in 1..Len(c) + 1 /\ i + (j + 1) - 1 = (i + j - 1) + 1
    BY <1>0, <1>1
  <2>2. l[at[kids[i + j - 1]]].right = Nth(kids, (i + j - 1) + 1)
    BY <2>1 DEF Strung
  <2> QED BY <1>1, <1>2, <2>1, <2>2, Zenon
<1>4. kids[i] = Nth(c, 1) /\ Len(c) <= Len(l)
  <2>1. 1 \in 1..Len(c) /\ i + 1 - 1 = i
    BY <1>0, <1>1
  <2>2. c[1] = kids[i]
    BY <1>1, <2>1
  <2> QED BY <1>0, <1>1, <2>1, <2>2 DEF Nth
<1>5. ChainFrom(l, at, kids[i]) = c
  BY <1>1, <1>3, <1>4, ChainIs
<1> QED BY <1>5 DEF c

\* What a list is into which h was inserted behind the k-th.
Insertion(order, kids, k, h) ==
  /\ k + 1 \in 1..Len(order) /\ order[k + 1] = h
  /\ \A i \in 1..Len(order) : i # k + 1 => \E j \in 1..Len(kids) : order[i] = kids[j]
  /\ \A i \in 1..Len(kids) : \E j \in 1..Len(order) : order[j] = kids[i]
  /\ Distinct(kids) /\ (\A i \in 1..Len(kids) : kids[i] # h) => Distinct(order)
  /\ \A i \in 1..k : Nth(order, i) = Nth(kids, i)
  /\ Nth(order, k + 1) = h
  /\ \A i \in k + 1..Len(kids) + 1 : Nth(order, i + 1) = Nth(kids, i)
  /\ \A i \in 1..k : i \in 1..Len(kids) /\ order[i] = kids[i]
  /\ \A i \in k + 1..Len(kids) : i \in 1..Len(kids) /\ order[i + 1] = kids[i]
  /\ \A i \in 1..Len(order) : i \in 1..k \/ i = k + 1 \/ \E j \in k + 1..Len(kids) : i = j + 1

\* A list with an element put in behind its k-th.
LEMMA Inserting ==
  ASSUME NEW kids \in Seq(Nat \ {0}), NEW k \in 0..Len(kids), NEW h \in Nat, NEW order,
         Len(order) = Len(kids) + 1,
         \A i \in 1..Len(order) : order[i] = IF i <= k THEN kids[i] ELSE IF i = k + 1 THEN h ELSE kids[i - 1]
  PROVE  Insertion(order, kids, k, h)
<1> DEFINE m == Len(kids)
<1>1. m \in Nat /\ Len(order) = m + 1 /\ k \in 0..m
  OBVIOUS
<1> HIDE DEF m
<1>2. \A i \in 1..k : i \in 1..m + 1 /\ i \in 1..m /\ order[i] = kids[i]
  BY <1>1
<1>3. k + 1 \in 1..m + 1 /\ order[k + 1] = h
  BY <1>1
<1>4. \A i \in k + 1..m : i \in 1..m /\ i + 1 \in 1..m + 1 /\ order[i + 1] = kids[i]
  <2> SUFFICES ASSUME NEW i \in k + 1..m PROVE i \in 1..m /\ i + 1 \in 1..m + 1 /\ order[i + 1] = kids[i]
    OBVIOUS
  <2>1. i \in 1..m /\ i + 1 \in 1..m + 1 /\ ~ (i + 1 <= k) /\ i + 1 # k + 1 /\ (i + 1) - 1 = i
    BY <1>1
  <2> QED BY <1>1, <2>1
<1>5. ASSUME NEW i \in 1..m + 1
      PROVE  i \in 1..k \/ i = k + 1 \/ (i - 1 \in k + 1..m /\ (i - 1) + 1 = i)
  BY <1>1
<1>6. \A i \in 1..m + 1 : i # k + 1 => \E j \in 1..m : order[i] = kids[j]
  BY <1>2, <1>4, <1>5
<1>7. \A i \in 1..m : \E j \in 1..m + 1 : order[j] = kids[i]
  <2> SUFFICES ASSUME NEW i \in 1..m PROVE \E j \in 1..m + 1 : order[j] = kids[i]
    OBVIOUS
  <2>1. i \in 1..k \/ i \in k + 1..m
    BY <1>1
  <2> QED BY <1>2, <1>4, <2>1
<1>8. ASSUME Distinct(kids), \A i \in 1..m : kids[i] # h PROVE Distinct(order)
  <2> SUFFICES ASSUME NEW i \in 1..m + 1, NEW j \in 1..m + 1, order[i] = order[j] PROVE i = j
    BY <1>1 DEF Distinct
  <2>1. \A a, b \in 1..m : kids[a] = kids[b] => a = b
    BY <1>8 DEF Distinct, m
  <2>2. CASE i = k + 1
    BY <1>3, <1>6, <1>8, <2>2, Zenon
  <2>3. CASE j = k + 1
    BY <1>3, <1>6, <1>8, <2>3
  <2>4. ASSUME NEW x \in 1..m + 1, x # k + 1
        PROVE  \E a \in 1..m : order[x] = kids[a] /\ ((x = a /\ a <= k) \/ (x = a + 1 /\ a > k))
    <3>1. CASE x \in 1..k
      <4>1. order[x] = kids[x] /\ x \in 1..m /\ x <= k
        BY <1>1, <1>2, <3>1
      <4> QED BY <4>1
    <3>2. CASE x - 1 \in k + 1..m /\ (x - 1) + 1 = x
      <4>1. order[x] = kids[x - 1] /\ x - 1 \in 1..m /\ x - 1 > k
        BY <1>1, <1>4, <3>2
      <4> QED BY <3>2, <4>1
    <3> QED BY <1>5, <2>4, <3>1, <3>2
  <2>5. CASE i # k + 1 /\ j # k + 1
    <3>1. PICK a \in 1..m : order[i] = kids[a] /\ ((i = a /\ a <= k) \/ (i = a + 1 /\ a > k))
      BY <2>4, <2>5
    <3>2. PICK b \in 1..m : order[j] = kids[b] /\ ((j = b /\ b <= k) \/ (j = b + 1 /\ b > k))
      BY <2>4, <2>5
    <3>3. a = b
      BY <2>1, <3>1, <3>2, Zenon
    <3> QED BY <3>1, <3>2, <3>3
  <2> QED BY <2>2, <2>3, <2>5
<1>9. \A i \in 1..k : Nth(order, i) = Nth(kids, i)
  BY <1>1, <1>2 DEF Nth, m
<1>10. Nth(order, k + 1) = h
  BY <1>1, <1>3 DEF Nth
<1>11. ASSUME NEW i \in k + 1..m + 1 PROVE Nth(order, i + 1) = Nth(kids, i)
  <2>1. CASE i \in k + 1..m
    <3>1. i \in 1..m /\ i + 1 \in 1..m + 1 /\ order[i + 1] = kids[i]
      BY <1>4, <2>1
    <3> QED BY <1>1, <3>1 DEF Nth, m
  <2>2. CASE i = m + 1
    <3>1. i \notin 1..m /\ i + 1 \notin 1..m + 1
      BY <1>1, <2>2
    <3> QED BY <1>1, <3>1 DEF Nth, m
  <2> QED BY <1>1, <2>1, <2>2
<1>12. \A i \in 1..m + 1 : i \in 1..k \/ i = k + 1 \/ \E j \in k + 1..m : i = j + 1
  BY <1>5
<1>13. (\A i \in 1..k : i \in 1..m /\ order[i] = kids[i]) /\ \A i \in k + 1..m : i \in 1..m /\ order[i + 1] = kids[i]
  BY <1>2, <1>4
<1> QED BY <1>1, <1>3, <1>6, <1>7, <1>8, <1>9, <1>10, <1>11, <1>12, <1>13 DEF m, Insertion

-----------------------------------------------------------------------------
(* The tree.                                                               *)

LinkRecords == [down : Nat, right : Nat, type : Types, way : BOOLEAN]

\* The places that handles lead to, and the lengths of the tables.
LEMMA PlacesAre ==
  ASSUME Forest
  PROVE  /\ Len(alpha) \in Nat /\ Len(links) = Len(alpha) /\ Len(place) = Len(alpha)
         /\ Len(children) = Len(alpha) /\ Handles = 1..Len(alpha)
         /\ \A p \in InUse : p \in Handles
         /\ \A h \in Handles : place[h] \in InUse /\ place[h] \in Handles
<1>1. Len(alpha) \in Nat /\ Len(links) = Len(alpha) /\ Len(place) = Len(alpha) /\ Len(children) = Len(alpha)
  BY DEF Forest, Shape
<1>2. \A h \in Handles : place[h] \in Handles
  BY DEF Forest, Shape
<1>3. Handles = 1..Len(alpha)
  BY DEF Handles
<1> QED BY <1>1, <1>2, <1>3 DEF InUse

\* The list of a place that is in use.
LEMMA KidsAre ==
  ASSUME Forest, NEW p \in InUse
  PROVE  /\ children[p] \in Seq(Handles \ {1}) /\ children[p] \in Seq(Nat \ {0})
         /\ children[p] \in Seq(1..Len(place))
         /\ Len(children[p]) \in Nat /\ Len(children[p]) <= Len(alpha)
         /\ Distinct(children[p])
         /\ Strung(links, place, children[p]) /\ links[p].down = Nth(children[p], 1)
<1> DEFINE kids == children[p]
<1>1. Len(alpha) \in Nat /\ Handles = 1..Len(alpha) /\ p \in Handles /\ Len(place) = Len(alpha)
  BY PlacesAre
<1>2. children \in Seq(Seq(Nat)) /\ Len(children) = Len(alpha)
  BY DEF Forest, Shape
<1>3. kids \in Seq(Nat)
  BY <1>1, <1>2
<1>4. \A i \in 1..Len(kids) : kids[i] \in Handles \ {1}
  BY DEF Forest, Lists
<1>5. Distinct(kids)
  BY DEF Forest, Lists, Distinct
<1>6. Strung(links, place, kids) /\ links[p].down = Nth(kids, 1)
  BY DEF Forest, Links
<1> HIDE DEF kids
<1>7. kids \in Seq(Handles \ {1}) /\ kids \in Seq(1..Len(alpha)) /\ kids \in Seq(Nat \ {0})
  <2>1. kids = [i \in 1..Len(kids) |-> kids[i]] /\ Len(kids) \in Nat
    BY <1>3
  <2>2. \A i \in 1..Len(kids) : kids[i] \in Handles \ {1} /\ kids[i] \in 1..Len(alpha) /\ kids[i] \in Nat \ {0}
    BY <1>1, <1>4
  <2> QED BY <2>1, <2>2
<1>8. Len(kids) \in Nat /\ Len(kids) <= Len(alpha)
  BY <1>1, <1>3, <1>5, <1>7, FewDistinct
<1> QED BY <1>1, <1>5, <1>6, <1>7, <1>8 DEF kids

\* The loops over TreeRight find these lists.
LEMMA ChildrenAre ==
  ASSUME Forest, NEW h \in Handles
  PROVE  Chain(links, place, h) = children[place[h]]
<1> DEFINE p == place[h]
           kids == children[p]
<1>1. p \in InUse /\ Len(links) = Len(alpha) /\ Len(links) \in Nat /\ Len(place) \in Nat
  BY PlacesAre
<1>2. /\ kids \in Seq(1..Len(place)) /\ Len(kids) <= Len(links) /\ Strung(links, place, kids)
      /\ links[p].down = Nth(kids, 1)
  BY <1>1, KidsAre
<1>3. Chain(links, place, h) = ChainFrom(links, place, links[p].down)
  BY DEF Chain, Td
<1> HIDE DEF kids
<1>4. ChainFrom(links, place, links[p].down) = kids
  BY <1>1, <1>2, ChainIs
<1> QED BY <1>3, <1>4 DEF kids

\* Which handles are in the tree.
LEMMA LiveIs ==
  ASSUME Forest
  PROVE  /\ \A x : x \in Live <=> (x = 1 /\ 1 \in Handles) \/ \E p \in InUse : \E i \in 1..Len(children[p]) : x = children[p][i]
         /\ \A p \in InUse : \A i \in 1..Len(children[p]) : children[p][i] \in Live
<1>1. ASSUME NEW p \in InUse
      PROVE  /\ \A x : x \in ToSet(children[p]) <=> \E i \in 1..Len(children[p]) : x = children[p][i]
             /\ \A i \in 1..Len(children[p]) : children[p][i] \in Handles
  <2>1. children[p] \in Seq(Nat \ {0}) /\ children[p] \in Seq(Handles \ {1})
    BY KidsAre
  <2>2. DOMAIN children[p] = 1..Len(children[p])
    BY <2>1
  <2> QED BY <2>1, <2>2 DEF ToSet
<1>2. ASSUME NEW x
      PROVE  x \in Live <=> (x = 1 /\ 1 \in Handles) \/ \E p \in InUse : \E i \in 1..Len(children[p]) : x = children[p][i]
  <2>1. x \in Live <=> x \in Handles /\ (x = 1 \/ \E p \in InUse : x \in ToSet(children[p]))
    BY DEF Live
  <2>2. ASSUME NEW p \in InUse, x \in ToSet(children[p]) PROVE x \in Handles
    BY <1>1, <2>2
  <2>3. (\E p \in InUse : x \in ToSet(children[p])) <=> \E p \in InUse : \E i \in 1..Len(children[p]) : x = children[p][i]
    BY <1>1, SMTT(30)
  <2> QED BY <2>1, <2>2, <2>3
<1>3. ASSUME NEW p \in InUse, NEW i \in 1..Len(children[p]) PROVE children[p][i] \in Live
  <2> DEFINE x == children[p][i]
  <2>1. \E q \in InUse : \E j \in 1..Len(children[q]) : x = children[q][j]
    OBVIOUS
  <2> HIDE DEF x
  <2>2. x \in Live
    BY <1>2, <2>1
  <2> QED BY <2>2 DEF x
<1> QED BY <1>2, <1>3

\* A node is added behind the k-th child of the parent.
Added(parent, k, order) ==
  LET h == Len(alpha) + 1
      r == place[parent]
      kids == children[r]
  IN  /\ Len(order) = Len(kids) + 1 /\ order \in Seq(Nat)
      /\ \A i \in 1..Len(order) : order[i] = IF i <= k THEN kids[i] ELSE IF i = k + 1 THEN h ELSE kids[i - 1]
      /\ children' = Append([children EXCEPT ![r] = order], << >>)
      /\ place' = Append(place, h)
      /\ \E key \in NodeKeys : alpha' = Append(alpha, [key |-> key, parent |-> parent, mergeable |-> TRUE])
      /\ links' \in Seq(LinkRecords) /\ Len(links') = h
      /\ links'[h].down = 0 /\ links'[h].right = Nth(kids, k + 1)
      /\ \A q \in Handles : links'[q].down = IF q = r /\ k = 0 THEN h ELSE links[q].down
      /\ \A q \in Handles : links'[q].right = IF k # 0 /\ q = place[kids[k]] THEN h ELSE links[q].right

\* A new node behind the k-th child of a place keeps the tree a tree.
LEMMA AddedKeeps ==
  ASSUME Forest, NEW parent \in Handles, NEW k \in 0..Len(children[place[parent]]), NEW order,
         Added(parent, k, order), stack' = stack
  PROVE  Forest'
<1> DEFINE n == Len(alpha)
           h == n + 1
           r == place[parent]
           kids == children[r]
<1>1. /\ n \in Nat /\ Len(links) = n /\ Len(place) = n /\ Len(children) = n /\ Handles = 1..n
      /\ r \in InUse /\ r \in Handles /\ \A p \in InUse : p \in Handles
      /\ \A x \in Handles : place[x] \in InUse /\ place[x] \in Handles
  BY PlacesAre
<1>2. kids \in Seq(Nat \ {0}) /\ Len(kids) \in Nat /\ Distinct(kids) /\ \A i \in 1..Len(kids) : kids[i] \in Handles
  <2>1. kids \in Seq(Handles \ {1})
    BY <1>1, KidsAre
  <2> QED BY <1>1, <2>1, KidsAre
<1>3. /\ alpha \in Seq([key : NodeKeys, parent : Nat, mergeable : BOOLEAN])
      /\ place \in Seq(Nat) /\ children \in Seq(Seq(Nat))
  BY DEF Forest, Shape
<1>4. PICK key \in NodeKeys : alpha' = Append(alpha, [key |-> key, parent |-> parent, mergeable |-> TRUE])
  BY Zenon DEF Added
<1>5. /\ alpha' \in Seq([key : NodeKeys, parent : Nat, mergeable : BOOLEAN])
      /\ Len(alpha') = h /\ alpha'[h].parent = parent
      /\ \A x \in Handles : alpha'[x] = alpha[x]
      /\ parent \in 1..n
  BY <1>1, <1>3, <1>4, SMTT(30)
<1>6. Handles' = 1..h /\ Handles' = Handles \union {h}
  <2>1. Handles' = 1..h
    BY <1>5 DEF Handles
  <2>2. 1..n + 1 = (1..n) \union {n + 1}
    BY <1>1, SMTT(30)
  <2> QED BY <1>1, <2>1, <2>2
<1>7. place' \in Seq(Nat) /\ Len(place') = h /\ place'[h] = h /\ \A x \in Handles : place'[x] = place[x]
  <2>1. place' = Append(place, h)
    BY DEF Added
  <2>2. h \in Nat /\ Len(place) = n /\ h = n + 1
    BY <1>1
  <2> HIDE DEF h
  <2>3. /\ Append(place, h) \in Seq(Nat) /\ Len(Append(place, h)) = Len(place) + 1
        /\ Append(place, h)[Len(place) + 1] = h
        /\ \A i \in 1..Len(place) : Append(place, h)[i] = place[i]
    BY <1>3, <2>2, Appended, SMTT(30)
  <2> QED BY <1>1, <2>1, <2>2, <2>3, Zenon
<1>8. /\ children' \in Seq(Seq(Nat)) /\ Len(children') = h /\ children'[h] = << >>
      /\ children'[r] = order
      /\ \A q \in Handles \ {r} : children'[q] = children[q]
  <2>1. << >> \in Seq(Nat) /\ order \in Seq(Nat)
    BY DEF Added
  <2>2. [children EXCEPT ![r] = order] \in Seq(Seq(Nat)) /\ Len([children EXCEPT ![r] = order]) = n
    BY <1>1, <1>3, <2>1, SMTT(30)
  <2>3. /\ [children EXCEPT ![r] = order][r] = order
        /\ \A q \in Handles \ {r} : [children EXCEPT ![r] = order][q] = children[q]
    BY <1>1, <1>3
  <2> DEFINE new == [children EXCEPT ![r] = order]
  <2>4. children' = Append(new, << >>)
    BY DEF Added
  <2> HIDE DEF new
  <2>5. new \in Seq(Seq(Nat)) /\ Len(new) = n /\ new[r] = order /\ \A q \in Handles \ {r} : new[q] = children[q]
    BY <2>2, <2>3 DEF new
  <2>6. h = n + 1 /\ \A q \in Handles : q \in 1..n
    BY <1>1
  <2> HIDE DEF h
  <2>7. << >> \in Seq(Nat)
    OBVIOUS
  <2>8. /\ children' \in Seq(Seq(Nat)) /\ Len(children') = h /\ children'[h] = << >>
        /\ \A i \in 1..n : children'[i] = new[i]
    BY <2>4, <2>5, <2>6, <2>7, Appended
  <2> QED BY <1>1, <2>5, <2>6, <2>8, Zenon
<1>9. /\ links' \in Seq(LinkRecords) /\ Len(links') = h
      /\ links'[h].down = 0 /\ links'[h].right = Nth(kids, k + 1)
      /\ \A q \in Handles : links'[q].down = IF q = r /\ k = 0 THEN h ELSE links[q].down
      /\ \A q \in Handles : links'[q].right = IF k # 0 /\ q = place[kids[k]] THEN h ELSE links[q].right
  BY DEF Added
<1>10. /\ Len(order) = Len(kids) + 1 /\ order \in Seq(Nat)
       /\ \A i \in 1..Len(order) : order[i] = IF i <= k THEN kids[i] ELSE IF i = k + 1 THEN h ELSE kids[i - 1]
  BY DEF Added
<1>11. InUse' = InUse \union {h} /\ h \notin InUse
  <2>1. InUse' = {place'[x] : x \in Handles \union {h}}
    BY <1>6 DEF InUse
  <2>2. InUse = {place[x] : x \in Handles}
    BY DEF InUse
  <2>3. h \notin Handles
    BY <1>1
  <2>4. \A x \in Handles : place'[x] = place[x]
    BY <1>7
  <2>5. {place'[x] : x \in Handles \union {h}} = {place[x] : x \in Handles} \union {place'[h]}
    BY <2>4
  <2>6. place'[h] = h /\ h \notin InUse
    BY <1>1, <1>7, <2>3
  <2> QED BY <2>1, <2>2, <2>5, <2>6
<1>12. stack' \in Seq(Nat) /\ \A i \in 1..Len(stack') : stack'[i] \in Handles'
  BY <1>6, Zenon DEF Forest, Shape
<1>13. ASSUME NEW x \in Handles' PROVE place'[x] \in Handles'
  BY <1>1, <1>6, <1>7
<1>14. ASSUME NEW x \in Handles' PROVE (x = 1 /\ alpha'[x].parent = 0) \/ alpha'[x].parent \in 1..x - 1
  <2>1. CASE x = h
    BY <1>1, <1>5, <2>1, SMTT(30)
  <2>2. CASE x \in Handles
    BY <1>5, <2>2, Zenon DEF Forest, Shape
  <2> QED BY <1>6, <2>1, <2>2
<1>15. Shape'
  BY <1>5, <1>7, <1>8, <1>9, <1>12, <1>13, <1>14, Zenon DEF Shape, LinkRecords
<1> HIDE DEF h
<1>16. h = n + 1 /\ h \notin Handles /\ h \in Nat /\ h # 0
  BY <1>1 DEF h
\* The new list.
<1>17a. Insertion(order, kids, k, h)
  <2>1. k \in 0..Len(kids)
    OBVIOUS
  <2> HIDE DEF kids
  <2>2. kids \in Seq(Nat \ {0}) /\ h \in Nat /\ Len(order) = Len(kids) + 1
    BY <1>2, <1>10, <1>16
  <2>3. \A i \in 1..Len(order) : order[i] = IF i <= k THEN kids[i] ELSE IF i = k + 1 THEN h ELSE kids[i - 1]
    BY <1>10
  <2> QED BY <2>1, <2>2, <2>3, Inserting
<1>17. /\ k + 1 \in 1..Len(order) /\ order[k + 1] = h
       /\ \A i \in 1..Len(order) : i # k + 1 => \E j \in 1..Len(kids) : order[i] = kids[j]
       /\ \A i \in 1..Len(kids) : \E j \in 1..Len(order) : order[j] = kids[i]
       /\ Distinct(kids) /\ (\A i \in 1..Len(kids) : kids[i] # h) => Distinct(order)
       /\ \A i \in 1..k : Nth(order, i) = Nth(kids, i)
       /\ Nth(order, k + 1) = h
       /\ \A i \in k + 1..Len(kids) + 1 : Nth(order, i + 1) = Nth(kids, i)
  BY <1>17a DEF Insertion
<1>18. ASSUME NEW i \in 1..Len(order)
       PROVE  \/ i = k + 1 /\ order[i] = h
              \/ /\ order[i] \in Handles /\ order[i] # h
                 /\ \E j \in 1..Len(kids) : kids[j] = order[i]
  <2> HIDE DEF kids
  <2>1. CASE i = k + 1
    BY <1>17, <2>1
  <2>2. CASE i # k + 1
    <3>1. PICK j \in 1..Len(kids) : order[i] = kids[j]
      BY <1>17, <2>2
    <3> QED BY <1>2, <1>16, <3>1
  <2> QED BY <2>1, <2>2
<1>19. \A i \in 1..Len(kids) : kids[i] # h
  BY <1>2, <1>16
<1>20. Distinct(order)
  BY <1>2, <1>17, <1>19
<1>21. \A p \in InUse : \A i \in 1..Len(children[p]) :
          /\ children[p][i] \in Handles \ {1}
          /\ place[alpha[children[p][i]].parent] = p
  BY DEF Forest, Lists
\* The lists are those before, but for the new one.
<1>22. ASSUME NEW p \in InUse', NEW i \in 1..Len(children'[p])
       PROVE  \/ /\ p = r /\ i \in 1..Len(order) /\ children'[p][i] = order[i] /\ order[i] = h
              \/ /\ p \in InUse /\ children'[p][i] \in Handles /\ children'[p][i] # h
                 /\ \E j \in 1..Len(children[p]) : children[p][j] = children'[p][i]
  <2>1. CASE p = h
    <3>1. Len(<< >>) = 0 /\ ~ \E a \in 1..0 : TRUE
      OBVIOUS
    <3> QED BY <1>8, <2>1, <3>1
  <2>2. CASE p = r
    <3>1. i \in 1..Len(order) /\ children'[p][i] = order[i]
      BY <1>8, <2>2
    <3>2. CASE order[i] = h
      BY <2>2, <3>1, <3>2
    <3>3. CASE order[i] # h
      <4>1. order[i] \in Handles /\ \E j \in 1..Len(kids) : kids[j] = order[i]
        BY <1>18, <3>1, <3>3
      <4> QED BY <1>1, <2>2, <3>1, <3>3, <4>1
    <3> QED BY <3>2, <3>3
  <2>3. CASE p # h /\ p # r
    <3>1. p \in InUse /\ p \in Handles \ {r}
      BY <1>1, <1>11, <2>3
    <3>2. children'[p] = children[p]
      BY <1>8, <3>1
    <3>3. children[p][i] \in Handles
      BY <1>21, <3>1, <3>2
    <3> QED BY <1>16, <3>1, <3>2, <3>3
  <2> QED BY <2>1, <2>2, <2>3
<1>23. \A p, q \in InUse : \A i \in 1..Len(children[p]), j \in 1..Len(children[q]) :
          children[p][i] = children[q][j] => p = q /\ i = j
  BY DEF Forest, Lists
<1>24. ASSUME NEW p \in InUse', NEW q \in InUse', NEW i \in 1..Len(children'[p]), NEW j \in 1..Len(children'[q]),
              children'[p][i] = children'[q][j]
       PROVE  p = q /\ i = j
  <2>1. p = q
    BY <1>16, <1>22, <1>23, <1>24
  <2>2. CASE p = h
    <3>1. Len(<< >>) = 0 /\ ~ \E a \in 1..0 : TRUE
      OBVIOUS
    <3> QED BY <1>8, <2>2, <3>1
  <2>3. CASE p = r
    <3>1. children'[p] = order
      BY <1>8, <2>3
    <3> QED BY <1>20, <1>24, <2>1, <3>1 DEF Distinct
  <2>4. CASE p # h /\ p # r
    <3>1. p \in InUse /\ children'[p] = children[p]
      BY <1>1, <1>8, <1>11, <2>4
    <3> QED BY <1>23, <1>24, <2>1, <3>1
  <2> QED BY <2>1, <2>2, <2>3, <2>4
<1>25. ASSUME NEW p \in InUse', NEW i \in 1..Len(children'[p])
       PROVE  children'[p][i] \in Handles' \ {1} /\ place'[alpha'[children'[p][i]].parent] = p
  <2>1. h # 1
    BY <1>1, <1>16
  <2>2. CASE p = r /\ i \in 1..Len(order) /\ children'[p][i] = order[i] /\ order[i] = h
    BY <1>5, <1>6, <1>7, <2>1, <2>2
  <2>3. CASE /\ p \in InUse /\ children'[p][i] \in Handles /\ children'[p][i] # h
             /\ \E j \in 1..Len(children[p]) : children[p][j] = children'[p][i]
    <3> DEFINE x == children'[p][i]
    <3>1. PICK j \in 1..Len(children[p]) : children[p][j] = x
      BY <2>3
    <3>2. x \in Handles \ {1} /\ place[alpha[x].parent] = p
      BY <1>21, <2>3, <3>1
    <3>3. alpha[x].parent \in Handles
      <4>1. (x = 1 /\ alpha[x].parent = 0) \/ alpha[x].parent \in 1..x - 1
        BY <3>2 DEF Forest, Shape
      <4>2. x \in 1..n
        BY <1>1, <3>2
      <4> HIDE DEF x
      <4>3. alpha[x].parent \in 1..x - 1
        BY <3>2, <4>1
      <4>4. alpha[x].parent \in 1..n
        BY <1>1, <4>2, <4>3
      <4> QED BY <1>1, <4>4
    <3>4. place'[alpha'[x].parent] = p
      BY <1>5, <1>7, <3>2, <3>3
    <3> QED BY <1>6, <3>2, <3>4
  <2> QED BY <1>22, <2>2, <2>3
\* Who is in the tree.
<1>26. /\ \A x \in Live : x \in Live' /\ x \in Handles
       /\ h \in Live'
       /\ \A x \in Live' : x \in Live \/ x = h
  <2>1. ASSUME NEW p \in InUse', NEW x
        PROVE  x \in ToSet(children'[p]) <=> \E i \in 1..Len(children'[p]) : x = children'[p][i]
    <3>1. p \in 1..h
      BY <1>1, <1>6, <1>11, <1>16
    <3>2. children'[p] \in Seq(Nat)
      BY <1>8, <3>1
    <3>3. DOMAIN children'[p] = 1..Len(children'[p])
      BY <3>2
    <3> QED BY <3>3 DEF ToSet
  <2>2. ASSUME NEW x
        PROVE  x \in Live' <=> x \in Handles' /\ (x = 1 \/ \E p \in InUse' : \E i \in 1..Len(children'[p]) : x = children'[p][i])
    <3>1. x \in Live' <=> x \in Handles' /\ (x = 1 \/ \E p \in InUse' : x \in ToSet(children'[p]))
      BY DEF Live
    <3> QED BY <2>1, <3>1, Zenon
  <2>3. 1 \in Handles
    BY <1>1, <1>5
  <2>4. ASSUME NEW x \in Live' PROVE x \in Live \/ x = h
    <3>1. CASE x = 1
      BY <2>3, <3>1, LiveIs
    <3>2. ASSUME NEW p \in InUse', NEW i \in 1..Len(children'[p]), x = children'[p][i] PROVE x \in Live \/ x = h
      <4>1. CASE children'[p][i] = h
        BY <3>2, <4>1
      <4>2. CASE p \in InUse /\ \E j \in 1..Len(children[p]) : children[p][j] = children'[p][i]
        BY <3>2, <4>2, LiveIs
      <4> QED BY <1>22, <4>1, <4>2
    <3> QED BY <2>2, <3>1, <3>2
  <2>5. ASSUME NEW x \in Live PROVE x \in Live' /\ x \in Handles
    <3>1. x \in Handles /\ x \in Handles'
      BY <1>6 DEF Live
    <3>2. CASE x = 1
      BY <2>2, <3>1, <3>2
    <3>3. ASSUME NEW p \in InUse, NEW i \in 1..Len(children[p]), x = children[p][i] PROVE x \in Live'
      <4>1. CASE p = r
        <5>1. \E j \in 1..Len(order) : order[j] = x
          BY <1>17, <3>3, <4>1
        <5> QED BY <1>8, <1>11, <2>2, <3>1, <4>1, <5>1
      <4>2. CASE p # r
        <5>1. children'[p] = children[p]
          BY <1>1, <1>8, <4>2
        <5> QED BY <1>11, <2>2, <3>1, <3>3, <5>1
      <4> QED BY <4>1, <4>2
    <3> QED BY <3>1, <3>2, <3>3, LiveIs
  <2>6. h \in Live'
    <3>1. r \in InUse' /\ h \in Handles' /\ k + 1 \in 1..Len(children'[r]) /\ h = children'[r][k + 1]
      BY <1>1, <1>6, <1>8, <1>11, <1>17
    <3> QED BY <2>2, <3>1
  <2> QED BY <2>4, <2>5, <2>6
<1>27. \A x, y \in Live : place[x] = place[y] => x = y
  BY DEF Forest, Lists
<1>28. ASSUME NEW x \in Live', NEW y \in Live', place'[x] = place'[y] PROVE x = y
  <2>1. \A z \in Live : place'[z] = place[z] /\ place'[z] # h
    BY <1>1, <1>7, <1>16, <1>26
  <2> QED BY <1>7, <1>26, <1>27, <1>28, <2>1
<1>29. ASSUME NEW x \in Handles' PROVE \E y \in Live' : place'[y] = place'[x]
  <2>1. CASE x = h
    BY <1>26, <2>1
  <2>2. CASE x \in Handles
    <3>1. PICK y \in Live : place[y] = place[x]
      BY <2>2 DEF Forest, Lists
    <3> QED BY <1>7, <1>26, <2>2, <3>1
  <2> QED BY <1>6, <2>1, <2>2
<1>30. Lists'
  <2>1. \A p \in InUse' : \A i \in 1..Len(children'[p]) :
           children'[p][i] \in Handles' \ {1} /\ place'[alpha'[children'[p][i]].parent] = p
    BY <1>25
  <2>2. \A p, q \in InUse' : \A i \in 1..Len(children'[p]), j \in 1..Len(children'[q]) :
           children'[p][i] = children'[q][j] => p = q /\ i = j
    BY <1>24
  <2>3. \A x, y \in Live' : place'[x] = place'[y] => x = y
    BY <1>28
  <2>4. \A x \in Handles' : \E y \in Live' : place'[y] = place'[x]
    BY <1>29
  <2> QED BY <2>1, <2>2, <2>3, <2>4 DEF Lists
\* The links.
<1>31. \A p \in InUse : links[p].down = Nth(children[p], 1) /\ \A i \in 1..Len(children[p]) :
          links[place[children[p][i]]].right = Nth(children[p], i + 1)
  BY DEF Forest, Links, Strung
<1>32. ASSUME k # 0 PROVE k \in 1..Len(kids) /\ kids[k] \in Live /\ kids[k] # 1
  <2>1. k \in 1..Len(kids)
    BY <1>2, <1>32
  <2> QED BY <1>1, <1>21, <2>1, LiveIs
<1>33. ASSUME NEW x \in Live, k # 0 => x # kids[k] PROVE links'[place'[x]].right = links[place[x]].right
  <2>1. place'[x] = place[x] /\ place[x] \in Handles
    BY <1>1, <1>7, <1>26
  <2>2. ~ (k # 0 /\ place[x] = place[kids[k]])
    BY <1>27, <1>32, <1>33
  <2> QED BY <1>9, <2>1, <2>2
<1>34. ASSUME NEW i \in 1..Len(order) PROVE links'[place'[order[i]]].right = Nth(order, i + 1)
  <2> HIDE DEF kids
  <2>0. /\ \A j \in 1..Len(kids) : kids[j] \in Live /\ links[place[kids[j]]].right = Nth(kids, j + 1)
        /\ \A a, b \in 1..Len(kids) : kids[a] = kids[b] => a = b
        /\ Len(kids) \in Nat /\ k \in 0..Len(kids)
    BY <1>1, <1>2, <1>31, LiveIs, Zenon DEF Distinct, kids
  <2>1. CASE i = k + 1
    <3>1. links'[place'[order[i]]].right = Nth(kids, k + 1)
      BY <1>7, <1>9, <1>17, <2>1
    <3>2. Nth(kids, k + 1) = Nth(order, (k + 1) + 1)
      BY <1>17, <2>0
    <3> QED BY <2>1, <3>1, <3>2
  <2>2. CASE i = k /\ k # 0
    <3>1. k \in 1..Len(kids) /\ k \in 1..k
      BY <2>0, <2>2
    <3>2. order[i] = kids[k] /\ kids[k] \in Live
      BY <1>17a, <2>0, <2>2, <3>1 DEF Insertion
    <3>3. place'[kids[k]] = place[kids[k]] /\ place[kids[k]] \in Handles
      BY <1>1, <1>7, <1>26, <3>2
    <3>4. links'[place[kids[k]]].right = h
      BY <1>9, <2>2, <3>3
    <3> QED BY <1>17, <2>2, <3>2, <3>3, <3>4
  <2>3. CASE i \in 1..k /\ i # k
    <3>1. i \in 1..Len(kids) /\ i + 1 \in 1..k
      BY <2>0, <2>3
    <3>2. order[i] = kids[i] /\ kids[i] \in Live
      BY <1>17a, <2>0, <2>3, <3>1 DEF Insertion
    <3>3. k # 0 => kids[i] # kids[k]
      BY <2>0, <2>3, <3>1
    <3>4. links'[place'[kids[i]]].right = Nth(kids, i + 1)
      BY <1>33, <2>0, <3>1, <3>2, <3>3
    <3> QED BY <1>17, <3>1, <3>2, <3>4
  <2>4. ASSUME NEW j \in k + 1..Len(kids), i = j + 1 PROVE links'[place'[order[i]]].right = Nth(order, i + 1)
    <3>1. j \in 1..Len(kids) /\ j + 1 \in k + 1..Len(kids) + 1 /\ j # k
      BY <2>0, <2>4
    <3>2. order[i] = kids[j] /\ kids[j] \in Live
      BY <1>17a, <2>0, <2>4, <3>1 DEF Insertion
    <3>3. k # 0 => kids[j] # kids[k]
      BY <2>0, <3>1
    <3>4. links'[place'[kids[j]]].right = Nth(kids, j + 1)
      BY <1>33, <2>0, <3>1, <3>2, <3>3, Zenon
    <3> QED BY <1>17, <2>4, <3>1, <3>2, <3>4
  <2>5. i \in 1..k \/ i = k + 1 \/ \E j \in k + 1..Len(kids) : i = j + 1
    BY <1>17a DEF Insertion
  <2>6. i \in 1..k => i \in 1..k /\ (i # k \/ k # 0)
    BY <2>0
  <2> QED BY <2>1, <2>2, <2>3, <2>4, <2>5, <2>6
<1>35. ASSUME NEW p \in InUse' PROVE links'[p].down = Nth(children'[p], 1) /\ Strung(links', place', children'[p])
  <2>1. CASE p = h
    <3>1. Len(<< >>) = 0 /\ 1 \notin 1..0 /\ ~ \E a \in 1..0 : TRUE
      OBVIOUS
    <3> QED BY <1>8, <1>9, <2>1, <3>1 DEF Nth, Strung
  <2>2. CASE p = r
    <3>1. links'[r].down = Nth(order, 1)
      <4>1. links[r].down = Nth(kids, 1)
        BY <1>1, <1>31
      <4>2. k = 0 => Nth(order, 1) = h
        BY <1>17
      <4>3. k # 0 => Nth(order, 1) = Nth(kids, 1)
        <5>1. k # 0 => 1 \in 1..k
          BY <1>2
        <5> QED BY <1>17, <5>1
      <4> QED BY <1>1, <1>9, <4>1, <4>2, <4>3
    <3>2. Strung(links', place', order)
      BY <1>34 DEF Strung
    <3> QED BY <1>8, <2>2, <3>1, <3>2
  <2>3. CASE p # h /\ p # r
    <3>1. p \in InUse /\ p \in Handles \ {r} /\ children'[p] = children[p]
      BY <1>1, <1>8, <1>11, <2>3
    <3>2. links'[p].down = Nth(children[p], 1)
      BY <1>9, <1>31, <2>3, <3>1
    <3>3. ASSUME NEW i \in 1..Len(children[p]) PROVE links'[place'[children[p][i]]].right = Nth(children[p], i + 1)
      <4>1. children[p][i] \in Live
        BY <3>1, LiveIs
      <4>2. k # 0 => children[p][i] # kids[k]
        BY <1>1, <1>23, <1>32, <2>3, <3>1, Zenon
      <4> QED BY <1>31, <1>33, <3>1, <4>1, <4>2
    <3> QED BY <3>1, <3>2, <3>3 DEF Strung
  <2> QED BY <2>1, <2>2, <2>3
<1>36. ASSUME NEW x \in Handles', x = 1 PROVE links'[place'[x]].right = 0
  <2>1. 1 \in Handles
    BY <1>1, <1>5
  <2>2. 1 \in Live
    BY <2>1, LiveIs
  <2>3. links[place[1]].right = 0
    BY <2>1 DEF Forest, Links
  <2> QED BY <1>32, <1>33, <1>36, <2>2, <2>3
<1>37. Links'
  BY <1>35, <1>36 DEF Links
\* The levels.
<1>38. Levels'
  <2>1. PICK level : /\ \A x \in Handles : level[x] \in 1..x
                     /\ \A x \in Handles \ {1} : level[x] = level[alpha[x].parent] + 1
                     /\ \A x, y \in Handles : place[x] = place[y] => level[x] = level[y]
    BY DEF Forest, Levels
  <2> DEFINE new == [x \in 1..h |-> IF x = h THEN level[parent] + 1 ELSE level[x]]
  <2>2. new[h] = level[parent] + 1 /\ \A x \in Handles : new[x] = level[x]
    BY <1>1, <1>16
  <2> HIDE DEF new
  <2>3. ASSUME NEW x \in Handles' PROVE new[x] \in 1..x
    <3>1. level[parent] \in 1..parent
      BY <2>1
    <3>2. \A a \in 1..n, b \in Int : b \in 1..a => b + 1 \in 1..n + 1
      BY <1>1
    <3>3. level[parent] \in Int
      BY <3>1
    <3>4. level[parent] + 1 \in 1..h
      BY <1>5, <1>16, <3>1, <3>2, <3>3
    <3> QED BY <1>6, <2>1, <2>2, <3>4
  <2>4. ASSUME NEW x \in Handles' \ {1} PROVE new[x] = new[alpha'[x].parent] + 1
    <3>1. CASE x = h
      BY <1>5, <2>2, <3>1
    <3>2. CASE x \in Handles
      <4>1. alpha[x].parent \in 1..x - 1 /\ x \in 1..n
        BY <1>1, <2>4, <3>2 DEF Forest, Shape
      <4>2. alpha[x].parent \in Handles
        BY <1>1, <4>1
      <4>3. alpha'[x].parent = alpha[x].parent /\ new[x] = level[x] /\ new[alpha[x].parent] = level[alpha[x].parent]
        BY <1>5, <2>2, <3>2, <4>2
      <4>4. x \in Handles \ {1}
        BY <2>4, <3>2
      <4> QED BY <2>1, <4>3, <4>4
    <3> QED BY <1>6, <3>1, <3>2
  <2>5. ASSUME NEW x \in Handles', NEW y \in Handles', place'[x] = place'[y] PROVE new[x] = new[y]
    <3>1. \A z \in Handles : place'[z] = place[z] /\ place'[z] # h
      BY <1>1, <1>7, <1>16, Zenon
    <3> QED BY <1>6, <1>7, <2>1, <2>2, <2>5, <3>1, SMTT(30)
  <2>6. /\ \A x \in Handles' : new[x] \in 1..x
        /\ \A x \in Handles' \ {1} : new[x] = new[alpha'[x].parent] + 1
        /\ \A x, y \in Handles' : place'[x] = place'[y] => new[x] = new[y]
    BY <2>3, <2>4, <2>5
  <2> QED BY <2>6 DEF Levels
<1> QED BY <1>15, <1>30, <1>37, <1>38 DEF Forest

\* A link to the right that is set changes nothing else.
LEMMA RightIs ==
  ASSUME NEW l \in Seq(LinkRecords), NEW q \in 1..Len(l), NEW v \in Nat
  PROVE  LET m == [l EXCEPT ![q].right = v]
         IN  /\ m \in Seq(LinkRecords) /\ Len(m) = Len(l)
             /\ m[q].right = v
             /\ \A x \in 1..Len(l) : /\ m[x].down = l[x].down /\ m[x].type = l[x].type /\ m[x].way = l[x].way
                                     /\ x # q => m[x].right = l[x].right
<1> DEFINE m == [l EXCEPT ![q].right = v]
<1>1. m = [l EXCEPT ![q] = [l[q] EXCEPT !.right = v]]
  OBVIOUS
<1>2. l[q] \in LinkRecords
  OBVIOUS
<1>3. [l[q] EXCEPT !.right = v] \in LinkRecords
  BY <1>2, Zenon DEF LinkRecords
<1>4. /\ [l[q] EXCEPT !.right = v].right = v /\ [l[q] EXCEPT !.right = v].down = l[q].down
      /\ [l[q] EXCEPT !.right = v].type = l[q].type /\ [l[q] EXCEPT !.right = v].way = l[q].way
  BY <1>2 DEF LinkRecords
<1> DEFINE e == [l[q] EXCEPT !.right = v]
<1> HIDE DEF e
<1>5. m = [l EXCEPT ![q] = e]
  BY <1>1 DEF e
<1>6. e \in LinkRecords
  BY <1>3 DEF e
<1>7. m \in Seq(LinkRecords) /\ Len(m) = Len(l) /\ m[q] = e /\ \A x \in 1..Len(l) : x # q => m[x] = l[x]
  BY <1>5, <1>6
<1> HIDE DEF m
<1>8. ASSUME NEW x \in 1..Len(l)
      PROVE  /\ m[x].down = l[x].down /\ m[x].type = l[x].type /\ m[x].way = l[x].way
             /\ x # q => m[x].right = l[x].right
  <2>1. CASE x = q
    BY <1>4, <1>7, <2>1, Zenon DEF e
  <2>2. CASE x # q
    BY <1>7, <2>2
  <2> QED BY <2>1, <2>2
<1>9. m[q].right = v
  BY <1>4, <1>7 DEF e
<1> QED BY <1>7, <1>8, <1>9 DEF m

\* A link down that is set changes nothing else.
LEMMA DownIs ==
  ASSUME NEW l \in Seq(LinkRecords), NEW q \in 1..Len(l), NEW v \in Nat
  PROVE  LET m == [l EXCEPT ![q].down = v]
         IN  /\ m \in Seq(LinkRecords) /\ Len(m) = Len(l)
             /\ m[q].down = v
             /\ \A x \in 1..Len(l) : /\ m[x].right = l[x].right /\ m[x].type = l[x].type /\ m[x].way = l[x].way
                                     /\ x # q => m[x].down = l[x].down
<1> DEFINE m == [l EXCEPT ![q].down = v]
<1>1. m = [l EXCEPT ![q] = [l[q] EXCEPT !.down = v]]
  OBVIOUS
<1>2. l[q] \in LinkRecords
  OBVIOUS
<1>3. [l[q] EXCEPT !.down = v] \in LinkRecords
  BY <1>2, Zenon DEF LinkRecords
<1>4. /\ [l[q] EXCEPT !.down = v].down = v /\ [l[q] EXCEPT !.down = v].right = l[q].right
      /\ [l[q] EXCEPT !.down = v].type = l[q].type /\ [l[q] EXCEPT !.down = v].way = l[q].way
  BY <1>2 DEF LinkRecords
<1> DEFINE e == [l[q] EXCEPT !.down = v]
<1> HIDE DEF e
<1>5. m = [l EXCEPT ![q] = e]
  BY <1>1 DEF e
<1>6. e \in LinkRecords
  BY <1>3 DEF e
<1>7. m \in Seq(LinkRecords) /\ Len(m) = Len(l) /\ m[q] = e /\ \A x \in 1..Len(l) : x # q => m[x] = l[x]
  BY <1>5, <1>6
<1> HIDE DEF m
<1>8. ASSUME NEW x \in 1..Len(l)
      PROVE  /\ m[x].right = l[x].right /\ m[x].type = l[x].type /\ m[x].way = l[x].way
             /\ x # q => m[x].down = l[x].down
  <2>1. CASE x = q
    BY <1>4, <1>7, <2>1, Zenon DEF e
  <2>2. CASE x # q
    BY <1>7, <2>2
  <2> QED BY <2>1, <2>2
<1>9. m[q].down = v
  BY <1>4, <1>7 DEF e
<1> QED BY <1>7, <1>8, <1>9 DEF m

\* What Construct begins with.
NewLinks(type) == Append(links, [down |-> 0, right |-> 0, type |-> type, way |-> TRUE])
NewPlace == Append(place, Len(links) + 1)

\* The tables with an entry for a new node.
LEMMA NewIs ==
  ASSUME Forest, NEW type \in Types
  PROVE  LET h == Len(alpha) + 1
             l == NewLinks(type)
         IN  /\ h \in Nat /\ h \notin Handles /\ Handles = 1..Len(alpha)
             /\ l \in Seq(LinkRecords) /\ Len(l) = h
             /\ l[h].down = 0 /\ l[h].right = 0
             /\ \A q \in Handles : l[q] = links[q] /\ q \in 1..h
             /\ NewPlace = Append(place, h) /\ Len(NewPlace) = h /\ NewPlace[h] = h
             /\ \A q \in Handles : NewPlace[q] = place[q]
<1> DEFINE n == Len(alpha)
           h == n + 1
           new == [down |-> 0, right |-> 0, type |-> type, way |-> TRUE]
<1>1. /\ n \in Nat /\ Len(links) = n /\ Len(place) = n /\ Handles = 1..n
  BY PlacesAre
<1>2. links \in Seq(LinkRecords) /\ place \in Seq(Nat)
  BY DEF Forest, Shape, LinkRecords
<1>3. new \in LinkRecords /\ new.down = 0 /\ new.right = 0
  BY DEF LinkRecords
<1> HIDE DEF new
<1>4. /\ Append(links, new) \in Seq(LinkRecords) /\ Len(Append(links, new)) = n + 1
      /\ Append(links, new)[n + 1] = new
      /\ \A i \in 1..n : Append(links, new)[i] = links[i]
  BY <1>1, <1>2, <1>3, Appended
<1>5. n + 1 \in Nat
  BY <1>1
<1>6. /\ Append(place, n + 1) \in Seq(Nat) /\ Len(Append(place, n + 1)) = n + 1
      /\ Append(place, n + 1)[n + 1] = n + 1
      /\ \A i \in 1..n : Append(place, n + 1)[i] = place[i]
  BY <1>1, <1>2, <1>5, Appended
<1>7. NewLinks(type) = Append(links, new) /\ NewPlace = Append(place, n + 1)
  BY <1>1 DEF NewLinks, NewPlace, new
<1>8. n + 1 \notin 1..n /\ \A q \in 1..n : q \in 1..n + 1
  BY <1>1
<1> QED BY <1>1, <1>3, <1>4, <1>5, <1>6, <1>7, <1>8

\* Emplace below a node that has no children.
LEMMA EmplaceFirstKeeps ==
  ASSUME Forest, NEW key \in NodeKeys, NEW type \in Types, NEW parent \in Handles,
         EmplaceFirst(key, type, parent)
  PROVE  Forest'
<1> DEFINE h == Len(alpha) + 1
           r == place[parent]
           kids == children[r]
           order == <<h>> \o kids
           l == NewLinks(type)
           l1 == [l EXCEPT ![h].right = links[r].down]
           l2 == [l1 EXCEPT ![r].down = h]
<1>1. /\ h \in Nat /\ h \notin Handles /\ Handles = 1..Len(alpha)
      /\ l \in Seq(LinkRecords) /\ Len(l) = h
      /\ l[h].down = 0 /\ l[h].right = 0
      /\ \A q \in Handles : l[q] = links[q] /\ q \in 1..h
      /\ NewPlace = Append(place, h) /\ Len(NewPlace) = h /\ NewPlace[h] = h
      /\ \A q \in Handles : NewPlace[q] = place[q]
  BY NewIs
<1>2. r \in InUse /\ r \in Handles /\ Len(alpha) \in Nat
  BY PlacesAre
<1>3. kids \in Seq(Nat \ {0}) /\ Len(kids) \in Nat /\ links[r].down = Nth(kids, 1)
  BY <1>2, KidsAre
<1>4. /\ children' = Append([children EXCEPT ![r] = order], << >>)
      /\ place' = NewPlace
      /\ alpha' = Append(alpha, [key |-> key, parent |-> parent, mergeable |-> TRUE])
      /\ links' = LinkFirst(l, NewPlace, h, parent)
      /\ stack' = stack
  BY DEF EmplaceFirst, Construct, Adopt, NewLinks, NewPlace, optimization
<1> HIDE DEF l, h, r, kids
<1>5. links' = l2
  <2>1. NewPlace[h] = h /\ NewPlace[parent] = r /\ l[r] = links[r]
    BY <1>1, <1>2 DEF r
  <2> QED BY <1>4, <2>1 DEF LinkFirst
<1>6. links[r].down \in Nat
  BY <1>3, NthIs
<1>7. /\ l1 \in Seq(LinkRecords) /\ Len(l1) = h /\ l1[h].right = links[r].down
      /\ \A x \in 1..h : l1[x].down = l[x].down /\ (x # h => l1[x].right = l[x].right)
  <2>1. h \in 1..Len(l)
    BY <1>1, <1>2 DEF h
  <2> QED BY <1>1, <1>6, <2>1, RightIs
<1> HIDE DEF l1
<1>8. /\ l2 \in Seq(LinkRecords) /\ Len(l2) = h /\ l2[r].down = h
      /\ \A x \in 1..h : l2[x].right = l1[x].right /\ (x # r => l2[x].down = l1[x].down)
  <2>1. r \in 1..Len(l1)
    BY <1>1, <1>2, <1>7
  <2> QED BY <1>1, <1>7, <2>1, DownIs
<1> HIDE DEF l2
<1>9. /\ Len(order) = Len(kids) + 1 /\ order \in Seq(Nat)
      /\ \A i \in 1..Len(order) : order[i] = IF i <= 0 THEN kids[i] ELSE IF i = 0 + 1 THEN h ELSE kids[i - 1]
  BY <1>1, <1>3
<1> HIDE DEF order
<1>10. /\ links'[h].down = 0 /\ links'[h].right = Nth(kids, 0 + 1)
       /\ \A q \in Handles : links'[q].down = IF q = r /\ 0 = 0 THEN h ELSE links[q].down
       /\ \A q \in Handles : links'[q].right = links[q].right
  <2>1. \A q \in Handles : q \in 1..h /\ q # h
    BY <1>1
  <2>2. h \in 1..h /\ h # r
    BY <1>1, <1>2 DEF h
  <2> QED BY <1>1, <1>2, <1>3, <1>5, <1>7, <1>8, <2>1, <2>2, SMTT(30)
<1>11. Added(parent, 0, order)
  BY <1>1, <1>4, <1>5, <1>8, <1>9, <1>10, ZenonT(30) DEF Added, h, r, kids
<1>12. 0 \in 0..Len(children[place[parent]])
  BY <1>3 DEF kids, r
<1> QED BY <1>4, <1>11, <1>12, AddedKeeps

\* Emplace behind the last child.
LEMMA EmplaceLastKeeps ==
  ASSUME Forest, NEW key \in NodeKeys, NEW type \in Types, NEW parent \in Handles,
         EmplaceLast(key, type, parent)
  PROVE  Forest'
<1> DEFINE h == Len(alpha) + 1
           r == place[parent]
           kids == children[r]
           k == Len(kids)
           order == Append(kids, h)
           l == NewLinks(type)
<1>1. /\ h \in Nat /\ h \notin Handles /\ Handles = 1..Len(alpha)
      /\ l \in Seq(LinkRecords) /\ Len(l) = h
      /\ l[h].down = 0 /\ l[h].right = 0
      /\ \A q \in Handles : l[q] = links[q] /\ q \in 1..h
      /\ NewPlace = Append(place, h) /\ Len(NewPlace) = h /\ NewPlace[h] = h
      /\ \A q \in Handles : NewPlace[q] = place[q]
  BY NewIs
<1>2. r \in InUse /\ r \in Handles /\ Len(alpha) \in Nat /\ \A x \in Handles : place[x] \in Handles
  BY PlacesAre
<1>3. /\ kids \in Seq(Nat \ {0}) /\ kids \in Seq(Handles \ {1}) /\ k \in Nat /\ k <= Len(alpha)
      /\ links[r].down = Nth(kids, 1) /\ Strung(links, place, kids)
  BY <1>2, KidsAre
<1>4. /\ children' = Append([children EXCEPT ![r] = order], << >>)
      /\ place' = NewPlace
      /\ alpha' = Append(alpha, [key |-> key, parent |-> parent, mergeable |-> TRUE])
      /\ links' = LinkBack(l, NewPlace, h, parent)
      /\ stack' = stack
  BY DEF EmplaceLast, Construct, Adopt, NewLinks, NewPlace, optimization
<1> HIDE DEF l, h, r, kids
<1>5. NewPlace[parent] = r /\ l[r] = links[r]
  BY <1>1, <1>2 DEF r
<1>6. \A i \in 1..k : kids[i] \in Handles /\ l[NewPlace[kids[i]]] = links[place[kids[i]]]
  BY <1>1, <1>2, <1>3
<1>7. Chain(l, NewPlace, parent) = kids
  <2>1. Chain(l, NewPlace, parent) = ChainFrom(l, NewPlace, links[r].down)
    BY <1>5 DEF Chain, Td
  <2>2. Strung(l, NewPlace, kids)
    <3> SUFFICES ASSUME NEW i \in 1..k PROVE l[NewPlace[kids[i]]].right = Nth(kids, i + 1)
      BY DEF Strung
    <3>1. links[place[kids[i]]].right = Nth(kids, i + 1)
      BY <1>3 DEF Strung
    <3> QED BY <1>6, <3>1
  <2>3. Len(l) \in Nat /\ Len(NewPlace) \in Nat /\ k <= Len(l)
    BY <1>1, <1>2, <1>3 DEF h
  <2>4. kids \in Seq(1..Len(NewPlace))
    <3>1. \A i \in 1..k : kids[i] \in 1..h
      BY <1>1, <1>6
    <3>3. kids \in Seq(1..h)
      BY <1>3, <3>1, Within
    <3> QED BY <1>1, <3>3
  <2>5. ChainFrom(l, NewPlace, links[r].down) = kids
    BY <1>3, <2>2, <2>3, <2>4, ChainIs
  <2> QED BY <2>1, <2>5
<1>8. /\ Len(order) = Len(kids) + 1 /\ order \in Seq(Nat)
      /\ \A i \in 1..Len(order) : order[i] = IF i <= k THEN kids[i] ELSE IF i = k + 1 THEN h ELSE kids[i - 1]
  <2>1. kids \in Seq(Nat)
    BY <1>3
  <2>2. order \in Seq(Nat) /\ Len(order) = k + 1 /\ order[k + 1] = h /\ \A i \in 1..k : order[i] = kids[i]
    BY <1>1, <2>1, Appended
  <2> HIDE DEF order, k
  <2>3. \A i \in 1..k + 1 : i \in 1..k \/ i = k + 1
    BY <1>3 DEF k
  <2>4. \A i \in 1..k : i <= k
    OBVIOUS
  <2>5. ~ (k + 1 <= k)
    BY <1>3 DEF k
  <2> QED BY <2>2, <2>3, <2>4, <2>5 DEF k
<1> HIDE DEF order
<1>9. /\ links' \in Seq(LinkRecords) /\ Len(links') = h
      /\ links'[h].down = 0 /\ links'[h].right = Nth(kids, k + 1)
      /\ \A q \in Handles : links'[q].down = IF q = r /\ k = 0 THEN h ELSE links[q].down
      /\ \A q \in Handles : links'[q].right = IF k # 0 /\ q = place[kids[k]] THEN h ELSE links[q].right
  <2>0. Nth(kids, k + 1) = 0 /\ h \in 1..h /\ h # r /\ \A q \in Handles : q # h
    <3>1. k + 1 \notin 1..k
      BY <1>3
    <3> QED BY <1>1, <1>2, <3>1 DEF Nth, h
  <2>1. CASE k = 0
    <3>1. Nth(kids, 1) = 0
      BY <2>1 DEF Nth
    <3>2. links' = [l EXCEPT ![r].down = h]
      BY <1>3, <1>4, <1>5, <3>1 DEF LinkBack
    <3>3. r \in 1..Len(l)
      BY <1>1, <1>2
    <3> DEFINE m == [l EXCEPT ![r].down = h]
    <3>4. /\ m \in Seq(LinkRecords) /\ Len(m) = h /\ m[r].down = h
          /\ \A x \in 1..h : m[x].right = l[x].right /\ (x # r => m[x].down = l[x].down)
      BY <1>1, <3>3, DownIs
    <3> HIDE DEF m
    <3>5. links' = m
      BY <3>2 DEF m
    <3> QED BY <1>1, <2>0, <2>1, <3>4, <3>5
  <2>2. CASE k # 0
    <3> DEFINE q == place[kids[k]]
    <3>1. k \in 1..k
      BY <1>3, <2>2
    <3>2. Nth(kids, 1) # 0
      <4>1. 1 \in 1..k
        BY <1>3, <2>2
      <4> QED BY <1>3, <4>1, NthIs
    <3>3. Last(kids) = kids[k] /\ kids[k] \in Handles /\ NewPlace[kids[k]] = q
      BY <1>1, <1>6, <3>1 DEF Last
    <3>4. links' = [l EXCEPT ![q].right = h]
      BY <1>3, <1>4, <1>5, <1>7, <3>2, <3>3 DEF LinkBack
    <3>5. q \in Handles
      BY <1>2, <3>3
    <3> HIDE DEF q
    <3>6. q \in 1..Len(l)
      BY <1>1, <3>5
    <3> DEFINE m == [l EXCEPT ![q].right = h]
    <3>7. /\ m \in Seq(LinkRecords) /\ Len(m) = h /\ m[q].right = h
          /\ \A x \in 1..h : m[x].down = l[x].down /\ (x # q => m[x].right = l[x].right)
      BY <1>1, <3>6, RightIs
    <3> HIDE DEF m
    <3>8. links' = m
      BY <3>4 DEF m
    <3>9. \A x \in Handles : links'[x].right = IF x = q THEN h ELSE links[x].right
      BY <1>1, <3>7, <3>8
    <3>10. \A x \in Handles : links'[x].down = links[x].down
      BY <1>1, <3>7, <3>8
    <3>11. links'[h].down = 0 /\ links'[h].right = 0
      BY <1>1, <2>0, <3>5, <3>7, <3>8
    <3> QED BY <2>0, <2>2, <3>7, <3>8, <3>9, <3>10, <3>11 DEF q
  <2> QED BY <2>1, <2>2
<1>10. Added(parent, k, order)
  BY <1>1, <1>4, <1>8, <1>9, Zenon DEF Added, h, r, kids, k
<1>11. k \in 0..Len(children[place[parent]])
  BY <1>3 DEF kids, r
<1> QED BY <1>4, <1>10, <1>11, AddedKeeps

\* InsertAt of the community modules, element by element.
LEMMA InsertAtIs ==
  ASSUME NEW s \in Seq(Nat), NEW i \in 1..Len(s), NEW h \in Nat
  PROVE  LET order == InsertAt(s, i + 1, h)
         IN  /\ Len(order) = Len(s) + 1 /\ order \in Seq(Nat)
             /\ \A j \in 1..Len(order) : order[j] = IF j <= i THEN s[j] ELSE IF j = i + 1 THEN h ELSE s[j - 1]
<1> DEFINE n == Len(s)
           a == SubSeq(s, 1, i)
           b == SubSeq(s, i + 1, n)
           ah == a \o <<h>>
<1>0. n \in Nat /\ i \in 1..n
  OBVIOUS
<1>1. a \in Seq(Nat) /\ Len(a) = i /\ \A j \in 1..i : a[j] = s[j]
  BY <1>0
<1>2. b \in Seq(Nat) /\ Len(b) = n - i /\ \A j \in 1..n - i : b[j] = s[i + j]
  BY <1>0
<1>3. InsertAt(s, i + 1, h) = ah \o b
  <2>1. (i + 1) - 1 = i
    BY <1>0
  <2> QED BY <2>1 DEF InsertAt
<1> HIDE DEF a, b, n
<1>4. ah \in Seq(Nat) /\ Len(ah) = i + 1 /\ ah[i + 1] = h /\ \A j \in 1..i : ah[j] = s[j]
  BY <1>0, <1>1
<1> HIDE DEF ah
<1> DEFINE order == ah \o b
<1>5. /\ order \in Seq(Nat) /\ Len(order) = n + 1
      /\ \A j \in 1..i + 1 : order[j] = ah[j]
      /\ \A j \in 1..n - i : order[(i + 1) + j] = b[j]
  <2>1. Len(ah) + Len(b) = n + 1
    BY <1>0, <1>2, <1>4
  <2>2. /\ order \in Seq(Nat) /\ Len(order) = Len(ah) + Len(b)
        /\ \A j \in 1..Len(ah) : order[j] = ah[j]
        /\ \A j \in 1..Len(b) : order[Len(ah) + j] = b[j]
    <3>1. ah \in Seq(Nat) /\ b \in Seq(Nat)
      BY <1>2, <1>4
    <3> QED BY <3>1, Joined
  <2> HIDE DEF order
  <2> QED BY <1>2, <1>4, <2>1, <2>2
<1> HIDE DEF order
<1>6. ASSUME NEW j \in 1..n + 1 PROVE order[j] = IF j <= i THEN s[j] ELSE IF j = i + 1 THEN h ELSE s[j - 1]
  <2>1. CASE j <= i + 1
    <3>1. order[j] = ah[j]
      BY <1>0, <1>5, <2>1
    <3>2. j \in 1..i \/ j = i + 1
      BY <1>0, <2>1
    <3> QED BY <1>0, <1>4, <3>1, <3>2
  <2>2. CASE j > i + 1
    <3>1. j - (i + 1) \in 1..n - i /\ (i + 1) + (j - (i + 1)) = j
      BY <1>0, <2>2
    <3>3. order[j] = b[j - (i + 1)]
      BY <1>5, <3>1
    <3>2. j - (i + 1) \in 1..n - i /\ i + (j - (i + 1)) = j - 1 /\ ~ (j <= i) /\ j # i + 1
      BY <1>0, <2>2
    <3> QED BY <1>2, <3>2, <3>3, Zenon
  <2>3. j <= i + 1 \/ j > i + 1
    BY <1>0
  <2> QED BY <2>1, <2>2, <2>3
<1>7. InsertAt(s, i + 1, h) = order
  BY <1>3 DEF order
<1> QED BY <1>5, <1>6, <1>7 DEF n

\* Emplace behind a child with a right sibling.
LEMMA EmplaceAfterKeeps ==
  ASSUME Forest, NEW key \in NodeKeys, NEW type \in Types, NEW parent \in Handles,
         NEW left \in ToSet(children[place[parent]]), EmplaceAfter(key, type, parent, left)
  PROVE  Forest'
<1> DEFINE h == Len(alpha) + 1
           r == place[parent]
           kids == children[r]
           k == CHOOSE j \in DOMAIN kids : kids[j] = left
           order == InsertAt(kids, k + 1, h)
           l == NewLinks(type)
           q == place[left]
           l1 == [l EXCEPT ![h].right = links[q].right]
           l2 == [l1 EXCEPT ![q].right = h]
<1>1. /\ h \in Nat /\ h \notin Handles /\ Handles = 1..Len(alpha)
      /\ l \in Seq(LinkRecords) /\ Len(l) = h
      /\ l[h].down = 0 /\ l[h].right = 0
      /\ \A x \in Handles : l[x] = links[x] /\ x \in 1..h
      /\ NewPlace = Append(place, h) /\ Len(NewPlace) = h /\ NewPlace[h] = h
      /\ \A x \in Handles : NewPlace[x] = place[x]
  BY NewIs
<1>2. r \in InUse /\ r \in Handles /\ Len(alpha) \in Nat /\ \A x \in Handles : place[x] \in Handles
  BY PlacesAre
<1>3. /\ kids \in Seq(Nat \ {0}) /\ kids \in Seq(Handles \ {1}) /\ Len(kids) \in Nat
      /\ Strung(links, place, kids)
  BY <1>2, KidsAre
<1>4. /\ children' = Append([children EXCEPT ![r] = order], << >>)
      /\ place' = NewPlace
      /\ alpha' = Append(alpha, [key |-> key, parent |-> parent, mergeable |-> TRUE])
      /\ links' = LinkAfter(l, NewPlace, h, left)
      /\ stack' = stack
  BY DEF EmplaceAfter, Construct, Adopt, NewLinks, NewPlace, optimization
<1>5. k \in 1..Len(kids) /\ kids[k] = left
  <2>1. DOMAIN kids = 1..Len(kids)
    BY <1>3
  <2>2. \E j \in DOMAIN kids : kids[j] = left
    BY DEF ToSet
  <2> QED BY <2>1, <2>2
<1> HIDE DEF l, h, r, kids, k
<1>6. left \in Handles /\ q \in Handles /\ NewPlace[left] = q /\ l[q] = links[q]
  BY <1>1, <1>2, <1>3, <1>5, SMTT(30)
<1>7. links[q].right = Nth(kids, k + 1) /\ links[q].right \in Nat
  <2>1. links[q].right = Nth(kids, k + 1)
    BY <1>3, <1>5 DEF Strung
  <2> QED BY <1>3, <2>1, NthIs
<1>8. links' = l2
  BY <1>1, <1>4, <1>6 DEF LinkAfter
<1> HIDE DEF q
<1>9. /\ l1 \in Seq(LinkRecords) /\ Len(l1) = h /\ l1[h].right = links[q].right
      /\ \A x \in 1..h : l1[x].down = l[x].down /\ (x # h => l1[x].right = l[x].right)
  <2>1. h \in 1..Len(l)
    BY <1>1, <1>2 DEF h
  <2> QED BY <1>1, <1>7, <2>1, RightIs
<1> HIDE DEF l1
<1>10. /\ l2 \in Seq(LinkRecords) /\ Len(l2) = h /\ l2[q].right = h
       /\ \A x \in 1..h : l2[x].down = l1[x].down /\ (x # q => l2[x].right = l1[x].right)
  <2>1. q \in 1..Len(l1)
    BY <1>1, <1>6, <1>9
  <2> QED BY <1>1, <1>9, <2>1, RightIs
<1> HIDE DEF l2
<1>11. /\ Len(order) = Len(kids) + 1 /\ order \in Seq(Nat)
       /\ \A i \in 1..Len(order) : order[i] = IF i <= k THEN kids[i] ELSE IF i = k + 1 THEN h ELSE kids[i - 1]
  <2>1. kids \in Seq(Nat)
    BY <1>3
  <2> QED BY <1>1, <1>5, <2>1, InsertAtIs, ZenonT(30)
<1> HIDE DEF order
<1>12. k # 0 /\ k \in 0..Len(kids) /\ place[kids[k]] = q
  BY <1>3, <1>5 DEF q
<1>13. /\ links'[h].down = 0 /\ links'[h].right = Nth(kids, k + 1)
       /\ \A x \in Handles : links'[x].down = links[x].down
       /\ \A x \in Handles : links'[x].right = IF x = q THEN h ELSE links[x].right
  <2>1. \A x \in Handles : x \in 1..h /\ x # h
    BY <1>1
  <2>2. h \in 1..h /\ h # q
    BY <1>1, <1>2, <1>6 DEF h
  <2> QED BY <1>1, <1>6, <1>7, <1>8, <1>9, <1>10, <2>1, <2>2, SMTT(30)
<1>14. /\ links' \in Seq(LinkRecords) /\ Len(links') = h
       /\ \A x \in Handles : links'[x].down = IF x = r /\ k = 0 THEN h ELSE links[x].down
       /\ \A x \in Handles : links'[x].right = IF k # 0 /\ x = place[kids[k]] THEN h ELSE links[x].right
  BY <1>8, <1>10, <1>12, <1>13
<1>15. Added(parent, k, order)
  BY <1>1, <1>4, <1>11, <1>13, <1>14 DEF Added, h, r, kids
<1>16. k \in 0..Len(children[place[parent]])
  BY <1>12 DEF kids, r
<1> QED BY <1>4, <1>15, <1>16, AddedKeeps

\* Emplace of the root.
LEMMA EmplaceRootKeeps ==
  ASSUME stack \in Seq(Nat), NEW key \in NodeKeys, NEW type \in Types, EmplaceRoot(key, type),
         links = << >>, place = << >>
  PROVE  Forest'
<1> DEFINE node == [key |-> key, parent |-> 0, mergeable |-> TRUE]
           new == [down |-> 0, right |-> 0, type |-> type, way |-> TRUE]
<1>1. /\ alpha = << >> /\ stack = << >> /\ stack' = << >>
      /\ alpha' = Append(<< >>, node) /\ links' = Append(<< >>, new) /\ place' = Append(<< >>, 1)
      /\ children' = <<<< >>>>
  <2>1. Len(<< >>) + 1 = 1
    OBVIOUS
  <2> QED BY <2>1 DEF EmplaceRoot, Construct, Callable, optimization
<1>2. node \in [key : NodeKeys, parent : Nat, mergeable : BOOLEAN] /\ node.parent = 0
  OBVIOUS
<1>3. new \in [down : Nat, right : Nat, type : Types, way : BOOLEAN] /\ new.down = 0 /\ new.right = 0
  OBVIOUS
<1> HIDE DEF node, new
<1>4. alpha' = <<node>> /\ links' = <<new>> /\ place' = <<1>> /\ << >> \in Seq(Nat)
  BY <1>1
<1>5. Len(alpha') = 1 /\ Len(links') = 1 /\ Len(place') = 1 /\ Len(children') = 1 /\ Handles' = {1}
  <2>1. Len(alpha') = 1 /\ Len(links') = 1 /\ Len(place') = 1 /\ Len(children') = 1
    BY <1>1, <1>4
  <2>2. 1..1 = {1}
    OBVIOUS
  <2> QED BY <2>1, <2>2 DEF Handles
<1>6. alpha'[1] = node /\ links'[1] = new /\ place'[1] = 1 /\ children'[1] = << >>
  BY <1>1, <1>4
<1>7. Shape'
  <2>1. /\ alpha' \in Seq([key : NodeKeys, parent : Nat, mergeable : BOOLEAN])
        /\ links' \in Seq([down : Nat, right : Nat, type : Types, way : BOOLEAN])
        /\ place' \in Seq(Nat) /\ children' \in Seq(Seq(Nat)) /\ stack' \in Seq(Nat)
    BY <1>1, <1>2, <1>3, <1>4
  <2>2. \A i \in 1..Len(stack') : stack'[i] \in Handles'
    BY <1>1
  <2> QED BY <1>2, <1>5, <1>6, <2>1, <2>2 DEF Shape
<1>8. InUse' = {1} /\ ToSet(children'[1]) = {}
  <2>1. InUse' = {1}
    BY <1>5, <1>6 DEF InUse
  <2> QED BY <1>6, <2>1 DEF ToSet
<1>9. Live' = {1}
  BY <1>5, <1>8 DEF Live
<1>10. Len(children'[1]) = 0 /\ ~ \E i \in 1..0 : TRUE
  BY <1>6
<1>11. Lists'
  BY <1>5, <1>8, <1>9, <1>10 DEF Lists
<1>12. Links'
  <2>1. 1 \notin 1..0
    OBVIOUS
  <2> QED BY <1>3, <1>5, <1>6, <1>8, <1>10, <2>1 DEF Links, Strung, Nth
<1>13. Levels'
  <2> DEFINE level == [h \in {1} |-> 1]
  <2>1. /\ \A h \in Handles' : level[h] \in 1..h
        /\ \A h \in Handles' \ {1} : level[h] = level[alpha'[h].parent] + 1
        /\ \A x, y \in Handles' : place'[x] = place'[y] => level[x] = level[y]
    BY <1>5
  <2> HIDE DEF level
  <2> QED BY <2>1 DEF Levels
<1> QED BY <1>7, <1>11, <1>12, <1>13 DEF Forest

\* A step that leaves the places and the lists, the parents and the links as they are.
LEMMA SameTree ==
  ASSUME Forest, place' = place, children' = children,
         alpha' \in Seq([key : NodeKeys, parent : Nat, mergeable : BOOLEAN]), Len(alpha') = Len(alpha),
         \A h \in Handles : alpha'[h].parent = alpha[h].parent,
         links' \in Seq(LinkRecords), Len(links') = Len(links),
         \A p \in Handles : links'[p].down = links[p].down /\ links'[p].right = links[p].right,
         stack' \in Seq(Nat), \A i \in 1..Len(stack') : stack'[i] \in Handles
  PROVE  Forest'
<1>1. /\ Len(alpha) \in Nat /\ Len(links) = Len(alpha) /\ Len(place) = Len(alpha) /\ Len(children) = Len(alpha)
      /\ Handles = 1..Len(alpha)
      /\ \A p \in InUse : p \in Handles
      /\ \A h \in Handles : place[h] \in InUse /\ place[h] \in Handles
  BY PlacesAre
<1>2. Handles' = Handles /\ InUse' = InUse
  <2>1. Handles' = Handles
    BY DEF Handles
  <2> QED BY <2>1 DEF InUse
<1>3. Live' = Live
  BY <1>2 DEF Live
<1>4. \A h \in Handles : (h = 1 /\ alpha[h].parent = 0) \/ (alpha[h].parent \in 1..h - 1 /\ alpha[h].parent \in Handles)
  <2> SUFFICES ASSUME NEW h \in Handles
               PROVE  (h = 1 /\ alpha[h].parent = 0) \/ (alpha[h].parent \in 1..h - 1 /\ alpha[h].parent \in Handles)
    OBVIOUS
  <2>1. (h = 1 /\ alpha[h].parent = 0) \/ alpha[h].parent \in 1..h - 1
    BY DEF Forest, Shape
  <2>2. \A n \in Nat : \A i \in 1..n : \A j \in 1..i - 1 : j \in 1..n
    OBVIOUS
  <2> QED BY <1>1, <2>1, <2>2
<1>5. Shape'
  <2>1. place \in Seq(Nat) /\ children \in Seq(Seq(Nat)) /\ \A h \in Handles : place[h] \in Handles
    BY DEF Forest, Shape
  <2> QED BY <1>1, <1>2, <1>4, <2>1, Zenon DEF Shape, LinkRecords
<1>6. ASSUME NEW p \in InUse, NEW i \in 1..Len(children[p])
      PROVE  /\ children[p][i] \in Handles \ {1} /\ place[children[p][i]] \in Handles
             /\ place[alpha'[children[p][i]].parent] = p
  <2>1. children[p][i] \in Handles \ {1} /\ place[alpha[children[p][i]].parent] = p
    BY DEF Forest, Lists
  <2> QED BY <1>1, <2>1, Zenon
<1>7. Lists'
  <2>1. /\ \A p, q \in InUse : \A i \in 1..Len(children[p]), j \in 1..Len(children[q]) :
              children[p][i] = children[q][j] => p = q /\ i = j
        /\ \A x, y \in Live : place[x] = place[y] => x = y
        /\ \A h \in Handles : \E x \in Live : place[x] = place[h]
    BY DEF Forest, Lists
  <2> QED BY <1>2, <1>3, <1>6, <2>1 DEF Lists
<1>8. Links'
  <2>1. ASSUME NEW p \in InUse PROVE links'[p].down = Nth(children[p], 1) /\ Strung(links', place, children[p])
    <3>1. links[p].down = Nth(children[p], 1) /\ Strung(links, place, children[p])
      BY DEF Forest, Links
    <3>2. links'[p].down = Nth(children[p], 1)
      BY <1>1, <3>1
    <3>3. ASSUME NEW i \in 1..Len(children[p]) PROVE links'[place[children[p][i]]].right = Nth(children[p], i + 1)
      <4>1. links[place[children[p][i]]].right = Nth(children[p], i + 1)
        BY <3>1 DEF Strung
      <4> QED BY <1>6, <4>1, Zenon
    <3> QED BY <3>2, <3>3 DEF Strung
  <2>2. \A h \in Handles : h = 1 => links'[place[h]].right = 0
    BY <1>1 DEF Forest, Links
  <2>3. (\A p \in InUse : links[p].down = Nth(children[p], 1) /\ Strung(links, place, children[p]))'
    BY <1>2, <2>1 DEF Strung, Nth
  <2> QED BY <1>2, <2>2, <2>3 DEF Links
<1>9. Levels'
  <2>1. PICK level : /\ \A x \in Handles : level[x] \in 1..x
                     /\ \A x \in Handles \ {1} : level[x] = level[alpha[x].parent] + 1
                     /\ \A x, y \in Handles : place[x] = place[y] => level[x] = level[y]
    BY DEF Forest, Levels
  <2>2. /\ \A x \in Handles' : level[x] \in 1..x
        /\ \A x \in Handles' \ {1} : level[x] = level[alpha'[x].parent] + 1
        /\ \A x, y \in Handles' : place'[x] = place'[y] => level[x] = level[y]
    BY <1>2, <2>1, Zenon
  <2> QED BY <2>2, Zenon DEF Levels
<1> QED BY <1>5, <1>7, <1>8, <1>9 DEF Forest

\* UpdateNodeKey, SetIsMergeable and ToggleBranch leave the tree alone.
LEMMA ChangesKeep ==
  ASSUME Forest, NEW h \in Handles,
         \/ \E key \in NodeKeys : UpdateNodeKey(h, key)
         \/ \E flag \in BOOLEAN : SetIsMergeable(h, flag) \/ ToggleBranch(h, flag)
  PROVE  Forest'
<1>1. /\ alpha \in Seq([key : NodeKeys, parent : Nat, mergeable : BOOLEAN])
      /\ links \in Seq(LinkRecords) /\ stack \in Seq(Nat) /\ \A i \in 1..Len(stack) : stack[i] \in Handles
  BY DEF Forest, Shape, LinkRecords
<1>2. /\ Len(alpha) \in Nat /\ Len(links) = Len(alpha) /\ Handles = 1..Len(alpha)
      /\ place[h] \in Handles
  BY PlacesAre
<1>3. place' = place /\ children' = children /\ stack' = stack
  BY DEF UpdateNodeKey, SetIsMergeable, ToggleBranch, Change, optimization
<1> DEFINE A == [key : NodeKeys, parent : Nat, mergeable : BOOLEAN]
           Kept(a) == a \in Seq(A) /\ Len(a) = Len(alpha) /\ \A x \in Handles : a[x].parent = alpha[x].parent
<1>4. ASSUME NEW e \in A, e.parent = alpha[h].parent PROVE Kept([alpha EXCEPT ![h] = e])
  <2>1. [alpha EXCEPT ![h] = e] \in Seq(A) /\ Len([alpha EXCEPT ![h] = e]) = Len(alpha)
    BY <1>1, <1>2
  <2>2. \A x \in Handles : [alpha EXCEPT ![h] = e][x] = IF x = h THEN e ELSE alpha[x]
    BY <1>1, <1>2
  <2> QED BY <1>4, <2>1, <2>2
<1>5. alpha[h] \in A
  <2>1. alpha \in Seq(A)
    BY <1>1
  <2> HIDE DEF A
  <2> QED BY <1>2, <2>1
<1>6. ASSUME NEW key \in NodeKeys PROVE Kept([alpha EXCEPT ![h].key = key])
  <2>1. [alpha[h] EXCEPT !.key = key] \in A /\ [alpha[h] EXCEPT !.key = key].parent = alpha[h].parent
    BY <1>5
  <2>2. [alpha EXCEPT ![h].key = key] = [alpha EXCEPT ![h] = [alpha[h] EXCEPT !.key = key]]
    OBVIOUS
  <2> HIDE DEF Kept, A
  <2> QED BY <1>4, <2>1, <2>2
<1>7. ASSUME NEW flag \in BOOLEAN PROVE Kept([alpha EXCEPT ![h].mergeable = flag])
  <2>1. [alpha[h] EXCEPT !.mergeable = flag] \in A /\ [alpha[h] EXCEPT !.mergeable = flag].parent = alpha[h].parent
    BY <1>5
  <2>2. [alpha EXCEPT ![h].mergeable = flag] = [alpha EXCEPT ![h] = [alpha[h] EXCEPT !.mergeable = flag]]
    OBVIOUS
  <2> HIDE DEF Kept, A
  <2> QED BY <1>4, <2>1, <2>2
<1> DEFINE q == place[h]
           Same(l) == l \in Seq(LinkRecords) /\ Len(l) = Len(links) /\ \A p \in Handles : l[p].down = links[p].down /\ l[p].right = links[p].right
<1>8. ASSUME NEW flag \in BOOLEAN PROVE Same([links EXCEPT ![q].way = flag])
  <2> HIDE DEF q
  <2>0. q \in Handles /\ links[q] \in LinkRecords
    BY <1>1, <1>2 DEF q
  <2> DEFINE e == [links[q] EXCEPT !.way = flag]
  <2>1. e \in LinkRecords /\ e.down = links[q].down /\ e.right = links[q].right
    BY <2>0 DEF LinkRecords
  <2>2. [links EXCEPT ![q].way = flag] = [links EXCEPT ![q] = e]
    OBVIOUS
  <2> HIDE DEF e
  <2>3. [links EXCEPT ![q] = e] \in Seq(LinkRecords) /\ Len([links EXCEPT ![q] = e]) = Len(links)
    BY <1>1, <1>2, <2>0, <2>1
  <2>4. \A p \in Handles : [links EXCEPT ![q] = e][p] = IF p = q THEN e ELSE links[p]
    BY <1>1, <1>2
  <2> QED BY <2>1, <2>2, <2>3, <2>4
<1> HIDE DEF q
<1>9. Kept(alpha) /\ Same(links)
  BY <1>1
<1> HIDE DEF Kept, Same, A
<1>10. Kept(alpha') /\ Same(links')
  <2>1. CASE \E key \in NodeKeys : UpdateNodeKey(h, key)
    BY <1>6, <1>9, <2>1, Zenon DEF UpdateNodeKey
  <2>2. CASE \E flag \in BOOLEAN : SetIsMergeable(h, flag)
    BY <1>7, <1>9, <2>2 DEF SetIsMergeable
  <2>3. CASE \E flag \in BOOLEAN : ToggleBranch(h, flag)
    BY <1>8, <1>9, <2>3 DEF ToggleBranch, q
  <2> QED BY <2>1, <2>2, <2>3
<1>11. /\ alpha' \in Seq([key : NodeKeys, parent : Nat, mergeable : BOOLEAN]) /\ Len(alpha') = Len(alpha)
       /\ \A x \in Handles : alpha'[x].parent = alpha[x].parent
       /\ links' \in Seq(LinkRecords) /\ Len(links') = Len(links)
       /\ \A p \in Handles : links'[p].down = links[p].down /\ links'[p].right = links[p].right
  BY <1>10 DEF Kept, Same, A
<1> QED BY <1>1, <1>3, <1>11, SameTree

-----------------------------------------------------------------------------
(* A merge.                                                                *)

\* The list that a node is in, and the part of it that mergeNodes goes past.
Kin(h) == children[place[alpha[h].parent]]
Row(h) == ChainFrom(links, place, FirstSame(h))

\* That part begins with the f-th of the list.  Its first K nodes are merged,
\* those from there up to the L-th are not, and then there is at most one more.
Siblings(h, f, K, L) ==
  /\ f \in 1..Len(Kin(h)) /\ K \in Nat /\ L \in Nat
  /\ Row(h) \in Seq(Handles \ {1}) /\ Len(Row(h)) = Len(Kin(h)) - f + 1
  /\ \A i \in 1..Len(Row(h)) : Row(h)[i] = Kin(h)[f + i - 1]
  /\ Row(h)[1] = FirstSame(h)
  /\ 1 <= K /\ K <= L /\ L <= Len(Row(h)) /\ Len(Row(h)) <= L + 1
  /\ L < Len(Row(h)) => K < L
  /\ \A i \in 1..Len(Row(h)) : Merges(Row(h)[i], h) <=> i <= K \/ i > L

\* What a node that is in the tree is a child of.
LEMMA ParentIs ==
  ASSUME Forest, NEW h \in Live \ {1}
  PROVE  /\ alpha[h].parent \in Handles /\ place[alpha[h].parent] \in InUse
         /\ \E i \in 1..Len(Kin(h)) : Kin(h)[i] = h
<1>1. PICK p \in InUse : \E i \in 1..Len(children[p]) : h = children[p][i]
  BY LiveIs
<1>2. place[alpha[h].parent] = p
  BY <1>1 DEF Forest, Lists
<1>3. h \in Handles
  BY DEF Live
<1>4. alpha[h].parent \in 1..h - 1
  BY <1>3 DEF Forest, Shape
<1>5. \A n \in Nat : \A a \in 1..n : \A b \in 1..a - 1 : b \in 1..n
  OBVIOUS
<1>6. alpha[h].parent \in Handles
  BY <1>3, <1>4, <1>5, PlacesAre
<1> QED BY <1>1, <1>2, <1>6 DEF Kin

\* A tidy merge: up to K the siblings are merged, then up to L they are not, and
\* at most the last one is merged again.
LEMMA SiblingsAre ==
  ASSUME Forest, NEW h \in Live \ {1}, ~Untidy(h)
  PROVE  \E f, K, L \in Nat : Siblings(h, f, K, L)
<1> DEFINE kids == Kin(h)
           par == alpha[h].parent
           R == place[par]
           Same(x) == alpha[x].key = alpha[h].key /\ Td(links, place, x).type = Td(links, place, h).type
           f == CHOOSE i \in DOMAIN kids : Same(kids[i]) /\ \A j \in 1..i - 1 : ~Same(kids[j])
           c == Row(h)
           N == Len(c)
           M(i) == Merges(c[i], h)
<1>1. /\ par \in Handles /\ R \in InUse /\ \E i \in 1..Len(kids) : kids[i] = h
      /\ Len(links) \in Nat /\ Len(place) \in Nat
  BY ParentIs, PlacesAre
<1>2. Chain(links, place, par) = kids
  BY <1>1, ChildrenAre DEF Kin
<1>3. /\ kids \in Seq(Handles \ {1}) /\ kids \in Seq(1..Len(place)) /\ Len(kids) \in Nat /\ Len(kids) <= Len(links)
      /\ Strung(links, place, kids) /\ DOMAIN kids = 1..Len(kids)
  <2>1. kids \in Seq(Handles \ {1}) /\ DOMAIN kids = 1..Len(kids)
    BY <1>1, KidsAre DEF Kin
  <2> QED BY <1>1, <2>1, KidsAre, PlacesAre, Zenon DEF Kin
<1>4. FirstSame(h) = kids[f]
  BY <1>2 DEF FirstSame
<1> HIDE DEF kids, R, par
<1>5. f \in 1..Len(kids) /\ Same(kids[f])
  <2> DEFINE T == {i \in 1..Len(kids) : Same(kids[i])}
  <2>1. T \subseteq Nat /\ T # {}
    BY <1>1
  <2>2. PICK n \in T : \A m \in T : n <= m
    <3> HIDE DEF T
    <3> QED BY <2>1, Least
  <2> HIDE DEF Same
  <2>3. n \in 1..Len(kids) /\ Same(kids[n]) /\ \A m \in 1..Len(kids) : Same(kids[m]) => n <= m
    BY <2>2
  <2>4. \A j \in 1..n - 1 : j \in 1..Len(kids) /\ ~ (n <= j)
    BY <1>3, <2>3
  <2>5. \E i \in DOMAIN kids : Same(kids[i]) /\ \A j \in 1..i - 1 : ~Same(kids[j])
    BY <1>3, <2>3, <2>4, Zenon
  <2> QED BY <1>3, <2>5
<1> HIDE DEF f, Same
<1>6. c = SubSeq(kids, f, Len(kids))
  BY <1>1, <1>3, <1>4, <1>5, ChainFromIs, Zenon DEF Row
<1>7. c \in Seq(Handles \ {1}) /\ N = Len(kids) - f + 1 /\ \A i \in 1..N : c[i] = kids[f + i - 1]
  <2>1. LET d == SubSeq(kids, f, Len(kids))
        IN  d \in Seq(Handles \ {1}) /\ Len(d) = Len(kids) - f + 1 /\ \A i \in 1..Len(d) : d[i] = kids[f + i - 1]
    BY <1>3, <1>5, Suffix, Zenon
  <2> HIDE DEF c
  <2> QED BY <1>6, <2>1
<1> HIDE DEF c
<1>8. N \in Nat /\ N >= 1 /\ c[1] = FirstSame(h)
  <2>1. N \in Nat /\ N >= 1 /\ 1 \in 1..N /\ f + 1 - 1 = f
    BY <1>3, <1>5, <1>7
  <2> QED BY <1>4, <1>7, <2>1
<1>9. M(1) /\ \A i \in 2..N - 1 : M(i) => M(i - 1)
  <2>1. alpha[FirstSame(h)].mergeable /\ \A i \in 2..N - 1 : M(i) => M(i - 1)
    BY DEF Untidy, Row, c
  <2> QED BY <1>4, <1>5, <1>8, <2>1 DEF Merges, Same
<1> HIDE DEF N, M
<1>10. PICK K \in 1..N : (K = N \/ ~M(K + 1)) /\ \A k \in 1..N : k < K => k # N /\ M(k + 1)
  <2> DEFINE T == {k \in 1..N : k = N \/ ~M(k + 1)}
  <2>0. N \in 1..N /\ 1..N \subseteq Nat
    BY <1>8
  <2>1. T \subseteq Nat /\ N \in T
    BY <2>0
  <2>2. PICK n \in T : \A m \in T : n <= m
    <3> HIDE DEF T
    <3> QED BY <2>1, Least
  <2>3. n \in 1..N /\ (n = N \/ ~M(n + 1))
    OBVIOUS
  <2>4. ASSUME NEW k \in 1..N, k < n PROVE k # N /\ M(k + 1)
    <3>1. k \notin T
      BY <2>2, <2>3, <2>4
    <3> QED BY <3>1
  <2> QED BY <2>3, <2>4
<1>11. ASSUME NEW i \in 1..K PROVE M(i)
  <2>1. CASE i = 1
    BY <1>9, <2>1
  <2>2. CASE i # 1
    <3>1. i - 1 \in 1..N /\ i - 1 < K /\ (i - 1) + 1 = i
      BY <1>8, <1>10, <2>2
    <3> QED BY <1>10, <3>1
  <2> QED BY <2>1, <2>2
<1>12. ASSUME NEW i \in K + 1..N - 1 PROVE ~M(i)
  <2> DEFINE T == {k \in K + 1..N - 1 : M(k)}
  <2> SUFFICES ASSUME M(i) PROVE FALSE
    OBVIOUS
  <2>1. T \subseteq Nat /\ T # {}
    BY <1>8, <1>10
  <2>2. PICK n \in T : \A m \in T : n <= m
    <3> HIDE DEF T
    <3> QED BY <2>1, Least
  <2>3. n \in K + 1..N - 1 /\ M(n)
    OBVIOUS
  <2>4. CASE n = K + 1
    BY <1>10, <2>3, <2>4
  <2>5. CASE n # K + 1
    <3>1. n \in 2..N - 1 /\ n - 1 \in K + 1..N - 1 /\ ~ (n <= n - 1)
      BY <1>8, <1>10, <2>3, <2>5
    <3>2. M(n - 1)
      BY <1>9, <2>3, <3>1
    <3>3. n - 1 \in T
      BY <3>1, <3>2
    <3> QED BY <2>2, <3>1, <3>3
  <2> QED BY <2>4, <2>5
<1> DEFINE L == IF M(N) /\ K # N THEN N - 1 ELSE N
<1>13. L \in Nat /\ 1 <= K /\ K <= L /\ L <= N /\ N <= L + 1 /\ K \in Nat
  BY <1>8, <1>10
<1>14. L < N => K < L
  <2>1. L < N => M(N) /\ K # N /\ L = N - 1
    BY <1>8
  <2>2. K = N - 1 => ~M(N)
    BY <1>8, <1>10
  <2> QED BY <1>8, <1>10, <2>1, <2>2
<1>15. ASSUME NEW i \in 1..N PROVE M(i) <=> i <= K \/ i > L
  <2>1. CASE i <= K
    BY <1>10, <1>11, <2>1
  <2>2. CASE i > K /\ i # N
    <3>1. i \in K + 1..N - 1 /\ ~ (i <= K)
      BY <1>8, <1>10, <2>2
    <3>2. ~ (i > L)
      BY <1>8, <1>13, <3>1
    <3> QED BY <1>12, <3>1, <3>2
  <2>3. CASE i > K /\ i = N
    <3>1. K # N /\ ~ (i <= K)
      BY <1>10, <2>3
    <3> QED BY <1>8, <2>3, <3>1
  <2> QED BY <1>10, <2>1, <2>2, <2>3
<1> HIDE DEF L
<1>16. Siblings(h, f, K, L)
  BY <1>5, <1>7, <1>8, <1>13, <1>14, <1>15 DEF Siblings, kids, c, N, M
<1>17. f \in Nat
  BY <1>5
<1> QED BY <1>10, <1>13, <1>16, <1>17

\* What is in a list is in no other place.
LEMMA Listed ==
  ASSUME Forest
  PROVE  /\ \A p \in InUse : \A i \in 1..Len(children[p]) : children[p][i] \in Handles \ {1}
         /\ \A p \in InUse : \A i \in 1..Len(children[p]) : place[alpha[children[p][i]].parent] = p
         /\ \A p, q \in InUse : \A i \in 1..Len(children[p]), j \in 1..Len(children[q]) :
              children[p][i] = children[q][j] => p = q /\ i = j
BY DEF Forest, Lists

\* The nodes that are gone past, and their children, are different ones.
LEMMA Apart ==
  ASSUME Forest, NEW h \in Live \ {1}, NEW f, NEW K, NEW L, Siblings(h, f, K, L)
  PROVE  /\ Distinct(Row(h)) /\ Len(Row(h)) \in Nat /\ Len(Row(h)) >= 1
         /\ \A i \in 1..Len(Row(h)) :
              /\ Row(h)[i] \in Live \ {1} /\ place[Row(h)[i]] \in InUse
              /\ place[Row(h)[i]] # place[alpha[h].parent]
              /\ links[place[Row(h)[i]]].right = Nth(Row(h), i + 1)
         /\ \A a \in 1..Len(Row(h)) : \A b \in 1..Len(children[place[Row(h)[a]]]) :
              /\ children[place[Row(h)[a]]][b] \in Live \ {1}
              /\ \A i \in 1..Len(Row(h)) : children[place[Row(h)[a]]][b] # Row(h)[i]
<1> DEFINE c == Row(h)
           N == Len(c)
           kids == Kin(h)
           par == alpha[h].parent
           R == place[par]
<1>1. par \in Handles /\ R \in InUse
  BY ParentIs
<1>2. /\ kids \in Seq(Handles \ {1}) /\ Len(kids) \in Nat /\ Distinct(kids) /\ Strung(links, place, kids)
      /\ kids = children[R]
  BY <1>1, KidsAre DEF Kin
<1>3. /\ f \in 1..Len(kids) /\ N = Len(kids) - f + 1 /\ \A i \in 1..N : c[i] = kids[f + i - 1]
      /\ c \in Seq(Handles \ {1})
  BY DEF Siblings
<1>4. N \in Nat /\ N >= 1
  BY <1>2, <1>3, SMTT(30)
<1> HIDE DEF kids, N, c
<1>5. \A i \in 1..N : f + i - 1 \in 1..Len(kids)
  BY <1>2, <1>3
<1>6. ASSUME NEW i \in 1..N, NEW j \in 1..N, c[i] = c[j] PROVE i = j
  <2>0. /\ kids[f + i - 1] = kids[f + j - 1]
        /\ \A a, b \in 1..Len(kids) : kids[a] = kids[b] => a = b
        /\ f + i - 1 \in 1..Len(kids) /\ f + j - 1 \in 1..Len(kids)
    BY <1>2, <1>3, <1>5, <1>6 DEF Distinct
  <2>1. f + i - 1 = f + j - 1
    BY <2>0
  <2> QED BY <1>2, <1>3, <2>1, SMTT(30)
<1>7. \A i \in 1..Len(kids) : kids[i] \in Live
  BY <1>1, <1>2, LiveIs
<1>8. PICK level : /\ \A x \in Handles : level[x] \in 1..x
                   /\ \A x \in Handles \ {1} : level[x] = level[alpha[x].parent] + 1
                   /\ \A x, y \in Handles : place[x] = place[y] => level[x] = level[y]
  BY DEF Forest, Levels
<1>9. \A x \in Live : x \in Handles /\ place[x] \in InUse
  BY PlacesAre DEF Live
<1>10. ASSUME NEW i \in 1..N
       PROVE  /\ c[i] \in Live \ {1} /\ place[c[i]] \in InUse /\ place[c[i]] # R
              /\ links[place[c[i]]].right = Nth(c, i + 1)
  <2>1. c[i] = kids[f + i - 1] /\ c[i] \in Handles \ {1} /\ c[i] \in Live
    <3>1. c[i] = kids[f + i - 1] /\ f + i - 1 \in 1..Len(kids)
      BY <1>3, <1>5
    <3>2. c[i] \in Handles \ {1}
      BY <1>3, SMTT(30) DEF N
    <3> QED BY <1>7, <3>1, <3>2
  <2>2. place[alpha[c[i]].parent] = R
    <3>1. f + i - 1 \in 1..Len(children[R]) /\ children[R][f + i - 1] = c[i]
      BY <1>2, <1>5, <2>1
    <3>2. \A k \in 1..Len(children[R]) : place[alpha[children[R][k]].parent] = R
      BY <1>1, Listed
    <3> QED BY <3>1, <3>2
  <2>3. alpha[c[i]].parent \in Handles
    BY <2>1, ParentIs
  <2>4. level[c[i]] = level[par] + 1 /\ level[par] \in Nat
    <3>1. level[c[i]] = level[alpha[c[i]].parent] + 1
      BY <1>8, <2>1
    <3>2. level[alpha[c[i]].parent] = level[par]
      BY <1>1, <1>8, <2>2, <2>3
    <3>3. level[par] \in Nat
      BY <1>1, <1>8
    <3> QED BY <3>1, <3>2, <3>3
  <2>5. place[c[i]] # R
    BY <1>1, <1>8, <2>1, <2>4
  <2>6. links[place[c[i]]].right = Nth(kids, f + i)
    <3>1. f + i - 1 + 1 = f + i
      BY <1>2, <1>3, SMTT(30)
    <3>2. links[place[kids[f + i - 1]]].right = Nth(kids, f + i - 1 + 1)
      BY <1>2, <1>5 DEF Strung
    <3> QED BY <2>1, <3>1, <3>2
  <2>7. Nth(kids, f + i) = Nth(c, i + 1)
    <3>1. CASE i + 1 \in 1..N
      <4>1. f + (i + 1) - 1 = f + i /\ f + i \in 1..Len(kids)
        BY <1>2, <1>3, <3>1, SMTT(30)
      <4>2. c[i + 1] = kids[f + i]
        BY <1>3, <3>1, <4>1
      <4> QED BY <3>1, <4>1, <4>2, SMTT(30) DEF Nth, N
    <3>2. CASE i + 1 \notin 1..N
      <4>1. f + i \notin 1..Len(kids)
        BY <1>2, <1>3, <3>2
      <4> QED BY <3>2, <4>1 DEF Nth, N
    <3> QED BY <3>1, <3>2
  <2> QED BY <1>9, <2>1, <2>5, <2>6, <2>7
<1>11. ASSUME NEW a \in 1..N, NEW b \in 1..Len(children[place[c[a]]])
       PROVE  /\ children[place[c[a]]][b] \in Live \ {1}
              /\ \A i \in 1..N : children[place[c[a]]][b] # c[i]
  <2>1. place[c[a]] \in InUse /\ place[c[a]] # R
    BY <1>10
  <2>2. children[place[c[a]]][b] \in Live /\ children[place[c[a]]][b] \in Handles \ {1}
    BY <2>1, LiveIs, Listed
  <2>3. ASSUME NEW i \in 1..N, children[place[c[a]]][b] = c[i] PROVE FALSE
    <3>1. children[place[c[a]]][b] = children[R][f + i - 1] /\ f + i - 1 \in 1..Len(children[R])
      BY <1>2, <1>3, <1>5, <2>3, SMTT(30)
    <3> QED BY <1>1, <2>1, <3>1, Listed, SMTT(30)
  <2> QED BY <2>2, <2>3
<1> QED BY <1>4, <1>6, <1>10, <1>11, Zenon DEF Distinct, c, N

\* Live handles have places of their own.
LEMMA OwnPlaces ==
  ASSUME Forest
  PROVE  \A x, y \in Live : /\ x \in Handles /\ place[x] \in Handles /\ place[x] \in InUse
                            /\ place[x] = place[y] => x = y
<1>1. \A x \in Live : x \in Handles
  BY DEF Live
<1>2. \A x, y \in Live : place[x] = place[y] => x = y
  BY DEF Forest, Lists
<1> QED BY <1>1, <1>2, PlacesAre

\* The children that the first node should get, up to those of the i-th: g[i].
Families(h) == [i \in DOMAIN Row(h) |-> IF Joins(Row(h)[i], h) THEN children[place[Row(h)[i]]] ELSE << >>]

Gathers(h, g) ==
  /\ g[0] = << >> /\ FlattenSeq(Families(h)) = g[Len(Row(h))]
  /\ \A i \in 1..Len(Row(h)) :
       /\ Merges(Row(h)[i], h) => g[i] = g[i - 1] \o children[place[Row(h)[i]]]
       /\ ~Merges(Row(h)[i], h) => g[i] = g[i - 1]
  /\ \A i \in 0..Len(Row(h)) :
       /\ g[i] \in Seq(Live \ {1}) /\ Distinct(g[i])
       /\ \A j \in 1..Len(g[i]) : \E a \in 1..i : /\ Merges(Row(h)[a], h)
                                                  /\ \E b \in 1..Len(children[place[Row(h)[a]]]) : g[i][j] = children[place[Row(h)[a]]][b]
       /\ \A a \in 1..i : Merges(Row(h)[a], h) =>
            \A b \in 1..Len(children[place[Row(h)[a]]]) : \E j \in 1..Len(g[i]) : g[i][j] = children[place[Row(h)[a]]][b]

\* The children of the merged nodes, gathered one node at a time.
LEMMA Gathering ==
  ASSUME Forest, NEW h \in Live \ {1}, NEW f, NEW K, NEW L, Siblings(h, f, K, L)
  PROVE  \E g : Gathers(h, g)
<1> DEFINE c == Row(h)
           N == Len(c)
           M(i) == Merges(c[i], h)
           Own(i) == children[place[c[i]]]
           F == Families(h)
<1>1. /\ Distinct(c) /\ N \in Nat /\ N >= 1
      /\ \A i \in 1..N : c[i] \in Live \ {1} /\ place[c[i]] \in InUse
      /\ \A a \in 1..N : \A b \in 1..Len(Own(a)) : Own(a)[b] \in Live \ {1}
  BY Apart, Zenon
<1>2. DOMAIN c = 1..N /\ c[1] = FirstSame(h) /\ M(1)
  <2>1. c \in Seq(Handles \ {1}) /\ c[1] = FirstSame(h) /\ K \in Nat /\ 1 <= K
    BY DEF Siblings
  <2>2. 1 \in 1..N
    BY <1>1
  <2> QED BY <2>1, <2>2 DEF Siblings
<1>3. \A i \in 1..N : Joins(c[i], h) <=> M(i)
  BY <1>1, <1>2 DEF Joins
<1>4. /\ \A i \in 1..N : Own(i) \in Seq(Live \ {1}) /\ Len(Own(i)) \in Nat /\ Distinct(Own(i))
      /\ \A i \in 1..N : Own(i) \in Seq(Nat)
  <2> SUFFICES ASSUME NEW i \in 1..N
               PROVE  Own(i) \in Seq(Live \ {1}) /\ Len(Own(i)) \in Nat /\ Distinct(Own(i)) /\ Own(i) \in Seq(Nat)
    OBVIOUS
  <2>1. Own(i) \in Seq(Nat \ {0}) /\ Len(Own(i)) \in Nat /\ Distinct(Own(i))
    BY <1>1, KidsAre
  <2>2. \A b \in 1..Len(Own(i)) : Own(i)[b] \in Live \ {1}
    BY <1>1
  <2> HIDE DEF Own
  <2>3. Own(i) \in Seq(Live \ {1})
    BY <2>1, <2>2, Within
  <2>4. Own(i) \in Seq(Nat)
    BY <2>1
  <2> QED BY <2>1, <2>3, <2>4
<1>5. F = [i \in 1..N |-> IF M(i) THEN Own(i) ELSE << >>]
  BY <1>2, <1>3 DEF Families
<1>6. \A i \in 1..N : F[i] = IF M(i) THEN Own(i) ELSE << >>
  BY <1>5
<1> HIDE DEF M, Own, c, N
<1>7. F \in Seq(Seq(Nat)) /\ Len(F) = N
  <2>1. \A i \in 1..N : (IF M(i) THEN Own(i) ELSE << >>) \in Seq(Nat)
    BY <1>4
  <2> HIDE DEF F
  <2> QED BY <1>1, <1>5, <2>1
<1> HIDE DEF F
<1>8. PICK g : /\ g[0] = << >> /\ \A i \in 1..N : g[i] = g[i - 1] \o F[i]
               /\ FlattenSeq(F) = g[N]
  BY <1>7, FlattenDef, Zenon
<1> DEFINE G(i) == /\ g[i] \in Seq(Live \ {1}) /\ Distinct(g[i])
                   /\ \A j \in 1..Len(g[i]) : \E a \in 1..i : M(a) /\ \E b \in 1..Len(Own(a)) : g[i][j] = Own(a)[b]
                   /\ \A a \in 1..i : M(a) => \A b \in 1..Len(Own(a)) : \E j \in 1..Len(g[i]) : g[i][j] = Own(a)[b]
           T == {i \in 0..N : G(i)}
<1>9. 0 \in T
  <2>1. Len(<< >>) = 0 /\ (~ \E j \in 1..0 : TRUE) /\ << >> \in Seq(Live \ {1})
    OBVIOUS
  <2>2. 0 \in 0..N
    BY <1>1
  <2> QED BY <1>8, <2>1, <2>2 DEF Distinct
<1>10. ASSUME NEW i \in 1..N PROVE /\ M(i) => g[i] = g[i - 1] \o Own(i)
                                   /\ ~M(i) /\ g[i - 1] \in Seq(Live \ {1}) => g[i] = g[i - 1]
  <2>1. g[i] = g[i - 1] \o F[i] /\ F[i] = IF M(i) THEN Own(i) ELSE << >>
    BY <1>6, <1>8
  <2>2. \A s \in Seq(Live \ {1}) : s \o << >> = s
    OBVIOUS
  <2> QED BY <2>1, <2>2, Zenon
<1>11. ASSUME NEW i \in 1..N, NEW j \in 1..N, NEW a \in 1..Len(Own(i)), NEW b \in 1..Len(Own(j)), Own(i)[a] = Own(j)[b]
       PROVE  i = j /\ a = b
  <2>1. place[c[i]] = place[c[j]] /\ a = b
    <3>1. /\ place[c[i]] \in InUse /\ a \in 1..Len(children[place[c[i]]])
          /\ place[c[j]] \in InUse /\ b \in 1..Len(children[place[c[j]]])
          /\ children[place[c[i]]][a] = children[place[c[j]]][b]
      BY <1>1, <1>11 DEF Own
    <3> DEFINE p == place[c[i]]
               q == place[c[j]]
    <3>2. /\ p \in InUse /\ a \in 1..Len(children[p]) /\ q \in InUse /\ b \in 1..Len(children[q])
          /\ children[p][a] = children[q][b]
      BY <3>1, Zenon
    <3> HIDE DEF p, q
    <3>3. p = q /\ a = b
      BY <3>2, Listed
    <3> QED BY <3>3 DEF p, q
  <2>2. c[i] = c[j]
    BY <1>1, <2>1, OwnPlaces
  <2> QED BY <1>1, <2>1, <2>2 DEF Distinct, N
<1>12. ASSUME NEW n \in 0..N - 1, n \in T PROVE n + 1 \in T
  <2> DEFINE i == n + 1
             s == g[n]
             t == Own(i)
  <2>1. i \in 1..N /\ i - 1 = n /\ i \in 0..N /\ \A a \in 1..i : a = i \/ a \in 1..n
    BY <1>1
  <2>1a. \A a \in 1..n : a \in 1..i /\ a \in 1..N /\ a # i
    BY <1>1
  <2>2. /\ s \in Seq(Live \ {1}) /\ Distinct(s)
        /\ \A j \in 1..Len(s) : \E a \in 1..n : M(a) /\ \E b \in 1..Len(Own(a)) : s[j] = Own(a)[b]
        /\ \A a \in 1..n : M(a) => \A b \in 1..Len(Own(a)) : \E j \in 1..Len(s) : s[j] = Own(a)[b]
    BY <1>12
  <2>3. G(i)
    <3>1. CASE ~M(i)
      <4>1. g[i] = s
        BY <1>10, <2>1, <2>2, <3>1
      <4>2. \A j \in 1..Len(s) : \E a \in 1..i : M(a) /\ \E b \in 1..Len(Own(a)) : s[j] = Own(a)[b]
        BY <2>1a, <2>2
      <4> HIDE DEF s, i
      <4>3. \A a \in 1..i : M(a) => \A b \in 1..Len(Own(a)) : \E j \in 1..Len(s) : s[j] = Own(a)[b]
        BY <2>1, <2>2, <3>1
      <4> QED BY <2>2, <4>1, <4>2, <4>3
    <3>2. CASE M(i)
      <4>1. g[i] = s \o t
        BY <1>10, <2>1, <3>2, Zenon
      <4>2. t \in Seq(Live \ {1}) /\ Distinct(t)
        BY <1>4, <2>1
      <4> HIDE DEF i, s, t
      <4> DEFINE u == s \o t
      <4>3. /\ u \in Seq(Live \ {1}) /\ Len(u) = Len(s) + Len(t)
            /\ Len(s) \in Nat /\ Len(t) \in Nat
            /\ \A j \in 1..Len(s) : u[j] = s[j]
            /\ \A j \in 1..Len(t) : u[Len(s) + j] = t[j]
        <5>1. s \in Seq(Live \ {1})
          BY <2>2
        <5> QED BY <4>2, <5>1, Joined
      <4> HIDE DEF u
      <4>4. ASSUME NEW j \in 1..Len(u)
            PROVE  \/ j \in 1..Len(s) /\ u[j] = s[j]
                   \/ j - Len(s) \in 1..Len(t) /\ u[j] = t[j - Len(s)]
        <5>1. CASE j <= Len(s)
          BY <4>3, <5>1
        <5>2. CASE j > Len(s)
          <6>1. j - Len(s) \in 1..Len(t) /\ Len(s) + (j - Len(s)) = j
            BY <4>3, <5>2
          <6> QED BY <4>3, <6>1
        <5> QED BY <4>3, <5>1, <5>2
      <4>5. ASSUME NEW j \in 1..Len(u) PROVE \E a \in 1..i : M(a) /\ \E b \in 1..Len(Own(a)) : u[j] = Own(a)[b]
        <5>1. CASE j \in 1..Len(s) /\ u[j] = s[j]
          BY <2>1a, <2>2, <5>1
        <5>2. CASE j - Len(s) \in 1..Len(t) /\ u[j] = t[j - Len(s)]
          <6>1. i \in 1..i
            BY <2>1
          <6> QED BY <3>2, <5>2, <6>1, Zenon DEF t
        <5> QED BY <4>4, <5>1, <5>2
      <4>6. ASSUME NEW a \in 1..i, M(a), NEW b \in 1..Len(Own(a)) PROVE \E j \in 1..Len(u) : u[j] = Own(a)[b]
        <5>1. CASE a = i
          <6>1. b \in 1..Len(t) /\ t[b] = Own(a)[b] /\ Len(s) + b \in 1..Len(u)
            BY <4>3, <5>1 DEF t
          <6> QED BY <4>3, <6>1
        <5>2. CASE a \in 1..n
          <6>1. PICK j \in 1..Len(s) : s[j] = Own(a)[b]
            BY <2>2, <4>6, <5>2
          <6>2. j \in 1..Len(u)
            BY <4>3
          <6> QED BY <4>3, <6>1, <6>2
        <5> QED BY <2>1, <5>1, <5>2
      <4>7. ASSUME NEW x \in 1..Len(s), NEW y \in 1..Len(t), s[x] = t[y] PROVE FALSE
        <5>1. PICK a \in 1..n : M(a) /\ \E b \in 1..Len(Own(a)) : s[x] = Own(a)[b]
          BY <2>2
        <5>2. PICK b \in 1..Len(Own(a)) : s[x] = Own(a)[b]
          BY <5>1
        <5>3. a = i
          BY <1>11, <2>1, <2>1a, <4>7, <5>2, ZenonT(30) DEF t
        <5> QED BY <2>1a, <5>3
      <4>8. ASSUME NEW x \in 1..Len(u), NEW y \in 1..Len(u), u[x] = u[y] PROVE x = y
        <5>1. CASE x \in 1..Len(s) /\ u[x] = s[x] /\ y \in 1..Len(s) /\ u[y] = s[y]
          BY <2>2, <4>8, <5>1, Zenon DEF Distinct
        <5>2. CASE x - Len(s) \in 1..Len(t) /\ u[x] = t[x - Len(s)] /\ y - Len(s) \in 1..Len(t) /\ u[y] = t[y - Len(s)]
          <6>1. x - Len(s) = y - Len(s)
            BY <4>2, <4>8, <5>2, Zenon DEF Distinct
          <6> QED BY <4>3, <6>1
        <5> QED BY <4>4, <4>7, <4>8, <5>1, <5>2, Zenon
      <4>9. u \in Seq(Live \ {1}) /\ Distinct(u) /\ g[i] = u
        BY <4>1, <4>3, <4>8 DEF Distinct, u
      <4> QED BY <4>5, <4>6, <4>9, ZenonT(30)
    <3> QED BY <3>1, <3>2
  <2> HIDE DEF G, i
  <2>4. i \in T
    BY <2>1, <2>3
  <2> QED BY <2>4 DEF i
<1>13. \A i \in 0..N : G(i)
  <2> HIDE DEF T
  <2>1. 0..N \subseteq T
    BY <1>1, <1>9, <1>12, InductionUpTo, Zenon
  <2> QED BY <2>1, Zenon DEF T
<1>14. \A i \in 1..N : i - 1 \in 0..N
  BY <1>1
<1>15. \A i \in 1..N : (M(i) => g[i] = g[i - 1] \o Own(i)) /\ (~M(i) => g[i] = g[i - 1])
  BY <1>10, <1>13, <1>14
<1>16. Gathers(h, g)
  BY <1>8, <1>13, <1>15 DEF Gathers, M, Own, c, N, F
<1> QED BY <1>16

\* Nth of a list behind another.
LEMMA NthJoined ==
  ASSUME NEW S, NEW s \in Seq(S), NEW t \in Seq(S)
  PROVE  /\ \A i \in 1..Len(s) : Nth(s \o t, i) = Nth(s, i)
         /\ \A i \in Nat \ {0} : Nth(s \o t, Len(s) + i) = Nth(t, i)
<1> DEFINE u == s \o t
<1>1. /\ Len(u) = Len(s) + Len(t) /\ Len(s) \in Nat /\ Len(t) \in Nat
      /\ \A i \in 1..Len(s) : u[i] = s[i]
      /\ \A i \in 1..Len(t) : u[Len(s) + i] = t[i]
  BY Joined
<1> HIDE DEF u
<1>2. \A i \in 1..Len(s) : Nth(u, i) = Nth(s, i)
  BY <1>1 DEF Nth
<1>3. ASSUME NEW i \in Nat \ {0} PROVE Nth(u, Len(s) + i) = Nth(t, i)
  <2>1. Len(s) + i \in 1..Len(u) <=> i \in 1..Len(t)
    BY <1>1
  <2> QED BY <1>1, <2>1 DEF Nth
<1> QED BY <1>2, <1>3 DEF u

\* A tidy merge of h: its siblings, and the children that are gathered.
Scene(h, f, K, L, g) ==
  Forest /\ h \in Live \ {1} /\ ~Untidy(h) /\ Siblings(h, f, K, L) /\ Gathers(h, g)

\* A node below those that are gone past.
Below(h, e) == e \in Live \ {1} /\ \A j \in 1..Len(Row(h)) : e # Row(h)[j]

\* The loop of mergeNodes, behind the i-th node.
LoopRecords == [l : Seq(LinkRecords), at : Seq(Nat), lowest : Nat, next : Nat, leftmost : Nat, m : Nat]

Midway(h, K, L, g, i, s) ==
  /\ s \in LoopRecords /\ Len(s.l) = Len(links) /\ Len(s.at) = Len(place)
  /\ \A x \in Handles : s.at[x] = IF \E j \in 1..i : x = Row(h)[j] /\ Merges(Row(h)[j], h)
                                  THEN place[Row(h)[1]] ELSE place[x]
  /\ \A q \in Handles : s.l[q].down = links[q].down
  /\ \A j \in 1..Len(g[i]) : s.l[place[g[i][j]]].right = Nth(g[i], j + 1)
  /\ \A q \in Handles : \/ s.l[q].right = links[q].right
                        \/ \E j \in 1..Len(g[i]) : q = place[g[i][j]]
                        \/ i = Len(Row(h)) /\ L < Len(Row(h)) /\ q = place[Row(h)[Len(Row(h)) - 1]]
  /\ s.leftmost = Nth(g[i], 1)
  /\ \/ /\ s.lowest = 0
        /\ \/ g[i] = << >>
           \/ \A a \in i + 1..Len(Row(h)) : Merges(Row(h)[a], h) => children[place[Row(h)[a]]] = << >>
     \/ g[i] # << >> /\ s.lowest = g[i][Len(g[i])]
  /\ s.next = IF K < i THEN Row(h)[K + 1] ELSE 0
  /\ s.m = IF i = 0 THEN 0 ELSE IF i < Len(Row(h)) THEN Row(h)[i]
           ELSE IF Merges(Row(h)[i], h) /\ i # 1 THEN Row(h)[i - 1] ELSE 0

\* The siblings alone.
LEMMA RowIs ==
  ASSUME NEW h, NEW f, NEW K, NEW L, NEW g, Scene(h, f, K, L, g)
  PROVE  \A j \in 1..Len(Row(h)) :
           /\ Merges(Row(h)[j], h) <=> j <= K \/ j > L
           /\ Row(h)[j] \in Handles /\ Row(h)[j] # 0 /\ place[Row(h)[j]] \in Handles
           /\ links[place[Row(h)[j]]].right = Nth(Row(h), j + 1)
           /\ \A k \in 1..Len(Row(h)) : /\ Row(h)[j] = Row(h)[k] => j = k
                                        /\ place[Row(h)[j]] = place[Row(h)[k]] => j = k
<1>0. Forest /\ h \in Live \ {1} /\ ~Untidy(h) /\ Siblings(h, f, K, L) /\ Gathers(h, g)
  BY DEF Scene
<1> DEFINE c == Row(h)
           N == Len(c)
           M(j) == Merges(c[j], h)
<1>1. /\ Distinct(c) /\ N \in Nat /\ N >= 1
      /\ \A i \in 1..N : /\ c[i] \in Live \ {1} /\ place[c[i]] \in InUse
                         /\ links[place[c[i]]].right = Nth(c, i + 1)
  BY <1>0, Apart
<1>2. \A i \in 1..N : M(i) <=> i <= K \/ i > L
  BY <1>0 DEF Siblings
<1>3. Len(links) \in Nat /\ Len(place) = Len(links) /\ Handles = 1..Len(links)
  BY <1>0, PlacesAre
<1>4. \A x \in Live : x \in Handles /\ x # 0 /\ place[x] \in Handles /\ \A y \in Live : place[x] = place[y] => x = y
  BY <1>0, <1>3, OwnPlaces
<1> HIDE DEF c, N, M
<1>5. ASSUME NEW j \in 1..N
      PROVE  /\ c[j] \in Handles /\ c[j] # 0 /\ place[c[j]] \in Handles
             /\ \A k \in 1..N : (c[j] = c[k] => j = k) /\ (place[c[j]] = place[c[k]] => j = k)
  BY <1>1, <1>4, <1>5 DEF Distinct, N
<1>6. \A j \in 1..N :
        /\ M(j) <=> j <= K \/ j > L
        /\ c[j] \in Handles /\ c[j] # 0 /\ place[c[j]] \in Handles
        /\ links[place[c[j]]].right = Nth(c, j + 1)
        /\ \A k \in 1..N : /\ c[j] = c[k] => j = k
                           /\ place[c[j]] = place[c[k]] => j = k
  BY <1>1, <1>2, <1>5
<1> QED BY <1>6 DEF c, N, M

\* What the steps of the loop need to know of the siblings.
LEMMA SceneIs ==
  ASSUME NEW h, NEW f, NEW K, NEW L, NEW g, Scene(h, f, K, L, g)
  PROVE  /\ Len(Row(h)) \in Nat /\ Len(Row(h)) >= 1 /\ K \in Nat /\ L \in Nat
         /\ 1 <= K /\ K <= L /\ L <= Len(Row(h)) /\ Len(Row(h)) <= L + 1
         /\ L < Len(Row(h)) => K < L
         /\ Len(links) \in Nat /\ Len(place) = Len(links) /\ Handles = 1..Len(links)
         /\ Row(h)[1] = FirstSame(h)
         /\ \A i \in 1..Len(Row(h)) :
              /\ Merges(Row(h)[i], h) <=> i <= K \/ i > L
              /\ Row(h)[i] \in Handles /\ Row(h)[i] \in Live \ {1} /\ Row(h)[i] # 0
              /\ place[Row(h)[i]] \in Handles /\ place[Row(h)[i]] \in InUse
              /\ links[place[Row(h)[i]]].right = Nth(Row(h), i + 1)
              /\ \A j \in 1..Len(Row(h)) : /\ Row(h)[i] = Row(h)[j] => i = j
                                           /\ place[Row(h)[i]] = place[Row(h)[j]] => i = j
         /\ \A e : Below(h, e) => /\ e \in Handles /\ e # 0 /\ e # 1 /\ place[e] \in Handles /\ e \in Live
                                  /\ \A j \in 1..Len(Row(h)) : e # Row(h)[j] /\ place[e] # place[Row(h)[j]]
                                  /\ \A d : Below(h, d) /\ place[d] = place[e] => d = e
         /\ \A i \in 0..Len(Row(h)) : /\ g[i] \in Seq(Nat \ {0}) /\ Len(g[i]) \in Nat
                                      /\ \A j \in 1..Len(g[i]) : Below(h, g[i][j])
         /\ \A i \in 0..Len(Row(h)) : \A j, k \in 1..Len(g[i]) : g[i][j] = g[i][k] => j = k
         /\ \A a \in 1..Len(Row(h)) :
              /\ children[place[Row(h)[a]]] \in Seq(Nat \ {0}) /\ Len(children[place[Row(h)[a]]]) \in Nat
              /\ \A b \in 1..Len(children[place[Row(h)[a]]]) : Below(h, children[place[Row(h)[a]]][b])
<1>0. Forest /\ h \in Live \ {1} /\ ~Untidy(h) /\ Siblings(h, f, K, L) /\ Gathers(h, g)
  BY DEF Scene
<1> DEFINE c == Row(h)
           N == Len(c)
<1>1. /\ Distinct(c) /\ N \in Nat /\ N >= 1
      /\ \A i \in 1..N : /\ c[i] \in Live \ {1} /\ place[c[i]] \in InUse
                         /\ links[place[c[i]]].right = Nth(c, i + 1)
      /\ \A a \in 1..N : \A b \in 1..Len(children[place[c[a]]]) :
              /\ children[place[c[a]]][b] \in Live \ {1}
              /\ \A i \in 1..N : children[place[c[a]]][b] # c[i]
  BY <1>0, Apart
<1>2. /\ K \in Nat /\ L \in Nat /\ 1 <= K /\ K <= L /\ L <= N /\ N <= L + 1 /\ (L < N => K < L)
      /\ c[1] = FirstSame(h)
      /\ \A i \in 1..N : Merges(c[i], h) <=> i <= K \/ i > L
  BY <1>0 DEF Siblings
<1>3. Len(links) \in Nat /\ Len(place) = Len(links) /\ Handles = 1..Len(links)
  BY <1>0, PlacesAre
<1>4. \A x \in Live : x \in Handles /\ x # 0 /\ place[x] \in Handles /\ \A y \in Live : place[x] = place[y] => x = y
  BY <1>0, <1>3, OwnPlaces
<1>5. ASSUME NEW i \in 1..N
      PROVE  /\ c[i] \in Handles /\ c[i] # 0 /\ place[c[i]] \in Handles
             /\ \A j \in 1..N : (c[i] = c[j] => i = j) /\ (place[c[i]] = place[c[j]] => i = j)
  BY <1>1, <1>4 DEF Distinct
<1>6. ASSUME NEW e, Below(h, e)
      PROVE  /\ e \in Handles /\ e # 0 /\ e # 1 /\ place[e] \in Handles /\ e \in Live
             /\ \A j \in 1..N : e # c[j] /\ place[e] # place[c[j]]
             /\ \A d : Below(h, d) /\ place[d] = place[e] => d = e
  BY <1>1, <1>4, <1>6 DEF Below
<1>7. ASSUME NEW a \in 1..N
      PROVE  /\ children[place[c[a]]] \in Seq(Nat \ {0}) /\ Len(children[place[c[a]]]) \in Nat
             /\ \A b \in 1..Len(children[place[c[a]]]) : Below(h, children[place[c[a]]][b])
  <2>1. children[place[c[a]]] \in Seq(Nat \ {0}) /\ Len(children[place[c[a]]]) \in Nat
    BY <1>0, <1>1, KidsAre
  <2> QED BY <1>1, <2>1 DEF Below
<1>8. ASSUME NEW i \in 0..N
      PROVE  /\ g[i] \in Seq(Nat \ {0}) /\ Len(g[i]) \in Nat
             /\ \A j \in 1..Len(g[i]) : Below(h, g[i][j])
             /\ \A j, k \in 1..Len(g[i]) : g[i][j] = g[i][k] => j = k
  <2>1. /\ g[i] \in Seq(Live \ {1}) /\ Distinct(g[i])
        /\ \A j \in 1..Len(g[i]) : \E a \in 1..i : /\ Merges(c[a], h)
                                                   /\ \E b \in 1..Len(children[place[c[a]]]) : g[i][j] = children[place[c[a]]][b]
    BY <1>0 DEF Gathers
  <2>2. ASSUME NEW j \in 1..Len(g[i]) PROVE Below(h, g[i][j])
    <3>1. PICK a \in 1..i : \E b \in 1..Len(children[place[c[a]]]) : g[i][j] = children[place[c[a]]][b]
      BY <2>1
    <3>2. a \in 1..N
      BY <1>1
    <3> QED BY <1>7, <3>1, <3>2
  <2>3. \A j \in 1..Len(g[i]) : g[i][j] \in Nat \ {0}
    BY <1>3, <1>6, <2>2
  <2>4. g[i] \in Seq(Nat \ {0})
    BY <2>1, <2>3, Within
  <2> QED BY <2>1, <2>2, <2>4 DEF Distinct
<1> HIDE DEF c, N
<1> QED BY <1>1, <1>2, <1>3, <1>5, <1>6, <1>7, <1>8, Zenon DEF c, N

\* The loop's body for a node that is merged.
LEMMA LoopMerges ==
  ASSUME NEW h, NEW f, NEW K, NEW L, NEW g, Scene(h, f, K, L, g),
         NEW i \in 1..Len(Row(h)), Merges(Row(h)[i], h), NEW s, Midway(h, K, L, g, i - 1, s)
  PROVE  Midway(h, K, L, g, i, MergeOne(s, Row(h)[i], Row(h)[1]))
<1> DEFINE c == Row(h)
           N == Len(c)
           M(j) == Merges(c[j], h)
           x == c[i]
           first == c[1]
           P == place[first]
           a == g[i - 1]
           own == children[place[x]]
           b == g[i]
           pos == s.at[x]
           l1 == IF s.lowest = 0 THEN s.l
                 ELSE [s.l EXCEPT ![s.at[s.lowest]].right = s.l[pos].down]
           ks == ChainFrom(l1, s.at, l1[pos].down)
           at == [s.at EXCEPT ![x] = s.at[first]]
           l2 == IF x = first THEN l1
                 ELSE [l1 EXCEPT ![at[s.m]].right = l1[at[first]].right]
           end == l2[pos].right = 0
           t == MergeOne(s, x, first)
<1>0. Forest /\ ~Untidy(h) /\ Gathers(h, g)
  BY DEF Scene
<1>1. /\ N \in Nat /\ K \in Nat /\ L \in Nat
      /\ 1 <= K /\ K <= L /\ L <= N /\ N <= L + 1 /\ (L < N => K < L)
      /\ Len(links) \in Nat /\ Len(place) = Len(links) /\ Handles = 1..Len(links)
      /\ i \in 1..N /\ i - 1 \in 0..N /\ i \in 0..N /\ 1 \in 1..N
  <2>1. /\ N \in Nat /\ N >= 1 /\ K \in Nat /\ L \in Nat
        /\ 1 <= K /\ K <= L /\ L <= N /\ N <= L + 1 /\ (L < N => K < L)
        /\ Len(links) \in Nat /\ Len(place) = Len(links) /\ Handles = 1..Len(links)
    BY SceneIs
  <2>2. i \in 1..N
    OBVIOUS
  <2> HIDE DEF N
  <2> QED BY <2>1, <2>2
<1>2. \A j \in 1..N :
        /\ M(j) <=> j <= K \/ j > L
        /\ c[j] \in Handles /\ c[j] # 0 /\ place[c[j]] \in Handles
        /\ links[place[c[j]]].right = Nth(c, j + 1)
        /\ \A k \in 1..N : /\ c[j] = c[k] => j = k
                           /\ place[c[j]] = place[c[k]] => j = k
  BY RowIs
<1>3. \A e : Below(h, e) => /\ e \in Handles /\ e # 0 /\ place[e] \in Handles
                            /\ \A j \in 1..N : e # c[j] /\ place[e] # place[c[j]]
                            /\ \A d : Below(h, d) /\ place[d] = place[e] => d = e
  BY SceneIs, SMTT(30)
<1>4. /\ a \in Seq(Nat \ {0}) /\ Len(a) \in Nat
      /\ \A j \in 1..Len(a) : Below(h, a[j])
      /\ \A j, k \in 1..Len(a) : a[j] = a[k] => j = k
      /\ b \in Seq(Nat \ {0}) /\ Len(b) \in Nat
      /\ \A j \in 1..Len(b) : Below(h, b[j])
      /\ \A j, k \in 1..Len(b) : b[j] = b[k] => j = k
      /\ own \in Seq(Nat \ {0}) /\ Len(own) \in Nat
      /\ \A j \in 1..Len(own) : Below(h, own[j])
  <2>0. /\ \A n \in 0..N : /\ g[n] \in Seq(Nat \ {0}) /\ Len(g[n]) \in Nat
                            /\ \A j \in 1..Len(g[n]) : Below(h, g[n][j])
        /\ \A n \in 0..N : \A j, k \in 1..Len(g[n]) : g[n][j] = g[n][k] => j = k
    BY SceneIs, SMTT(30)
  <2>1. /\ a \in Seq(Nat \ {0}) /\ Len(a) \in Nat
        /\ \A j \in 1..Len(a) : Below(h, a[j])
        /\ \A j, k \in 1..Len(a) : a[j] = a[k] => j = k
    BY <1>1, <2>0, ZenonT(30)
  <2>2. /\ b \in Seq(Nat \ {0}) /\ Len(b) \in Nat
        /\ \A j \in 1..Len(b) : Below(h, b[j])
        /\ \A j, k \in 1..Len(b) : b[j] = b[k] => j = k
    BY <1>1, <2>0
  <2>3. own \in Seq(Nat \ {0}) /\ Len(own) \in Nat /\ \A j \in 1..Len(own) : Below(h, own[j])
    BY <1>1, SceneIs, Zenon
  <2> QED BY <2>1, <2>2, <2>3, Zenon
<1>5. b = a \o own
  BY <1>0, <1>1, ZenonT(30) DEF Gathers
<1>6. /\ s \in LoopRecords /\ Len(s.l) = Len(links) /\ Len(s.at) = Len(place)
      /\ \A y \in Handles : s.at[y] = IF \E j \in 1..i - 1 : y = c[j] /\ M(j) THEN P ELSE place[y]
      /\ \A q \in Handles : s.l[q].down = links[q].down
      /\ \A j \in 1..Len(a) : s.l[place[a[j]]].right = Nth(a, j + 1)
      /\ \A q \in Handles : \/ s.l[q].right = links[q].right
                            \/ \E j \in 1..Len(a) : q = place[a[j]]
                            \/ i - 1 = N /\ L < N /\ q = place[c[N - 1]]
      /\ s.leftmost = Nth(a, 1)
      /\ \/ s.lowest = 0 /\ (a = << >> \/ \A k \in (i - 1) + 1..N : M(k) => children[place[c[k]]] = << >>)
         \/ a # << >> /\ s.lowest = a[Len(a)]
      /\ s.next = IF K < i - 1 THEN c[K + 1] ELSE 0
      /\ s.m = IF i - 1 = 0 THEN 0 ELSE IF i - 1 < N THEN c[i - 1]
               ELSE IF Merges(c[i - 1], h) /\ i - 1 # 1 THEN c[i - 2] ELSE 0
  BY DEF Midway
<1>7. s.l \in Seq(LinkRecords) /\ s.at \in Seq(Nat) /\ s.lowest \in Nat /\ s.next \in Nat /\ s.leftmost \in Nat /\ s.m \in Nat
  BY <1>6 DEF LoopRecords
<1>8. t = [s EXCEPT !.l = l2, !.at = at, !.m = IF end THEN @ ELSE x,
                    !.leftmost = IF @ = 0 THEN l1[pos].down ELSE @,
                    !.lowest = IF ks = << >> THEN 0 ELSE Last(ks)]
  BY DEF MergeOne
<1> HIDE DEF t, end, l2, ks, l1, M, c, N
<1>9. pos = place[x] /\ x \in Handles /\ pos \in Handles /\ P \in Handles
  <2>1. ~ \E j \in 1..i - 1 : x = c[j] /\ M(j)
    BY <1>1, <1>2
  <2> QED BY <1>1, <1>2, <1>6, <2>1, Zenon
<1>10. links[pos].down = Nth(own, 1) /\ Nth(own, 1) \in Nat
  <2>1. place[x] \in InUse
    BY <1>0, <1>9, PlacesAre
  <2>2. links[place[x]].down = Nth(own, 1)
    BY <1>0, <2>1, KidsAre
  <2> QED BY <1>4, <1>9, <2>2, NthIs
<1>11. ASSUME NEW e, Below(h, e) PROVE s.at[e] = place[e]
  <2>1. e \in Handles /\ \A j \in 1..N : e # c[j]
    BY <1>3, <1>11
  <2>2. \A j \in 1..i - 1 : j \in 1..N
    BY <1>1
  <2> QED BY <1>6, <2>1, <2>2
<1>12. s.lowest # 0 => s.lowest = a[Len(a)] /\ Len(a) \in 1..Len(a) /\ Below(h, s.lowest)
  <2>1. a # << >> => Len(a) \in 1..Len(a)
    BY <1>4
  <2> QED BY <1>4, <1>6, <2>1
<1> HIDE DEF pos, own, b, a, P, first, x
<1>13. /\ l1 \in Seq(LinkRecords) /\ Len(l1) = Len(links)
       /\ \A q \in Handles : l1[q].down = links[q].down
       /\ \A q \in Handles : l1[q].right = s.l[q].right \/ (s.lowest # 0 /\ q = place[s.lowest])
       /\ s.lowest # 0 => l1[place[s.lowest]].right = Nth(own, 1)
  <2>1. CASE s.lowest = 0
    BY <1>6, <1>7, <2>1 DEF l1
  <2>2. CASE s.lowest # 0
    <3> DEFINE r == place[s.lowest]
               v == s.l[pos].down
    <3>1. s.at[s.lowest] = r /\ r \in 1..Len(s.l)
      BY <1>1, <1>3, <1>6, <1>11, <1>12, <2>2
    <3>2. v = Nth(own, 1) /\ v \in Nat
      BY <1>6, <1>9, <1>10, Zenon
    <3>3. l1 = [s.l EXCEPT ![r].right = v]
      BY <2>2, <3>1 DEF l1
    <3> HIDE DEF r, v
    <3> DEFINE old == s.l
               m == [old EXCEPT ![r].right = v]
    <3>4. /\ m \in Seq(LinkRecords) /\ Len(m) = Len(old) /\ m[r].right = v
          /\ \A q \in 1..Len(old) : m[q].down = old[q].down /\ (q # r => m[q].right = old[q].right)
      <4>1. old \in Seq(LinkRecords) /\ r \in 1..Len(old) /\ v \in Nat
        BY <1>7, <3>1, <3>2
      <4> HIDE DEF old
      <4> QED BY <4>1, RightIs
    <3> HIDE DEF m
    <3>5. l1 = m
      BY <3>3 DEF m
    <3> QED BY <1>1, <1>6, <2>2, <3>2, <3>4, <3>5, Zenon DEF r
  <2> QED BY <2>1, <2>2
\* The lists that are strung together.
<1>14. /\ Len(b) = Len(a) + Len(own)
       /\ \A j \in 1..Len(a) : b[j] = a[j] /\ j \in 1..Len(b)
       /\ \A j \in 1..Len(own) : b[Len(a) + j] = own[j] /\ Len(a) + j \in 1..Len(b)
       /\ \A j \in 1..Len(a) : Nth(b, j) = Nth(a, j)
       /\ \A j \in Nat \ {0} : Nth(b, Len(a) + j) = Nth(own, j)
  <2>0. a \in Seq(Nat \ {0}) /\ own \in Seq(Nat \ {0})
    BY <1>4
  <2>1. /\ Len(a \o own) = Len(a) + Len(own)
        /\ \A j \in 1..Len(a) : (a \o own)[j] = a[j]
        /\ \A j \in 1..Len(own) : (a \o own)[Len(a) + j] = own[j]
    BY <2>0, Joined, SMTT(30)
  <2>2. /\ \A j \in 1..Len(a) : Nth(a \o own, j) = Nth(a, j)
        /\ \A j \in Nat \ {0} : Nth(a \o own, Len(a) + j) = Nth(own, j)
    BY <2>0, NthJoined, ZenonT(60)
  <2> QED BY <1>4, <1>5, <2>1, <2>2, SMTT(60)
<1>15. ASSUME NEW j \in 1..Len(a) PROVE l1[place[b[j]]].right = Nth(b, j + 1)
  <2>1. b[j] = a[j] /\ Below(h, a[j]) /\ place[a[j]] \in Handles
    BY <1>3, <1>4, <1>14, Zenon
  <2>2. CASE j < Len(a)
    <3>1. j + 1 \in 1..Len(a) /\ j # Len(a)
      BY <1>4, <2>2, SMTT(30)
    <3>2. s.lowest # 0 => place[a[j]] # place[s.lowest]
      BY <1>3, <1>4, <1>12, <2>1, <3>1, ZenonT(30)
    <3>3. l1[place[a[j]]].right = Nth(a, j + 1)
      BY <1>6, <1>13, <2>1, <3>2
    <3> QED BY <1>14, <2>1, <3>1, <3>3
  <2>3. CASE j = Len(a)
    <3>1. Nth(b, j + 1) = Nth(own, 1)
      BY <1>14, <2>3
    <3>2. CASE s.lowest # 0
      BY <1>12, <1>13, <2>1, <2>3, <3>1, <3>2
    <3>3. CASE s.lowest = 0
      <4>1. a # << >> /\ ~ (a # << >> /\ s.lowest = a[Len(a)])
        <5>1. a[j] # 0
          BY <1>3, <2>1
        <5> QED BY <1>4, <2>3, <3>3, <5>1
      <4>2. own = << >>
        <5>1. i \in (i - 1) + 1..N /\ M(i)
          BY <1>1 DEF M, c
        <5> QED BY <1>6, <4>1, <5>1 DEF own, x
      <4>3. Nth(own, 1) = 0
        <5>1. 1 \notin 1..Len(<< >>)
          OBVIOUS
        <5> QED BY <4>2, <5>1 DEF Nth
      <4>4. l1[place[a[j]]].right = Nth(a, j + 1)
        BY <1>6, <1>13, <2>1, <3>3
      <4>5. j + 1 \notin 1..Len(a)
        BY <1>4, <2>3
      <4> QED BY <2>1, <3>1, <4>3, <4>4, <4>5 DEF Nth
    <3> QED BY <3>2, <3>3
  <2> QED BY <1>4, <2>2, <2>3
<1>16. ASSUME NEW j \in 1..Len(own) PROVE /\ l1[place[own[j]]].right = Nth(own, j + 1)
                                          /\ Below(h, own[j])
  <2>1. b[Len(a) + j] = own[j] /\ Below(h, own[j]) /\ place[own[j]] \in Handles /\ Len(a) + j \in 1..Len(b)
    BY <1>3, <1>4, <1>14, Zenon
  <2>2. ASSUME NEW k \in 1..Len(a) PROVE place[own[j]] # place[a[k]]
    <3>1. Len(a) + j # k
      BY <1>4
    <3>2. b[k] = a[k] /\ k \in 1..Len(b) /\ Below(h, a[k])
      BY <1>4, <1>14
    <3>3. own[j] # a[k]
      BY <1>4, <2>1, <3>1, <3>2, Zenon
    <3> QED BY <1>3, <2>1, <3>2, <3>3
  <2>3. l1[place[own[j]]].right = s.l[place[own[j]]].right
    BY <1>12, <1>13, <2>1, <2>2
  <2>4. i - 1 # N
    BY <1>1
  <2>5. s.l[place[own[j]]].right = links[place[own[j]]].right
    BY <1>6, <2>1, <2>2, <2>4
  <2>6. links[place[own[j]]].right = Nth(own, j + 1)
    <3>1. place[x] \in InUse
      BY <1>0, <1>9, PlacesAre
    <3>2. Strung(links, place, own)
      BY <1>0, <3>1, KidsAre DEF own
    <3> QED BY <3>2 DEF Strung
  <2> QED BY <2>1, <2>3, <2>5, <2>6
<1>17. ASSUME NEW j \in 1..Len(b) PROVE l1[place[b[j]]].right = Nth(b, j + 1)
  <2>1. CASE j \in 1..Len(a)
    BY <1>15, <2>1
  <2>2. CASE j \notin 1..Len(a)
    <3>0. Len(a) \in Nat /\ Len(own) \in Nat /\ Len(b) = Len(a) + Len(own) /\ j \in 1..Len(b)
      BY <1>4, <1>14
    <3>1. j - Len(a) \in 1..Len(own) /\ Len(a) + (j - Len(a)) = j /\ (j - Len(a)) + 1 \in Nat \ {0}
          /\ Len(a) + ((j - Len(a)) + 1) = j + 1
      BY <2>2, <3>0
    <3> DEFINE k == j - Len(a)
    <3> HIDE DEF k
    <3>2. k \in 1..Len(own) /\ Len(a) + k = j /\ k + 1 \in Nat \ {0} /\ Len(a) + (k + 1) = j + 1
      BY <3>1 DEF k
    <3>3. b[j] = own[k] /\ Nth(b, j + 1) = Nth(own, k + 1)
      BY <1>14, <3>2, Zenon
    <3> QED BY <1>16, <3>2, <3>3
  <2> QED BY <2>1, <2>2
<1>18. ks = own
  <2>1. Strung(l1, s.at, own)
    BY <1>11, <1>16 DEF Strung
  <2>2. \A j \in 1..Len(own) : own[j] \in 1..Len(s.at)
    BY <1>1, <1>3, <1>4, <1>6, Zenon
  <2>3. own \in Seq(1..Len(s.at))
    BY <1>4, <2>2, Within
  <2>4. Len(own) <= Len(l1)
    <3>1. place[x] \in InUse
      BY <1>0, <1>9, PlacesAre
    <3>2. Len(own) <= Len(alpha) /\ Len(links) = Len(alpha)
      BY <1>0, <3>1, KidsAre, PlacesAre DEF own
    <3> QED BY <1>13, <3>2
  <2>5. l1[pos].down = Nth(own, 1)
    BY <1>9, <1>10, <1>13
  <2>6. Len(l1) \in Nat /\ Len(s.at) \in Nat
    BY <1>1, <1>6, <1>13
  <2>7. ChainFrom(l1, s.at, l1[pos].down) = own
    BY <2>1, <2>3, <2>4, <2>5, <2>6, ChainIs
  <2> QED BY <2>7 DEF ks
\* The places.
<1>19. s.at[first] = P
  <2>1. first \in Handles
    BY <1>1, <1>2 DEF first
  <2> QED BY <1>6, <2>1 DEF P
<1>20. /\ at \in Seq(Nat) /\ Len(at) = Len(place)
       /\ at[x] = P /\ at[first] = P
       /\ \A y \in Handles : y # x => at[y] = s.at[y]
  <2>1. x \in 1..Len(s.at) /\ P \in Nat /\ first \in 1..Len(s.at) /\ Handles = 1..Len(s.at)
    BY <1>1, <1>2, <1>6, <1>9, SMTT(30) DEF first
  <2>2. at = [s.at EXCEPT ![x] = P]
    BY <1>19
  <2> HIDE DEF at
  <2> QED BY <1>6, <1>7, <1>19, <2>1, <2>2, SMTT(30)
<1> HIDE DEF at
<1>21. ASSUME NEW y \in Handles
       PROVE  at[y] = IF \E j \in 1..i : y = c[j] /\ M(j) THEN P ELSE place[y]
  <2>1. CASE y = x
    <3>1. i \in 1..i /\ y = c[i] /\ M(i)
      BY <1>1, <2>1 DEF x, M, c
    <3> QED BY <1>20, <2>1, <3>1
  <2>2. CASE y # x
    <3>1. (\E j \in 1..i : y = c[j] /\ M(j)) <=> \E j \in 1..i - 1 : y = c[j] /\ M(j)
      <4>1. \A j \in 1..i : y = c[j] => j \in 1..i - 1
        BY <1>1, <2>2 DEF x
      <4>2. \A j \in 1..i - 1 : j \in 1..i
        BY <1>1
      <4> QED BY <4>1, <4>2
    <3> QED BY <1>6, <1>20, <2>2, <3>1
  <2> QED BY <2>1, <2>2
\* removeNode.
<1>22. /\ l2 \in Seq(LinkRecords) /\ Len(l2) = Len(links)
       /\ \A q \in Handles : l2[q].down = links[q].down
       /\ \A q \in Handles : l2[q].right = l1[q].right \/ (i = N /\ L < N /\ q = place[c[N - 1]] /\ 1 <= N - 1)
  <2>1. CASE i = 1
    <3>1. l2 = l1
      BY <2>1 DEF l2, x, first
    <3> QED BY <1>13, <3>1
  <2>2. CASE i # 1
    <3>1. x # first
      BY <1>1, <1>2, <2>2 DEF x, first
    <3>2. i - 1 \in 1..N /\ i - 1 # 0 /\ i - 1 < N /\ i - 1 \in 1..i
      BY <1>1, <2>2
    <3>3. s.m = c[i - 1] /\ c[i - 1] \in Handles
      BY <1>2, <1>6, <3>2
    <3> DEFINE r == at[c[i - 1]]
               v == l1[P].right
    <3>4. l2 = [l1 EXCEPT ![r].right = v]
      BY <1>20, <3>1, <3>3 DEF l2
    <3>5. r = P \/ (r = place[c[i - 1]] /\ ~M(i - 1))
      BY <1>21, <3>2, <3>3
    <3>6. r \in 1..Len(l1) /\ P \in 1..Len(l1) /\ Handles = 1..Len(l1)
      <4>1. place[c[i - 1]] \in Handles
        BY <1>2, <3>2
      <4> HIDE DEF r
      <4> QED BY <1>1, <1>9, <1>13, <3>5, <4>1
    <3>7. v \in Nat
      <4>1. l1[P] \in LinkRecords
        BY <1>13, <3>6
      <4> QED BY <4>1 DEF LinkRecords
    <3> HIDE DEF r, v
    <3> DEFINE m == [l1 EXCEPT ![r].right = v]
    <3>8. /\ m \in Seq(LinkRecords) /\ Len(m) = Len(l1) /\ m[r].right = v
          /\ \A q \in 1..Len(l1) : m[q].down = l1[q].down /\ (q # r => m[q].right = l1[q].right)
      BY <1>13, <3>6, <3>7, RightIs
    <3> HIDE DEF m
    <3>9. l2 = m
      BY <3>4 DEF m
    <3>10. ~M(i - 1) => i = N /\ L < N
      <4>1. M(i)
        BY DEF M, c
      <4>2. (i <= K \/ i > L) /\ (~M(i - 1) => ~ (i - 1 <= K) /\ ~ (i - 1 > L))
        BY <1>1, <1>2, <3>2, <4>1
      <4> QED BY <1>1, <3>2, <4>2
    <3>11. ASSUME NEW q \in Handles PROVE m[q].right = l1[q].right \/ (i = N /\ L < N /\ q = place[c[N - 1]] /\ 1 <= N - 1)
      <4>1. CASE q # r
        BY <3>6, <3>8, <4>1
      <4>2. CASE q = r /\ r = P
        BY <3>8, <4>2 DEF v
      <4>3. CASE q = r /\ r = place[c[i - 1]] /\ ~M(i - 1)
        <5>1. i = N /\ L < N /\ 1 <= N - 1
          BY <1>1, <3>2, <3>10, <4>3
        <5> QED BY <4>3, <5>1
      <4> QED BY <3>5, <4>1, <4>2, <4>3 DEF r
    <3> QED BY <1>13, <3>6, <3>8, <3>9, <3>11
  <2> QED BY <2>1, <2>2
<1>23. ASSUME NEW j \in 1..Len(b) PROVE l2[place[b[j]]].right = Nth(b, j + 1)
  <2>1. Below(h, b[j])
    BY <1>4
  <2>2. 1 <= N - 1 => N - 1 \in 1..N
    BY <1>1
  <2> QED BY <1>3, <1>17, <1>22, <2>1, <2>2, ZenonT(60)
<1>24. ASSUME NEW q \in Handles
       PROVE  \/ l2[q].right = links[q].right
              \/ \E j \in 1..Len(b) : q = place[b[j]]
              \/ i = N /\ L < N /\ q = place[c[N - 1]]
  <2>1. i - 1 # N
    BY <1>1
  <2>2. s.lowest # 0 => \E j \in 1..Len(b) : place[s.lowest] = place[b[j]]
    BY <1>12, <1>14, Zenon
  <2>3. \A j \in 1..Len(a) : j \in 1..Len(b) /\ place[a[j]] = place[b[j]]
    BY <1>14, Zenon
  <2> QED BY <1>6, <1>13, <1>22, <2>1, <2>2, <2>3, ZenonT(40)
<1>25. end <=> i = N
  <2>1. \A j \in 1..Len(b) : pos # place[b[j]]
    BY <1>1, <1>3, <1>4, <1>9, Zenon DEF x
  <2>2. i = N /\ L < N => pos # place[c[N - 1]]
    <3>1. i = N /\ L < N => N - 1 \in 1..N /\ N - 1 # i
      BY <1>1
    <3> QED BY <1>2, <1>9, <3>1 DEF x
  <2>3. l2[pos].right = links[pos].right
    BY <1>9, <1>24, <2>1, <2>2
  <2>4. links[pos].right = Nth(c, i + 1)
    BY <1>1, <1>2, <1>9 DEF x
  <2>5. Nth(c, i + 1) = 0 <=> i = N
    <3>1. i + 1 \in 1..N <=> i # N
      BY <1>1
    <3> QED BY <1>2, <3>1 DEF Nth, N
  <2> QED BY <2>3, <2>4, <2>5 DEF end
<1>26. l1[pos].down = Nth(own, 1)
  BY <1>9, <1>10, <1>13
<1>27. /\ t = [l |-> l2, at |-> at, lowest |-> IF own = << >> THEN 0 ELSE Last(own), next |-> s.next,
               leftmost |-> IF s.leftmost = 0 THEN Nth(own, 1) ELSE s.leftmost,
               m |-> IF i = N THEN s.m ELSE x]
  BY <1>6, <1>8, <1>18, <1>25, <1>26 DEF LoopRecords
<1>28. t.leftmost = Nth(b, 1)
  <2>1. CASE Len(a) = 0
    <3>1. Nth(a, 1) = 0 /\ Nth(b, 0 + 1) = Nth(own, 1)
      <4>1. 1 \notin 1..Len(a) /\ 1 \in Nat \ {0}
        BY <2>1
      <4>2. Nth(b, Len(a) + 1) = Nth(own, 1)
        BY <1>14, <4>1
      <4> QED BY <2>1, <4>1, <4>2 DEF Nth
    <3> QED BY <1>6, <1>27, <3>1
  <2>2. CASE Len(a) # 0
    <3>1. 1 \in 1..Len(a)
      BY <1>4, <2>2
    <3>2. Nth(a, 1) # 0 /\ Nth(b, 1) = Nth(a, 1)
      BY <1>4, <1>14, <3>1, NthIs
    <3> QED BY <1>6, <1>27, <3>2
  <2> QED BY <2>1, <2>2
<1>29. \/ /\ t.lowest = 0
          /\ b = << >> \/ \A k \in i + 1..N : M(k) => children[place[c[k]]] = << >>
       \/ b # << >> /\ t.lowest = b[Len(b)]
  <2>1. CASE own # << >>
    <3>1. t.lowest = own[Len(own)] /\ Len(own) \in 1..Len(own)
      <4>1. Len(own) \in 1..Len(own)
        BY <1>4, <2>1
      <4> QED BY <1>27, <2>1, <4>1 DEF Last
    <3>2. b[Len(b)] = own[Len(own)] /\ Len(b) # 0
      <4>1. Len(a) \in Nat /\ Len(own) \in Nat /\ Len(b) = Len(a) + Len(own)
        BY <1>4, <1>14
      <4>2. b[Len(a) + Len(own)] = own[Len(own)]
        BY <1>14, <3>1
      <4> QED BY <3>1, <4>1, <4>2
    <3>3. b # << >>
      BY <3>2
    <3> QED BY <3>1, <3>2, <3>3
  <2>2. CASE own = << >>
    <3>1. t.lowest = 0
      BY <1>27, <2>2
    <3>2. CASE b = << >>
      BY <3>1, <3>2
    <3>3. CASE b # << >>
      <4>1. 1 \in 1..Len(b)
        BY <1>4, <3>3
      <4>2. PICK k \in 1..i : M(k) /\ \E d \in 1..Len(children[place[c[k]]]) : b[1] = children[place[c[k]]][d]
        BY <1>0, <1>1, <4>1, SMTT(30) DEF Gathers, b, M, c
      <4>3. children[place[c[k]]] # << >>
        BY <4>2
      <4>4. k # i /\ k \in 1..N /\ k < i
        <5>1. k # i
          BY <2>2, <4>3 DEF own, x
        <5> QED BY <1>1, <5>1
      <4>5. ASSUME NEW j \in i + 1..N, M(j) PROVE children[place[c[j]]] = << >>
        <5> SUFFICES ASSUME children[place[c[j]]] # << >> PROVE FALSE
          OBVIOUS
        <5>1. j \in 1..N /\ i < j
          BY <1>1
        <5>2. \A e \in 1..N : Td(links, place, c[e]).down = 0 <=> children[place[c[e]]] = << >>
          <6> SUFFICES ASSUME NEW e \in 1..N
                       PROVE  Td(links, place, c[e]).down = 0 <=> children[place[c[e]]] = << >>
            OBVIOUS
          <6> DEFINE ch == children[place[c[e]]]
          <6>1. place[c[e]] \in InUse
            BY <1>0, <1>2, PlacesAre, Zenon
          <6>2. ch \in Seq(Nat \ {0}) /\ Td(links, place, c[e]).down = Nth(ch, 1)
            BY <1>0, <6>1, KidsAre, Zenon DEF Td
          <6> HIDE DEF ch
          <6>3. Nth(ch, 1) = 0 <=> 1 \notin 1..Len(ch)
            BY <6>2, NthIs
          <6>4. 1 \notin 1..Len(ch) <=> ch = << >>
            BY <6>2
          <6> QED BY <6>2, <6>3, <6>4 DEF ch
        <5>3. DOMAIN c = 1..N /\ first = FirstSame(h)
          <6>1. c \in Seq(Handles \ {1})
            BY DEF Scene, Siblings, c
          <6>2. first = FirstSame(h)
            BY SceneIs DEF first, c
          <6> QED BY <6>1, <6>2 DEF N
        <5>4. Joins(c[k], h) /\ Joins(c[i], h) /\ Joins(c[j], h)
          <6>1. M(i)
            BY DEF M, c
          <6> QED BY <4>2, <4>5, <6>1 DEF Joins, M
        <5>5. ~ (\E p, q, r \in DOMAIN c :
                   /\ p < q /\ q < r /\ Joins(c[p], h) /\ Joins(c[q], h) /\ Joins(c[r], h)
                   /\ ~ (Td(links, place, c[p]).down = 0) /\ Td(links, place, c[q]).down = 0 /\ ~ (Td(links, place, c[r]).down = 0))
          BY <1>0 DEF Untidy, Row, c
        <5>6. ~ (Td(links, place, c[k]).down = 0) /\ Td(links, place, c[i]).down = 0 /\ ~ (Td(links, place, c[j]).down = 0)
          BY <1>1, <2>2, <4>3, <4>4, <5>1, <5>2 DEF own, x
        <5> QED BY <1>1, <4>4, <5>1, <5>3, <5>4, <5>5, <5>6, Zenon
      <4> QED BY <3>1, <4>5
    <3> QED BY <3>2, <3>3
  <2> QED BY <2>1, <2>2
<1>30. t.next = IF K < i THEN c[K + 1] ELSE 0
  <2>1. i <= K \/ i > L
    <3>1. M(i)
      BY DEF M, c
    <3> QED BY <1>1, <1>2, <3>1
  <2>2. K < i <=> K < i - 1
    BY <1>1, <2>1
  <2> QED BY <1>6, <1>27, <2>2
<1>31. t.m = IF i = 0 THEN 0 ELSE IF i < N THEN c[i] ELSE IF Merges(c[i], h) /\ i # 1 THEN c[i - 1] ELSE 0
  <2>1. i # 0 /\ (i < N <=> i # N) /\ Merges(c[i], h) /\ i - 1 < N
    BY <1>1 DEF c
  <2>2. i - 1 = 0 <=> i = 1
    BY <1>1
  <2> QED BY <1>6, <1>27, <2>1, <2>2 DEF x
<1>32. t \in LoopRecords
  <2>1. (IF own = << >> THEN 0 ELSE Last(own)) \in Nat
    <3>1. own # << >> => Len(own) \in 1..Len(own)
      BY <1>4
    <3> QED BY <1>4, <3>1 DEF Last
  <2>2. (IF s.leftmost = 0 THEN Nth(own, 1) ELSE s.leftmost) \in Nat
    BY <1>7, <1>10
  <2>3. (IF i = N THEN s.m ELSE x) \in Nat
    BY <1>1, <1>7, <1>9
  <2> QED BY <1>7, <1>20, <1>22, <1>27, <2>1, <2>2, <2>3 DEF LoopRecords
<1>33. t.l = l2 /\ t.at = at
  BY <1>27, SMTT(30)
<1>34. Midway(h, K, L, g, i, t)
  BY <1>20, <1>21, <1>22, <1>23, <1>24, <1>28, <1>29, <1>30, <1>31, <1>32, <1>33 DEF Midway, c, N, M, b, P, first
<1> QED BY <1>34 DEF t, x, first, c

\* The loop's body for a node that is not merged.
LEMMA LoopPasses ==
  ASSUME NEW h, NEW f, NEW K, NEW L, NEW g, Scene(h, f, K, L, g),
         NEW i \in 1..Len(Row(h)), ~Merges(Row(h)[i], h), NEW s, Midway(h, K, L, g, i - 1, s)
  PROVE  Midway(h, K, L, g, i, PassOne(s, Row(h)[i]))
<1> DEFINE c == Row(h)
           N == Len(c)
           M(j) == Merges(c[j], h)
           x == c[i]
           P == place[c[1]]
           a == g[i - 1]
           t == PassOne(s, x)
<1>0. Gathers(h, g)
  BY DEF Scene
<1>1. /\ N \in Nat /\ K \in Nat /\ L \in Nat
      /\ 1 <= K /\ K <= L /\ L <= N /\ N <= L + 1 /\ (L < N => K < L)
      /\ i \in 1..N /\ i - 1 \in 0..N /\ i \in 0..N
  <2>1. /\ N \in Nat /\ N >= 1 /\ K \in Nat /\ L \in Nat
        /\ 1 <= K /\ K <= L /\ L <= N /\ N <= L + 1 /\ (L < N => K < L)
    BY SceneIs
  <2>2. i \in 1..N
    OBVIOUS
  <2> HIDE DEF N
  <2> QED BY <2>1, <2>2
<1>2. \A j \in 1..N :
        /\ M(j) <=> j <= K \/ j > L
        /\ c[j] \in Handles /\ c[j] # 0 /\ place[c[j]] \in Handles
        /\ links[place[c[j]]].right = Nth(c, j + 1)
        /\ \A k \in 1..N : /\ c[j] = c[k] => j = k
                           /\ place[c[j]] = place[c[k]] => j = k
  BY RowIs
<1>3. \A e : Below(h, e) => \A j \in 1..N : place[e] # place[c[j]]
  <2>1. \A e : Below(h, e) => \A j \in 1..N : e # c[j] /\ place[e] # place[c[j]]
    BY SceneIs
  <2> QED BY <2>1
<1>4. \A j \in 1..Len(a) : Below(h, a[j])
  <2>1. \A n \in 0..N : \A j \in 1..Len(g[n]) : Below(h, g[n][j])
    BY SceneIs, Zenon
  <2> QED BY <1>1, <2>1, Zenon
<1>5. g[i] = a
  BY <1>0, <1>1, Zenon DEF Gathers
<1>6. /\ s \in LoopRecords /\ Len(s.l) = Len(links) /\ Len(s.at) = Len(place)
      /\ \A y \in Handles : s.at[y] = IF \E j \in 1..i - 1 : y = c[j] /\ M(j) THEN P ELSE place[y]
      /\ \A q \in Handles : s.l[q].down = links[q].down
      /\ \A j \in 1..Len(a) : s.l[place[a[j]]].right = Nth(a, j + 1)
      /\ \A q \in Handles : \/ s.l[q].right = links[q].right
                            \/ \E j \in 1..Len(a) : q = place[a[j]]
                            \/ i - 1 = N /\ L < N /\ q = place[c[N - 1]]
      /\ s.leftmost = Nth(a, 1)
      /\ \/ s.lowest = 0 /\ (a = << >> \/ \A k \in (i - 1) + 1..N : M(k) => children[place[c[k]]] = << >>)
         \/ a # << >> /\ s.lowest = a[Len(a)]
      /\ s.next = IF K < i - 1 THEN c[K + 1] ELSE 0
  BY DEF Midway
<1>7. t = [s EXCEPT !.next = IF @ = 0 THEN x ELSE @, !.m = IF s.l[s.at[x]].right = 0 THEN 0 ELSE x]
  BY SMTT(30) DEF PassOne
<1> HIDE DEF t, c, N, M, a
<1>8. ~M(i) /\ i > K
  <2>1. ~M(i)
    BY DEF M, c
  <2> QED BY <1>1, <1>2, <2>1
<1>9. s.at[x] = place[x]
  <2>1. ~ \E j \in 1..i - 1 : x = c[j] /\ M(j)
    BY <1>1, <1>2
  <2> QED BY <1>1, <1>2, <1>6, <2>1
<1>10. s.l[place[x]].right = Nth(c, i + 1)
  <2>1. i - 1 # N
    BY <1>1
  <2>2. \A j \in 1..Len(a) : place[x] # place[a[j]]
    BY <1>1, <1>3, <1>4
  <2>3. place[x] \in Handles /\ links[place[x]].right = Nth(c, i + 1)
    BY <1>1, <1>2
  <2>4. \A q \in Handles : \/ s.l[q].right = links[q].right
                            \/ \E j \in 1..Len(a) : q = place[a[j]]
    BY <1>6, <2>1
  <2> QED BY <2>2, <2>3, <2>4
<1>11. Nth(c, i + 1) = 0 <=> i = N
  <2>1. i + 1 \in 1..N <=> i # N
    BY <1>1
  <2> QED BY <1>2, <2>1 DEF Nth, N
<1>12. t.m = (IF i = N THEN 0 ELSE x) /\ t.next = (IF s.next = 0 THEN x ELSE s.next)
       /\ t.l = s.l /\ t.at = s.at /\ t.lowest = s.lowest /\ t.leftmost = s.leftmost
  BY <1>6, <1>7, <1>9, <1>10, <1>11, SMTT(30) DEF LoopRecords
<1>13. t \in LoopRecords
  <2>1. x \in Nat
    <3>1. x \in Handles
      BY <1>1, <1>2
    <3>2. Len(links) \in Nat /\ Handles = 1..Len(links)
      BY SceneIs
    <3> QED BY <3>1, <3>2
  <2> QED BY <1>6, <1>7, <2>1 DEF LoopRecords
<1>14. \A y \in Handles : t.at[y] = IF \E j \in 1..i : y = c[j] /\ M(j) THEN P ELSE place[y]
  <2> SUFFICES ASSUME NEW y \in Handles
               PROVE  t.at[y] = IF \E j \in 1..i : y = c[j] /\ M(j) THEN P ELSE place[y]
    OBVIOUS
  <2>1. \A j \in 1..i : M(j) => j \in 1..i - 1
    BY <1>1, <1>8
  <2>2. \A j \in 1..i - 1 : j \in 1..i
    BY <1>1
  <2>3. (\E j \in 1..i : y = c[j] /\ M(j)) <=> \E j \in 1..i - 1 : y = c[j] /\ M(j)
    BY <2>1, <2>2
  <2> QED BY <1>6, <1>12, <2>3
<1>15. t.next = IF K < i THEN c[K + 1] ELSE 0
  <2>1. CASE K < i - 1
    <3>1. c[K + 1] # 0
      BY <1>1, <1>2, <2>1
    <3> QED BY <1>1, <1>6, <1>8, <1>12, <2>1, <3>1
  <2>2. CASE ~ (K < i - 1)
    <3>1. K + 1 = i
      BY <1>1, <1>8, <2>2
    <3> QED BY <1>6, <1>8, <1>12, <2>2, <3>1
  <2> QED BY <2>1, <2>2
<1>16. t.m = IF i = 0 THEN 0 ELSE IF i < N THEN c[i] ELSE IF Merges(c[i], h) /\ i # 1 THEN c[i - 1] ELSE 0
  <2>1. i # 0 /\ (i < N <=> i # N) /\ ~Merges(c[i], h)
    BY <1>1 DEF c
  <2> QED BY <1>12, <2>1
<1>17. \A q \in Handles : s.l[q].right = links[q].right \/ \E j \in 1..Len(a) : q = place[a[j]]
  <2>1. i - 1 # N
    BY <1>1
  <2> QED BY <1>6, <2>1
<1>18. \A k \in i + 1..N : k \in (i - 1) + 1..N
  BY <1>1
<1>19. \/ t.lowest = 0 /\ (a = << >> \/ \A k \in i + 1..N : M(k) => children[place[c[k]]] = << >>)
       \/ a # << >> /\ t.lowest = a[Len(a)]
  BY <1>6, <1>12, <1>18, SMTT(30)
<1>20. Midway(h, K, L, g, i, t)
  BY <1>5, <1>6, <1>12, <1>13, <1>14, <1>15, <1>16, <1>17, <1>19 DEF Midway, c, N, M
<1> QED BY <1>20 DEF t, c

\* The loop before its first node.
LEMMA LoopBegins ==
  ASSUME NEW h, NEW f, NEW K, NEW L, NEW g, Scene(h, f, K, L, g)
  PROVE  Midway(h, K, L, g, 0, Beginning)
<1>1. /\ Beginning \in LoopRecords
      /\ Beginning.l = links /\ Beginning.at = place /\ Beginning.lowest = 0 /\ Beginning.next = 0
      /\ Beginning.leftmost = 0 /\ Beginning.m = 0
  <2>1. links \in Seq(LinkRecords) /\ place \in Seq(Nat)
    BY DEF Scene, Forest, Shape, LinkRecords
  <2> QED BY <2>1 DEF Beginning, LoopRecords
<1>2. g[0] = << >> /\ Nth(<< >>, 1) = 0 /\ Len(<< >>) = 0
  <2>1. 1 \notin 1..Len(<< >>) /\ Len(<< >>) = 0
    OBVIOUS
  <2> QED BY <2>1 DEF Scene, Gathers, Nth
<1>3. K \in Nat /\ ~ (K < 0)
  BY SceneIs
<1>4. (~ \E j \in 1..0 : TRUE) /\ ~ (0 < 0)
  OBVIOUS
<1>5. Handles \subseteq Nat
  BY SceneIs
<1> QED BY <1>1, <1>2, <1>3, <1>4 DEF Midway

\* What a tidy merge makes of the links and of the indirection table.
Mergence(h, K, L, j, l, at) ==
  LET c == Row(h)
      N == Len(c)
      P == place[c[1]]
  IN  /\ l \in Seq(LinkRecords) /\ Len(l) = Len(links) /\ at \in Seq(Nat) /\ Len(at) = Len(place)
      /\ \A x \in Handles : at[x] = IF \E i \in 1..N : x = c[i] /\ Merges(c[i], h) THEN P ELSE place[x]
      /\ l[P].down = Nth(j, 1)
      /\ \A q \in Handles \ {P} : l[q].down = links[q].down
      /\ \A i \in 1..Len(j) : l[place[j[i]]].right = Nth(j, i + 1)
      /\ l[P].right = IF K < N THEN c[K + 1] ELSE 0
      /\ L < N => l[place[c[N - 1]]].right = 0
      /\ \A q \in Handles : \/ l[q].right = links[q].right
                            \/ q = P
                            \/ \E i \in 1..Len(j) : q = place[j[i]]
                            \/ L < N /\ q = place[c[N - 1]]

\* Behind the last node the loop has merged, and the ends are tied together.
LEMMA Finishing ==
  ASSUME NEW h, NEW f, NEW K, NEW L, NEW g, Scene(h, f, K, L, g),
         NEW s, Midway(h, K, L, g, Len(Row(h)), s)
  PROVE  Mergence(h, K, L, g[Len(Row(h))], Finish(s, Row(h)[1]).links, Finish(s, Row(h)[1]).place)
<1> DEFINE c == Row(h)
           N == Len(c)
           M(i) == Merges(c[i], h)
           P == place[c[1]]
           j == g[N]
           tied == Tied(s, c[1])
           l == IF s.m = 0 THEN tied ELSE [tied EXCEPT ![s.at[s.m]].right = 0]
<1>0. Finish(s, c[1]).links = l /\ Finish(s, c[1]).place = s.at
  BY DEF Finish
<1>1. /\ N \in Nat /\ N >= 1 /\ K \in Nat /\ L \in Nat
      /\ 1 <= K /\ K <= L /\ L <= N /\ N <= L + 1 /\ (L < N => K < L)
      /\ Len(links) \in Nat /\ Handles = 1..Len(links)
  BY SceneIs
<1>2. \A i \in 1..N :
        /\ M(i) <=> i <= K \/ i > L
        /\ c[i] \in Handles /\ c[i] # 0 /\ place[c[i]] \in Handles
        /\ \A k \in 1..N : (c[i] = c[k] => i = k) /\ (place[c[i]] = place[c[k]] => i = k)
  BY SceneIs
<1>3. /\ j \in Seq(Nat \ {0}) /\ \A i \in 1..Len(j) : Below(h, j[i])
      /\ \A e : Below(h, e) => place[e] \in Handles /\ \A i \in 1..N : place[e] # place[c[i]]
  <2>1. \A n \in 0..N : g[n] \in Seq(Nat \ {0}) /\ \A i \in 1..Len(g[n]) : Below(h, g[n][i])
    BY SceneIs
  <2>2. N \in 0..N
    BY <1>1
  <2>3. \A e : Below(h, e) => place[e] \in Handles /\ \A i \in 1..N : place[e] # place[c[i]]
    BY SceneIs
  <2> QED BY <2>1, <2>2, <2>3
<1>4. /\ s \in LoopRecords /\ Len(s.l) = Len(links) /\ Len(s.at) = Len(place)
      /\ \A y \in Handles : s.at[y] = IF \E i \in 1..N : y = c[i] /\ M(i) THEN P ELSE place[y]
      /\ \A q \in Handles : s.l[q].down = links[q].down
      /\ \A i \in 1..Len(j) : s.l[place[j[i]]].right = Nth(j, i + 1)
      /\ \A q \in Handles : \/ s.l[q].right = links[q].right
                            \/ \E i \in 1..Len(j) : q = place[j[i]]
                            \/ N = N /\ L < N /\ q = place[c[N - 1]]
      /\ s.leftmost = Nth(j, 1)
      /\ s.next = IF K < N THEN c[K + 1] ELSE 0
      /\ s.m = IF N = 0 THEN 0 ELSE IF N < N THEN c[N]
               ELSE IF Merges(c[N], h) /\ N # 1 THEN c[N - 1] ELSE 0
  BY SMTT(30) DEF Midway
<1>5. s.l \in Seq(LinkRecords) /\ s.at \in Seq(Nat) /\ s.next \in Nat /\ s.leftmost \in Nat
  BY <1>4 DEF LoopRecords
<1> DEFINE old == s.l
           at == s.at
           next == s.next
           down == s.leftmost
           m1 == [old EXCEPT ![P].right = next]
           m2 == [m1 EXCEPT ![P].down = down]
<1> HIDE DEF c, N, M, j
<1>6. at[c[1]] = P /\ P \in Handles /\ M(1) /\ 1 \in 1..N
  <2>1. 1 \in 1..N /\ M(1) /\ c[1] \in Handles /\ P \in Handles
    BY <1>1, <1>2
  <2> QED BY <1>4, <2>1
<1>7. tied = m2
  BY <1>6 DEF Tied
<1> HIDE DEF tied
<1>8. /\ old \in Seq(LinkRecords) /\ Len(old) = Len(links) /\ P \in 1..Len(old) /\ next \in Nat /\ down \in Nat
      /\ Handles = 1..Len(old)
  BY <1>1, <1>4, <1>5, <1>6
<1>9. s.m = (IF M(N) /\ N # 1 THEN c[N - 1] ELSE 0)
  <2>1. N # 0 /\ ~ (N < N)
    BY <1>1
  <2> QED BY <1>4, <2>1 DEF M
<1>10. /\ \A q \in Handles : old[q].down = links[q].down
       /\ \A i \in 1..Len(j) : old[place[j[i]]].right = Nth(j, i + 1)
       /\ \A q \in Handles : \/ old[q].right = links[q].right
                             \/ \E i \in 1..Len(j) : q = place[j[i]]
                             \/ L < N /\ q = place[c[N - 1]]
       /\ down = Nth(j, 1) /\ next = IF K < N THEN c[K + 1] ELSE 0
  BY <1>4
<1> HIDE DEF old, next, down
<1>11. /\ m1 \in Seq(LinkRecords) /\ Len(m1) = Len(old) /\ m1[P].right = next
       /\ \A q \in 1..Len(old) : m1[q].down = old[q].down /\ (q # P => m1[q].right = old[q].right)
  BY <1>8, RightIs
<1> HIDE DEF m1
<1>12. /\ m2 \in Seq(LinkRecords) /\ Len(m2) = Len(old) /\ m2[P].down = down
       /\ \A q \in 1..Len(old) : m2[q].right = m1[q].right /\ (q # P => m2[q].down = m1[q].down)
  <2>1. P \in 1..Len(m1) /\ down \in Nat
    BY <1>8, <1>11
  <2> QED BY <1>11, <2>1, DownIs
<1> HIDE DEF m2
<1>13. ASSUME s.m # 0
       PROVE  /\ N - 1 \in 1..N /\ s.m = c[N - 1]
              /\ \/ K = N /\ at[s.m] = P
                 \/ L < N /\ at[s.m] = place[c[N - 1]]
  <2>1. M(N) /\ N # 1 /\ s.m = c[N - 1] /\ N - 1 \in 1..N /\ N \in 1..N
    BY <1>1, <1>9, <1>13
  <2>2. CASE M(N - 1)
    <3>1. K = N
      BY <1>1, <1>2, <2>1, <2>2
    <3>2. at[s.m] = P
      BY <1>2, <1>4, <2>1, <2>2
    <3> QED BY <2>1, <3>1, <3>2
  <2>3. CASE ~M(N - 1)
    <3>1. L < N
      BY <1>1, <1>2, <2>1, <2>3
    <3>2. at[s.m] = place[c[N - 1]]
      <4>1. ~ \E i \in 1..N : s.m = c[i] /\ M(i)
        BY <1>2, <2>1, <2>3
      <4>2. s.m \in Handles
        BY <1>2, <2>1
      <4> QED BY <1>4, <2>1, <4>1, <4>2
    <3> QED BY <2>1, <3>1, <3>2
  <2> QED BY <2>2, <2>3
<1>14. L < N => s.m # 0 /\ P # place[c[N - 1]] /\ N - 1 \in 1..N
  <2> SUFFICES ASSUME L < N PROVE s.m # 0 /\ P # place[c[N - 1]] /\ N - 1 \in 1..N
    OBVIOUS
  <2>1. N \in 1..N /\ N > L /\ N # 1 /\ N - 1 \in 1..N /\ N - 1 # 1
    BY <1>1
  <2> QED BY <1>2, <1>6, <1>9, <2>1
<1>15. /\ l \in Seq(LinkRecords) /\ Len(l) = Len(old)
       /\ \A q \in 1..Len(old) : l[q].down = m2[q].down
       /\ \A q \in 1..Len(old) : ~ (s.m # 0 /\ q = at[s.m]) => l[q].right = m2[q].right
       /\ s.m # 0 => l[at[s.m]].right = 0
  <2>1. CASE s.m = 0
    BY <1>7, <1>12, <2>1
  <2>2. CASE s.m # 0
    <3> DEFINE r == at[s.m]
               none == 0
               m3 == [m2 EXCEPT ![r].right = none]
    <3>1. l = m3
      BY <1>7, <2>2
    <3>2. r \in 1..Len(m2)
      BY <1>2, <1>6, <1>8, <1>12, <1>13, <2>2
    <3> HIDE DEF r, l
    <3>2a. none \in Nat
      OBVIOUS
    <3> HIDE DEF none
    <3>3. /\ m3 \in Seq(LinkRecords) /\ Len(m3) = Len(m2) /\ m3[r].right = none
          /\ \A q \in 1..Len(m2) : m3[q].down = m2[q].down /\ (q # r => m3[q].right = m2[q].right)
      <4>1. m2 \in Seq(LinkRecords) /\ r \in 1..Len(m2) /\ none \in Nat
        BY <1>12, <3>2, <3>2a
      <4> QED BY <4>1, RightIs
    <3> HIDE DEF m3
    <3> QED BY <1>12, <2>2, <3>1, <3>3 DEF r, none
  <2> QED BY <2>1, <2>2
<1> HIDE DEF l, at
<1>16. l[P].down = Nth(j, 1) /\ \A q \in Handles \ {P} : l[q].down = links[q].down
  BY <1>8, <1>10, <1>11, <1>12, <1>15
<1>17. ASSUME NEW q \in Handles, q # P, ~ (L < N /\ q = place[c[N - 1]]) PROVE l[q].right = old[q].right
  BY <1>8, <1>11, <1>12, <1>13, <1>15, <1>17
<1>18. \A i \in 1..Len(j) : l[place[j[i]]].right = Nth(j, i + 1)
  <2> SUFFICES ASSUME NEW i \in 1..Len(j) PROVE l[place[j[i]]].right = Nth(j, i + 1)
    OBVIOUS
  <2>1. place[j[i]] \in Handles /\ \A k \in 1..N : place[j[i]] # place[c[k]]
    BY <1>3
  <2> QED BY <1>6, <1>10, <1>14, <1>17, <2>1
<1>19. l[P].right = IF K < N THEN c[K + 1] ELSE 0
  <2>1. CASE s.m # 0 /\ K = N /\ at[s.m] = P
    BY <1>1, <1>15, <2>1
  <2>2. CASE s.m = 0 \/ (L < N /\ at[s.m] = place[c[N - 1]])
    BY <1>6, <1>8, <1>10, <1>11, <1>12, <1>14, <1>15, <2>2
  <2> QED BY <1>13, <2>1, <2>2
<1>20. L < N => l[place[c[N - 1]]].right = 0
  <2>1. L < N => K # N
    BY <1>1
  <2> QED BY <1>13, <1>14, <1>15, <2>1
<1>21. \A q \in Handles : \/ l[q].right = links[q].right
                          \/ q = P
                          \/ \E i \in 1..Len(j) : q = place[j[i]]
                          \/ L < N /\ q = place[c[N - 1]]
  BY <1>10, <1>17
<1>22. /\ at \in Seq(Nat) /\ Len(at) = Len(place)
       /\ \A y \in Handles : at[y] = IF \E i \in 1..N : y = c[i] /\ M(i) THEN P ELSE place[y]
  BY <1>4, <1>5 DEF at
<1>23. l \in Seq(LinkRecords) /\ Len(l) = Len(links)
  BY <1>8, <1>15
<1>24. Mergence(h, K, L, j, l, at)
  BY <1>16, <1>18, <1>19, <1>20, <1>21, <1>22, <1>23 DEF Mergence, c, N, M
<1> QED BY <1>0, <1>24 DEF c, j, N, at

\* What mergeNodes makes of the links and the places.
LEMMA MergedIs ==
  ASSUME NEW h, NEW f, NEW K, NEW L, NEW g, Scene(h, f, K, L, g)
  PROVE  Mergence(h, K, L, g[Len(Row(h))], Merged(h).links, Merged(h).place)
<1> DEFINE c == Row(h)
           N == Len(c)
<1>1. N \in Nat /\ c[1] = FirstSame(h)
  BY SceneIs
<1>2. c = ChainFrom(links, place, c[1])
  BY <1>1 DEF Row
<1>3. PICK s : /\ s[0] = Beginning
               /\ \A i \in 1..N : s[i] = (IF Merges(c[i], h) THEN MergeOne(s[i - 1], c[i], c[1])
                                          ELSE PassOne(s[i - 1], c[i]))
               /\ Merged(h) = Finish(s[N], c[1])
  BY <1>1, <1>2, MergedDef
<1> DEFINE T == {i \in 0..N : Midway(h, K, L, g, i, s[i])}
<1>4. 0 \in T
  BY <1>1, <1>3, LoopBegins
<1>5. ASSUME NEW n \in 0..N - 1, n \in T PROVE n + 1 \in T
  <2>1. n + 1 \in 1..N /\ (n + 1) - 1 = n /\ n + 1 \in 0..N
    BY <1>1
  <2>2. Midway(h, K, L, g, (n + 1) - 1, s[n])
    BY <1>5, <2>1
  <2> DEFINE i == n + 1
  <2> HIDE DEF i
  <2>3. i \in 1..N /\ Midway(h, K, L, g, i - 1, s[n]) /\ i \in 0..N /\ i - 1 = n
    BY <2>1, <2>2 DEF i
  <2>4. CASE Merges(c[i], h)
    <3>1. Midway(h, K, L, g, i, MergeOne(s[n], c[i], c[1]))
      BY <2>3, <2>4, LoopMerges
    <3>2. s[i] = MergeOne(s[n], c[i], c[1])
      BY <1>3, <2>3, <2>4
    <3> QED BY <2>3, <3>1, <3>2 DEF i
  <2>5. CASE ~Merges(c[i], h)
    <3>1. Midway(h, K, L, g, i, PassOne(s[n], c[i]))
      BY <2>3, <2>5, LoopPasses
    <3>2. s[i] = PassOne(s[n], c[i])
      BY <1>3, <2>3, <2>5
    <3> QED BY <2>3, <3>1, <3>2 DEF i
  <2> QED BY <2>4, <2>5
<1> HIDE DEF T
<1>6. N \in T
  <2>1. 0..N \subseteq T
    BY <1>1, <1>4, <1>5, InductionUpTo
  <2> QED BY <1>1, <2>1
<1>7. Midway(h, K, L, g, N, s[N])
  BY <1>6 DEF T
<1> QED BY <1>3, <1>7, Finishing

\* A list without a run of it, and without what is behind the e-th.
Gap(s, S, a, b, e) ==
  /\ a \in Nat /\ b \in Nat /\ e \in Nat /\ a <= b /\ b <= e /\ e <= Len(s)
  /\ \A i \in 1..Len(s) : s[i] \in S <=> (a < i /\ i <= b) \/ i > e

\* A list without a stretch of it, and without its end.
LEMMA WithoutGap ==
  ASSUME NEW X, NEW s \in Seq(X), NEW S, NEW a, NEW b, NEW e, Gap(s, S, a, b, e)
  PROVE  /\ Without(s, S) \in Seq(X) /\ Len(Without(s, S)) = e - (b - a)
         /\ \A j \in 1..e - (b - a) : Without(s, S)[j] = s[IF j <= a THEN j ELSE j + (b - a)]
<1> DEFINE n == Len(s)
           size(i) == IF i <= a THEN i ELSE IF i <= b THEN a ELSE IF i <= e THEN i - (b - a) ELSE e - (b - a)
           src(j) == IF j <= a THEN j ELSE j + (b - a)
<1>1. n \in Nat /\ e <= n /\ a \in Nat /\ b \in Nat /\ e \in Nat /\ a <= b /\ b <= e
  BY DEF Gap
<1>2. PICK f : /\ f[0] = << >>
               /\ \A i \in 1..n : f[i] = (IF s[i] \in S THEN f[i - 1] ELSE Append(f[i - 1], s[i]))
               /\ Without(s, S) = f[n]
  BY <1>1, WithoutDef
<1>3. \A i \in 1..n : s[i] \in X
  OBVIOUS
<1>4. \A i \in 1..n : s[i] \in S <=> (a < i /\ i <= b) \/ i > e
  BY DEF Gap
<1> HIDE DEF n
<1>5. ASSUME NEW i \in 0..n PROVE size(i) \in Nat
  BY <1>1
<1>6. ASSUME NEW i \in 1..n PROVE /\ (a < i /\ i <= b) \/ i > e => size(i) = size(i - 1)
                                  /\ ~ ((a < i /\ i <= b) \/ i > e) => size(i) = size(i - 1) + 1 /\ src(size(i - 1) + 1) = i
  BY <1>1
<1>7. size(n) = e - (b - a) /\ size(0) = 0
  BY <1>1
<1> HIDE DEF size, src
<1> DEFINE G(i) == /\ f[i] \in Seq(X) /\ Len(f[i]) = size(i)
                   /\ \A j \in 1..size(i) : f[i][j] = s[src(j)]
           T == {i \in 0..n : G(i)}
<1>8. 0 \in T
  <2>1. Len(<< >>) = 0 /\ (~ \E j \in 1..0 : TRUE) /\ << >> \in Seq(X) /\ 0 \in 0..n
    BY <1>1
  <2> QED BY <1>2, <1>7, <2>1
<1>9. ASSUME NEW m \in 0..n - 1, m \in T PROVE m + 1 \in T
  <2> DEFINE i == m + 1
  <2>1. i \in 1..n /\ i - 1 = m /\ i \in 0..n
    BY <1>1
  <2> HIDE DEF i
  <2>2. f[m] \in Seq(X) /\ Len(f[m]) = size(m) /\ \A j \in 1..size(m) : f[m][j] = s[src(j)]
    BY <1>9
  <2>3. CASE s[i] \in S
    <3>1. size(i) = size(m) /\ f[i] = f[m]
      BY <1>2, <1>4, <1>6, <2>1, <2>3
    <3> QED BY <2>1, <2>2, <3>1 DEF i
  <2>4. CASE s[i] \notin S
    <3>1. size(i) = size(m) + 1 /\ src(size(m) + 1) = i /\ f[i] = Append(f[m], s[i]) /\ size(m) \in Nat
      <4>1. ~ ((a < i /\ i <= b) \/ i > e) /\ f[i] = Append(f[m], s[i])
        BY <1>2, <1>4, <2>1, <2>4
      <4>2. size(i) = size(i - 1) + 1 /\ src(size(i - 1) + 1) = i
        BY <1>6, <2>1, <4>1
      <4>3. size(m) \in Nat
        BY <1>1, <1>5
      <4> QED BY <2>1, <4>1, <4>2, <4>3
    <3> DEFINE t == f[m]
               x == s[i]
    <3>2. t \in Seq(X) /\ x \in X /\ Len(t) = size(m)
      BY <1>3, <2>1, <2>2
    <3>2a. f[i] = Append(t, x)
      BY <3>1
    <3> HIDE DEF t, x
    <3>3. /\ f[i] \in Seq(X) /\ Len(f[i]) = size(m) + 1 /\ f[i][size(m) + 1] = x
          /\ \A j \in 1..size(m) : f[i][j] = t[j]
      BY <3>2, <3>2a, Appended
    <3>4. ASSUME NEW j \in 1..size(m) + 1 PROVE f[i][j] = s[src(j)]
      <4>1. CASE j = size(m) + 1
        BY <3>1, <3>3, <4>1 DEF x
      <4>2. CASE j \in 1..size(m)
        BY <2>2, <3>3, <4>2 DEF t
      <4>3. \A k \in Nat : \A d \in 1..k + 1 : d = k + 1 \/ d \in 1..k
        OBVIOUS
      <4>4. j = size(m) + 1 \/ j \in 1..size(m)
        BY <3>1, <4>3
      <4> QED BY <4>1, <4>2, <4>4
    <3> QED BY <2>1, <3>1, <3>3, <3>4 DEF i
  <2> QED BY <2>3, <2>4
<1>10. G(n)
  <2> HIDE DEF T
  <2>1. 0..n \subseteq T
    BY <1>1, <1>8, <1>9, InductionUpTo
  <2> QED BY <1>1, <2>1 DEF T
<1> QED BY <1>2, <1>7, <1>10 DEF src

\* A node that is merged into the first one, and leaves the tree.
Gone(h, x) == \E i \in 2..Len(Row(h)) : x = Row(h)[i] /\ Merges(Row(h)[i], h)

\* What remains of the list.
Remainder(h) == Without(Kin(h), Group(h) \ {FirstSame(h)})

\* The group of a tidy merge by positions.
LEMMA GroupIs ==
  ASSUME NEW h, NEW f, NEW K, NEW L, NEW g, Scene(h, f, K, L, g)
  PROVE  /\ \A x : Gone(h, x) <=> x \in Group(h) \ {FirstSame(h)}
         /\ \A x, y : Gone(h, x) /\ y \in Handles /\ place[y] = place[x] => y = x
         /\ \A i \in 1..Len(Kin(h)) : Gone(h, Kin(h)[i]) <=> (f < i /\ i <= f + K - 1) \/ i > f + L - 1
<1> DEFINE c == Row(h)
           N == Len(c)
           kids == Kin(h)
<1>1. /\ N \in Nat /\ N >= 1 /\ K \in Nat /\ L \in Nat /\ 1 <= K /\ K <= L /\ L <= N /\ c[1] = FirstSame(h)
      /\ \A i \in 1..N : /\ Merges(c[i], h) <=> i <= K \/ i > L
                         /\ \A j \in 1..N : c[i] = c[j] => i = j
  BY SceneIs
<1>2. /\ c \in Seq(Handles \ {1}) /\ f \in 1..Len(kids) /\ N = Len(kids) - f + 1
      /\ \A i \in 1..N : c[i] = kids[f + i - 1]
      /\ Forest /\ ~Untidy(h) /\ h \in Live \ {1}
  BY DEF Scene, Siblings
<1>3. ToSet(c) = {c[i] : i \in 1..N}
  <2>1. DOMAIN c = 1..N
    BY <1>2
  <2> QED BY <2>1 DEF ToSet
<1>4. Group(h) = {x \in {c[i] : i \in 1..N} : x = FirstSame(h) \/ Merges(x, h)}
  BY <1>3 DEF Group, Joins, Row
<1>5. ~ \E x \in Group(h) \ {FirstSame(h)} : \E y \in Handles \ {x} : place[y] = place[x]
  BY <1>2 DEF Untidy
<1>6. Len(kids) \in Nat /\ Distinct(kids)
  <2>1. place[alpha[h].parent] \in InUse
    BY <1>2, ParentIs
  <2> QED BY <1>2, <2>1, KidsAre DEF Kin
<1> HIDE DEF kids, c, N
<1>7. ASSUME NEW x PROVE Gone(h, x) <=> x \in Group(h) \ {FirstSame(h)}
  <2>1. ASSUME Gone(h, x) PROVE x \in Group(h) \ {FirstSame(h)}
    <3>1. PICK i \in 2..N : x = c[i] /\ Merges(c[i], h)
      BY <2>1 DEF Gone, c, N
    <3>2. i \in 1..N /\ 1 \in 1..N /\ i # 1
      BY <1>1
    <3>3. x # FirstSame(h)
      BY <1>1, <3>1, <3>2
    <3> QED BY <1>4, <3>1, <3>2, <3>3
  <2>2. ASSUME x \in Group(h), x # FirstSame(h) PROVE Gone(h, x)
    <3>1. PICK i \in 1..N : x = c[i]
      BY <1>4, <2>2
    <3>2. Merges(c[i], h) /\ i # 1
      BY <1>1, <1>4, <2>2, <3>1
    <3>3. i \in 2..N
      BY <1>1, <3>2
    <3> QED BY <3>1, <3>2, <3>3 DEF Gone, c, N
  <2> QED BY <2>1, <2>2
<1>8. ASSUME NEW x, NEW y, Gone(h, x), y \in Handles, place[y] = place[x] PROVE y = x
  BY <1>5, <1>7, <1>8
<1>9. ASSUME NEW i \in 1..Len(kids) PROVE Gone(h, kids[i]) <=> (f < i /\ i <= f + K - 1) \/ i > f + L - 1
  <2>1. ASSUME Gone(h, kids[i]) PROVE (f < i /\ i <= f + K - 1) \/ i > f + L - 1
    <3>1. PICK k \in 2..N : kids[i] = c[k] /\ Merges(c[k], h)
      BY <2>1 DEF Gone, c, N
    <3>2. k \in 1..N /\ f + k - 1 \in 1..Len(kids)
      BY <1>1, <1>2, <1>6
    <3>3. i = f + k - 1
      BY <1>2, <1>6, <3>1, <3>2, Zenon DEF Distinct
    <3>4. k <= K \/ k > L
      BY <1>1, <3>1, <3>2
    <3> QED BY <1>1, <1>2, <1>6, <3>3, <3>4
  <2>2. ASSUME (f < i /\ i <= f + K - 1) \/ i > f + L - 1 PROVE Gone(h, kids[i])
    <3> DEFINE k == i - f + 1
    <3>1. k \in 2..N /\ k \in 1..N /\ f + k - 1 = i /\ (k <= K \/ k > L)
      BY <1>1, <1>2, <1>6, <2>2
    <3> HIDE DEF k
    <3>2. kids[i] = c[k] /\ Merges(c[k], h)
      BY <1>1, <1>2, <3>1, Zenon
    <3> QED BY <3>1, <3>2 DEF Gone, c, N
  <2> QED BY <2>1, <2>2
<1> QED BY <1>7, <1>8, <1>9 DEF kids

\* What remains of the list by positions.
LEMMA RemainderIs ==
  ASSUME NEW h, NEW f, NEW K, NEW L, NEW g, Scene(h, f, K, L, g)
  PROVE  /\ Remainder(h) \in Seq(Nat \ {0}) /\ Len(Remainder(h)) = f + L - K
         /\ \A j \in 1..f + L - K : Remainder(h)[j] = Kin(h)[IF j <= f THEN j ELSE j + (K - 1)]
<1> DEFINE kids == Kin(h)
           S == Group(h) \ {FirstSame(h)}
           b == f + K - 1
           e == f + L - 1
<1>1. /\ K \in Nat /\ L \in Nat /\ 1 <= K /\ K <= L /\ L <= Len(Row(h)) /\ Len(Row(h)) \in Nat
  BY SceneIs
<1>2. Forest /\ h \in Live \ {1} /\ f \in 1..Len(kids) /\ Len(Row(h)) = Len(kids) - f + 1
  BY DEF Scene, Siblings
<1>3. kids \in Seq(Nat \ {0}) /\ Len(kids) \in Nat
  <2>1. place[alpha[h].parent] \in InUse
    BY <1>2, ParentIs
  <2> QED BY <1>2, <2>1, KidsAre DEF Kin
<1>4. \A i \in 1..Len(kids) : kids[i] \in S <=> (f < i /\ i <= b) \/ i > e
  BY GroupIs
<1>5. f \in Nat /\ b \in Nat /\ e \in Nat /\ f <= b /\ b <= e /\ e <= Len(kids) /\ e - (b - f) = f + L - K /\ b - f = K - 1
  BY <1>1, <1>2, <1>3
<1> HIDE DEF kids, S, b, e
<1>6. /\ Without(kids, S) \in Seq(Nat \ {0}) /\ Len(Without(kids, S)) = e - (b - f)
      /\ \A j \in 1..e - (b - f) : Without(kids, S)[j] = kids[IF j <= f THEN j ELSE j + (b - f)]
  <2>1. Gap(kids, S, f, b, e)
    BY <1>4, <1>5 DEF Gap
  <2> DEFINE X == Nat \ {0}
  <2>2. kids \in Seq(X)
    BY <1>3
  <2> HIDE DEF X
  <2>3. /\ Without(kids, S) \in Seq(X) /\ Len(Without(kids, S)) = e - (b - f)
        /\ \A j \in 1..e - (b - f) : Without(kids, S)[j] = kids[IF j <= f THEN j ELSE j + (b - f)]
    BY <2>1, <2>2, WithoutGap
  <2> QED BY <2>3 DEF X
<1> QED BY <1>5, <1>6 DEF Remainder, kids, S

\* What a visit makes of the tree.
Regrouped(h, f, K, L, g) ==
  /\ Scene(h, f, K, L, g) /\ Mergence(h, K, L, g[Len(Row(h))], links', place')
  /\ children' = [children EXCEPT ![place[alpha[h].parent]] = Remainder(h), ![place[Row(h)[1]]] = g[Len(Row(h))]]
  /\ alpha' = alpha

\* What a visit does: to the links and places, and to the lists.
LEMMA VisitIs ==
  ASSUME Forest, NEW h \in Live \ {1}, Visit(h), ~untidy'
  PROVE  \E f, K, L, g : Regrouped(h, f, K, L, g)
<1>1. ~Untidy(h) /\ links' = Merged(h).links /\ place' = Merged(h).place /\ children' = ChildrenMerged(h) /\ alpha' = alpha
  BY DEF Visit
<1>2. PICK f, K, L \in Nat : Siblings(h, f, K, L)
  BY <1>1, SiblingsAre
<1>3. PICK g : Gathers(h, g)
  BY <1>2, Gathering
<1>4. Scene(h, f, K, L, g)
  BY <1>1, <1>2, <1>3 DEF Scene
<1>5. Mergence(h, K, L, g[Len(Row(h))], links', place')
  BY <1>1, <1>4, MergedIs
<1>6. Row(h)[1] = FirstSame(h)
  BY <1>4, SceneIs
<1>7. children' = [children EXCEPT ![place[alpha[h].parent]] = Remainder(h), ![place[Row(h)[1]]] = g[Len(Row(h))]]
  <2>1. children' = [children EXCEPT ![place[alpha[h].parent]] = Without(@, Group(h) \ {FirstSame(h)}),
                                     ![place[FirstSame(h)]] = FlattenSeq(Families(h))]
    BY <1>1 DEF ChildrenMerged, Families, Row
  <2>2. FlattenSeq(Families(h)) = g[Len(Row(h))]
    BY <1>3 DEF Gathers
  <2> QED BY <1>6, <2>1, <2>2 DEF Remainder, Kin
<1> QED BY <1>1, <1>4, <1>5, <1>7 DEF Regrouped

\* The same, of the nodes and of their lists.
Regroupment(h, j) ==
  LET R == place[alpha[h].parent]
      P == place[Row(h)[1]]
      W == Remainder(h)
      kids == Kin(h)
      first == Row(h)[1]
      In(x) == x = first \/ Gone(h, x)
  IN  /\ Handles' = Handles /\ P \in InUse /\ R \in InUse /\ P # R /\ kids = children[R]
      /\ first \in Live \ {1} /\ ~Gone(h, first)
      /\ \E i \in 1..Len(kids) : kids[i] = first
      /\ \A x : Gone(h, x) => /\ x \in Live \ {1} /\ x \in Handles /\ place[x] # R /\ place[x] # P
                              /\ \E i \in 1..Len(kids) : kids[i] = x
                              /\ \A y \in Handles : place[y] = place[x] => y = x
      /\ \A x \in Handles : place'[x] = IF Gone(h, x) THEN P ELSE place[x]
      /\ W \in Seq(Nat \ {0}) /\ Distinct(W)
      /\ \A i \in 1..Len(W) : ~Gone(h, W[i]) /\ \E k \in 1..Len(kids) : W[i] = kids[k]
      /\ \A k \in 1..Len(kids) : ~Gone(h, kids[k]) => \E i \in 1..Len(W) : W[i] = kids[k]
      /\ j \in Seq(Nat \ {0}) /\ Distinct(j)
      /\ \A i \in 1..Len(j) : Below(h, j[i]) /\ \E x : In(x) /\ \E b \in 1..Len(children[place[x]]) : j[i] = children[place[x]][b]
      /\ \A x : In(x) => \A b \in 1..Len(children[place[x]]) : \E i \in 1..Len(j) : j[i] = children[place[x]][b]
      /\ children'[R] = W /\ children'[P] = j
      /\ \A p \in Handles : p # R /\ p # P => children'[p] = children[p]
      /\ children' \in Seq(Seq(Nat)) /\ Len(children') = Len(children)

\* The lists after a visit: those of merged nodes are joined, their nodes are gone.
LEMMA RegroupmentIs ==
  ASSUME NEW h, NEW f, NEW K, NEW L, NEW g, Regrouped(h, f, K, L, g)
  PROVE  Regroupment(h, g[Len(Row(h))])
<1> DEFINE c == Row(h)
           N == Len(c)
           kids == Kin(h)
           par == alpha[h].parent
           R == place[par]
           P == place[c[1]]
           W == Remainder(h)
           j == g[N]
<1>0. Scene(h, f, K, L, g) /\ Mergence(h, K, L, j, links', place') /\ alpha' = alpha
      /\ children' = [children EXCEPT ![R] = W, ![P] = j]
  BY DEF Regrouped
<1>0a. Forest /\ h \in Live \ {1} /\ Siblings(h, f, K, L) /\ Gathers(h, g)
  BY <1>0 DEF Scene
<1>1. /\ N \in Nat /\ N >= 1 /\ K \in Nat /\ L \in Nat
      /\ 1 <= K /\ K <= L /\ L <= N /\ N <= L + 1 /\ (L < N => K < L)
      /\ \A i \in 1..N :
           /\ Merges(c[i], h) <=> i <= K \/ i > L
           /\ c[i] \in Handles /\ c[i] \in Live \ {1} /\ place[c[i]] \in InUse
           /\ \A k \in 1..N : (c[i] = c[k] => i = k) /\ (place[c[i]] = place[c[k]] => i = k)
  BY <1>0, SceneIs
<1>2. \A i \in 1..N : place[c[i]] # R
  BY <1>0a, Apart
<1>3. /\ f \in 1..Len(kids) /\ N = Len(kids) - f + 1 /\ \A i \in 1..N : c[i] = kids[f + i - 1]
  BY <1>0a DEF Siblings
<1>4. par \in Handles /\ R \in InUse
  BY <1>0a, ParentIs
<1>5. /\ kids = children[R] /\ kids \in Seq(Nat \ {0}) /\ Len(kids) \in Nat /\ Distinct(kids)
  BY <1>0a, <1>4, KidsAre DEF Kin
<1>6. /\ \A x, y : Gone(h, x) /\ y \in Handles /\ place[y] = place[x] => y = x
      /\ \A i \in 1..Len(kids) : Gone(h, kids[i]) <=> (f < i /\ i <= f + K - 1) \/ i > f + L - 1
  BY <1>0, GroupIs
<1>7. /\ W \in Seq(Nat \ {0}) /\ Len(W) = f + L - K
      /\ \A i \in 1..f + L - K : W[i] = kids[IF i <= f THEN i ELSE i + (K - 1)]
  BY <1>0, RemainderIs
<1>8. /\ j \in Seq(Nat \ {0}) /\ Distinct(j) /\ \A i \in 1..Len(j) : Below(h, j[i])
  <2>1. \A n \in 0..N : g[n] \in Seq(Nat \ {0}) /\ \A i \in 1..Len(g[n]) : Below(h, g[n][i])
    BY <1>0, SceneIs, Zenon
  <2>2. \A n \in 0..N : \A i, k \in 1..Len(g[n]) : g[n][i] = g[n][k] => i = k
    BY <1>0, SceneIs
  <2>3. N \in 0..N
    BY <1>1
  <2> QED BY <2>1, <2>2, <2>3 DEF Distinct
<1>9. /\ \A i \in 1..Len(j) : \E a \in 1..N : /\ Merges(c[a], h)
                                              /\ \E b \in 1..Len(children[place[c[a]]]) : j[i] = children[place[c[a]]][b]
      /\ \A a \in 1..N : Merges(c[a], h) =>
           \A b \in 1..Len(children[place[c[a]]]) : \E i \in 1..Len(j) : j[i] = children[place[c[a]]][b]
  <2>1. N \in 0..N
    BY <1>1
  <2> QED BY <1>0a, <2>1, Zenon DEF Gathers
<1>10. \A x \in Handles : place'[x] = IF \E i \in 1..N : x = c[i] /\ Merges(c[i], h) THEN P ELSE place[x]
  BY <1>0 DEF Mergence
<1>11. \A x : Gone(h, x) <=> \E i \in 2..N : x = c[i] /\ Merges(c[i], h)
  BY DEF Gone
<1> HIDE DEF c, N, kids, par, R, P, W, j
<1>12. /\ 1 \in 1..N /\ Merges(c[1], h) /\ P = place[c[1]] /\ c[1] \in Live \ {1} /\ c[1] \in Handles /\ P # R /\ P \in InUse
  <2>1. 1 \in 1..N
    BY <1>1
  <2> QED BY <1>1, <1>2, <2>1 DEF P
<1>13. \A i \in 2..N : i \in 1..N /\ i # 1
  BY <1>1
<1>14. ~Gone(h, c[1])
  BY <1>1, <1>11, <1>12, <1>13
<1>15. \A i \in 1..N : f + i - 1 \in 1..Len(kids)
  <2>1. f \in 1..Len(kids) /\ N = Len(kids) - f + 1 /\ Len(kids) \in Nat
    BY <1>3, <1>5
  <2> QED BY <2>1
<1>16. ASSUME NEW x, Gone(h, x)
       PROVE  /\ x \in Live \ {1} /\ x \in Handles /\ place[x] # R /\ place[x] # P
              /\ \E i \in 1..Len(kids) : kids[i] = x
              /\ \A y \in Handles : place[y] = place[x] => y = x
  <2>1. PICK i \in 2..N : x = c[i] /\ Merges(c[i], h)
    BY <1>11, <1>16
  <2>2. i \in 1..N /\ i # 1
    BY <1>13
  <2>3. x \in Live \ {1} /\ x \in Handles /\ place[x] # R /\ place[x] # P
    BY <1>1, <1>2, <1>12, <2>1, <2>2
  <2>4. \E k \in 1..Len(kids) : kids[k] = x
    BY <1>3, <1>15, <2>1, <2>2
  <2>5. \A y \in Handles : place[y] = place[x] => y = x
    BY <1>6, <1>16
  <2> QED BY <2>3, <2>4, <2>5
<1>17. \A x : (\E i \in 1..N : x = c[i] /\ Merges(c[i], h)) <=> x = c[1] \/ Gone(h, x)
  <2> SUFFICES ASSUME NEW x
               PROVE  (\E i \in 1..N : x = c[i] /\ Merges(c[i], h)) <=> x = c[1] \/ Gone(h, x)
    OBVIOUS
  <2>1. \A i \in 1..N : i = 1 \/ i \in 2..N
    BY <1>1
  <2> QED BY <1>11, <1>12, <1>13, <2>1
<1>18. \A x \in Handles : place'[x] = IF Gone(h, x) THEN P ELSE place[x]
  BY <1>10, <1>12, <1>17
\* The list that the merged nodes left.
<1>19. ASSUME NEW i \in 1..Len(W)
       PROVE  LET k == IF i <= f THEN i ELSE i + (K - 1)
              IN  W[i] = kids[k] /\ k \in 1..Len(kids) /\ ~Gone(h, W[i])
  <2> DEFINE k == IF i <= f THEN i ELSE i + (K - 1)
  <2>1. i \in 1..f + L - K /\ W[i] = kids[k]
    BY <1>7
  <2>2. k \in 1..Len(kids) /\ ~ ((f < k /\ k <= f + K - 1) \/ k > f + L - 1)
    <3>1. /\ f \in 1..Len(kids) /\ N = Len(kids) - f + 1 /\ Len(kids) \in Nat
          /\ K \in Nat /\ L \in Nat /\ 1 <= K /\ K <= L /\ L <= N /\ i \in 1..f + L - K
      BY <1>1, <1>3, <1>5, <2>1
    <3> QED BY <3>1
  <2> HIDE DEF k
  <2>3. ~Gone(h, kids[k])
    BY <1>6, <2>2
  <2> QED BY <2>1, <2>2, <2>3 DEF k
<1>20. Distinct(W)
  <2> SUFFICES ASSUME NEW i \in 1..Len(W), NEW k \in 1..Len(W), W[i] = W[k] PROVE i = k
    BY DEF Distinct
  <2> DEFINE a == IF i <= f THEN i ELSE i + (K - 1)
             b == IF k <= f THEN k ELSE k + (K - 1)
  <2>1. W[i] = kids[a] /\ a \in 1..Len(kids) /\ W[k] = kids[b] /\ b \in 1..Len(kids)
    BY <1>19
  <2> HIDE DEF a, b
  <2>2. a = b
    BY <1>5, <2>1, Zenon DEF Distinct
  <2>3. i \in Nat /\ k \in Nat /\ f \in Nat
    BY <1>3
  <2> QED BY <1>1, <2>2, <2>3 DEF a, b
<1>21. ASSUME NEW k \in 1..Len(kids), ~Gone(h, kids[k]) PROVE \E i \in 1..Len(W) : W[i] = kids[k]
  <2>1. ~ ((f < k /\ k <= f + K - 1) \/ k > f + L - 1)
    BY <1>6, <1>21
  <2> DEFINE i == IF k <= f THEN k ELSE k - (K - 1)
  <2>2. i \in 1..f + L - K /\ (IF i <= f THEN i ELSE i + (K - 1)) = k
    BY <1>1, <1>3, <1>5, <2>1, SMTT(30)
  <2> HIDE DEF i
  <2> QED BY <1>7, <2>2
\* The lists.
<1>22. /\ children \in Seq(Seq(Nat)) /\ W \in Seq(Nat) /\ j \in Seq(Nat)
       /\ R \in 1..Len(children) /\ P \in 1..Len(children) /\ Handles = 1..Len(children)
  <2>1. children \in Seq(Seq(Nat))
    BY <1>0a DEF Forest, Shape
  <2>2. Handles = 1..Len(children) /\ R \in Handles /\ P \in Handles
    BY <1>0a, <1>4, <1>12, PlacesAre
  <2>3. W \in Seq(Nat) /\ j \in Seq(Nat)
    BY <1>7, <1>8
  <2> QED BY <2>1, <2>2, <2>3
<1>23. /\ children' \in Seq(Seq(Nat)) /\ Len(children') = Len(children)
       /\ children'[R] = W /\ children'[P] = j
       /\ \A p \in Handles : p # R /\ p # P => children'[p] = children[p]
  <2> DEFINE m1 == [children EXCEPT ![R] = W]
             m2 == [m1 EXCEPT ![P] = j]
  <2>1. children' = m2
    BY <1>0
  <2>2. /\ m1 \in Seq(Seq(Nat)) /\ Len(m1) = Len(children) /\ m1[R] = W
        /\ \A p \in Handles : p # R => m1[p] = children[p]
    BY <1>22
  <2> HIDE DEF m1
  <2>3. /\ m2 \in Seq(Seq(Nat)) /\ Len(m2) = Len(children) /\ m2[P] = j
        /\ \A p \in Handles : p # P => m2[p] = m1[p]
    BY <1>22, <2>2
  <2> HIDE DEF m2
  <2> QED BY <1>12, <1>22, <2>1, <2>2, <2>3, Zenon
<1>24. /\ \A i \in 1..Len(j) : \E x : (x = c[1] \/ Gone(h, x)) /\ \E b \in 1..Len(children[place[x]]) : j[i] = children[place[x]][b]
       /\ \A x : x = c[1] \/ Gone(h, x) => \A b \in 1..Len(children[place[x]]) : \E i \in 1..Len(j) : j[i] = children[place[x]][b]
  <2>1. ASSUME NEW i \in 1..Len(j)
        PROVE  \E x : (x = c[1] \/ Gone(h, x)) /\ \E b \in 1..Len(children[place[x]]) : j[i] = children[place[x]][b]
    <3>1. PICK a \in 1..N : Merges(c[a], h) /\ \E b \in 1..Len(children[place[c[a]]]) : j[i] = children[place[c[a]]][b]
      BY <1>9
    <3>2. c[a] = c[1] \/ Gone(h, c[a])
      BY <1>17, <3>1
    <3> QED BY <3>1, <3>2
  <2>2. ASSUME NEW x, x = c[1] \/ Gone(h, x), NEW b \in 1..Len(children[place[x]])
        PROVE  \E i \in 1..Len(j) : j[i] = children[place[x]][b]
    <3>1. PICK a \in 1..N : x = c[a] /\ Merges(c[a], h)
      BY <1>17, <2>2
    <3> QED BY <1>9, <3>1
  <2> QED BY <2>1, <2>2
<1>25. \E i \in 1..Len(kids) : kids[i] = c[1]
  BY <1>3, <1>12, <1>15
<1>26. Handles' = Handles
  BY <1>0 DEF Handles
<1>27. \A i \in 1..Len(W) : ~Gone(h, W[i]) /\ \E k \in 1..Len(kids) : W[i] = kids[k]
  BY <1>19
<1>28. Regroupment(h, j)
  BY <1>4, <1>5, <1>7, <1>8, <1>12, <1>14, <1>16, <1>18, <1>20, <1>21, <1>23, <1>24, <1>25, <1>26, <1>27, ZenonT(30)
     DEF Regroupment, R, P, W, kids, c, par
<1> QED BY <1>28 DEF j, N, c

\* Regrouped lists are lists of a tree.
LEMMA RegroupedLists ==
  ASSUME Forest, NEW h, NEW j, Regroupment(h, j), alpha' = alpha
  PROVE  /\ Lists'
         /\ \A p : p \in InUse' <=> p \in InUse /\ \A x : Gone(h, x) => p # place[x]
         /\ \A x : x \in Live' <=> x \in Live /\ ~Gone(h, x)
<1> DEFINE R == place[alpha[h].parent]
           first == Row(h)[1]
           P == place[first]
           W == Remainder(h)
           kids == Kin(h)
           G(x) == Gone(h, x)
           In(x) == x = first \/ G(x)
<1>1. /\ Handles' = Handles /\ P \in InUse /\ R \in InUse /\ P # R /\ kids = children[R]
      /\ first \in Live \ {1} /\ ~G(first) /\ \E i \in 1..Len(kids) : kids[i] = first
  BY Zenon DEF Regroupment
<1>2. \A x : G(x) => /\ x \in Live \ {1} /\ x \in Handles /\ place[x] # R /\ place[x] # P
                     /\ \E i \in 1..Len(kids) : kids[i] = x
                     /\ \A y \in Handles : place[y] = place[x] => y = x
  BY Zenon DEF Regroupment
<1>3. \A x \in Handles : place'[x] = IF G(x) THEN P ELSE place[x]
  BY Zenon DEF Regroupment
<1>4. /\ W \in Seq(Nat \ {0}) /\ Distinct(W)
      /\ \A i \in 1..Len(W) : ~G(W[i]) /\ \E k \in 1..Len(kids) : W[i] = kids[k]
      /\ \A k \in 1..Len(kids) : ~G(kids[k]) => \E i \in 1..Len(W) : W[i] = kids[k]
  BY Zenon DEF Regroupment
<1>5. /\ j \in Seq(Nat \ {0}) /\ Distinct(j)
      /\ \A i \in 1..Len(j) : Below(h, j[i]) /\ \E x : In(x) /\ \E b \in 1..Len(children[place[x]]) : j[i] = children[place[x]][b]
      /\ \A x : In(x) => \A b \in 1..Len(children[place[x]]) : \E i \in 1..Len(j) : j[i] = children[place[x]][b]
  BY Zenon DEF Regroupment
<1>6. /\ children'[R] = W /\ children'[P] = j
      /\ \A p \in Handles : p # R /\ p # P => children'[p] = children[p]
      /\ children' \in Seq(Seq(Nat)) /\ Len(children') = Len(children)
  BY Zenon DEF Regroupment
<1>7. /\ Handles = 1..Len(children) /\ \A p \in InUse : p \in Handles
      /\ \A x \in Handles : place[x] \in InUse /\ place[x] \in Handles
  BY PlacesAre
<1>8. /\ \A x : x \in Live => x \in Handles
      /\ \A x : x \in Live <=> (x = 1 /\ 1 \in Handles) \/ \E p \in InUse : \E i \in 1..Len(children[p]) : x = children[p][i]
      /\ \A p \in InUse : \A i \in 1..Len(children[p]) : children[p][i] \in Live
  BY LiveIs DEF Live
<1>9. /\ \A p \in InUse : \A i \in 1..Len(children[p]) :
           children[p][i] \in Handles \ {1} /\ place[alpha[children[p][i]].parent] = p
      /\ \A p, q \in InUse : \A i \in 1..Len(children[p]), k \in 1..Len(children[q]) :
           children[p][i] = children[q][k] => p = q /\ i = k
      /\ \A x, y \in Live : place[x] = place[y] => x = y
      /\ \A x \in Handles : \E y \in Live : place[y] = place[x]
  BY DEF Forest, Lists
<1>10. \A x : G(x) => \A i \in 1..Len(j) : x # j[i]
  <2> SUFFICES ASSUME NEW x, G(x), NEW i \in 1..Len(j), x = j[i] PROVE FALSE
    OBVIOUS
  <2>1. PICK k \in 2..Len(Row(h)) : x = Row(h)[k]
    BY DEF Gone
  <2>2. k \in 1..Len(Row(h))
    <3>1. k \in 2..Len(Row(h))
      OBVIOUS
    <3>2. \A n : \A e \in 2..n : e \in 1..n
      OBVIOUS
    <3> QED BY <3>1, <3>2
  <2> QED BY <1>5, <2>1, <2>2, ZenonT(30) DEF Below
<1> HIDE DEF R, first, P, W, kids, G
\* The places in use.
<1>11. P = place[first] /\ first \in Handles /\ first \in Live
  BY <1>1, <1>8 DEF P
<1>12. ASSUME NEW p PROVE p \in InUse' <=> p \in InUse /\ \A x : G(x) => p # place[x]
  <2>1. p \in InUse' <=> \E y \in Handles : p = place'[y]
    BY <1>1 DEF InUse
  <2>2. p \in InUse <=> \E y \in Handles : p = place[y]
    BY DEF InUse
  <2>3. ASSUME NEW y \in Handles, p = place'[y] PROVE p \in InUse /\ \A x : G(x) => p # place[x]
    <3>1. CASE G(y)
      BY <1>1, <1>2, <1>3, <2>3, <3>1
    <3>2. CASE ~G(y)
      <4>1. p = place[y]
        BY <1>3, <2>3, <3>2
      <4> QED BY <1>2, <2>2, <3>2, <4>1
    <3> QED BY <3>1, <3>2
  <2>4. ASSUME NEW y \in Handles, p = place[y], \A x : G(x) => p # place[x] PROVE p = place'[y]
    BY <1>3, <2>4
  <2> QED BY <2>1, <2>2, <2>3, <2>4
<1>13. R \in InUse' /\ P \in InUse'
  BY <1>1, <1>2, <1>12
\* Where the children come from.
<1>14. ASSUME NEW p \in InUse', NEW i \in 1..Len(children'[p])
       PROVE  /\ ~G(children'[p][i])
              /\ \E q \in InUse : /\ \E k \in 1..Len(children[q]) : children'[p][i] = children[q][k]
                                  /\ p # P => q = p
                                  /\ p = P => \E x : In(x) /\ q = place[x]
  <2>1. CASE p = R
    <3>1. i \in 1..Len(W) /\ children'[p][i] = W[i]
      BY <1>6, <2>1
    <3> QED BY <1>1, <1>4, <2>1, <3>1, SMTT(30)
  <2>2. CASE p = P
    <3>1. i \in 1..Len(j) /\ children'[p][i] = j[i]
      BY <1>6, <2>2
    <3>2. PICK x : In(x) /\ \E b \in 1..Len(children[place[x]]) : j[i] = children[place[x]][b]
      BY <1>5, <3>1
    <3>3. place[x] \in InUse
      BY <1>2, <1>7, <1>11, <3>2
    <3> QED BY <1>10, <2>2, <3>1, <3>2, <3>3
  <2>3. CASE p # R /\ p # P
    <3>1. p \in InUse /\ p \in Handles
      BY <1>7, <1>12
    <3>2. children'[p] = children[p]
      BY <1>6, <2>3, <3>1
    <3>3. ~G(children[p][i])
      <4> SUFFICES ASSUME G(children[p][i]) PROVE FALSE
        OBVIOUS
      <4>1. PICK k \in 1..Len(kids) : kids[k] = children[p][i]
        BY <1>2
      <4> QED BY <1>1, <1>9, <2>3, <3>1, <3>2, <4>1
    <3> QED BY <2>3, <3>1, <3>2, <3>3
  <2> QED BY <2>1, <2>2, <2>3
<1>15. ASSUME NEW p \in InUse', NEW i \in 1..Len(children'[p])
       PROVE  children'[p][i] \in Live \ {1} /\ children'[p][i] \in Handles \ {1}
  BY <1>8, <1>9, <1>14
<1>16. ASSUME NEW p \in InUse', NEW i \in 1..Len(children'[p])
       PROVE  place'[alpha[children'[p][i]].parent] = p
  <2> DEFINE e == children'[p][i]
             y == alpha[e].parent
  <2>1. PICK q \in InUse : /\ \E k \in 1..Len(children[q]) : e = children[q][k]
                           /\ p # P => q = p
                           /\ p = P => \E x : In(x) /\ q = place[x]
    BY <1>14
  <2>2. place[y] = q
    BY <1>9, <2>1
  <2>3. e \in Live \ {1}
    BY <1>15
  <2> HIDE DEF e
  <2>4. y \in Handles
    BY <2>3, ParentIs
  <2> HIDE DEF y
  <2>5. CASE p # P
    <3>1. ~G(y)
      BY <1>12, <2>1, <2>2, <2>5
    <3> QED BY <1>3, <2>1, <2>2, <2>4, <2>5, <3>1 DEF y, e
  <2>6. CASE p = P
    <3>1. PICK x : In(x) /\ place[y] = place[x]
      BY <2>1, <2>2, <2>6
    <3>2. place'[y] = P
      BY <1>2, <1>3, <1>11, <2>4, <3>1
    <3> QED BY <2>6, <3>2 DEF y, e
  <2> QED BY <2>5, <2>6
<1>17. ASSUME NEW p \in InUse', NEW q \in InUse', p # q, p # P,
              NEW i \in 1..Len(children'[p]), NEW k \in 1..Len(children'[q]), children'[p][i] = children'[q][k]
       PROVE  FALSE
  <2>1. PICK a \in InUse : a = p /\ \E b \in 1..Len(children[a]) : children'[p][i] = children[a][b]
    BY <1>14, <1>17, SMTT(30)
  <2>2. PICK d \in InUse : /\ \E b \in 1..Len(children[d]) : children'[q][k] = children[d][b]
                           /\ q # P => d = q
                           /\ q = P => \E x : In(x) /\ d = place[x]
    BY <1>14
  <2>3. a = d
    <3>1. PICK b1 \in 1..Len(children[a]) : children'[p][i] = children[a][b1]
      BY <2>1
    <3>2. PICK b2 \in 1..Len(children[d]) : children'[q][k] = children[d][b2]
      BY <2>2
    <3>3. children[a][b1] = children[d][b2]
      BY <1>17, <3>1, <3>2
    <3>4. \A u, v \in InUse : \A x \in 1..Len(children[u]), y \in 1..Len(children[v]) :
            children[u][x] = children[v][y] => u = v
      BY <1>9
    <3> QED BY <3>3, <3>4
  <2>4. PICK x : In(x) /\ p = place[x]
    BY <1>17, <2>1, <2>2, <2>3
  <2> QED BY <1>11, <1>12, <1>17, <2>4
<1>18. ASSUME NEW p \in InUse', NEW i \in 1..Len(children'[p]), NEW k \in 1..Len(children'[p]),
              children'[p][i] = children'[p][k]
       PROVE  i = k
  <2>1. CASE p = R
    BY <1>4, <1>6, <1>18, <2>1, ZenonT(30) DEF Distinct
  <2>2. CASE p = P
    BY <1>5, <1>6, <1>18, <2>2 DEF Distinct
  <2>3. CASE p # R /\ p # P
    <3>1. p \in InUse /\ children'[p] = children[p]
      BY <1>6, <1>7, <1>12, <2>3
    <3> QED BY <1>9, <1>18, <3>1
  <2> QED BY <2>1, <2>2, <2>3
<1>19. ASSUME NEW p \in InUse', NEW q \in InUse', NEW i \in 1..Len(children'[p]), NEW k \in 1..Len(children'[q]),
              children'[p][i] = children'[q][k]
       PROVE  p = q /\ i = k
  <2>1. p = q
    BY <1>17, <1>19
  <2> QED BY <1>18, <1>19, <2>1
\* Who is in the tree.
<1>20. ASSUME NEW x PROVE x \in Live' <=> (x = 1 /\ 1 \in Handles) \/ \E p \in InUse' : \E i \in 1..Len(children'[p]) : x = children'[p][i]
  <2>1. x \in Live' <=> x \in Handles /\ (x = 1 \/ \E p \in InUse' : x \in ToSet(children'[p]))
    BY <1>1 DEF Live
  <2>2. ASSUME NEW p \in InUse' PROVE x \in ToSet(children'[p]) <=> \E i \in 1..Len(children'[p]) : x = children'[p][i]
    <3>1. p \in 1..Len(children')
      BY <1>6, <1>7, <1>12
    <3>2. children'[p] \in Seq(Nat)
      BY <1>6, <3>1
    <3>3. DOMAIN children'[p] = 1..Len(children'[p])
      BY <3>2
    <3> QED BY <3>3 DEF ToSet
  <2>3. \A p \in InUse' : \A i \in 1..Len(children'[p]) : children'[p][i] \in Handles
    BY <1>15
  <2> QED BY <2>1, <2>2, <2>3
<1>21. ASSUME NEW x, x \in Live' PROVE x \in Live /\ ~G(x)
  <2>1. CASE x = 1 /\ 1 \in Handles
    BY <1>2, <1>8, <2>1
  <2>2. CASE \E p \in InUse' : \E i \in 1..Len(children'[p]) : x = children'[p][i]
    BY <1>14, <1>15, <2>2
  <2> QED BY <1>20, <1>21, <2>1, <2>2
<1>22. ASSUME NEW x \in Live, ~G(x) PROVE x \in Live'
  <2>1. CASE x = 1 /\ 1 \in Handles
    BY <1>20, <2>1
  <2>2. ASSUME NEW q \in InUse, NEW k \in 1..Len(children[q]), x = children[q][k] PROVE x \in Live'
    <3>1. CASE q = R
      <4>1. PICK i \in 1..Len(W) : W[i] = x
        BY <1>1, <1>4, <1>22, <2>2, <3>1
      <4> QED BY <1>6, <1>13, <1>20, <4>1
    <3>2. CASE \E z : In(z) /\ q = place[z]
      <4>1. PICK i \in 1..Len(j) : j[i] = x
        BY <1>5, <2>2, <3>2
      <4> QED BY <1>6, <1>13, <1>20, <4>1
    <3>3. CASE q # R /\ ~ \E z : In(z) /\ q = place[z]
      <4>1. q # P /\ q \in InUse'
        BY <1>11, <1>12, <3>3
      <4>2. children'[q] = children[q]
        BY <1>6, <1>7, <3>3, <4>1
      <4> QED BY <1>20, <2>2, <4>1, <4>2
    <3> QED BY <3>1, <3>2, <3>3
  <2> QED BY <1>8, <2>1, <2>2
<1>23. ASSUME NEW x \in Live', NEW y \in Live', place'[x] = place'[y] PROVE x = y
  <2>1. x \in Live /\ y \in Live /\ ~G(x) /\ ~G(y) /\ x \in Handles /\ y \in Handles
    BY <1>8, <1>21
  <2> QED BY <1>3, <1>9, <1>23, <2>1
<1>24. ASSUME NEW x \in Handles PROVE \E y \in Live' : place'[y] = place'[x]
  <2>1. CASE G(x)
    BY <1>1, <1>3, <1>11, <1>22, <2>1
  <2>2. CASE ~G(x)
    <3>1. PICK y \in Live : place[y] = place[x]
      BY <1>9
    <3>2. ~G(y)
      BY <1>2, <2>2, <3>1
    <3> QED BY <1>3, <1>8, <1>22, <2>2, <3>1, <3>2
  <2> QED BY <2>1, <2>2
<1>25. Lists'
  <2>1. \A p \in InUse' : \A i \in 1..Len(children'[p]) :
           children'[p][i] \in Handles' \ {1} /\ place'[alpha'[children'[p][i]].parent] = p
    BY <1>1, <1>15, <1>16
  <2>2. \A p, q \in InUse' : \A i \in 1..Len(children'[p]), k \in 1..Len(children'[q]) :
           children'[p][i] = children'[q][k] => p = q /\ i = k
    BY <1>19
  <2>3. \A x, y \in Live' : place'[x] = place'[y] => x = y
    BY <1>23
  <2>4. \A x \in Handles' : \E y \in Live' : place'[y] = place'[x]
    BY <1>1, <1>24
  <2> QED BY <2>1, <2>2, <2>3, <2>4 DEF Lists
<1>26. \A x : x \in Live' <=> x \in Live /\ ~G(x)
  BY <1>21, <1>22
<1> QED BY <1>12, <1>25, <1>26 DEF G

\* The links of the list that the merged nodes left.
LEMMA RemainingLinks ==
  ASSUME NEW h, NEW f, NEW K, NEW L, NEW g, Regrouped(h, f, K, L, g)
  PROVE  /\ links'[place[alpha[h].parent]].down = Nth(Remainder(h), 1)
         /\ \A i \in 1..Len(Remainder(h)) : links'[place[Remainder(h)[i]]].right = Nth(Remainder(h), i + 1)
<1> DEFINE c == Row(h)
           N == Len(c)
           kids == Kin(h)
           par == alpha[h].parent
           R == place[par]
           P == place[c[1]]
           W == Remainder(h)
           j == g[N]
<1>0. Scene(h, f, K, L, g) /\ Mergence(h, K, L, j, links', place') /\ Regroupment(h, j)
  BY RegroupmentIs, Zenon DEF Regrouped
<1>0a. Forest /\ h \in Live \ {1} /\ Siblings(h, f, K, L)
  BY <1>0 DEF Scene
<1>1. /\ N \in Nat /\ N >= 1 /\ K \in Nat /\ L \in Nat
      /\ 1 <= K /\ K <= L /\ L <= N /\ N <= L + 1 /\ (L < N => K < L)
      /\ \A i \in 1..N : /\ c[i] \in Handles /\ place[c[i]] \in Handles /\ c[i] \in Live \ {1}
                         /\ links[place[c[i]]].right = Nth(c, i + 1)
                         /\ \A k \in 1..N : place[c[i]] = place[c[k]] => i = k
  BY <1>0, SceneIs
<1>2. /\ f \in 1..Len(kids) /\ N = Len(kids) - f + 1 /\ \A i \in 1..N : c[i] = kids[f + i - 1]
  BY <1>0a DEF Siblings
<1>3. par \in Handles /\ R \in InUse /\ R \in Handles /\ P # R /\ kids = children[R]
  BY <1>0, <1>0a, ParentIs, PlacesAre, Zenon DEF Kin, Regroupment
<1>4. /\ kids \in Seq(Nat \ {0}) /\ Len(kids) \in Nat /\ Distinct(kids)
      /\ Strung(links, place, kids) /\ links[R].down = Nth(kids, 1)
      /\ kids \in Seq(Handles \ {1})
  BY <1>0a, <1>3, KidsAre, Zenon
<1>5. /\ W \in Seq(Nat \ {0}) /\ Len(W) = f + L - K
      /\ \A i \in 1..f + L - K : W[i] = kids[IF i <= f THEN i ELSE i + (K - 1)]
  BY <1>0, RemainderIs
<1>6. /\ \A i \in 1..Len(kids) : kids[i] \in Live /\ kids[i] \in Handles /\ place[kids[i]] \in Handles
      /\ \A x, y \in Live : place[x] = place[y] => x = y
  BY <1>0a, <1>3, OwnPlaces, LiveIs
<1>7. \A i \in 1..Len(j) : \A k \in 1..N : place[j[i]] # place[c[k]]
  <2>1. \A i \in 1..Len(j) : Below(h, j[i])
    BY <1>0 DEF Regroupment
  <2>2. \A e : Below(h, e) => \A k \in 1..N : place[e] # place[c[k]]
    BY <1>0, SceneIs
  <2> QED BY <2>1, <2>2, ZenonT(60)
<1>8. ASSUME NEW i \in 1..Len(j), NEW k \in 1..Len(kids) PROVE place[j[i]] # place[kids[k]]
  <2>1. PICK x : (x = c[1] \/ Gone(h, x)) /\ \E b \in 1..Len(children[place[x]]) : j[i] = children[place[x]][b]
    BY <1>0 DEF Regroupment
  <2>2. PICK b \in 1..Len(children[place[x]]) : j[i] = children[place[x]][b]
    BY <2>1
  <2>3. place[x] # R /\ x \in Handles
    <3>1. CASE x = c[1]
      <4>1. 1 \in 1..N
        BY <1>1
      <4>2. c[1] \in Handles
        BY <1>1, <4>1, ZenonT(60)
      <4> QED BY <1>3, <3>1, <4>2
    <3>2. CASE Gone(h, x)
      BY <1>0, <3>2 DEF Regroupment
    <3> QED BY <2>1, <3>1, <3>2
  <2>4. place[x] \in InUse
    BY <1>0a, <2>3, PlacesAre
  <2>5. j[i] \in Live
    BY <1>0a, <2>2, <2>4, LiveIs
  <2>6. j[i] # kids[k]
    <3>1. \A p, q \in InUse : \A u \in 1..Len(children[p]), v \in 1..Len(children[q]) :
            children[p][u] = children[q][v] => p = q
      BY <1>0a, ZenonT(30) DEF Forest, Lists
    <3> QED BY <1>3, <2>2, <2>3, <2>4, <3>1
  <2> QED BY <1>6, <2>5, <2>6, ZenonT(60)
<1>9. /\ \A q \in Handles \ {P} : links'[q].down = links[q].down
      /\ links'[P].right = IF K < N THEN c[K + 1] ELSE 0
      /\ L < N => links'[place[c[N - 1]]].right = 0
      /\ \A q \in Handles : \/ links'[q].right = links[q].right
                            \/ q = P
                            \/ \E i \in 1..Len(j) : q = place[j[i]]
                            \/ L < N /\ q = place[c[N - 1]]
  BY <1>0, SMTT(30) DEF Mergence
<1>10. 1 \in 1..N /\ c[1] = kids[f] /\ f \in Nat /\ f >= 1
  <2>1. 1 \in 1..N /\ f \in Nat /\ f >= 1
    BY <1>1, <1>2, <1>4
  <2>2. f + 1 - 1 = f
    BY <2>1
  <2> QED BY <1>2, <2>1, <2>2
<1> HIDE DEF c, N, kids, par, R, W, j
<1>10a. /\ N \in Nat /\ N >= 1 /\ K \in Nat /\ L \in Nat /\ 1 <= K /\ K <= L /\ L <= N /\ N <= L + 1
        /\ L < N => K < L
        /\ f \in Nat /\ f >= 1 /\ f <= Len(kids) /\ Len(kids) \in Nat /\ Len(kids) = N + f - 1
  BY <1>1, <1>2, <1>4, <1>10
<1>11. links'[R].down = Nth(W, 1)
  <2>1. 1 \in 1..Len(W) /\ W[1] = kids[1] /\ 1 \in 1..Len(kids)
    <3>1. 1 \in 1..f + L - K /\ 1 <= f
      BY <1>1, <1>10
    <3>2. 1 \in 1..Len(kids)
      BY <1>2, <1>4
    <3> QED BY <1>5, <3>1, <3>2
  <2> QED BY <1>3, <1>4, <1>9, <2>1 DEF Nth
<1>12. ASSUME NEW i \in 1..Len(W), i < f PROVE links'[place[W[i]]].right = Nth(W, i + 1)
  <2>1. i \in 1..f + L - K /\ i <= f /\ i + 1 \in 1..f + L - K /\ i + 1 <= f /\ i \in 1..Len(kids) /\ i + 1 \in 1..Len(kids) /\ i # f
    <3>1. i \in 1..f + L - K /\ i < f
      BY <1>5, <1>12
    <3> QED BY <1>10a, <3>1
  <2>2. W[i] = kids[i] /\ W[i + 1] = kids[i + 1]
    BY <1>5, <2>1
  <2>3. kids[i] # kids[f]
    BY <1>2, <1>4, <2>1 DEF Distinct
  <2>4. place[kids[i]] # P
    BY <1>2, <1>6, <1>10, <2>1, <2>3 DEF P
  <2>5. L < N => place[kids[i]] # place[c[N - 1]]
    <3> SUFFICES ASSUME L < N PROVE place[kids[i]] # place[c[N - 1]]
      OBVIOUS
    <3>1. N - 1 \in 1..N /\ f + (N - 1) - 1 \in 1..Len(kids) /\ f + (N - 1) - 1 # i
      BY <1>10a, <1>12, <2>1
    <3>2. c[N - 1] = kids[f + (N - 1) - 1]
      BY <1>2, <3>1, Zenon
    <3>3. kids[i] # c[N - 1]
      BY <1>4, <2>1, <3>1, <3>2, Zenon DEF Distinct
    <3> QED BY <1>1, <1>6, <2>1, <3>1, <3>3
  <2>6. links'[place[kids[i]]].right = links[place[kids[i]]].right
    BY <1>6, <1>8, <1>9, <2>1, <2>4, <2>5
  <2>7. links[place[kids[i]]].right = kids[i + 1]
    BY <1>4, <2>1 DEF Strung, Nth
  <2> QED BY <1>5, <2>1, <2>2, <2>6, <2>7 DEF Nth
<1>13. ASSUME NEW i \in 1..Len(W), i = f PROVE links'[place[W[i]]].right = Nth(W, i + 1)
  <2>1. i \in 1..f + L - K /\ i <= f
    BY <1>1, <1>5, <1>10, <1>13
  <2>2. W[i] = c[1]
    BY <1>5, <1>10, <1>13, <2>1
  <2>3. CASE K < N
    <3>1. f + 1 \in 1..f + L - K /\ ~ (f + 1 <= f) /\ f + 1 + (K - 1) = f + K /\ K + 1 \in 1..N /\ f + (K + 1) - 1 = f + K
      BY <1>1, <1>10, <2>3
    <3>2. W[f + 1] = kids[f + K] /\ c[K + 1] = kids[f + K]
      BY <1>2, <1>5, <3>1
    <3> QED BY <1>5, <1>9, <1>13, <2>2, <2>3, <3>1, <3>2 DEF Nth, P
  <2>4. CASE ~ (K < N)
    <3>1. f + 1 \notin 1..f + L - K
      BY <1>1, <1>10, <2>4
    <3> QED BY <1>5, <1>9, <1>13, <2>2, <2>4, <3>1 DEF Nth, P
  <2> QED BY <2>3, <2>4
<1>14. ASSUME NEW i \in 1..Len(W), i > f PROVE links'[place[W[i]]].right = Nth(W, i + 1)
  <2> DEFINE m == i + K - f
  <2>1. /\ i \in 1..f + L - K /\ ~ (i <= f) /\ m \in K + 1..L /\ m \in 1..N /\ m # 1
        /\ f + m - 1 = i + (K - 1) /\ f + (m + 1) - 1 = (i + 1) + (K - 1) /\ ~ (i + 1 <= f)
        /\ (m < L => i + 1 \in 1..f + L - K /\ m + 1 \in 1..N) /\ (m = L => i + 1 \notin 1..f + L - K)
    BY <1>1, <1>5, <1>10, <1>14
  <2> HIDE DEF m
  <2>2. W[i] = c[m]
    BY <1>2, <1>5, <2>1, ZenonT(30)
  <2>3. place[c[m]] # P
    BY <1>1, <1>10, <2>1, Zenon DEF P
  <2>4. CASE L < N /\ m = N - 1
    <3>1. m = L
      BY <1>1, <2>4
    <3> QED BY <1>5, <1>9, <2>1, <2>2, <2>4, <3>1 DEF Nth
  <2>5. CASE ~ (L < N /\ m = N - 1)
    <3>1. L < N => place[c[m]] # place[c[N - 1]]
      <4> SUFFICES ASSUME L < N PROVE place[c[m]] # place[c[N - 1]]
        OBVIOUS
      <4>1. N - 1 \in 1..N
        BY <1>1
      <4> QED BY <1>1, <2>1, <2>5, <4>1
    <3>2. links'[place[c[m]]].right = links[place[c[m]]].right
      <4> DEFINE q == place[c[m]]
      <4>1. q \in Handles /\ q # P /\ ~ (L < N /\ q = place[c[N - 1]])
        BY <1>1, <2>1, <2>3, <3>1
      <4>2. \A k \in 1..Len(j) : q # place[j[k]]
        BY <1>7, <2>1
      <4> HIDE DEF q
      <4>3. links'[q].right = links[q].right
        BY <1>9, <4>1, <4>2
      <4> QED BY <4>3 DEF q
    <3>3. links[place[c[m]]].right = Nth(c, m + 1)
      BY <1>1, <2>1
    <3>4. CASE m < L
      <4>1. c[m + 1] = kids[(i + 1) + (K - 1)] /\ W[i + 1] = kids[(i + 1) + (K - 1)]
        BY <1>2, <1>5, <2>1, <3>4, Zenon
      <4> QED BY <1>5, <2>1, <2>2, <3>2, <3>3, <3>4, <4>1 DEF Nth, N
    <3>5. CASE ~ (m < L)
      <4>1. m = L /\ L = N /\ m + 1 \notin 1..N
        BY <1>1, <2>1, <2>5, <3>5, SMTT(30)
      <4> QED BY <1>5, <2>1, <2>2, <3>2, <3>3, <4>1 DEF Nth, N
    <3> QED BY <3>4, <3>5
  <2> QED BY <2>4, <2>5
<1>15. ASSUME NEW i \in 1..Len(W) PROVE i < f \/ i = f \/ i > f
  BY <1>10
<1>16. \A i \in 1..Len(W) : links'[place[W[i]]].right = Nth(W, i + 1)
  BY <1>12, <1>13, <1>14, <1>15
<1> QED BY <1>11, <1>16 DEF R, par, W

\* The links after a visit are those of the regrouped lists.
LEMMA RegroupedLinks ==
  ASSUME NEW h, NEW f, NEW K, NEW L, NEW g, Regrouped(h, f, K, L, g)
  PROVE  Links'
<1> DEFINE c == Row(h)
           N == Len(c)
           kids == Kin(h)
           R == place[alpha[h].parent]
           P == place[c[1]]
           W == Remainder(h)
           j == g[N]
           G(x) == Gone(h, x)
<1>0. Scene(h, f, K, L, g) /\ Mergence(h, K, L, j, links', place') /\ Regroupment(h, j) /\ alpha' = alpha
  BY RegroupmentIs DEF Regrouped
<1>0a. Forest /\ h \in Live \ {1}
  BY <1>0 DEF Scene
<1>1. /\ N \in Nat /\ N >= 1 /\ (L < N => N - 1 \in 1..N) /\ 1 \in 1..N
      /\ \A i \in 1..N : c[i] \in Handles /\ c[i] \in Live \ {1}
  <2>1. /\ N \in Nat /\ N >= 1 /\ L \in Nat /\ 1 <= K /\ K <= L /\ K \in Nat
        /\ \A i \in 1..N : c[i] \in Handles /\ c[i] \in Live \ {1}
    BY <1>0, SceneIs, SMTT(30)
  <2> QED BY <2>1
<1>2. /\ \A q \in Handles \ {P} : links'[q].down = links[q].down
      /\ links'[P].down = Nth(j, 1)
      /\ \A i \in 1..Len(j) : links'[place[j[i]]].right = Nth(j, i + 1)
      /\ \A q \in Handles : \/ links'[q].right = links[q].right
                            \/ q = P
                            \/ \E i \in 1..Len(j) : q = place[j[i]]
                            \/ L < N /\ q = place[c[N - 1]]
  BY <1>0 DEF Mergence
<1>3. links'[R].down = Nth(W, 1) /\ \A i \in 1..Len(W) : links'[place[W[i]]].right = Nth(W, i + 1)
  BY RemainingLinks, SMTT(30)
<1>4. /\ Handles' = Handles /\ P \in InUse /\ R \in InUse /\ P # R /\ kids = children[R]
      /\ \A x : G(x) => x \in Live \ {1} /\ x \in Handles /\ \E i \in 1..Len(kids) : kids[i] = x
      /\ \A x \in Handles : place'[x] = IF G(x) THEN P ELSE place[x]
      /\ \A i \in 1..Len(W) : ~G(W[i]) /\ \E k \in 1..Len(kids) : W[i] = kids[k]
      /\ \A i \in 1..Len(j) : Below(h, j[i]) /\ \E x : (x = c[1] \/ G(x)) /\ \E b \in 1..Len(children[place[x]]) : j[i] = children[place[x]][b]
      /\ children'[R] = W /\ children'[P] = j
      /\ \A p \in Handles : p # R /\ p # P => children'[p] = children[p]
  BY <1>0 DEF Regroupment
<1>5. \A p : p \in InUse' <=> p \in InUse /\ \A x : G(x) => p # place[x]
  BY <1>0, <1>0a, RegroupedLists
<1>6. /\ \A x, y \in Live : /\ x \in Handles /\ place[x] \in Handles /\ place[x] \in InUse
                            /\ place[x] = place[y] => x = y
      /\ \A p \in InUse : p \in Handles /\ \A i \in 1..Len(children[p]) : children[p][i] \in Live
      /\ 1 \in Handles => 1 \in Live
  BY <1>0a, OwnPlaces, PlacesAre, LiveIs
<1>7. \A p, q \in InUse : \A u \in 1..Len(children[p]), v \in 1..Len(children[q]) :
            children[p][u] = children[q][v] => p = q
  BY <1>0a DEF Forest, Lists
<1>8. \A i \in 1..N : \E k \in 1..Len(kids) : c[i] = kids[k]
  <2>1. \E a \in Nat, b \in Nat : Siblings(h, f, a, b) /\ f \in 1..Len(kids) /\ Len(kids) \in Nat
    <3>1. Siblings(h, f, K, L) /\ f \in 1..Len(kids) /\ K \in Nat /\ L \in Nat
      BY <1>0, Zenon DEF Scene, Siblings
    <3>2. Len(kids) \in Nat
      BY <1>0a, <1>4, KidsAre
    <3> QED BY <3>1, <3>2
  <2>2. /\ f \in 1..Len(kids) /\ Len(kids) \in Nat /\ N = Len(kids) - f + 1 /\ \A i \in 1..N : c[i] = kids[f + i - 1]
    BY <2>1 DEF Siblings
  <2> HIDE DEF N, c, kids
  <2>3. \A i \in 1..N : f + i - 1 \in 1..Len(kids)
    BY <2>2
  <2> QED BY <2>2, <2>3
<1>9. \A i \in 1..Len(j) : j[i] \in Live \ {1} /\ ~G(j[i]) /\ j[i] \in Handles
  <2> SUFFICES ASSUME NEW i \in 1..Len(j) PROVE j[i] \in Live \ {1} /\ ~G(j[i]) /\ j[i] \in Handles
    OBVIOUS
  <2>1. Below(h, j[i])
    BY <1>4
  <2>2. \A k \in 2..N : k \in 1..N
    BY <1>1
  <2>3. ~G(j[i])
    BY <2>1, <2>2 DEF Gone, Below
  <2> QED BY <1>6, <2>1, <2>3 DEF Below
\* The links to the right of nodes that are not in one of the two lists.
<1>10. ASSUME NEW x \in Live, \A i \in 1..Len(kids) : x # kids[i], \A i \in 1..Len(j) : x # j[i]
       PROVE  ~G(x) /\ links'[place[x]].right = links[place[x]].right
  <2>1. ~G(x) /\ x # c[1] /\ (L < N => x # c[N - 1])
    <3> HIDE DEF c, N, kids, j, G, W
    <3>1. ~G(x)
      BY <1>4, <1>10
    <3>2. \A i \in 1..N : x # c[i]
      BY <1>8, <1>10
    <3> QED BY <1>1, <3>1, <3>2
  <2>2. place[x] # P
    <3> HIDE DEF c, N, kids, j, G, W
    <3> QED BY <1>1, <1>6, <2>1
  <2>3. ~ (L < N /\ place[x] = place[c[N - 1]])
    <3> HIDE DEF c, N, kids, j, G, W
    <3> QED BY <1>1, <1>6, <2>1
  <2>4. \A i \in 1..Len(j) : place[x] # place[j[i]]
    BY <1>6, <1>9, <1>10
  <2> QED BY <1>2, <1>6, <2>1, <2>2, <2>3, <2>4
<1> HIDE DEF c, N, kids, R, P, W, j, G
<1>11. ASSUME NEW p \in InUse'
       PROVE  links'[p].down = Nth(children'[p], 1) /\ \A i \in 1..Len(children'[p]) : links'[place'[children'[p][i]]].right = Nth(children'[p], i + 1)
  <2>1. CASE p = R
    <3>1. \A i \in 1..Len(W) : place'[W[i]] = place[W[i]]
      <4>1. \A i \in 1..Len(W) : W[i] \in Live /\ ~G(W[i])
        BY <1>4, <1>6
      <4>2. \A i \in 1..Len(W) : W[i] \in Handles
        BY <1>6, <4>1
      <4>3. \A x \in Handles : ~G(x) => place'[x] = place[x]
        BY <1>4
      <4> QED BY <4>1, <4>2, <4>3
    <3>2. children'[p] = W
      BY <1>4, <2>1
    <3>3. \A i \in 1..Len(W) : links'[place'[W[i]]].right = Nth(W, i + 1)
      BY <1>3, <3>1
    <3> QED BY <1>3, <2>1, <3>2, <3>3
  <2>2. CASE p = P
    <3>1. \A i \in 1..Len(j) : place'[j[i]] = place[j[i]]
      BY <1>4, <1>9
    <3> QED BY <1>2, <1>4, <2>2, <3>1
  <2>3. CASE p # R /\ p # P
    <3>1. p \in InUse /\ p \in Handles /\ children'[p] = children[p]
      BY <1>4, <1>5, <1>6, <2>3
    <3>2. links[p].down = Nth(children[p], 1) /\ Strung(links, place, children[p])
      BY <1>0a, <3>1 DEF Forest, Links
    <3>3. links'[p].down = Nth(children[p], 1)
      BY <1>2, <2>3, <3>1, <3>2
    <3>4. ASSUME NEW i \in 1..Len(children[p])
          PROVE  links'[place'[children[p][i]]].right = Nth(children[p], i + 1)
      <4> DEFINE x == children[p][i]
      <4>1. x \in Live /\ x \in Handles
        BY <1>6, <3>1
      <4>2. \A k \in 1..Len(kids) : x # kids[k]
        BY <1>4, <1>7, <2>3, <3>1
      <4>3. ASSUME NEW k \in 1..Len(j), x = j[k] PROVE FALSE
        <5>1. PICK y : (y = c[1] \/ G(y)) /\ \E b \in 1..Len(children[place[y]]) : j[k] = children[place[y]][b]
          BY <1>4
        <5>2. place[y] \in InUse /\ place[y] # p
          <6>1. CASE y = c[1]
            BY <1>4, <2>3, <6>1 DEF P
          <6>2. CASE G(y)
            BY <1>4, <1>5, <1>6, <6>2
          <6> QED BY <5>1, <6>1, <6>2
        <5> QED BY <1>7, <3>1, <4>3, <5>1, <5>2
      <4> HIDE DEF x
      <4>4. ~G(x) /\ links'[place[x]].right = links[place[x]].right
        BY <1>10, <4>1, <4>2, <4>3
      <4>5. place'[x] = place[x]
        BY <1>4, <4>1, <4>4
      <4>6. links[place[x]].right = Nth(children[p], i + 1)
        BY <3>2 DEF Strung, x
      <4> QED BY <4>4, <4>5, <4>6 DEF x
    <3> QED BY <3>1, <3>3, <3>4
  <2> QED BY <2>1, <2>2, <2>3
<1>12. ASSUME 1 \in Handles PROVE links'[place'[1]].right = 0
  <2>1. 1 \in Live /\ place[1] \in InUse
    BY <1>6, <1>12
  <2>2. \A q \in InUse : \A i \in 1..Len(children[q]) : children[q][i] # 1
    BY <1>0a DEF Forest, Lists
  <2>3. ~G(1) /\ links'[place[1]].right = links[place[1]].right
    BY <1>4, <1>9, <1>10, <2>1, <2>2
  <2>4. links[place[1]].right = 0
    BY <1>0a, <1>12 DEF Forest, Links
  <2> QED BY <1>4, <1>12, <2>3, <2>4
<1>13. /\ \A p \in InUse' : links'[p].down = Nth(children'[p], 1) /\ Strung(links', place', children'[p])
       /\ \A x \in Handles' : x = 1 => links'[place'[x]].right = 0
  BY <1>4, <1>11, <1>12 DEF Strung
<1>14. (\A p \in InUse : links[p].down = Nth(children[p], 1) /\ Strung(links, place, children[p]))'
  BY <1>13 DEF Nth, Strung
<1> QED BY <1>13, <1>14 DEF Links

\* A visit without an untidy merge keeps the tree a tree.
LEMMA VisitKeeps ==
  ASSUME Forest, NEW h \in Live \ {1}, Visit(h), ~untidy',
         stack' \in Seq(Nat), \A i \in 1..Len(stack') : stack'[i] \in Handles
  PROVE  Forest'
<1>1. PICK f, K, L, g : Regrouped(h, f, K, L, g)
  BY VisitIs
<1> DEFINE P == place[Row(h)[1]]
           j == g[Len(Row(h))]
           G(x) == Gone(h, x)
<1>2. Mergence(h, K, L, j, links', place') /\ Regroupment(h, j) /\ alpha' = alpha
  BY <1>1, RegroupmentIs, ZenonT(60) DEF Regrouped
<1>3. /\ Handles' = Handles /\ P \in InUse /\ Row(h)[1] \in Live \ {1}
      /\ \E i \in 1..Len(Kin(h)) : Kin(h)[i] = Row(h)[1]
      /\ \A x : G(x) => x \in Live \ {1} /\ \E i \in 1..Len(Kin(h)) : Kin(h)[i] = x
      /\ \A x \in Handles : place'[x] = IF G(x) THEN P ELSE place[x]
      /\ children' \in Seq(Seq(Nat)) /\ Len(children') = Len(children)
  BY <1>2 DEF Regroupment
<1>4. /\ links' \in Seq(LinkRecords) /\ Len(links') = Len(links) /\ place' \in Seq(Nat) /\ Len(place') = Len(place)
  BY <1>2 DEF Mergence
<1>5. /\ Len(links) = Len(alpha) /\ Len(place) = Len(alpha) /\ Len(children) = Len(alpha)
      /\ \A p \in InUse : p \in Handles
      /\ \A x \in Handles : place[x] \in Handles
  BY PlacesAre
<1>6. Lists' /\ Links'
  BY <1>1, <1>2, RegroupedLists, RegroupedLinks
<1>7. Shape'
  <2>1. /\ alpha \in Seq([key : NodeKeys, parent : Nat, mergeable : BOOLEAN])
        /\ \A x \in Handles : (x = 1 /\ alpha[x].parent = 0) \/ alpha[x].parent \in 1..x - 1
    BY DEF Forest, Shape
  <2>2. \A x \in Handles : place'[x] \in Handles
    BY <1>3, <1>5
  <2> QED BY <1>2, <1>3, <1>4, <1>5, <2>1, <2>2 DEF Shape, LinkRecords
<1>8. Levels'
  <2>1. PICK level : /\ \A x \in Handles : level[x] \in 1..x
                     /\ \A x \in Handles \ {1} : level[x] = level[alpha[x].parent] + 1
                     /\ \A x, y \in Handles : place[x] = place[y] => level[x] = level[y]
    BY DEF Forest, Levels
  <2> DEFINE R == place[alpha[h].parent]
  <2>2. alpha[h].parent \in Handles /\ R \in InUse
    BY ParentIs
  <2>3. ASSUME NEW i \in 1..Len(Kin(h)) PROVE Kin(h)[i] \in Handles \ {1} /\ level[Kin(h)[i]] = level[alpha[h].parent] + 1
    <3> DEFINE e == Kin(h)[i]
    <3>1. e \in Handles \ {1} /\ place[alpha[e].parent] = R /\ e \in Live
      <4>1. /\ children[R][i] \in Handles \ {1}
            /\ place[alpha[children[R][i]].parent] = R
        BY <2>2, <2>3 DEF Kin, Forest, Lists
      <4>2. children[R][i] \in Live
        BY <2>2, <2>3, LiveIs DEF Kin
      <4> QED BY <4>1, <4>2, SMTT(30) DEF Kin
    <3> HIDE DEF e
    <3>2. alpha[e].parent \in Handles
      BY <3>1, ParentIs
    <3>3. level[alpha[e].parent] = level[alpha[h].parent]
      BY <2>1, <2>2, <3>1, <3>2
    <3>4. level[e] = level[alpha[e].parent] + 1
      BY <2>1, <3>1
    <3> QED BY <3>1, <3>3, <3>4, SMTT(30) DEF e
  <2>4. Row(h)[1] \in Handles /\ level[Row(h)[1]] = level[alpha[h].parent] + 1
    BY <1>3, <2>3
  <2>5. \A x : G(x) => x \in Handles /\ level[x] = level[Row(h)[1]]
    BY <1>3, <2>3, <2>4
  <2> DEFINE first == Row(h)[1]
  <2> HIDE DEF first, G, R
  <2>6. P = place[first] /\ first \in Handles /\ \A x : G(x) => x \in Handles /\ level[x] = level[first]
    BY <2>4, <2>5 DEF first
  <2> HIDE DEF P
  <2>7. ASSUME NEW x \in Handles, NEW y \in Handles, place'[x] = place'[y] PROVE level[x] = level[y]
    <3>1. CASE G(x) /\ G(y)
      BY <2>6, <3>1
    <3>2. CASE G(x) /\ ~G(y)
      <4>1. place[y] = place[first]
        BY <1>3, <2>6, <2>7, <3>2
      <4> QED BY <2>1, <2>6, <3>2, <4>1
    <3>3. CASE ~G(x) /\ G(y)
      <4>1. place[x] = place[first]
        BY <1>3, <2>6, <2>7, <3>3
      <4> QED BY <2>1, <2>6, <3>3, <4>1
    <3>4. CASE ~G(x) /\ ~G(y)
      <4>1. place[x] = place[y]
        BY <1>3, <2>7, <3>4
      <4> QED BY <2>1, <4>1
    <3> QED BY <3>1, <3>2, <3>3, <3>4
  <2>8. /\ \A x \in Handles' : level[x] \in 1..x
        /\ \A x \in Handles' \ {1} : level[x] = level[alpha'[x].parent] + 1
        /\ \A x, y \in Handles' : place'[x] = place'[y] => level[x] = level[y]
    BY <1>2, <1>3, <2>1, <2>7
  <2> QED BY <2>8 DEF Levels
<1> QED BY <1>6, <1>7, <1>8 DEF Forest

-----------------------------------------------------------------------------
(* Optimize.                                                               *)

\* The links lead to nodes that are in the tree.
LEMMA NextIs ==
  ASSUME Forest, NEW h \in Handles
  PROVE  /\ Td(links, place, h).down # 0 => Td(links, place, h).down \in Live \ {1}
         /\ Td(links, place, h).right # 0 => Td(links, place, h).right \in Live \ {1}
<1>1. place[h] \in InUse
  BY PlacesAre
<1>2. ASSUME NEW p \in InUse, NEW i PROVE Nth(children[p], i) # 0 => Nth(children[p], i) \in Live \ {1}
  <2>1. \A j \in 1..Len(children[p]) : children[p][j] \in Handles \ {1} /\ children[p][j] \in Live
    BY LiveIs DEF Forest, Lists
  <2> QED BY <2>1 DEF Nth
<1>3. links[place[h]].down = Nth(children[place[h]], 1)
  BY <1>1 DEF Forest, Links
<1>4. PICK x \in Live : place[x] = place[h]
  BY DEF Forest, Lists
<1>5. CASE x = 1
  <2>1. links[place[x]].right = 0
    BY <1>5 DEF Forest, Links, Live
  <2> QED BY <1>1, <1>2, <1>3, <1>4, <2>1 DEF Td
<1>6. CASE x # 1
  <2>1. PICK p \in InUse : \E i \in 1..Len(children[p]) : x = children[p][i]
    BY <1>6, LiveIs
  <2>2. PICK i \in 1..Len(children[p]) : x = children[p][i]
    BY <2>1
  <2>3. links[place[x]].right = Nth(children[p], i + 1)
    BY <2>2 DEF Forest, Links, Strung
  <2> QED BY <1>1, <1>2, <1>3, <1>4, <2>3 DEF Td
<1> QED BY <1>5, <1>6

\* The stacks of a visit.
LEMMA StacksAre ==
  ASSUME stack \in Seq(Nat), stack # << >>, \A i \in 1..Len(stack) : stack[i] \in Handles, Handles \subseteq Nat
  PROVE  /\ Last(stack) \in Handles
         /\ Front(stack) \in Seq(Nat) /\ \A i \in 1..Len(Front(stack)) : Front(stack)[i] \in Handles
         /\ \A h \in Handles : /\ Append(stack, h) \in Seq(Nat)
                               /\ \A i \in 1..Len(Append(stack, h)) : Append(stack, h)[i] \in Handles
                               /\ Append(Front(stack), h) \in Seq(Nat)
                               /\ \A i \in 1..Len(Append(Front(stack), h)) : Append(Front(stack), h)[i] \in Handles
<1>1. Len(stack) \in 1..Len(stack)
  OBVIOUS
<1>2. stack \in Seq(Handles)
  BY Within
<1> HIDE DEF Handles
<1>3. Front(stack) \in Seq(Handles)
  BY <1>1, <1>2 DEF Front
<1> DEFINE Good(s) == s \in Seq(Nat) /\ \A i \in 1..Len(s) : s[i] \in Handles
<1>4. ASSUME NEW s \in Seq(Handles) PROVE Good(s)
  <2>0. \A i \in 1..Len(s) : s[i] \in Handles
    OBVIOUS
  <2>1. \A i \in 1..Len(s) : s[i] \in Handles /\ s[i] \in Nat
    BY <2>0
  <2> QED BY <2>1, Within
<1>5. ASSUME NEW h \in Handles, NEW s \in Seq(Handles) PROVE Append(s, h) \in Seq(Handles)
  OBVIOUS
<1> HIDE DEF Good
<1>6. Good(Front(stack)) /\ \A h \in Handles : Good(Append(stack, h)) /\ Good(Append(Front(stack), h))
  BY <1>2, <1>3, <1>4, <1>5
<1> QED BY <1>1, <1>6 DEF Good, Last

\* The other steps of Optimize touch nothing but the stack.
LEMMA OptimizeKeeps ==
  ASSUME Forest, OptimizeStart \/ Descend \/ Proceed, ~untidy'
  PROVE  Forest'
<1>1. /\ alpha \in Seq([key : NodeKeys, parent : Nat, mergeable : BOOLEAN])
      /\ links \in Seq(LinkRecords) /\ stack \in Seq(Nat) /\ \A i \in 1..Len(stack) : stack[i] \in Handles
  BY DEF Forest, Shape, LinkRecords
<1>2. Handles \subseteq Nat /\ Handles = 1..Len(alpha) /\ Len(alpha) \in Nat
  BY PlacesAre
<1>3. ASSUME UNCHANGED <<links, place, alpha, children>>, stack' \in Seq(Nat), \A i \in 1..Len(stack') : stack'[i] \in Handles
      PROVE  Forest'
  BY <1>1, <1>3, SameTree
<1>4. CASE OptimizeStart
  <2>1. 1 \in Handles
    BY <1>1, <1>2, <1>4 DEF OptimizeStart
  <2>2. stack' = <<1>> /\ UNCHANGED <<links, place, alpha, children>>
    BY <1>4 DEF OptimizeStart
  <2>3. <<1>> \in Seq(Nat) /\ Len(<<1>>) = 1 /\ <<1>>[1] = 1
    OBVIOUS
  <2>4. \A i \in 1..1 : i = 1
    OBVIOUS
  <2> QED BY <1>3, <2>1, <2>2, <2>3, <2>4
<1>5. CASE Descend
  <2> DEFINE d == Td(links, place, Last(stack)).down
  <2>1. stack # << >> /\ (d = 0 => Goto(stack, FALSE)) /\ (d # 0 => stack' = Append(stack, d) /\ Visit(d))
    BY <1>5, Zenon DEF Descend
  <2>2. d # 0 => d \in Live \ {1}
    BY <1>1, <1>2, <2>1, StacksAre, NextIs
  <2> HIDE DEF d
  <2>3. CASE d = 0
    BY <1>1, <1>3, <2>1, <2>3 DEF Goto
  <2>4. CASE d # 0
    <3>1. d \in Handles
      BY <2>2, <2>4 DEF Live
    <3>2. stack' \in Seq(Nat) /\ \A i \in 1..Len(stack') : stack'[i] \in Handles
      BY <1>1, <1>2, <2>1, <2>4, <3>1, StacksAre, Zenon
    <3> QED BY <2>1, <2>2, <2>4, <3>2, VisitKeeps
  <2> QED BY <2>3, <2>4
<1>6. CASE Proceed
  <2> DEFINE r == Td(links, place, Last(stack)).right
  <2>1. stack # << >> /\ (r = 0 => Goto(Front(stack), FALSE)) /\ (r # 0 => stack' = Append(Front(stack), r) /\ Visit(r))
    BY <1>6, Zenon DEF Proceed
  <2>2. r # 0 => r \in Live \ {1}
    BY <1>1, <1>2, <2>1, StacksAre, NextIs
  <2> HIDE DEF r
  <2>3. CASE r = 0
    <3>1. UNCHANGED <<links, place, alpha, children>> /\ stack' = Front(stack)
      BY <2>1, <2>3 DEF Goto
    <3>2. stack' \in Seq(Nat) /\ \A i \in 1..Len(stack') : stack'[i] \in Handles
      BY <1>1, <1>2, <2>1, <3>1, StacksAre
    <3> QED BY <1>3, <3>1, <3>2
  <2>4. CASE r # 0
    <3>1. r \in Handles
      BY <2>2, <2>4 DEF Live
    <3>2. stack' \in Seq(Nat) /\ \A i \in 1..Len(stack') : stack'[i] \in Handles
      BY <1>1, <1>2, <2>1, <2>4, <3>1, StacksAre
    <3> QED BY <2>1, <2>2, <2>4, <3>2, VisitKeeps
  <2> QED BY <2>3, <2>4
<1> QED BY <1>4, <1>5, <1>6

\* A tree without nodes.
LEMMA InitKeeps ==
  ASSUME Init
  PROVE  Forest
<1>1. alpha = << >> /\ links = << >> /\ place = << >> /\ children = << >> /\ stack = << >>
  BY DEF Init
<1>2. Len(<< >>) = 0 /\ 1..0 = {} /\ \A S : << >> \in Seq(S)
  OBVIOUS
<1>3. Handles = {} /\ InUse = {} /\ Live = {}
  BY <1>1, <1>2 DEF Handles, InUse, Live
<1>4. Shape
  BY <1>1, <1>2, <1>3 DEF Shape
<1> QED BY <1>3, <1>4 DEF Forest, Lists, Links, Levels

-----------------------------------------------------------------------------
(* Traversal and destruction.                                              *)

\* No two elements of a list have the same place, nor do two of a list of lists.
Own(s, at) == \A i, j \in 1..Len(s) : at[s[i]] = at[s[j]] => i = j
Scattered(ss, at) ==
  /\ \A a \in 1..Len(ss) : Own(ss[a], at)
  /\ \A a, b \in 1..Len(ss) : \A i \in 1..Len(ss[a]), j \in 1..Len(ss[b]) : at[ss[a][i]] = at[ss[b][j]] => a = b

\* The first n lists, joined.
Flattened(s, ss, n, at) ==
  /\ \A i \in 1..Len(s) : \E a \in 1..n : \E b \in 1..Len(ss[a]) : s[i] = ss[a][b]
  /\ \A a \in 1..n : \A b \in 1..Len(ss[a]) : \E i \in 1..Len(s) : s[i] = ss[a][b]
  /\ Scattered(ss, at) => Own(s, at)

\* Of lists behind one another, each element has its list.
LEMMA JoinedParts ==
  ASSUME NEW S, NEW s \in Seq(S), NEW t \in Seq(S)
  PROVE  /\ \A i \in 1..Len(s \o t) : \/ i \in 1..Len(s) /\ (s \o t)[i] = s[i]
                                      \/ \E j \in 1..Len(t) : i = Len(s) + j /\ (s \o t)[i] = t[j]
         /\ \A i \in 1..Len(s) : i \in 1..Len(s \o t) /\ (s \o t)[i] = s[i]
         /\ \A j \in 1..Len(t) : Len(s) + j \in 1..Len(s \o t) /\ (s \o t)[Len(s) + j] = t[j]
<1> DEFINE u == s \o t
<1>1. /\ Len(u) = Len(s) + Len(t) /\ Len(s) \in Nat /\ Len(t) \in Nat
      /\ \A i \in 1..Len(s) : u[i] = s[i]
      /\ \A i \in 1..Len(t) : u[Len(s) + i] = t[i]
  BY Joined
<1> HIDE DEF u
<1>2. ASSUME NEW i \in 1..Len(u) PROVE \/ i \in 1..Len(s) /\ u[i] = s[i]
                                       \/ \E j \in 1..Len(t) : i = Len(s) + j /\ u[i] = t[j]
  <2>1. CASE i <= Len(s)
    BY <1>1, <2>1
  <2>2. CASE i > Len(s)
    <3>1. i - Len(s) \in 1..Len(t) /\ i = Len(s) + (i - Len(s))
      BY <1>1, <2>2
    <3> QED BY <1>1, <3>1
  <2> QED BY <1>1, <2>1, <2>2
<1>3. \A i \in 1..Len(s) : i \in 1..Len(u) /\ u[i] = s[i]
  BY <1>1
<1>4. \A j \in 1..Len(t) : Len(s) + j \in 1..Len(u) /\ u[Len(s) + j] = t[j]
  BY <1>1
<1> QED BY <1>2, <1>3, <1>4 DEF u

\* The same for FlattenSeq.
LEMMA FlattenIs ==
  ASSUME NEW S, NEW ss \in Seq(Seq(S)), NEW at
  PROVE  FlattenSeq(ss) \in Seq(S) /\ Flattened(FlattenSeq(ss), ss, Len(ss), at)
<1> DEFINE N == Len(ss)
<1>1. PICK f : /\ f[0] = << >>
               /\ \A i \in 1..N : f[i] = f[i - 1] \o ss[i]
               /\ FlattenSeq(ss) = f[N]
  BY FlattenDef, Zenon
<1>2. N \in Nat /\ \A a \in 1..N : ss[a] \in Seq(S)
  OBVIOUS
<1> HIDE DEF N
<1> DEFINE T == {n \in 0..N : f[n] \in Seq(S) /\ Flattened(f[n], ss, n, at)}
<1>3. 0 \in T
  <2>1. f[0] = << >> /\ << >> \in Seq(S) /\ Len(<< >>) = 0 /\ 1..0 = {} /\ 0 \in 0..N
    BY <1>1, <1>2
  <2>2. Flattened(f[0], ss, 0, at)
    BY <2>1 DEF Flattened, Own
  <2> QED BY <2>1, <2>2
<1>4. ASSUME NEW n \in 0..N - 1, n \in T PROVE n + 1 \in T
  <2> DEFINE s == f[n]
             m == n + 1
             t == ss[m]
             u == f[m]
  <2>1. m \in 1..N /\ m \in 0..N /\ m - 1 = n /\ n \in Nat /\ \A a \in 1..m : a = m \/ a \in 1..n
    BY <1>2
  <2>2. u = s \o t /\ s \in Seq(S) /\ t \in Seq(S) /\ Flattened(s, ss, n, at)
    BY <1>1, <1>2, <1>4, <2>1
  <2>3. \A a \in 1..n : a \in 1..m /\ a # m /\ a \in 1..N
    BY <1>2, <2>1
  <2>4. m \in 1..m
    BY <2>1
  <2> HIDE DEF s, m, t, u
  <2>5. u \in Seq(S)
    BY <2>2, Joined
  <2>6. /\ \A i \in 1..Len(u) : \/ i \in 1..Len(s) /\ u[i] = s[i]
                                \/ \E j \in 1..Len(t) : i = Len(s) + j /\ u[i] = t[j]
        /\ \A i \in 1..Len(s) : i \in 1..Len(u) /\ u[i] = s[i]
        /\ \A j \in 1..Len(t) : Len(s) + j \in 1..Len(u) /\ u[Len(s) + j] = t[j]
    BY <2>2, JoinedParts
  <2>7. ASSUME NEW i \in 1..Len(u) PROVE \E a \in 1..m : \E b \in 1..Len(ss[a]) : u[i] = ss[a][b]
    <3>1. CASE i \in 1..Len(s) /\ u[i] = s[i]
      <4>1. PICK a \in 1..n : \E b \in 1..Len(ss[a]) : s[i] = ss[a][b]
        BY <2>2, <3>1 DEF Flattened
      <4> QED BY <2>3, <3>1, <4>1
    <3>2. CASE \E j \in 1..Len(t) : u[i] = t[j]
      BY <2>4, <3>2 DEF t
    <3> QED BY <2>6, <3>1, <3>2, Zenon
  <2>8. ASSUME NEW a \in 1..m, NEW b \in 1..Len(ss[a]) PROVE \E i \in 1..Len(u) : u[i] = ss[a][b]
    <3>1. CASE a = m
      BY <2>6, <3>1 DEF t
    <3>2. CASE a \in 1..n
      <4>1. PICK i \in 1..Len(s) : s[i] = ss[a][b]
        BY <2>2, <3>2 DEF Flattened
      <4> QED BY <2>6, <4>1, Zenon
    <3> QED BY <2>1, <3>1, <3>2
  <2>9. ASSUME Scattered(ss, at) PROVE Own(u, at)
    <3>0. Own(s, at) /\ Own(t, at)
      <4>1. Own(s, at)
        BY <2>2, <2>9 DEF Flattened
      <4>2. Own(ss[m], at)
        BY <2>1, <2>9 DEF Scattered, N
      <4> QED BY <4>1, <4>2 DEF t
    <3>1. ASSUME NEW i \in 1..Len(s), NEW j \in 1..Len(t), at[s[i]] = at[t[j]] PROVE FALSE
      <4>1. PICK a \in 1..n : \E b \in 1..Len(ss[a]) : s[i] = ss[a][b]
        BY <2>2 DEF Flattened
      <4>2. PICK b \in 1..Len(ss[a]) : s[i] = ss[a][b]
        BY <4>1
      <4>3. at[ss[a][b]] = at[ss[m][j]] /\ j \in 1..Len(ss[m])
        BY <3>1, <4>2 DEF t
      <4>4. a \in 1..Len(ss) /\ m \in 1..Len(ss) /\ a # m
        BY <2>1, <2>3 DEF N
      <4>5. a = m
        BY <2>9, <4>3, <4>4, Zenon DEF Scattered
      <4> QED BY <4>4, <4>5
    <3>2. ASSUME NEW i \in 1..Len(u), NEW k \in 1..Len(u), at[u[i]] = at[u[k]] PROVE i = k
      <4>1. CASE i \in 1..Len(s) /\ u[i] = s[i] /\ k \in 1..Len(s) /\ u[k] = s[k]
        BY <3>0, <3>2, <4>1 DEF Own
      <4>2. CASE (\E j \in 1..Len(t) : i = Len(s) + j /\ u[i] = t[j]) /\ (\E j \in 1..Len(t) : k = Len(s) + j /\ u[k] = t[j])
        BY <3>0, <3>2, <4>2, Zenon DEF Own
      <4>3. CASE i \in 1..Len(s) /\ u[i] = s[i] /\ \E j \in 1..Len(t) : u[k] = t[j]
        BY <3>1, <3>2, <4>3
      <4>4. CASE k \in 1..Len(s) /\ u[k] = s[k] /\ \E j \in 1..Len(t) : u[i] = t[j]
        BY <3>1, <3>2, <4>4
      <4> QED BY <2>6, <4>1, <4>2, <4>3, <4>4
    <3> QED BY <3>2 DEF Own
  <2>10. Flattened(u, ss, m, at)
    BY <2>7, <2>8, <2>9 DEF Flattened
  <2> QED BY <2>1, <2>5, <2>10 DEF u, m
<1> HIDE DEF T
<1>5. N \in T
  <2>1. 0..N \subseteq T
    BY <1>2, <1>3, <1>4, InductionUpTo
  <2> QED BY <1>2, <2>1
<1>6. f[N] \in Seq(S) /\ Flattened(f[N], ss, N, at)
  BY <1>5 DEF T
<1> QED BY <1>1, <1>6 DEF N

\* ForEach, down to a depth.
Visiting(f) ==
  /\ f[0] = [h \in Handles |-> << >>]
  /\ \A i \in 1..Len(place) : f[i] = [h \in Handles |->
                    IF Td(links, place, h).way
                    THEN LET c == Chain(links, place, h)
                         IN  <<h>> \o FlattenSeq([j \in DOMAIN c |-> f[i - 1][c[j]]])
                    ELSE << >>]

\* What it comes to from h on: nothing, or h and then what it comes to from its children on.
Kids(h) == children[place[h]]
OwnBelow(f, n, h) ==
  /\ \A a \in 1..Len(Kids(h)) : Own(f[n][Kids(h)[a]], place)
  /\ \A a, b \in 1..Len(Kids(h)) : \A i \in 1..Len(f[n][Kids(h)[a]]), j \in 1..Len(f[n][Kids(h)[b]]) :
       place[f[n][Kids(h)[a]][i]] = place[f[n][Kids(h)[b]][j]] => a = b
Entered(f, n, h, s) ==
  /\ s[1] = h /\ 1 \in 1..Len(s)
  /\ \A i \in 1..Len(s) : i # 1 => \E a \in 1..Len(Kids(h)) : \E b \in 1..Len(f[n][Kids(h)[a]]) : s[i] = f[n][Kids(h)[a]][b]
  /\ \A a \in 1..Len(Kids(h)) : \A b \in 1..Len(f[n][Kids(h)[a]]) : \E i \in 1..Len(s) : s[i] = f[n][Kids(h)[a]][b]
  /\ OwnBelow(f, n, h) => \A i, j \in 1..Len(s) : i # 1 /\ j # 1 /\ place[s[i]] = place[s[j]] => i = j

\* One more level of the traversal.
LEMMA VisitTurn ==
  ASSUME Forest, NEW f, Visiting(f), NEW n \in 0..Len(place) - 1, \A h \in Handles : f[n][h] \in Seq(Handles),
         NEW h \in Handles
  PROVE  /\ f[n + 1][h] \in Seq(Handles)
         /\ \/ f[n + 1][h] = << >> /\ ~links[place[h]].way
            \/ Entered(f, n, h, f[n + 1][h])
<1> DEFINE c == Kids(h)
           ss == [j \in DOMAIN c |-> f[n][c[j]]]
           F == FlattenSeq(ss)
           u == f[n + 1][h]
<1>1. Len(place) \in Nat /\ n + 1 \in 1..Len(place) /\ (n + 1) - 1 = n
  BY PlacesAre
<1>2. Chain(links, place, h) = c
  BY ChildrenAre DEF Kids
<1>3. u = IF links[place[h]].way THEN <<h>> \o F ELSE << >>
  <2> DEFINE m == n + 1
             V(x) == IF Td(links, place, x).way
                     THEN <<x>> \o FlattenSeq([j \in DOMAIN Chain(links, place, x) |-> f[m - 1][Chain(links, place, x)[j]]])
                     ELSE << >>
  <2>1. f[m] = [x \in Handles |-> V(x)]
    BY <1>1 DEF Visiting
  <2>2. f[m][h] = V(h)
    BY <2>1
  <2>3. m - 1 = n
    BY <1>1
  <2> HIDE DEF m, c
  <2>4. V(h) = IF links[place[h]].way THEN <<h>> \o F ELSE << >>
    BY <1>2, <2>3 DEF Td
  <2> QED BY <2>2, <2>4 DEF m
<1>4. c \in Seq(Handles \ {1}) /\ Len(c) \in Nat /\ DOMAIN c = 1..Len(c)
  <2>1. place[h] \in InUse
    BY PlacesAre
  <2> QED BY <2>1, KidsAre DEF Kids
<1> HIDE DEF c, u
<1>5. ss \in Seq(Seq(Handles)) /\ Len(ss) = Len(c) /\ \A a \in 1..Len(c) : ss[a] = f[n][c[a]]
  <2>1. \A a \in 1..Len(c) : f[n][c[a]] \in Seq(Handles)
    BY <1>4
  <2> DEFINE X == Seq(Handles)
             v(a) == f[n][c[a]]
             size == Len(c)
  <2>2. ss = [a \in 1..size |-> v(a)] /\ \A a \in 1..size : v(a) \in X
    BY <1>4, <2>1
  <2> HIDE DEF X, v
  <2>3. [a \in 1..size |-> v(a)] \in Seq(X) /\ Len([a \in 1..size |-> v(a)]) = size
    <3>1. size \in Nat
      BY <1>4
    <3> HIDE DEF size
    <3> QED BY <2>2, <3>1
  <2>4. \A a \in 1..size : [b \in 1..size |-> v(b)][a] = v(a)
    OBVIOUS
  <2> HIDE DEF ss
  <2>5. \A a \in 1..size : ss[a] = v(a)
    BY <2>2, <2>4
  <2> QED BY <2>2, <2>3, <2>5 DEF X, v
<1> HIDE DEF ss
<1>6. F \in Seq(Handles) /\ Flattened(F, ss, Len(ss), place)
  BY <1>5, FlattenIs
<1> HIDE DEF F
<1>7. CASE ~links[place[h]].way
  <2>1. u = << >>
    BY <1>3, <1>7
  <2>2. << >> \in Seq(Handles)
    OBVIOUS
  <2> QED BY <1>7, <2>1, <2>2 DEF u
<1>8. CASE links[place[h]].way
  <2> DEFINE s == <<h>>
  <2>1. s \in Seq(Handles) /\ Len(s) = 1 /\ s[1] = h /\ 1..1 = {1}
    OBVIOUS
  <2>2. u = s \o F
    BY <1>3, <1>8
  <2> HIDE DEF s
  <2>3. u \in Seq(Handles)
    BY <1>6, <2>1, <2>2, Joined
  <2>4. /\ \A i \in 1..Len(u) : \/ i \in 1..Len(s) /\ u[i] = s[i]
                                \/ \E j \in 1..Len(F) : i = Len(s) + j /\ u[i] = F[j]
        /\ \A i \in 1..Len(s) : i \in 1..Len(u) /\ u[i] = s[i]
        /\ \A j \in 1..Len(F) : Len(s) + j \in 1..Len(u) /\ u[Len(s) + j] = F[j]
    <3> DEFINE X == Handles
    <3>1. s \in Seq(X) /\ F \in Seq(X)
      BY <1>6, <2>1
    <3> HIDE DEF X
    <3>2. /\ \A i \in 1..Len(s \o F) : \/ i \in 1..Len(s) /\ (s \o F)[i] = s[i]
                                       \/ \E j \in 1..Len(F) : i = Len(s) + j /\ (s \o F)[i] = F[j]
          /\ \A i \in 1..Len(s) : i \in 1..Len(s \o F) /\ (s \o F)[i] = s[i]
          /\ \A j \in 1..Len(F) : Len(s) + j \in 1..Len(s \o F) /\ (s \o F)[Len(s) + j] = F[j]
      BY <3>1, JoinedParts
    <3> QED BY <2>2, <3>2
  <2>5. u[1] = h /\ 1 \in 1..Len(u)
    BY <2>1, <2>4
  <2>6. \A i \in 1..Len(u) : i # 1 => \E j \in 1..Len(F) : i = Len(s) + j /\ u[i] = F[j]
    BY <2>1, <2>4
  <2>7. ASSUME NEW i \in 1..Len(u), i # 1
        PROVE  \E a \in 1..Len(c) : \E b \in 1..Len(f[n][c[a]]) : u[i] = f[n][c[a]][b]
    <3>1. PICK j \in 1..Len(F) : u[i] = F[j]
      BY <2>6, <2>7
    <3>2. PICK a \in 1..Len(ss) : \E b \in 1..Len(ss[a]) : F[j] = ss[a][b]
      <4>1. \A k \in 1..Len(F) : \E a \in 1..Len(ss) : \E b \in 1..Len(ss[a]) : F[k] = ss[a][b]
        BY <1>6 DEF Flattened
      <4> QED BY <4>1
    <3>3. a \in 1..Len(c) /\ ss[a] = f[n][c[a]]
      BY <1>5
    <3>4. PICK b \in 1..Len(ss[a]) : F[j] = ss[a][b]
      BY <3>2
    <3>5. b \in 1..Len(f[n][c[a]]) /\ u[i] = f[n][c[a]][b]
      BY <3>1, <3>3, <3>4
    <3> QED BY <3>3, <3>5
  <2>8. ASSUME NEW a \in 1..Len(c), NEW b \in 1..Len(f[n][c[a]]) PROVE \E i \in 1..Len(u) : u[i] = f[n][c[a]][b]
    <3>1. PICK j \in 1..Len(F) : F[j] = ss[a][b]
      BY <1>5, <1>6, ZenonT(30) DEF Flattened
    <3> QED BY <1>5, <2>4, <3>1, SMTT(30)
  <2>9. ASSUME OwnBelow(f, n, h), NEW i \in 1..Len(u), NEW j \in 1..Len(u), i # 1, j # 1, place[u[i]] = place[u[j]]
        PROVE  i = j
    <3>1. Scattered(ss, place)
      <4>1. \A a \in 1..Len(ss) : Own(ss[a], place)
        BY <1>5, <2>9, ZenonT(30) DEF OwnBelow, c
      <4>2. ASSUME NEW a \in 1..Len(ss), NEW b \in 1..Len(ss), NEW x \in 1..Len(ss[a]), NEW y \in 1..Len(ss[b]),
                   place[ss[a][x]] = place[ss[b][y]]
            PROVE  a = b
        <5>1. /\ a \in 1..Len(c) /\ b \in 1..Len(c) /\ ss[a] = f[n][c[a]] /\ ss[b] = f[n][c[b]]
          BY <1>5
        <5>2. x \in 1..Len(f[n][c[a]]) /\ y \in 1..Len(f[n][c[b]]) /\ place[f[n][c[a]][x]] = place[f[n][c[b]][y]]
          BY <4>2, <5>1
        <5> QED BY <2>9, <5>1, <5>2 DEF OwnBelow, c
      <4> QED BY <4>1, <4>2, Zenon DEF Scattered
    <3>2. Own(F, place)
      BY <1>6, <3>1 DEF Flattened
    <3>3. PICK x \in 1..Len(F) : i = Len(s) + x /\ u[i] = F[x]
      BY <2>6, <2>9
    <3>4. PICK y \in 1..Len(F) : j = Len(s) + y /\ u[j] = F[y]
      BY <2>6, <2>9
    <3>5. x = y
      BY <2>9, <3>2, <3>3, <3>4, Zenon DEF Own
    <3> QED BY <3>3, <3>4, <3>5
  <2>10. Entered(f, n, h, u)
    BY <2>5, <2>7, <2>8, <2>9 DEF Entered, c
  <2> QED BY <2>3, <2>10 DEF u
<1> QED BY <1>7, <1>8

\* What ForEach comes to is apart, seen from nodes of one level.
Deep(f, level, n) ==
  /\ \A h \in Handles : f[n][h] \in Seq(Handles)
  /\ \A h \in Handles : \A i \in 1..Len(f[n][h]) :
       (i = 1 /\ f[n][h][i] = h) \/ level[f[n][h][i]] > level[h]
  /\ \A h \in Handles : Own(f[n][h], place)
  /\ \A h, k \in Handles : place[h] # place[k] /\ level[h] = level[k] =>
       \A i \in 1..Len(f[n][h]), j \in 1..Len(f[n][k]) : place[f[n][h][i]] # place[f[n][k][j]]

Leveled(level) ==
  /\ \A h \in Handles : level[h] \in 1..h
  /\ \A h \in Handles \ {1} : level[h] = level[alpha[h].parent] + 1
  /\ \A x, y \in Handles : place[x] = place[y] => level[x] = level[y]

\* Children are one level below their parent.
LEMMA KidsLevels ==
  ASSUME Forest, NEW level, Leveled(level), NEW h \in Handles, NEW a \in 1..Len(Kids(h))
  PROVE  /\ Kids(h)[a] \in Handles \ {1} /\ Kids(h)[a] \in Live
         /\ level[Kids(h)[a]] = level[h] + 1 /\ level[h] \in Nat
<1> DEFINE e == Kids(h)[a]
<1>1. place[h] \in InUse
  BY PlacesAre
<1>2. e \in Handles \ {1} /\ place[alpha[e].parent] = place[h] /\ e \in Live
  BY <1>1, LiveIs DEF Kids, Forest, Lists
<1> HIDE DEF e
<1>3. alpha[e].parent \in Handles
  BY <1>2, ParentIs
<1>4. level[alpha[e].parent] = level[h] /\ level[e] = level[alpha[e].parent] + 1
  BY <1>2, <1>3 DEF Leveled
<1>5. level[h] \in Nat
  <2>1. level[h] \in 1..h /\ h \in Nat
    BY PlacesAre DEF Leveled
  <2> QED BY <2>1
<1> QED BY <1>2, <1>4, <1>5 DEF e

\* Two children of nodes with different places, or two different children of one node.
LEMMA KidsApart ==
  ASSUME Forest, NEW h \in Handles, NEW k \in Handles, NEW a \in 1..Len(Kids(h)), NEW b \in 1..Len(Kids(k)),
         place[Kids(h)[a]] = place[Kids(k)[b]]
  PROVE  place[h] = place[k] /\ a = b
<1>1. place[h] \in InUse /\ place[k] \in InUse
  BY PlacesAre
<1>2. Kids(h)[a] \in Live /\ Kids(k)[b] \in Live
  BY <1>1, LiveIs DEF Kids
<1>3. Kids(h)[a] = Kids(k)[b]
  BY <1>2, OwnPlaces
<1> QED BY <1>1, <1>3 DEF Kids, Forest, Lists

\* One more level of the traversal comes to no place twice, as what lies below
\* different nodes lies at places of its own.
LEMMA DeepTurn ==
  ASSUME Forest, NEW f, Visiting(f), NEW level, Leveled(level),
         NEW n \in 0..Len(place) - 1, Deep(f, level, n)
  PROVE  Deep(f, level, n + 1)
<1> DEFINE V(h) == f[n][h]
           U(h) == f[n + 1][h]
           c(h) == Kids(h)
<1>1. \A h \in Handles : V(h) \in Seq(Handles)
  BY DEF Deep
<1>2. ASSUME NEW h \in Handles
      PROVE  U(h) \in Seq(Handles) /\ (U(h) = << >> \/ Entered(f, n, h, U(h)))
  BY <1>1, VisitTurn
<1>3. \A h \in Handles : level[h] \in Nat
  <2>1. \A h \in Handles : level[h] \in 1..h /\ h \in Nat
    BY PlacesAre DEF Leveled
  <2>2. \A h \in Nat : \A l \in 1..h : l \in Nat
    OBVIOUS
  <2> QED BY <2>1, <2>2
<1>4. ASSUME NEW h \in Handles, NEW a \in 1..Len(c(h))
      PROVE  c(h)[a] \in Handles /\ level[c(h)[a]] = level[h] + 1
  BY KidsLevels
<1>5. ASSUME NEW h \in Handles, NEW a \in 1..Len(c(h)), NEW b \in 1..Len(V(c(h)[a]))
      PROVE  V(c(h)[a])[b] \in Handles /\ level[V(c(h)[a])[b]] > level[h]
  <2> DEFINE k == c(h)[a]
             x == V(k)[b]
  <2>1. k \in Handles /\ level[k] = level[h] + 1
    BY <1>4
  <2>2. x \in Handles
    <3>1. V(k) \in Seq(Handles)
      BY <1>1, <2>1
    <3> HIDE DEF Handles, k, V
    <3> QED BY <3>1 DEF k
  <2>3. x = k \/ level[x] > level[k]
    BY <2>1, Zenon DEF Deep
  <2> HIDE DEF k, x
  <2>4. level[x] > level[h]
    <3>1. level[x] \in Nat /\ level[k] \in Nat /\ level[h] \in Nat
      BY <1>3, <2>1, <2>2
    <3>2. level[x] >= level[k]
      BY <2>3, <3>1
    <3> QED BY <2>1, <3>1, <3>2
  <2> QED BY <2>2, <2>4 DEF k, x
<1>6. ASSUME NEW h \in Handles PROVE OwnBelow(f, n, h)
  <2>1. \A a \in 1..Len(c(h)) : Own(V(c(h)[a]), place)
    BY <1>4 DEF Deep
  <2>2. ASSUME NEW a \in 1..Len(c(h)), NEW b \in 1..Len(c(h)), NEW i \in 1..Len(V(c(h)[a])), NEW j \in 1..Len(V(c(h)[b])),
               place[V(c(h)[a])[i]] = place[V(c(h)[b])[j]]
        PROVE  a = b
    <3>1. c(h)[a] \in Handles /\ c(h)[b] \in Handles /\ level[c(h)[a]] = level[c(h)[b]]
      BY <1>4
    <3>2. place[c(h)[a]] = place[c(h)[b]]
      BY <2>2, <3>1, Zenon DEF Deep
    <3> QED BY <3>2, KidsApart
  <2> QED BY <2>1, <2>2 DEF OwnBelow
\* An element is h, or below a child of h.
<1>7. ASSUME NEW h \in Handles, NEW i \in 1..Len(U(h))
      PROVE  \/ i = 1 /\ U(h)[i] = h
             \/ i # 1 /\ \E a \in 1..Len(c(h)) : \E b \in 1..Len(V(c(h)[a])) : U(h)[i] = V(c(h)[a])[b]
  <2>1. Entered(f, n, h, U(h))
    <3>1. U(h) = << >> => 1..Len(U(h)) = {}
      OBVIOUS
    <3> QED BY <1>2, <1>7, <3>1
  <2> QED BY <2>1, ZenonT(30) DEF Entered
<1> HIDE DEF V, U, c
<1>8. ASSUME NEW h \in Handles, NEW i \in 1..Len(U(h))
      PROVE  U(h)[i] \in Handles /\ ((i = 1 /\ U(h)[i] = h) \/ (i # 1 /\ level[U(h)[i]] > level[h]))
  <2>1. CASE i = 1 /\ U(h)[i] = h
    BY <2>1
  <2>2. CASE i # 1 /\ \E a \in 1..Len(c(h)) : \E b \in 1..Len(V(c(h)[a])) : U(h)[i] = V(c(h)[a])[b]
    BY <1>5, <2>2
  <2> QED BY <1>7, <2>1, <2>2
<1>9. \A x, y \in Handles : place[x] = place[y] => level[x] = level[y]
  BY DEF Leveled
<1>10. ASSUME NEW h \in Handles PROVE Own(U(h), place)
  <2> SUFFICES ASSUME NEW i \in 1..Len(U(h)), NEW j \in 1..Len(U(h)), place[U(h)[i]] = place[U(h)[j]] PROVE i = j
    BY DEF Own
  <2>1. level[U(h)[i]] = level[U(h)[j]]
    BY <1>8, <1>9
  <2>2. i = 1 <=> j = 1
    <3>1. level[h] \in Nat /\ ~ (level[h] > level[h])
      BY <1>3
    <3> QED BY <1>8, <2>1, <3>1
  <2>3. CASE i # 1 /\ j # 1
    <3>1. Entered(f, n, h, U(h))
      <4>1. U(h) = << >> => 1..Len(U(h)) = {}
        OBVIOUS
      <4> QED BY <1>2, <4>1 DEF U
    <3>2. \A x, y \in 1..Len(U(h)) : x # 1 /\ y # 1 /\ place[U(h)[x]] = place[U(h)[y]] => x = y
      BY <1>6, <3>1 DEF Entered
    <3> QED BY <2>3, <3>2
  <2> QED BY <2>2, <2>3
<1>11. ASSUME NEW h \in Handles, NEW k \in Handles, place[h] # place[k], level[h] = level[k],
              NEW i \in 1..Len(U(h)), NEW j \in 1..Len(U(k)), place[U(h)[i]] = place[U(k)[j]]
       PROVE  FALSE
  <2>1. level[U(h)[i]] = level[U(k)[j]]
    BY <1>8, <1>9, <1>11
  <2>2. (i = 1 /\ U(h)[i] = h) <=> (j = 1 /\ U(k)[j] = k)
    <3>1. level[h] \in Nat /\ ~ (level[h] > level[h])
      BY <1>3
    <3> QED BY <1>8, <1>11, <2>1, <3>1
  <2>3. CASE U(h)[i] = h /\ U(k)[j] = k
    BY <1>11, <2>3
  <2>4. CASE i # 1 /\ j # 1
    <3>1. PICK a \in 1..Len(c(h)) : \E b \in 1..Len(V(c(h)[a])) : U(h)[i] = V(c(h)[a])[b]
      BY <1>7, <2>4, Zenon
    <3>2. PICK b \in 1..Len(V(c(h)[a])) : U(h)[i] = V(c(h)[a])[b]
      BY <3>1
    <3>3. PICK d \in 1..Len(c(k)) : \E b2 \in 1..Len(V(c(k)[d])) : U(k)[j] = V(c(k)[d])[b2]
      BY <1>7, <2>4
    <3>4. PICK e \in 1..Len(V(c(k)[d])) : U(k)[j] = V(c(k)[d])[e]
      BY <3>3
    <3>5. place[V(c(h)[a])[b]] = place[V(c(k)[d])[e]]
      BY <1>11, <3>2, <3>4
    <3>6. c(h)[a] \in Handles /\ c(k)[d] \in Handles /\ level[c(h)[a]] = level[c(k)[d]]
      BY <1>4, <1>11, Zenon
    <3>7. place[c(h)[a]] = place[c(k)[d]]
      <4>1. \A x, y \in Handles : place[x] # place[y] /\ level[x] = level[y] =>
              \A p \in 1..Len(V(x)), q \in 1..Len(V(y)) : place[V(x)[p]] # place[V(y)[q]]
        BY Zenon DEF Deep, V
      <4> QED BY <3>5, <3>6, <4>1
    <3>8. place[h] = place[k]
      <4>1. a \in 1..Len(Kids(h)) /\ d \in 1..Len(Kids(k)) /\ place[Kids(h)[a]] = place[Kids(k)[d]]
        BY <3>7 DEF c
      <4> QED BY <4>1, KidsApart, SMTT(30)
    <3> QED BY <1>11, <3>8
  <2> QED BY <1>8, <2>2, <2>3, <2>4
<1>12. \A h \in Handles : U(h) \in Seq(Handles)
  BY <1>2 DEF U
<1> QED BY <1>8, <1>10, <1>11, <1>12 DEF Deep, U

\* If no branch is switched off, ForEach comes to everything.
Among(s, x) == \E i \in 1..Len(s) : s[i] = x
Complete(f, n) ==
  /\ \A h \in Handles : \A x : Among(f[n][h], x) => Among(f[n + 1][h], x)
  /\ \A h \in Handles : \A x \in Handles : Among(f[n][h], x) => \A b \in 1..Len(Kids(x)) : Among(f[n + 1][h], Kids(x)[b])

\* A traversal with one level more meets what it met before.
LEMMA EnteredIs ==
  ASSUME NEW f, NEW n, NEW h, NEW s, Entered(f, n, h, s), NEW x
  PROVE  Among(s, x) <=> x = h \/ \E a \in 1..Len(Kids(h)) : Among(f[n][Kids(h)[a]], x)
<1>1. ASSUME NEW i \in 1..Len(s), s[i] = x, x # h
      PROVE  \E a \in 1..Len(Kids(h)) : Among(f[n][Kids(h)[a]], x)
  <2>1. s[1] = h
    BY DEF Entered
  <2>2. i # 1
    BY <1>1, <2>1
  <2>3. \E a \in 1..Len(Kids(h)) : \E b \in 1..Len(f[n][Kids(h)[a]]) : s[i] = f[n][Kids(h)[a]][b]
    BY <2>2, Zenon DEF Entered
  <2> QED BY <1>1, <2>3 DEF Among
<1>2. Among(s, h)
  BY DEF Entered, Among
<1>3. ASSUME NEW a \in 1..Len(Kids(h)), Among(f[n][Kids(h)[a]], x) PROVE Among(s, x)
  <2>1. PICK b \in 1..Len(f[n][Kids(h)[a]]) : f[n][Kids(h)[a]][b] = x
    BY <1>3 DEF Among
  <2>2. \E i \in 1..Len(s) : s[i] = f[n][Kids(h)[a]][b]
    BY DEF Entered
  <2> QED BY <2>1, <2>2 DEF Among
<1>4. Among(s, x) /\ x # h => \E a \in 1..Len(Kids(h)) : Among(f[n][Kids(h)[a]], x)
  BY <1>1 DEF Among
<1> QED BY <1>2, <1>3, <1>4

\* It meets the children of what it met before.
LEMMA CompleteTurn ==
  ASSUME Forest, NEW f, Visiting(f), NEW level, Leveled(level), \A p \in Handles : links[p].way,
         NEW n \in 0..Len(place) - 2, Deep(f, level, n), Deep(f, level, n + 1), Complete(f, n)
  PROVE  Complete(f, n + 1)
<1> DEFINE m == n + 1
<1>1. n \in 0..Len(place) - 1 /\ m \in 0..Len(place) - 1
  BY PlacesAre
<1>2. ASSUME NEW k \in 0..Len(place) - 1, Deep(f, level, k), NEW h \in Handles, NEW x
      PROVE  Among(f[k + 1][h], x) <=> x = h \/ \E a \in 1..Len(Kids(h)) : Among(f[k][Kids(h)[a]], x)
  <2>1. \A y \in Handles : f[k][y] \in Seq(Handles)
    BY <1>2 DEF Deep
  <2>2. links[place[h]].way
    BY PlacesAre
  <2>3. Entered(f, k, h, f[k + 1][h])
    BY <2>1, <2>2, VisitTurn
  <2> QED BY <2>3, EnteredIs
<1>3. Deep(f, level, m)
  OBVIOUS
<1> HIDE DEF m
<1>4. ASSUME NEW h \in Handles, NEW x
      PROVE  /\ Among(f[m][h], x) <=> x = h \/ \E a \in 1..Len(Kids(h)) : Among(f[n][Kids(h)[a]], x)
             /\ Among(f[m + 1][h], x) <=> x = h \/ \E a \in 1..Len(Kids(h)) : Among(f[m][Kids(h)[a]], x)
  <2>1. Among(f[n + 1][h], x) <=> x = h \/ \E a \in 1..Len(Kids(h)) : Among(f[n][Kids(h)[a]], x)
    BY <1>1, <1>2, Zenon
  <2>2. Among(f[m + 1][h], x) <=> x = h \/ \E a \in 1..Len(Kids(h)) : Among(f[m][Kids(h)[a]], x)
    BY <1>1, <1>2, <1>3
  <2> QED BY <2>1, <2>2 DEF m
<1>5. \A h \in Handles : \A a \in 1..Len(Kids(h)) : Kids(h)[a] \in Handles
  BY KidsLevels
<1>6. /\ \A h \in Handles : \A x : Among(f[n][h], x) => Among(f[m][h], x)
      /\ \A h \in Handles : \A x \in Handles : Among(f[n][h], x) => \A b \in 1..Len(Kids(x)) : Among(f[m][h], Kids(x)[b])
  BY DEF Complete, m
<1>7. ASSUME NEW h \in Handles, NEW x, Among(f[m][h], x) PROVE Among(f[m + 1][h], x)
  BY <1>4, <1>5, <1>6, <1>7, Zenon
<1>8. ASSUME NEW h \in Handles, NEW x \in Handles, Among(f[m][h], x), NEW b \in 1..Len(Kids(x))
      PROVE  Among(f[m + 1][h], Kids(x)[b])
  <2>1. CASE x = h
    <3>1. Among(f[m][Kids(h)[b]], Kids(h)[b])
      BY <1>4, <1>5, <1>8, <2>1, Zenon
    <3> QED BY <1>4, <1>8, <2>1, <3>1
  <2>2. CASE \E a \in 1..Len(Kids(h)) : Among(f[n][Kids(h)[a]], x)
    <3>1. PICK a \in 1..Len(Kids(h)) : Among(f[n][Kids(h)[a]], x)
      BY <2>2
    <3>2. Among(f[m][Kids(h)[a]], Kids(x)[b])
      BY <1>5, <1>6, <3>1
    <3> QED BY <1>4, <3>2
  <2> QED BY <1>4, <1>8, <2>1, <2>2
<1>9. Complete(f, m)
  BY <1>7, <1>8 DEF Complete
<1> QED BY <1>9 DEF m

\* ForEach comes to no place twice, and to all of them if no branch is switched off.
LEMMA VisitedIs ==
  ASSUME Forest, 1 \in Handles
  PROVE  /\ Visited \in Seq(Handles) /\ Own(Visited, place)
         /\ (\A p \in Handles : links[p].way) => \A p \in InUse : \E i \in 1..Len(Visited) : place[Visited[i]] = p
<1> DEFINE D == Len(place)
<1>1. D \in Nat /\ D >= 1 /\ Handles = 1..D
  BY PlacesAre
<1>2. PICK f : Visiting(f) /\ Visited = f[D][1]
  BY <1>1, VisitedDef DEF Visiting
<1>3. PICK level : Leveled(level)
  BY DEF Forest, Levels, Leveled
<1> HIDE DEF D
<1>4. ASSUME NEW n \in 0..D PROVE Deep(f, level, n)
  <2> DEFINE T == {k \in 0..D : Deep(f, level, k)}
  <2>1. Deep(f, level, 0)
    <3>1. \A h \in Handles : f[0][h] = << >>
      BY <1>2 DEF Visiting
    <3>2. Len(<< >>) = 0 /\ 1..0 = {} /\ << >> \in Seq(Handles)
      OBVIOUS
    <3> QED BY <3>1, <3>2 DEF Deep, Own
  <2>2. 0 \in T
    BY <1>1, <2>1
  <2>3. ASSUME NEW k \in 0..D - 1, k \in T PROVE k + 1 \in T
    <3>1. k + 1 \in 0..D
      BY <1>1
    <3> QED BY <1>2, <1>3, <2>3, <3>1, DeepTurn DEF D
  <2> HIDE DEF T
  <2>4. 0..D \subseteq T
    BY <1>1, <2>2, <2>3, InductionUpTo
  <2> QED BY <2>4 DEF T
<1>5. Visited \in Seq(Handles) /\ Own(Visited, place)
  <2>1. Deep(f, level, D)
    BY <1>1, <1>4
  <2> QED BY <1>2, <2>1 DEF Deep
<1>6. ASSUME \A p \in Handles : links[p].way, NEW p \in InUse
      PROVE  \E i \in 1..Len(Visited) : place[Visited[i]] = p
  <2>1. ASSUME NEW k \in 0..D - 1, NEW h \in Handles, NEW x
        PROVE  Among(f[k + 1][h], x) <=> x = h \/ \E a \in 1..Len(Kids(h)) : Among(f[k][Kids(h)[a]], x)
    <3>1. \A y \in Handles : f[k][y] \in Seq(Handles)
      <4>1. k \in 0..D
        BY <1>1
      <4> QED BY <1>4, <4>1 DEF Deep
    <3>2. links[place[h]].way
      BY <1>6, PlacesAre
    <3>3. Entered(f, k, h, f[k + 1][h])
      BY <1>2, <3>1, <3>2, VisitTurn DEF D
    <3> QED BY <3>3, EnteredIs
  <2>2. ASSUME NEW n \in 0..D - 1 PROVE Complete(f, n)
    <3> DEFINE T == {k \in 0..D - 1 : Complete(f, k)}
    <3>1. Complete(f, 0)
      <4>1. \A h \in Handles : f[0][h] = << >>
        BY <1>2 DEF Visiting
      <4>2. Len(<< >>) = 0 /\ 1..0 = {}
        OBVIOUS
      <4> QED BY <4>1, <4>2 DEF Complete, Among
    <3>2. 0 \in T
      BY <1>1, <3>1
    <3>3. ASSUME NEW k \in 0..(D - 1) - 1, k \in T PROVE k + 1 \in T
      <4>1. k + 1 \in 0..D - 1 /\ k \in 0..D - 2 /\ k \in 0..D /\ k + 1 \in 0..D
        BY <1>1
      <4>2. Deep(f, level, k) /\ Deep(f, level, k + 1) /\ Complete(f, k)
        BY <1>4, <3>3, <4>1
      <4>3. Complete(f, k + 1)
        BY <1>2, <1>3, <1>6, <4>1, <4>2, CompleteTurn DEF D
      <4> QED BY <4>1, <4>3
    <3> HIDE DEF T
    <3>4. 0..D - 1 \subseteq T
      <4>1. D - 1 \in Nat
        BY <1>1
      <4> DEFINE M == D - 1
      <4>2. M \in Nat /\ 0 \in T /\ \A k \in 0..M - 1 : k \in T => k + 1 \in T
        BY <3>2, <3>3, <4>1
      <4> HIDE DEF M
      <4>3. 0..M \subseteq T
        BY <4>2, InductionUpTo
      <4> QED BY <4>3 DEF M
    <3> QED BY <3>4 DEF T
  \* A node of a level is come to at that depth.
  <2> DEFINE T == {k \in 0..D : \A x \in Live : level[x] = k => Among(f[k][1], x)}
  <2>3. \A x \in Live : x \in Handles /\ level[x] \in 1..x /\ level[x] \in 1..D
    <3>1. \A x \in Live : x \in Handles
      BY DEF Live
    <3>2. \A x \in Handles : level[x] \in 1..x
      BY <1>3 DEF Leveled
    <3>3. \A x \in 1..D : \A l \in 1..x : l \in 1..D
      BY <1>1
    <3> QED BY <1>1, <3>1, <3>2, <3>3
  <2>4. 0 \in T
    BY <1>1, <2>3
  <2>5. ASSUME NEW k \in 0..D - 1, k \in T PROVE k + 1 \in T
    <3>1. k + 1 \in 0..D
      BY <1>1
    <3>2. ASSUME NEW x \in Live, level[x] = k + 1 PROVE Among(f[k + 1][1], x)
      <4>1. CASE x = 1
        BY <2>1, <2>5, <4>1
      <4>2. CASE x # 1
        <5> DEFINE par == alpha[x].parent
        <5>1. par \in Handles /\ place[par] \in InUse /\ \E i \in 1..Len(Kin(x)) : Kin(x)[i] = x
          BY <4>2, ParentIs
        <5>2. level[x] = level[par] + 1
          BY <1>3, <2>3, <4>2 DEF Leveled
        <5> HIDE DEF par
        <5>3. PICK q \in Live : place[q] = place[par]
          BY <5>1 DEF Forest, Lists
        <5>4. q \in Handles /\ level[q] = level[par] /\ level[q] \in 1..D
          BY <1>3, <2>3, <5>1, <5>3 DEF Leveled
        <5>5. level[q] = k
          BY <2>5, <3>2, <5>2, <5>4
        <5>6. Among(f[k][1], q)
          BY <2>5, <5>5
        <5>7. PICK b \in 1..Len(Kids(q)) : Kids(q)[b] = x
          BY <5>1, <5>3 DEF Kin, Kids, par
        <5> QED BY <2>2, <2>5, <5>4, <5>6, <5>7 DEF Complete
      <4> QED BY <4>1, <4>2
    <3> QED BY <3>1, <3>2
  <2> HIDE DEF T
  <2>6. ASSUME NEW x \in Live PROVE Among(f[level[x]][1], x)
    <3>1. 0..D \subseteq T
      BY <1>1, <2>4, <2>5, InductionUpTo
    <3>2. level[x] \in 0..D
      BY <1>1, <2>3
    <3> QED BY <3>1, <3>2 DEF T
  <2>7. ASSUME NEW x \in Live PROVE Among(f[D][1], x)
    <3> DEFINE l == level[x]
               S == {k \in 0..D : l <= k => Among(f[k][1], x)}
    <3>1. l \in 1..D /\ Among(f[l][1], x)
      BY <2>3, <2>6
    <3> HIDE DEF l
    <3>2. 0 \in S
      BY <1>1, <3>1
    <3>3. ASSUME NEW k \in 0..D - 1, k \in S PROVE k + 1 \in S
      <4>1. k + 1 \in 0..D
        BY <1>1
      <4>2. CASE l = k + 1
        BY <3>1, <4>1, <4>2
      <4>3. CASE l <= k
        <5>1. Among(f[k][1], x)
          BY <3>3, <4>3
        <5>2. Among(f[k + 1][1], x)
          BY <2>2, <5>1 DEF Complete
        <5> QED BY <4>1, <5>2
      <4>4. CASE ~ (l <= k + 1)
        BY <4>1, <4>4
      <4>5. l = k + 1 \/ l <= k \/ ~ (l <= k + 1)
        BY <1>1, <3>1
      <4> QED BY <4>2, <4>3, <4>4, <4>5
    <3> HIDE DEF S
    <3>4. 0..D \subseteq S
      BY <1>1, <3>2, <3>3, InductionUpTo
    <3>5. D \in 0..D /\ l <= D
      BY <1>1, <3>1
    <3> QED BY <3>4, <3>5 DEF S
  <2>8. PICK h \in Handles : p = place[h]
    BY DEF InUse
  <2>9. PICK x \in Live : place[x] = place[h]
    BY DEF Forest, Lists
  <2>10. Among(f[D][1], x)
    BY <2>7
  <2> QED BY <1>2, <2>8, <2>9, <2>10 DEF Among
<1> QED BY <1>5, <1>6

\* The calls that add a node keep the tree.
LEMMA EmplaceKeeps ==
  ASSUME Forest, NEW key \in NodeKeys, NEW type \in Types, Emplace(key, type)
  PROVE  Forest'
<1>1. CASE EmplaceRoot(key, type)
  <2>1. alpha = << >>
    BY <1>1 DEF EmplaceRoot
  <2>2. stack \in Seq(Nat) /\ links \in Seq(LinkRecords) /\ place \in Seq(Nat) /\ Len(links) = Len(alpha) /\ Len(place) = Len(alpha)
    BY DEF Forest, Shape, LinkRecords
  <2>3. links = << >> /\ place = << >>
    <3>1. Len(links) = 0 /\ Len(place) = 0
      BY <2>1, <2>2
    <3> QED BY <2>2, <3>1
  <2> QED BY <1>1, <2>2, <2>3, EmplaceRootKeeps
<1>2. CASE \E p \in Handles : EmplaceFirst(key, type, p)
  BY <1>2, EmplaceFirstKeeps
<1>3. CASE \E p \in Handles : EmplaceLast(key, type, p)
  BY <1>3, EmplaceLastKeeps
<1>4. CASE \E p \in Handles : \E left \in ToSet(children[place[p]]) : EmplaceAfter(key, type, p, left)
  BY <1>4, EmplaceAfterKeeps
<1> QED BY <1>1, <1>2, <1>3, <1>4 DEF Emplace

\* The new node is the last of the links.
LEMMA LinksLast ==
  ASSUME Forest, NEW key \in NodeKeys, NEW type \in Types, Emplace(key, type)
  PROVE  links' \in Seq(LinkRecords) /\ Len(links') # 0 /\ Last(links').type = type
<1> DEFINE h == Len(alpha) + 1
           l == NewLinks(type)
           Good(m) == m \in Seq(LinkRecords) /\ Len(m) = h /\ m[h].type = type
<1>1. /\ h \in Nat /\ h # 0 /\ h \in 1..h /\ l \in Seq(LinkRecords) /\ Len(l) = h
      /\ \A q \in Handles : q \in 1..h
      /\ NewPlace[h] = h /\ \A q \in Handles : NewPlace[q] = place[q] /\ place[q] \in Handles
  <2>1. Len(alpha) \in Nat /\ \A q \in Handles : place[q] \in Handles
    BY PlacesAre
  <2>2. h # 0 /\ h \in 1..h
    BY <2>1
  <2> QED BY <2>1, <2>2, NewIs
<1>2. l[h].type = type
  <2>1. links \in Seq(LinkRecords) /\ Len(links) = Len(alpha)
    BY DEF Forest, Shape, LinkRecords
  <2>2. l[Len(links) + 1] = [down |-> 0, right |-> 0, type |-> type, way |-> TRUE]
    BY <2>1 DEF NewLinks
  <2> QED BY <2>1, <2>2
<1> HIDE DEF h, l
<1>3. ASSUME NEW m, Good(m), NEW q \in 1..h, NEW v \in Nat
      PROVE  Good([m EXCEPT ![q].right = v]) /\ Good([m EXCEPT ![q].down = v])
  <2>1. m \in Seq(LinkRecords) /\ q \in 1..Len(m) /\ h \in 1..Len(m)
    BY <1>1, <1>3
  <2>2. LET k == [m EXCEPT ![q].right = v] IN k \in Seq(LinkRecords) /\ Len(k) = Len(m) /\ k[h].type = m[h].type
    BY <2>1, RightIs
  <2>3. LET k == [m EXCEPT ![q].down = v] IN k \in Seq(LinkRecords) /\ Len(k) = Len(m) /\ k[h].type = m[h].type
    BY <2>1, DownIs
  <2> QED BY <1>3, <2>2, <2>3
<1>4. ASSUME NEW m, Good(m), NEW q \in 1..h PROVE m[q].down \in Nat /\ m[q].right \in Nat
  <2>1. m \in Seq(LinkRecords) /\ q \in 1..Len(m)
    BY <1>4
  <2>2. m[q] \in LinkRecords
    BY <2>1
  <2> QED BY <2>2 DEF LinkRecords
<1>5. Good(l)
  BY <1>1, <1>2
<1>6. ASSUME Good(links') PROVE links' \in Seq(LinkRecords) /\ Len(links') # 0 /\ Last(links').type = type
  BY <1>1, <1>6 DEF Last
<1> HIDE DEF Good
<1>7. CASE EmplaceRoot(key, type)
  <2>1. links' = l
    BY <1>7 DEF EmplaceRoot, Construct, l, NewLinks
  <2> QED BY <1>5, <1>6, <2>1
<1>8. ASSUME NEW p \in Handles, EmplaceFirst(key, type, p) PROVE Good(links')
  <2>1. links' = LinkFirst(l, NewPlace, h, p)
    BY <1>8 DEF EmplaceFirst, Construct, l, NewLinks, NewPlace, h
  <2> DEFINE m == [l EXCEPT ![h].right = l[place[p]].down]
             r == place[p]
  <2>2. links' = [m EXCEPT ![r].down = h]
    BY <1>1, <2>1 DEF LinkFirst
  <2>3. r \in 1..h /\ h \in 1..h /\ h \in Nat
    BY <1>1
  <2>4. Good(m)
    BY <1>3, <1>4, <1>5, <2>3
  <2> HIDE DEF m, r
  <2> QED BY <1>3, <2>2, <2>3, <2>4, Zenon
<1>9. ASSUME NEW p \in Handles, EmplaceLast(key, type, p) PROVE Good(links')
  <2>1. links' = LinkBack(l, NewPlace, h, p)
    BY <1>9 DEF EmplaceLast, Construct, l, NewLinks, NewPlace, h
  <2> DEFINE r == place[p]
             q == NewPlace[Last(Chain(l, NewPlace, p))]
  <2>2. NewPlace[p] = r /\ r \in 1..h /\ h \in Nat
    BY <1>1
  <2>3. links' = [l EXCEPT ![r].down = h] \/ links' = [l EXCEPT ![q].right = h]
    BY <2>1, <2>2 DEF LinkBack
  <2> HIDE DEF q, r
  <2>4. CASE links' = [l EXCEPT ![r].down = h]
    BY <1>3, <1>5, <2>2, <2>4, Zenon
  <2>5. CASE links' = [l EXCEPT ![q].right = h] /\ q \in 1..h
    BY <1>3, <1>5, <2>2, <2>5
  <2>6. CASE links' = [l EXCEPT ![q].right = h] /\ q \notin 1..h
    <3>1. l \in Seq(LinkRecords) /\ DOMAIN l = 1..h
      BY <1>1
    <3>2. [l EXCEPT ![q].right = h] = l
      BY <2>6, <3>1
    <3> QED BY <1>5, <2>6, <3>2
  <2> QED BY <2>3, <2>4, <2>5, <2>6
<1>10. ASSUME NEW p \in Handles, NEW left \in ToSet(children[place[p]]), EmplaceAfter(key, type, p, left) PROVE Good(links')
  <2>1. links' = LinkAfter(l, NewPlace, h, left)
    BY <1>10 DEF EmplaceAfter, Construct, l, NewLinks, NewPlace, h
  <2>2. left \in Handles
    <3>1. children[place[p]] \in Seq(Handles \ {1})
      BY PlacesAre, KidsAre
    <3> QED BY <3>1 DEF ToSet
  <2> DEFINE r == place[left]
             v == l[r].right
             m == [l EXCEPT ![h].right = v]
  <2>3. NewPlace[left] = r /\ r \in 1..h /\ h \in Nat /\ NewPlace[h] = h /\ h \in 1..h
    BY <1>1, <2>2
  <2>4. links' = [m EXCEPT ![r].right = h]
    BY <2>1, <2>3 DEF LinkAfter
  <2>5. v \in Nat
    BY <1>4, <1>5, <2>3
  <2> HIDE DEF r, v
  <2>6. Good(m)
    BY <1>3, <1>5, <2>3, <2>5
  <2> HIDE DEF m
  <2> QED BY <1>3, <2>3, <2>4, <2>6
<1> QED BY <1>6, <1>7, <1>8, <1>9, <1>10 DEF Emplace

\* The memory of a new node: it is short only for one that is larger than all before it.
LEMMA EmplaceMemory ==
  ASSUME Forest, Memory, NEW key \in NodeKeys, NEW type \in Types, Emplace(key, type)
  PROVE  Memory'
<1> DEFINE size == Size[type]
<1>1. /\ Callable /\ room' = RoomFor(size) /\ used' = used + size
      /\ overrun' = (used + size > RoomFor(size)) /\ UNCHANGED optimization
  <2>1. CASE EmplaceRoot(key, type)
    BY <2>1 DEF EmplaceRoot, Construct
  <2>2. CASE \E p \in Handles : EmplaceFirst(key, type, p)
    BY <2>2 DEF EmplaceFirst, Construct
  <2>3. CASE \E p \in Handles : EmplaceLast(key, type, p)
    BY <2>3 DEF EmplaceLast, Construct
  <2>4. CASE \E p \in Handles : \E left \in ToSet(children[place[p]]) : EmplaceAfter(key, type, p, left)
    BY <2>4 DEF EmplaceAfter, Construct
  <2> QED BY <2>1, <2>2, <2>3, <2>4 DEF Emplace
<1>2. used \in Nat /\ room \in Nat /\ used <= room /\ stack' = << >>
  BY <1>1 DEF Memory, Callable, optimization
<1>3. size \in Nat
  BY SizeAssumption
<1>4. Last(links').type = type
  BY LinksLast
<1> HIDE DEF size
<1>5. RoomFor(size) \in Nat /\ (used + size > RoomFor(size) => 2 * size > used + size)
  BY <1>2, <1>3 DEF RoomFor
<1>6. Size[Last(links').type] = size
  BY <1>4 DEF size
<1>7. /\ used' \in Nat /\ room' \in Nat /\ overrun' \in BOOLEAN /\ (~overrun' => used' <= room')
  <2>1. used + size \in Nat /\ (~ (used + size > RoomFor(size)) => used + size <= RoomFor(size))
    BY <1>2, <1>3, <1>5
  <2>2. (used + size > RoomFor(size)) \in BOOLEAN
    OBVIOUS
  <2>3. ~overrun' => ~ (used + size > RoomFor(size))
    BY <1>1, Zenon
  <2>4. overrun' \in BOOLEAN
    BY <1>1, <2>2, Zenon
  <2> QED BY <1>1, <1>5, <2>1, <2>3, <2>4
<1>8. overrun' => stack' = << >> /\ 2 * Size[Last(links').type] > used'
  BY <1>1, <1>2, <1>5, <1>6
<1> QED BY <1>7, <1>8 DEF Memory

\* Every object that can be reached is destroyed once.
LEMMA DestroyEnds ==
  ASSUME Forest, Destroy
  PROVE  Ended'
<1>1. /\ Callable /\ alpha # << >> /\ UNCHANGED <<links, place, stack>>
      /\ destroyed' = [i \in DOMAIN Visited |-> place[Visited[i]]]
  BY DEF Destroy, optimization
<1>2. 1 \in Handles
  <2>1. alpha \in Seq([key : NodeKeys, parent : Nat, mergeable : BOOLEAN])
    BY DEF Forest, Shape
  <2> QED BY <1>1, <2>1 DEF Handles
<1>3. /\ Visited \in Seq(Handles) /\ Own(Visited, place)
      /\ (\A p \in Handles : links[p].way) => \A p \in InUse : \E i \in 1..Len(Visited) : place[Visited[i]] = p
  BY <1>2, VisitedIs
<1> DEFINE v == Visited
           N == Len(v)
<1>4. DOMAIN v = 1..N /\ \A i \in 1..N : v[i] \in Handles
  BY <1>3
<1>5. DOMAIN links = Handles /\ DOMAIN place = Handles
  <2>1. links \in Seq(LinkRecords) /\ place \in Seq(Nat) /\ Len(links) = Len(place) /\ Handles = 1..Len(place)
    BY PlacesAre DEF Forest, Shape, LinkRecords
  <2> QED BY <2>1
<1> HIDE DEF v, N
<1>6. DOMAIN destroyed' = 1..N /\ \A i \in 1..N : destroyed'[i] = place[v[i]]
  BY <1>1, <1>4 DEF v
<1>7. IsInjective(destroyed')
  BY <1>3, <1>6 DEF IsInjective, Own, v, N
<1>8. ASSUME \A i \in DOMAIN links' : links'[i].way PROVE ToSet(destroyed') = ToSet(place')
  <2>1. ToSet(destroyed') = {place[v[i]] : i \in 1..N}
    BY <1>6 DEF ToSet
  <2>2. ToSet(place') = InUse
    BY <1>1, <1>5 DEF ToSet, InUse
  <2>3. \A p \in InUse : \E i \in 1..N : place[v[i]] = p
    BY <1>1, <1>3, <1>5, <1>8 DEF v, N
  <2>4. \A i \in 1..N : place[v[i]] \in InUse
    BY <1>4 DEF InUse
  <2> QED BY <2>1, <2>2, <2>3, <2>4
<1> QED BY <1>1, <1>7, <1>8 DEF Ended, EachDestroyedOnce, Callable

\* Every step keeps the invariant.
LEMMA Preserved ==
  ASSUME IInv, [Next]_vars
  PROVE  IInv'
<1>0. Memory /\ Ended /\ (~untidy => Forest)
  BY DEF IInv
<1>1. ASSUME NEW key \in NodeKeys, NEW type \in Types, Emplace(key, type)
      PROVE  IInv'
  <2>1. Callable /\ UNCHANGED <<untidy, destroyed>>
    BY <1>1, Zenon DEF Emplace, EmplaceRoot, EmplaceFirst, EmplaceLast, EmplaceAfter, Construct, optimization
  <2>2. Forest /\ destroyed' = << >> /\ untidy' = untidy
    BY <1>0, <2>1 DEF Callable
  <2> QED BY <1>0, <1>1, <2>2, EmplaceKeeps, EmplaceMemory DEF IInv, Ended
<1>2. ASSUME NEW h \in Handles,
             \/ \E key \in NodeKeys : UpdateNodeKey(h, key)
             \/ \E flag \in BOOLEAN : SetIsMergeable(h, flag) \/ ToggleBranch(h, flag)
      PROVE  IInv'
  <2>1. Change
    BY <1>2 DEF UpdateNodeKey, SetIsMergeable, ToggleBranch
  <2>2. Forest /\ destroyed' = << >> /\ ~overrun /\ UNCHANGED <<used, room, overrun, stack, untidy>>
    BY <1>0, <2>1 DEF Change, Callable, memory, optimization
  <2>3. Forest'
    BY <1>2, <2>2, ChangesKeep
  <2>4. Memory'
    BY <1>0, <2>2 DEF Memory
  <2> QED BY <2>2, <2>3, <2>4 DEF IInv, Ended
<1>3. CASE OptimizeStart \/ Descend \/ Proceed
  <2>1. Forest /\ ~overrun /\ destroyed' = << >> /\ UNCHANGED memory
    <3>1. CASE OptimizeStart
      BY <1>0, <3>1 DEF OptimizeStart, Callable
    <3>2. CASE Descend
      BY <1>0, <3>2 DEF Descend, Goto, Visit, Memory, Ended
    <3>3. CASE Proceed
      BY <1>0, <3>3 DEF Proceed, Goto, Visit, Memory, Ended
    <3> QED BY <1>3, <3>1, <3>2, <3>3
  <2>2. Memory'
    BY <1>0, <2>1 DEF Memory, memory
  <2> QED BY <1>3, <2>1, <2>2, OptimizeKeeps DEF IInv, Ended
<1>4. CASE Destroy
  <2>1. Callable /\ Forest /\ UNCHANGED <<links, place, alpha, children, stack, untidy, used, room, overrun>>
    BY <1>0, <1>4 DEF Destroy, Callable, memory, optimization
  <2>2. Forest'
    <3>1. /\ alpha \in Seq([key : NodeKeys, parent : Nat, mergeable : BOOLEAN])
          /\ links \in Seq(LinkRecords) /\ stack \in Seq(Nat) /\ \A i \in 1..Len(stack) : stack[i] \in Handles
      BY <2>1 DEF Forest, Shape, LinkRecords
    <3> QED BY <2>1, <3>1, SameTree
  <2>3. Memory'
    BY <1>0, <2>1 DEF Memory
  <2>4. Ended'
    BY <1>4, <2>1, DestroyEnds
  <2> QED BY <2>2, <2>3, <2>4 DEF IInv
<1>5. CASE UNCHANGED vars
  <2>1. UNCHANGED <<links, place, alpha, children, stack, untidy, used, room, overrun, destroyed>>
    BY <1>5 DEF vars
  <2>2. ~untidy' => Forest'
    <3> SUFFICES ASSUME ~untidy' PROVE Forest'
      OBVIOUS
    <3>0. Forest
      BY <1>0, <2>1
    <3>1. /\ alpha \in Seq([key : NodeKeys, parent : Nat, mergeable : BOOLEAN])
          /\ links \in Seq(LinkRecords) /\ stack \in Seq(Nat) /\ \A i \in 1..Len(stack) : stack[i] \in Handles
      BY <3>0 DEF Forest, Shape, LinkRecords
    <3> QED BY <2>1, <3>0, <3>1, SameTree
  <2>3. Memory' /\ Ended'
    BY <1>0, <2>1 DEF Memory, Ended, EachDestroyedOnce
  <2> QED BY <2>2, <2>3 DEF IInv
<1>6. CASE Next
  BY <1>1, <1>2, <1>3, <1>4, <1>6 DEF Next
<1> QED BY <1>5, <1>6

-----------------------------------------------------------------------------
(* What Optimize has merged.                                               *)

\* The links of nodes of the same types.
Fields == {"down", "right", "type", "way"}
SameTypes(l) ==
  DOMAIN l = DOMAIN links /\ \A q \in DOMAIN links : DOMAIN l[q] = Fields /\ l[q].type = links[q].type

\* A link that is changed is a link of a node of the same type.
LEMMA Relinked ==
  ASSUME NEW l, SameTypes(l), NEW a, NEW e
  PROVE  SameTypes([l EXCEPT ![a].right = e]) /\ SameTypes([l EXCEPT ![a].down = e])
<1>1. ASSUME NEW m, m = [l EXCEPT ![a].right = e] \/ m = [l EXCEPT ![a].down = e]
      PROVE  SameTypes(m)
  <2>1. DOMAIN m = DOMAIN l
    BY <1>1
  <2>2. ASSUME NEW q \in DOMAIN l PROVE DOMAIN m[q] = Fields /\ m[q].type = l[q].type
    <3>1. DOMAIN l[q] = Fields
      BY <2>2 DEF SameTypes
    <3>2. CASE q # a
      BY <1>1, <3>1, <3>2
    <3>3. CASE q = a
      <4>1. m[q] = [l[q] EXCEPT !.right = e] \/ m[q] = [l[q] EXCEPT !.down = e]
        BY <1>1, <3>3
      <4> QED BY <3>1, <4>1 DEF Fields
    <3> QED BY <3>2, <3>3
  <2> QED BY <2>1, <2>2 DEF SameTypes
<1> QED BY <1>1

\* The same for what the loop of mergeNodes carries along.
LoopFields == {"l", "at", "lowest", "next", "leftmost", "m"}
TypesKept(s) == DOMAIN s = LoopFields /\ SameTypes(s.l)

\* The loop of mergeNodes leaves the types alone.
LEMMA LoopTypes ==
  ASSUME NEW s, TypesKept(s), NEW x, NEW first
  PROVE  TypesKept(MergeOne(s, x, first)) /\ TypesKept(PassOne(s, x))
<1>1. TypesKept(PassOne(s, x))
  <2>1. DOMAIN PassOne(s, x) = DOMAIN s /\ PassOne(s, x).l = s.l
    BY DEF PassOne, TypesKept, LoopFields
  <2> QED BY <2>1 DEF TypesKept
<1>2. TypesKept(MergeOne(s, x, first))
  <2> DEFINE pos == s.at[x]
             l1 == IF s.lowest = 0 THEN s.l ELSE [s.l EXCEPT ![s.at[s.lowest]].right = s.l[pos].down]
             at == [s.at EXCEPT ![x] = s.at[first]]
             l2 == IF x = first THEN l1 ELSE [l1 EXCEPT ![at[s.m]].right = l1[at[first]].right]
             M == MergeOne(s, x, first)
  <2>1. DOMAIN M = DOMAIN s
    BY DEF MergeOne, TypesKept, LoopFields
  <2>2. M.l = l2
    BY DEF MergeOne, TypesKept, LoopFields
  <2>3. SameTypes(l1)
    <3> DEFINE a == s.at[s.lowest]
               e == s.l[pos].down
    <3>1. l1 = s.l \/ l1 = [s.l EXCEPT ![a].right = e]
      OBVIOUS
    <3> HIDE DEF l1, a, e
    <3>2. SameTypes(s.l)
      BY DEF TypesKept
    <3>3. SameTypes([s.l EXCEPT ![a].right = e])
      BY <3>2, Relinked
    <3> QED BY <3>1, <3>2, <3>3, Zenon
  <2> HIDE DEF M
  <2>4. SameTypes(l2)
    <3> DEFINE a == at[s.m]
               e == l1[at[first]].right
    <3>1. l2 = l1 \/ l2 = [l1 EXCEPT ![a].right = e]
      OBVIOUS
    <3> HIDE DEF l1, l2, a, e
    <3>2. SameTypes([l1 EXCEPT ![a].right = e])
      BY <2>3, Relinked
    <3> QED BY <2>3, <3>1, <3>2, Zenon
  <2> HIDE DEF l2
  <2>5. TypesKept(M)
    BY <2>1, <2>2, <2>4, Zenon DEF TypesKept
  <2> QED BY <2>5, Zenon DEF M
<1> QED BY <1>1, <1>2

\* So does mergeNodes.
LEMMA TypesStay ==
  ASSUME Forest, NEW h, Len(Row(h)) \in Nat
  PROVE  SameTypes(Merged(h).links)
<1> DEFINE c == Row(h)
           N == Len(c)
           first == FirstSame(h)
<1>1. c = ChainFrom(links, place, first) /\ N \in Nat
  BY DEF Row
<1> HIDE DEF c, first
<1>2. PICK s : /\ s[0] = Beginning
               /\ \A i \in 1..N : s[i] = (IF Merges(c[i], h) THEN MergeOne(s[i - 1], c[i], first)
                                          ELSE PassOne(s[i - 1], c[i]))
               /\ Merged(h) = Finish(s[N], first)
  BY <1>1, MergedDef DEF c, first
<1>3a. links \in Seq(LinkRecords)
  BY DEF Forest, Shape, LinkRecords
<1>3. SameTypes(links)
  <2>1. \A q \in DOMAIN links : links[q] \in LinkRecords
    BY <1>3a
  <2>2. \A r \in LinkRecords : DOMAIN r = Fields
    BY DEF LinkRecords, Fields
  <2> QED BY <2>1, <2>2 DEF SameTypes
<1> DEFINE T == {i \in 0..N : TypesKept(s[i])}
<1>4. 0 \in T
  <2>1. TypesKept(Beginning)
    BY <1>3 DEF Beginning, TypesKept, LoopFields
  <2> QED BY <1>2, <2>1 DEF c
<1>5. ASSUME NEW n \in 0..N - 1, n \in T PROVE n + 1 \in T
  <2>1. n + 1 \in 1..N /\ (n + 1) - 1 = n /\ n + 1 \in 0..N
    BY DEF c
  <2>2. TypesKept(s[n])
    BY <1>5
  <2>3. TypesKept(MergeOne(s[n], c[n + 1], first)) /\ TypesKept(PassOne(s[n], c[n + 1]))
    BY <2>2, LoopTypes
  <2>4. s[n + 1] = MergeOne(s[n], c[n + 1], first) \/ s[n + 1] = PassOne(s[n], c[n + 1])
    BY <1>2, <2>1
  <2>5. TypesKept(s[n + 1])
    BY <2>3, <2>4
  <2> QED BY <2>1, <2>5
<1>5a. \A i \in T : TypesKept(s[i])
  OBVIOUS
<1> HIDE DEF T, N
<1>6. N \in T
  <2>0. \A n \in 0..N - 1 : n \in T => n + 1 \in T
    BY <1>5
  <2>1. 0..N \subseteq T
    BY <1>1, <1>4, <2>0, InductionUpTo, Zenon
  <2> QED BY <1>1, <2>1
<1>7. TypesKept(s[N])
  BY <1>5a, <1>6
<1> DEFINE u == s[N]
           a == u.at[first]
           l1 == [u.l EXCEPT ![a].right = u.next]
           l2 == [l1 EXCEPT ![a].down = u.leftmost]
           l3 == [l2 EXCEPT ![u.at[u.m]].right = 0]
<1>8. Merged(h).links = l2 \/ Merged(h).links = l3
  <2>1. Merged(h).links = IF u.m = 0 THEN Tied(u, first) ELSE [Tied(u, first) EXCEPT ![u.at[u.m]].right = 0]
    BY <1>2 DEF Finish
  <2>2. Tied(u, first) = l2
    BY DEF Tied
  <2> HIDE DEF u, l1, l2
  <2> QED BY <2>1, <2>2, Zenon
<1>9. SameTypes(l1)
  BY <1>7, Relinked DEF TypesKept
<1> HIDE DEF l1
<1>10. SameTypes(l2)
  BY <1>9, Relinked
<1> HIDE DEF l2
<1>11. SameTypes(l3)
  BY <1>10, Relinked
<1> HIDE DEF l3
<1> QED BY <1>8, <1>10, <1>11

\* Two nodes of one kind, and two that can be merged.
Same(x, y) == alpha[x].key = alpha[y].key /\ links[place[x]].type = links[place[y]].type
Alike(x, y) == Same(x, y) /\ alpha[x].mergeable /\ alpha[y].mergeable

\* Nothing else in the list can be merged with its a-th node.
Settled(s, a) == \A b \in 1..Len(s) : b # a => ~Alike(s[a], s[b])

\* FirstSame is the first of its kind in the list.
LEMMA FirstIs ==
  ASSUME Forest, NEW h \in Live \ {1}
  PROVE  \E f \in 1..Len(Kin(h)) : /\ FirstSame(h) = Kin(h)[f] /\ Same(Kin(h)[f], h)
                                   /\ \A j \in 1..f - 1 : ~Same(Kin(h)[j], h)
<1> DEFINE kids == Kin(h)
           par == alpha[h].parent
           R == place[par]
           f == CHOOSE i \in DOMAIN kids : Same(kids[i], h) /\ \A j \in 1..i - 1 : ~Same(kids[j], h)
<1>1. par \in Handles /\ R \in InUse /\ \E i \in 1..Len(kids) : kids[i] = h
  BY ParentIs
<1>2. Chain(links, place, par) = kids
  BY <1>1, ChildrenAre DEF Kin
<1>3. Len(kids) \in Nat /\ DOMAIN kids = 1..Len(kids)
  BY <1>1, KidsAre DEF Kin
<1>4. FirstSame(h) = kids[f]
  BY <1>2 DEF FirstSame, Same, Td
<1> HIDE DEF kids, R, par
<1>5. \E i \in DOMAIN kids : Same(kids[i], h) /\ \A j \in 1..i - 1 : ~Same(kids[j], h)
  <2> DEFINE T == {i \in 1..Len(kids) : Same(kids[i], h)}
  <2>0. Same(h, h)
    BY DEF Same
  <2>1. T \subseteq Nat /\ T # {}
    BY <1>1, <2>0
  <2>2. PICK n \in T : \A m \in T : n <= m
    <3> HIDE DEF T
    <3> QED BY <2>1, Least
  <2>3. n \in 1..Len(kids) /\ Same(kids[n], h) /\ \A m \in 1..Len(kids) : Same(kids[m], h) => n <= m
    BY <2>2
  <2>4. \A j \in 1..n - 1 : j \in 1..Len(kids) /\ ~ (n <= j)
    BY <1>3, <2>3
  <2> QED BY <1>3, <2>3, <2>4, Zenon
<1>6. f \in 1..Len(kids) /\ Same(kids[f], h) /\ \A j \in 1..f - 1 : ~Same(kids[j], h)
  BY <1>3, <1>5
<1> QED BY <1>4, <1>6 DEF kids

\* What a visit leaves of a list: the nodes up to the visited one, and nodes that
\* were behind it.
Kept(h, k) ==
  LET W == Remainder(h)
      kids == Kin(h)
  IN  /\ k \in 1..Len(W) /\ Len(W) \in Nat
      /\ \A i \in 1..k : W[i] = kids[i]
      /\ \A i \in k + 1..Len(W) : \E m \in k + 1..Len(kids) : W[i] = kids[m]

\* A node that is visited behind nodes that cannot be merged any more is the first
\* of its kind, or is merged with nothing.
LEMMA VisitedBehind ==
  ASSUME NEW h, NEW f, NEW K, NEW L, NEW g, Scene(h, f, K, L, g),
         NEW k \in 1..Len(Kin(h)), Kin(h)[k] = h, \A a \in 1..k - 1 : Settled(Kin(h), a)
  PROVE  /\ Kept(h, k)
         /\ f = k \/ (f < k /\ \A x : ~Gone(h, x))
         /\ Row(h)[1] = Kin(h)[f] /\ f \in 1..k
         /\ \A i \in 1..Len(Kin(h)) : Gone(h, Kin(h)[i]) => k < i
         /\ \A i \in 1..Len(Kin(h)) : i # k /\ ~Gone(h, Kin(h)[i]) => ~Alike(h, Kin(h)[i])
<1> DEFINE kids == Kin(h)
           c == Row(h)
           N == Len(c)
           W == Remainder(h)
<1>1. /\ Forest /\ h \in Live \ {1}
      /\ f \in 1..Len(kids) /\ N = Len(kids) - f + 1 /\ \A i \in 1..N : c[i] = kids[f + i - 1]
      /\ c[1] = FirstSame(h)
  BY DEF Scene, Siblings
<1>2. /\ N \in Nat /\ N >= 1 /\ K \in Nat /\ L \in Nat /\ 1 <= K /\ K <= L /\ L <= N /\ N <= L + 1
      /\ \A i \in 1..N : Merges(c[i], h) <=> i <= K \/ i > L
  BY SceneIs
<1>3. /\ \A x : Gone(h, x) <=> x \in Group(h) \ {FirstSame(h)}
      /\ \A i \in 1..Len(kids) : Gone(h, kids[i]) <=> (f < i /\ i <= f + K - 1) \/ i > f + L - 1
  BY GroupIs
<1>4. Len(W) = f + L - K /\ \A j \in 1..f + L - K : W[j] = kids[IF j <= f THEN j ELSE j + (K - 1)]
  BY RemainderIs
<1>5. Distinct(kids) /\ Len(kids) \in Nat
  <2>1. place[alpha[h].parent] \in InUse
    BY <1>1, ParentIs
  <2> QED BY <1>1, <2>1, KidsAre DEF Kin
<1>6. PICK e \in 1..Len(kids) : /\ FirstSame(h) = kids[e] /\ Same(kids[e], h)
                                /\ \A j \in 1..e - 1 : ~Same(kids[j], h)
  BY <1>1, FirstIs
<1>7. \A i \in 1..Len(kids) : Gone(h, kids[i]) => Merges(kids[i], h)
  BY <1>1, <1>3 DEF Gone
<1> HIDE DEF kids, c, N, W
<1>8. 1 \in 1..N /\ f + 1 - 1 = f
  BY <1>1, <1>2
<1>9. e = f
  <2>1. c[1] = kids[f]
    BY <1>1, <1>8
  <2> QED BY <1>1, <1>5, <1>6, <2>1 DEF Distinct
<1>10. f \in 1..k
  <2>1. Same(h, h)
    BY DEF Same
  <2>2. ~ (k \in 1..f - 1)
    BY <1>6, <1>9, <2>1 DEF kids
  <2> QED BY <1>1, <1>5, <2>2 DEF kids
<1>11. Merges(kids[f], h)
  BY <1>1, <1>2, <1>8
<1>12. \A x : Merges(x, h) <=> Same(x, h) /\ alpha[x].mergeable
  BY DEF Merges, Same, Td
<1>13. ASSUME f < k PROVE \A i \in 1..Len(kids) : i # f => ~Same(kids[i], h) \/ ~alpha[kids[i]].mergeable
  <2> SUFFICES ASSUME NEW i \in 1..Len(kids), i # f, Same(kids[i], h), alpha[kids[i]].mergeable PROVE FALSE
    OBVIOUS
  <2>1. Alike(kids[f], kids[i])
    BY <1>11, <1>12 DEF Alike, Same
  <2>2. f \in 1..k - 1
    BY <1>10, <1>13, <1>1, <1>5
  <2> QED BY <2>1, <2>2 DEF Settled, kids
<1>14. ASSUME f < k, NEW x PROVE ~Gone(h, x)
  <2> SUFFICES ASSUME Gone(h, x) PROVE FALSE
    OBVIOUS
  <2>1. PICK i \in 2..N : x = c[i] /\ Merges(c[i], h)
    BY DEF Gone, c, N
  <2>2. i \in 1..N /\ f + i - 1 \in 1..Len(kids) /\ f + i - 1 # f
    BY <1>1, <1>2, <1>5, SMTT(30)
  <2>3. c[i] = kids[f + i - 1]
    BY <1>1, <2>2
  <2> QED BY <1>12, <1>13, <1>14, <2>1, <2>2, <2>3
<1>15. f < k => K = 1 /\ L = N
  <2> SUFFICES ASSUME f < k PROVE K = 1 /\ L = N
    OBVIOUS
  <2>1. \A i \in 1..Len(kids) : ~ ((f < i /\ i <= f + K - 1) \/ i > f + L - 1)
    BY <1>3, <1>14
  <2>2. K = 1
    <3> SUFFICES ASSUME K # 1 PROVE FALSE
      OBVIOUS
    <3>1. f + 1 \in 1..Len(kids) /\ f < f + 1 /\ f + 1 <= f + K - 1
      BY <1>1, <1>2, <1>5
    <3> QED BY <2>1, <3>1
  <2>3. L = N
    <3> SUFFICES ASSUME L # N PROVE FALSE
      OBVIOUS
    <3>0. /\ f \in 1..Len(kids) /\ Len(kids) \in Nat /\ N = Len(kids) - f + 1
          /\ L \in Nat /\ N \in Nat /\ L <= N
      BY <1>1, <1>2, <1>5
    <3>1. Len(kids) \in 1..Len(kids) /\ Len(kids) > f + L - 1
      BY <3>0
    <3> QED BY <2>1, <3>1
  <2> QED BY <2>2, <2>3
<1>16. f = k \/ f < k
  BY <1>1, <1>5, <1>10
<1>17. \A i \in 1..Len(kids) : Gone(h, kids[i]) => k < i
  <2> SUFFICES ASSUME NEW i \in 1..Len(kids), Gone(h, kids[i]) PROVE k < i
    OBVIOUS
  <2>1. f = k
    BY <1>14, <1>16
  <2>2. (f < i /\ i <= f + K - 1) \/ i > f + L - 1
    BY <1>3
  <2> QED BY <1>1, <1>2, <1>5, <2>1, <2>2
<1>18. Kept(h, k)
  <2>1. k \in Nat /\ f \in Nat /\ k <= Len(kids) /\ 1 <= f /\ f <= k /\ 1 <= k
    BY <1>1, <1>5, <1>10 DEF kids
  <2>2. k \in 1..Len(W) /\ Len(W) \in Nat
    BY <1>1, <1>2, <1>4, <1>5, <1>15, <1>16, <2>1
  <2>3. ASSUME NEW i \in 1..k PROVE W[i] = kids[i]
    <3>1. i \in 1..f + L - K /\ (i <= f \/ K = 1) /\ i \in Nat
      BY <1>2, <1>4, <1>15, <1>16, <2>1, <2>2
    <3>2. (IF i <= f THEN i ELSE i + (K - 1)) = i
      BY <3>1
    <3> QED BY <1>4, <3>1, <3>2
  <2>4. ASSUME NEW i \in k + 1..Len(W) PROVE \E m \in k + 1..Len(kids) : W[i] = kids[m]
    <3> DEFINE m == IF i <= f THEN i ELSE i + (K - 1)
    <3>1. i \in 1..f + L - K /\ m \in k + 1..Len(kids)
      BY <1>1, <1>2, <1>4, <1>5, <2>1, <2>2
    <3> HIDE DEF m
    <3>2. W[i] = kids[m]
      BY <1>4, <3>1 DEF m
    <3> QED BY <3>1, <3>2
  <2> QED BY <2>2, <2>3, <2>4 DEF Kept, W, kids
<1>19. ASSUME NEW i \in 1..Len(kids), i # k, ~Gone(h, kids[i]) PROVE ~Alike(h, kids[i])
  <2> SUFFICES ASSUME Alike(h, kids[i]) PROVE FALSE
    OBVIOUS
  <2>1. Same(kids[i], h) /\ alpha[kids[i]].mergeable /\ alpha[h].mergeable
    BY DEF Alike, Same
  <2>2. CASE f < k
    <3>1. i = f
      BY <1>13, <2>1, <2>2
    <3>2. Alike(kids[f], kids[k])
      BY <2>1, <3>1 DEF Alike, Same, kids
    <3>3. f \in 1..k - 1
      BY <1>10, <2>2, <1>1, <1>5
    <3>4. k \in 1..Len(kids) /\ k # f
      BY <2>2, <1>10 DEF kids
    <3> QED BY <3>2, <3>3, <3>4 DEF Settled, kids
  <2>3. CASE f = k /\ i < k
    <3>1. Alike(kids[i], kids[k])
      BY <2>1 DEF Alike, Same, kids
    <3>2. i \in 1..k - 1 /\ k \in 1..Len(kids) /\ k # i
      BY <2>3, <1>5 DEF kids
    <3> QED BY <3>1, <3>2 DEF Settled, kids
  <2>4. CASE f = k /\ k < i
    <3> DEFINE a == i - f + 1
    <3>0. f \in 1..Len(kids) /\ Len(kids) \in Nat /\ N = Len(kids) - f + 1 /\ i \in 1..Len(kids) /\ f < i
      BY <1>1, <1>5, <2>4
    <3>1. a \in 2..N /\ a \in 1..N /\ f + a - 1 = i
      BY <3>0
    <3> HIDE DEF a
    <3>2. c[a] = kids[i] /\ Merges(c[a], h)
      BY <1>1, <1>12, <2>1, <3>1
    <3> QED BY <1>19, <3>1, <3>2 DEF Gone, c, N
  <2>5. i < k \/ k < i
    BY <1>19, <1>5 DEF kids
  <2> QED BY <1>16, <2>2, <2>3, <2>4, <2>5
<1>20. Row(h)[1] = kids[f]
  BY <1>6, <1>9, <1>1 DEF c
<1> QED BY <1>10, <1>14, <1>16, <1>17, <1>18, <1>19, <1>20 DEF kids

\* The same after a step.
AlikeNext(x, y) ==
  /\ alpha'[x].key = alpha'[y].key /\ links'[place'[x]].type = links'[place'[y]].type
  /\ alpha'[x].mergeable /\ alpha'[y].mergeable

\* What a visit of the k-th child d of e leaves: W is then the list of e, and j that
\* of the first node of the group.
Turn(e, d, k, first, W, j) ==
  LET kids == Kids(e)
  IN  /\ \A x \in Live' : x \in Live
      /\ \A x \in Live : (\A m \in 1..Len(kids) : x # kids[m]) => x \in Live'
      /\ e \in Live' /\ d \in Live' /\ first \in Live' /\ first # e /\ d # e
      /\ children'[place'[e]] = W /\ children'[place'[first]] = j
      /\ \A h \in Live' : h # e /\ h # first => children'[place'[h]] = children[place[h]]
      /\ \A x, y \in Live' : AlikeNext(x, y) <=> Alike(x, y)
      /\ \A b \in 1..Len(W) : W[b] \in Live'
      /\ \A b \in 1..Len(j) : j[b] \in Live'
      /\ \A h \in Live' : h # e => \A b \in 1..Len(Kids(h)) : Kids(h)[b] \in Live'
      /\ Distinct(j)
      /\ k \in 1..Len(W) /\ Len(W) \in Nat
      /\ \A i \in 1..k : W[i] = kids[i]
      /\ \A i \in k + 1..Len(W) : \E m \in k + 1..Len(kids) : W[i] = kids[m]
      /\ \A i \in 1..Len(W) : i # k => ~Alike(d, W[i])
      /\ first = d \/ \E m \in 1..k - 1 : first = kids[m]
      /\ \A b \in 1..Len(j) : \E x : /\ x = first \/ (first = d /\ \E m \in k + 1..Len(kids) : x = kids[m])
                                     /\ \E c \in 1..Len(Kids(x)) : j[b] = Kids(x)[c]

\* What is at a position behind the k-th is not the k-th.
LEMMA BehindIs ==
  ASSUME NEW n \in Nat, NEW k \in 1..n
  PROVE  /\ \A i \in 1..n : i = k \/ i \in 1..k - 1 \/ i \in k + 1..n
         /\ \A i \in k + 1..n : i \in 1..n /\ i # k /\ k < i /\ ~ (i < k)
         /\ \A i \in 1..k - 1 : i \in 1..n /\ i # k /\ i < k /\ i \in 1..k
         /\ \A i \in 1..k : i \in 1..n /\ (i = k \/ i \in 1..k - 1)
OBVIOUS

\* A tidy visit does that, when nothing before d can be merged any more.
LEMMA VisitTurns ==
  ASSUME Forest, NEW e \in Live, NEW k \in 1..Len(Kids(e)), NEW d, d = Kids(e)[k],
         \A a \in 1..k - 1 : Settled(Kids(e), a), Visit(d), ~untidy'
  PROVE  \E first, W, j : Turn(e, d, k, first, W, j)
<1> DEFINE kids == Kids(e)
           R == place[e]
<1>1. e \in Handles /\ R \in Handles /\ R \in InUse
  BY OwnPlaces
<1>2. kids \in Seq(Handles \ {1}) /\ Len(kids) \in Nat /\ Distinct(kids)
  BY <1>1, KidsAre DEF Kids
<1>3. d \in Live \ {1} /\ place[alpha[d].parent] = R
  <2>1. children[R][k] \in Live /\ children[R][k] \in Handles \ {1} /\ place[alpha[children[R][k]].parent] = R
    BY <1>1, LiveIs, Listed DEF Kids
  <2> QED BY <2>1 DEF Kids
<1>4. Kin(d) = kids
  BY <1>3 DEF Kin, Kids
<1>5. PICK f, K, L, g : Regrouped(d, f, K, L, g)
  BY <1>3, VisitIs
<1> DEFINE first == Row(d)[1]
           P == place[first]
           W == Remainder(d)
           j == g[Len(Row(d))]
           G(x) == Gone(d, x)
<1>6. Regroupment(d, j) /\ Scene(d, f, K, L, g) /\ alpha' = alpha
  BY <1>5, RegroupmentIs, ZenonT(60) DEF Regrouped
<1>7. /\ Handles' = Handles /\ P \in InUse /\ P # R
      /\ first \in Live \ {1} /\ ~G(first)
  BY <1>3, <1>6, Zenon DEF Regroupment
<1>8. \A x : G(x) => /\ x \in Live \ {1} /\ x \in Handles
                     /\ \E i \in 1..Len(kids) : kids[i] = x
  <2>1. \A x : Gone(d, x) => /\ x \in Live \ {1} /\ x \in Handles
                             /\ \E i \in 1..Len(Kin(d)) : Kin(d)[i] = x
    BY <1>6, Zenon DEF Regroupment
  <2> HIDE DEF kids
  <2> QED BY <1>4, <2>1
<1>9. \A x \in Handles : place'[x] = IF G(x) THEN P ELSE place[x]
  BY <1>6, Zenon DEF Regroupment
<1>10. /\ \A i \in 1..Len(W) : ~G(W[i]) /\ \E m \in 1..Len(kids) : W[i] = kids[m]
       /\ Distinct(j)
       /\ \A i \in 1..Len(j) : Below(d, j[i]) /\ \E x : (x = first \/ G(x)) /\ \E b \in 1..Len(children[place[x]]) : j[i] = children[place[x]][b]
       /\ children'[R] = W /\ children'[P] = j
       /\ \A p \in Handles : p # R /\ p # P => children'[p] = children[p]
  <2> DEFINE Q == place[alpha[d].parent]
  <2>1. /\ \A i \in 1..Len(W) : ~Gone(d, W[i]) /\ \E m \in 1..Len(Kin(d)) : W[i] = Kin(d)[m]
        /\ Distinct(j)
        /\ \A i \in 1..Len(j) : Below(d, j[i]) /\ \E x : (x = first \/ Gone(d, x)) /\ \E b \in 1..Len(children[place[x]]) : j[i] = children[place[x]][b]
        /\ children'[Q] = W /\ children'[P] = j
        /\ \A p \in Handles : p # Q /\ p # P => children'[p] = children[p]
    BY <1>6, Zenon DEF Regroupment
  <2>2. Q = R
    BY <1>3
  <2> HIDE DEF kids, R, Q, P, W, j, first
  <2> QED BY <1>4, <2>1, <2>2
<1>11. \A x : x \in Live' <=> x \in Live /\ ~G(x)
  BY <1>6, RegroupedLists
<1>12. /\ Kept(d, k)
       /\ f = k \/ (f < k /\ \A x : ~G(x))
       /\ first = kids[f] /\ f \in 1..k
       /\ \A i \in 1..Len(kids) : G(kids[i]) => k < i
       /\ \A i \in 1..Len(kids) : i # k /\ ~G(kids[i]) => ~Alike(d, kids[i])
  BY <1>4, <1>6, VisitedBehind
<1>13. \A i \in 1..Len(j) : ~G(j[i])
  <2> SUFFICES ASSUME NEW i \in 1..Len(j), G(j[i]) PROVE FALSE
    OBVIOUS
  <2>1. PICK m \in 2..Len(Row(d)) : j[i] = Row(d)[m]
    BY DEF Gone
  <2>2. m \in 1..Len(Row(d))
    <3>1. \A n : \A a \in 2..n : a \in 1..n
      OBVIOUS
    <3> QED BY <3>1
  <2>3. \A x \in 1..Len(Row(d)) : j[i] # Row(d)[x]
    BY <1>10, Zenon DEF Below
  <2> QED BY <2>1, <2>2, <2>3
<1>14. \A x \in Live' : links'[place'[x]].type = links[place[x]].type
  <2>1. Len(Row(d)) \in Nat
    BY <1>6, SceneIs
  <2>2. SameTypes(links')
    <3>1. links' = Merged(d).links
      BY DEF Visit
    <3> QED BY <2>1, <3>1, TypesStay
  <2>3. DOMAIN links = Handles
    <3>1. links \in Seq(LinkRecords) /\ Len(links) = Len(alpha)
      BY DEF Forest, Shape, LinkRecords
    <3> QED BY <3>1, PlacesAre
  <2> QED BY <1>9, <1>11, <2>2, <2>3, OwnPlaces DEF SameTypes
<1>15. \A i \in 1..Len(kids) : kids[i] \in Live
  BY <1>1, LiveIs DEF Kids
<1>16. \A h \in Live : \A b \in 1..Len(Kids(h)) : Kids(h)[b] \in Live
  BY LiveIs, OwnPlaces DEF Kids
<1>17. ASSUME NEW h \in Live, h # e, NEW b \in 1..Len(Kids(h)) PROVE ~G(Kids(h)[b])
  <2> SUFFICES ASSUME G(Kids(h)[b]) PROVE FALSE
    OBVIOUS
  <2>1. PICK i \in 1..Len(kids) : kids[i] = Kids(h)[b]
    BY <1>8
  <2>2. place[h] = R
    <3>1. children[R][i] = children[place[h]][b] /\ place[h] \in InUse
      BY <2>1, OwnPlaces DEF Kids
    <3> QED BY <1>1, <3>1, Listed, SMTT(30) DEF Kids
  <2> QED BY <1>17, <2>2, OwnPlaces
<1>18. /\ k \in Nat
       /\ \A i \in 1..Len(kids) : i = k \/ i \in 1..k - 1 \/ i \in k + 1..Len(kids)
       /\ \A i \in k + 1..Len(kids) : i \in 1..Len(kids) /\ i # k
       /\ \A i \in 1..k : i \in 1..Len(kids) /\ (i = k \/ i \in 1..k - 1)
  BY <1>2, BehindIs
<1> HIDE DEF kids, R, first, P, W, j, G
\* The nodes.
<1>19. \A x \in Live' : x \in Live /\ x \in Handles /\ place'[x] = place[x]
  BY <1>9, <1>11, OwnPlaces
<1>20. ~G(e) /\ ~G(d)
  <2>1. ~G(d)
    BY <1>12, <1>18 DEF kids
  <2>2. ASSUME G(e) PROVE FALSE
    <3>1. PICK i \in 1..Len(kids) : kids[i] = e
      BY <1>8, <2>2
    <3>2. PICK level : /\ \A h \in Handles : level[h] \in 1..h
                       /\ \A h \in Handles \ {1} : level[h] = level[alpha[h].parent] + 1
                       /\ \A x, y \in Handles : place[x] = place[y] => level[x] = level[y]
      BY DEF Forest, Levels
    <3>3. e \in Live \ {1} /\ place[alpha[e].parent] = R
      BY <1>1, <1>8, <2>2, <3>1, Listed DEF Kids, R, kids
    <3>4. alpha[e].parent \in Handles
      BY <3>3, ParentIs
    <3>5. level[alpha[e].parent] = level[e] /\ level[e] = level[alpha[e].parent] + 1 /\ level[e] \in 1..e
      BY <1>1, <3>2, <3>3, <3>4 DEF R
    <3> QED BY <3>5
  <2> QED BY <2>1, <2>2
<1>21. e \in Live' /\ d \in Live' /\ first \in Live'
  BY <1>3, <1>7, <1>11, <1>20
<1>22. first # e
  BY <1>7 DEF P, R
<1>23. children'[place'[e]] = W /\ children'[place'[first]] = j
  <2>1. place'[e] = R /\ place'[first] = P
    BY <1>19, <1>21 DEF R, P
  <2> QED BY <1>10, <2>1
<1>24. ASSUME NEW h \in Live', h # e, h # first PROVE children'[place'[h]] = children[place[h]]
  <2>1. h \in Live /\ place'[h] = place[h] /\ place[h] \in Handles
    BY <1>19, OwnPlaces
  <2>2. place[h] # R /\ place[h] # P
    BY <1>7, <1>24, <2>1, OwnPlaces DEF R, P
  <2> QED BY <1>10, <2>1, <2>2
<1>25. ASSUME NEW x \in Live', NEW y \in Live' PROVE AlikeNext(x, y) <=> Alike(x, y)
  BY <1>6, <1>14 DEF Alike, Same, AlikeNext
<1>26. /\ \A b \in 1..Len(W) : W[b] \in Live'
       /\ \A b \in 1..Len(j) : j[b] \in Live'
       /\ \A h \in Live' : h # e => \A b \in 1..Len(Kids(h)) : Kids(h)[b] \in Live'
  <2>1. \A b \in 1..Len(W) : W[b] \in Live'
    BY <1>10, <1>11, <1>15
  <2>2. \A b \in 1..Len(j) : j[b] \in Live
    BY <1>10, Zenon DEF Below
  <2>3. \A b \in 1..Len(j) : j[b] \in Live'
    BY <1>11, <1>13, <2>2
  <2>4. \A h \in Live' : h # e => \A b \in 1..Len(Kids(h)) : Kids(h)[b] \in Live'
    BY <1>11, <1>16, <1>17, <1>19
  <2> QED BY <2>1, <2>3, <2>4
<1>27. /\ k \in 1..Len(W) /\ Len(W) \in Nat
       /\ \A i \in 1..k : W[i] = kids[i]
       /\ \A i \in k + 1..Len(W) : \E m \in k + 1..Len(kids) : W[i] = kids[m]
  BY <1>4, <1>12 DEF Kept, W, kids
<1>28. ASSUME NEW i \in 1..Len(W), i # k PROVE ~Alike(d, W[i])
  <2>1. \E m \in 1..Len(kids) : m # k /\ W[i] = kids[m]
    <3>1. i \in 1..k \/ i \in k + 1..Len(W)
      BY <1>18, <1>27
    <3>2. CASE i \in 1..k
      <4>1. i \in 1..Len(kids) /\ W[i] = kids[i]
        BY <1>18, <1>27, <3>2
      <4> QED BY <1>28, <4>1
    <3>3. CASE i \in k + 1..Len(W)
      BY <1>18, <1>27, <3>3
    <3> QED BY <3>1, <3>2, <3>3
  <2> QED BY <1>10, <1>12, <2>1
<1>29. kids[k] = d
  BY DEF kids
<1>30. first = d \/ \E m \in 1..k - 1 : first = kids[m]
  BY <1>12, <1>18, <1>29
<1>31. ASSUME NEW b \in 1..Len(j)
       PROVE  \E x : /\ x = first \/ (first = d /\ \E m \in k + 1..Len(kids) : x = kids[m])
                     /\ \E c \in 1..Len(Kids(x)) : j[b] = Kids(x)[c]
  <2>1. PICK x : (x = first \/ G(x)) /\ \E c \in 1..Len(Kids(x)) : j[b] = Kids(x)[c]
    BY <1>10 DEF Kids
  <2>2. ASSUME G(x) PROVE first = d /\ \E m \in k + 1..Len(kids) : x = kids[m]
    <3>1. PICK i \in 1..Len(kids) : kids[i] = x
      BY <1>8, <2>2
    <3>2. k < i
      BY <1>12, <2>2, <3>1
    <3>3. i \in k + 1..Len(kids)
      BY <1>2, <1>18, <3>2
    <3>4. f = k
      BY <1>12, <2>2
    <3> QED BY <1>12, <1>29, <3>1, <3>3, <3>4
  <2> QED BY <2>1, <2>2
<1>32. d # e
  <2> SUFFICES ASSUME d = e PROVE FALSE
    OBVIOUS
  <2>1. PICK level : /\ \A h \in Handles : level[h] \in 1..h
                     /\ \A h \in Handles \ {1} : level[h] = level[alpha[h].parent] + 1
                     /\ \A x, y \in Handles : place[x] = place[y] => level[x] = level[y]
    BY DEF Forest, Levels
  <2>2. alpha[e].parent \in Handles
    BY <1>3, <2>1, ParentIs
  <2>3. level[alpha[e].parent] = level[e] /\ level[e] = level[alpha[e].parent] + 1 /\ level[e] \in 1..e
    BY <1>1, <1>3, <2>1, <2>2 DEF R
  <2> QED BY <2>3
<1>33. \A x \in Live : (\A m \in 1..Len(kids) : x # kids[m]) => x \in Live'
  BY <1>8, <1>11
<1>34. Turn(e, d, k, first, W, j)
  BY <1>10, <1>19, <1>21, <1>22, <1>23, <1>24, <1>25, <1>26, <1>27, <1>28, <1>30, <1>31, <1>32, <1>33 DEF Turn, kids
<1> QED BY <1>34

\* Optimize has been through the first children of h, up to the k-th, and none of
\* them can be merged with another child.
Reached(D, h, k) ==
  /\ \A a \in 1..Len(Kids(h)) : Kids(h)[a] \in D <=> a < k
  /\ \A a \in 1..Len(Kids(h)) : a < k => Settled(Kids(h), a)

\* It has been through all that is below the nodes in D.
Finished(D) ==
  \A h \in Live : h \in D => \A a \in 1..Len(Kids(h)) : Kids(h)[a] \in D /\ Settled(Kids(h), a)

\* It has not come to anything below the others, but for the nodes on the way s.
Untouched(D, s) ==
  \A h \in Live : h \notin D /\ (\A i \in 1..Len(s) : s[i] # h) =>
    \A a \in 1..Len(Kids(h)) : Kids(h)[a] \notin D

\* The way from the root down to where it is.
Link(D, h, next) ==
  \E k \in 1..Len(Kids(h)) : Kids(h)[k] = next /\ Reached(D, h, k) /\ Settled(Kids(h), k)

\* What Optimize has done when it has come down the way s and is at its last node.
Path(D, s) ==
  /\ Len(s) >= 1 /\ s[1] = 1 /\ Distinct(s)
  /\ \A i \in 1..Len(s) : s[i] \notin D
  /\ \A i \in 1..Len(s) - 1 : Link(D, s[i], s[i + 1])
  /\ Finished(D) /\ Untouched(D, s)

\* The nodes on the way are in the tree, and the children of the last one are not
\* on the way.
LEMMA PathIs ==
  ASSUME Forest, NEW D, NEW s \in Seq(Nat), Path(D, s), \A i \in 1..Len(s) : s[i] \in Handles
  PROVE  /\ \A i \in 1..Len(s) : s[i] \in Live
         /\ \A b \in 1..Len(Kids(s[Len(s)])) : \A i \in 1..Len(s) : s[i] # Kids(s[Len(s)])[b]
<1>1. ASSUME NEW i \in 1..Len(s), i # 1
      PROVE  /\ i - 1 \in 1..Len(s) /\ s[i - 1] \in Handles /\ place[s[i - 1]] \in InUse
             /\ \E k \in 1..Len(Kids(s[i - 1])) : Kids(s[i - 1])[k] = s[i]
  <2>1. i - 1 \in 1..Len(s) /\ i - 1 \in 1..Len(s) - 1 /\ (i - 1) + 1 = i
    BY <1>1
  <2>2. Link(D, s[i - 1], s[i])
    BY <2>1 DEF Path
  <2> QED BY <2>1, <2>2, PlacesAre DEF Link
<1>2. ASSUME NEW i \in 1..Len(s) PROVE s[i] \in Live
  <2>1. CASE i = 1
    BY <2>1 DEF Path, Live
  <2>2. CASE i # 1
    <3>1. PICK k \in 1..Len(Kids(s[i - 1])) : Kids(s[i - 1])[k] = s[i]
      BY <1>1, <2>2
    <3> QED BY <1>1, <2>2, <3>1, LiveIs DEF Kids
  <2> QED BY <2>1, <2>2
<1>3. ASSUME NEW b \in 1..Len(Kids(s[Len(s)])), NEW i \in 1..Len(s), s[i] = Kids(s[Len(s)])[b]
      PROVE  FALSE
  <2> DEFINE n == Len(s)
             e == s[n]
  <2>1. n \in 1..Len(s) /\ e \in Live /\ place[e] \in InUse
    <3>1. n \in 1..Len(s)
      BY DEF Path
    <3> QED BY <1>2, <3>1, OwnPlaces
  <2>2. i # 1
    <3>1. Kids(e)[b] # 1
      BY <2>1, Listed DEF Kids
    <3> QED BY <1>3, <3>1 DEF Path
  <2>3. PICK k \in 1..Len(Kids(s[i - 1])) : Kids(s[i - 1])[k] = s[i]
    BY <1>1, <2>2
  <2> DEFINE w == s[i - 1]
  <2>4. w \in Live /\ place[w] \in InUse /\ i - 1 \in 1..Len(s)
    BY <1>1, <1>2, <2>2
  <2> HIDE DEF e, w, n
  <2>5. children[place[w]][k] = children[place[e]][b]
    BY <1>3, <2>3 DEF Kids, w, e, n
  <2>6. k \in 1..Len(children[place[w]]) /\ b \in 1..Len(children[place[e]])
    BY DEF Kids, w, e, n
  <2>7. place[w] = place[e]
    BY <2>1, <2>4, <2>5, <2>6, Listed
  <2>8. w = e
    BY <2>1, <2>4, <2>7, OwnPlaces
  <2>9. i - 1 = n
    BY <2>1, <2>4, <2>8 DEF Path, Distinct, w, e
  <2> QED BY <2>9 DEF n
<1> QED BY <1>2, <1>3

\* It has still to visit the children of that node.
Entering(D, s) == Path(D, s) /\ Reached(D, s[Len(s)], 1)

\* A node of a list is settled after a step.
LEMMA SettledAfter ==
  ASSUME NEW h, NEW u, children'[place'[h]] = u,
         NEW a, \A b \in 1..Len(u) : b # a => ~AlikeNext(u[a], u[b])
  PROVE  Settled(Kids(h), a)'
<1> DEFINE v == children'[place'[h]]
<1>1. \A b \in 1..Len(v) : b # a => ~AlikeNext(v[a], v[b])
  OBVIOUS
<1> QED BY <1>1 DEF Settled, Alike, Same, AlikeNext, Kids

\* What Turn says of lists that stay as they are.
LEMMA TurnKeeps ==
  ASSUME NEW e, NEW d, NEW k, NEW first, NEW W, NEW j, Turn(e, d, k, first, W, j),
         NEW h \in Live', h # e, h # first
  PROVE  /\ Kids(h)' = Kids(h)
         /\ \A a \in 1..Len(Kids(h)) : Settled(Kids(h), a) => Settled(Kids(h), a)'
<1>1. children'[place'[h]] = Kids(h)
  <2>1. children'[place'[h]] = children[place[h]]
    BY DEF Turn
  <2> QED BY <2>1 DEF Kids
<1>2. \A b \in 1..Len(Kids(h)) : Kids(h)[b] \in Live'
  BY DEF Turn
<1>3. \A x, y \in Live' : AlikeNext(x, y) <=> Alike(x, y)
  BY DEF Turn
<1>4. PICK u : u = Kids(h)
  OBVIOUS
<1>5. ASSUME NEW a \in 1..Len(u), Settled(u, a) PROVE Settled(Kids(h), a)'
  <2>1. \A b \in 1..Len(u) : b # a => ~Alike(u[a], u[b])
    BY <1>5 DEF Settled
  <2>2. \A b \in 1..Len(u) : b # a => ~AlikeNext(u[a], u[b])
    BY <1>2, <1>3, <1>4, <2>1
  <2> QED BY <1>1, <1>4, <2>2, SettledAfter
<1> QED BY <1>1, <1>4, <1>5 DEF Kids

\* A visit goes a node further down: nothing below it was visited before.
LEMMA VisitAdvances ==
  ASSUME Forest, NEW D, NEW s \in Seq(Nat), Path(D, s), \A i \in 1..Len(s) : s[i] \in Handles,
         NEW e, e = s[Len(s)], NEW k \in 1..Len(Kids(e)), Reached(D, e, k),
         NEW d, d = Kids(e)[k], Visit(d), ~untidy', NEW t, t = Append(s, d)
  PROVE  Entering(D, t)'
<1> DEFINE n == Len(s)
           kids == Kids(e)
<1>1. /\ n \in Nat /\ n \in 1..Len(s) /\ e \in Live /\ \A i \in 1..n : s[i] \in Live
      /\ \A b \in 1..Len(kids) : \A i \in 1..n : s[i] # kids[b]
      /\ s[1] = 1 /\ Distinct(s) /\ \A i \in 1..n : s[i] \notin D
      /\ \A i \in 1..n - 1 : Link(D, s[i], s[i + 1])
      /\ Finished(D) /\ Untouched(D, s)
  BY PathIs DEF Path
<1>2. /\ \A a \in 1..Len(kids) : kids[a] \in D <=> a < k
      /\ \A a \in 1..Len(kids) : a < k => Settled(kids, a)
  BY DEF Reached
<1>3. kids \in Seq(Nat \ {0}) /\ Len(kids) \in Nat /\ Distinct(kids) /\ \A a \in 1..Len(kids) : kids[a] \in Live \ {1}
  <2>1. place[e] \in InUse
    BY <1>1, OwnPlaces
  <2>2. /\ children[place[e]] \in Seq(Nat \ {0}) /\ Len(children[place[e]]) \in Nat /\ Distinct(children[place[e]])
        /\ \A a \in 1..Len(children[place[e]]) : children[place[e]][a] \in Live /\ children[place[e]][a] \in Handles \ {1}
    BY <2>1, KidsAre, LiveIs, Listed
  <2> QED BY <2>2 DEF Kids
<1>4. /\ k \in Nat /\ k \in 1..Len(kids)
      /\ \A i \in 1..Len(kids) : i = k \/ i \in 1..k - 1 \/ i \in k + 1..Len(kids)
      /\ \A i \in k + 1..Len(kids) : i \in 1..Len(kids) /\ i # k /\ k < i /\ ~ (i < k)
      /\ \A i \in 1..k - 1 : i \in 1..Len(kids) /\ i # k /\ i < k /\ i \in 1..k
      /\ \A i \in 1..k : i \in 1..Len(kids) /\ (i = k \/ i \in 1..k - 1)
  BY <1>3, BehindIs
<1>5. PICK first, W, j : Turn(e, d, k, first, W, j)
  <2>1. \A a \in 1..k - 1 : Settled(Kids(e), a)
    BY <1>2, <1>4
  <2> QED BY <1>1, <2>1, VisitTurns
<1>6. /\ \A x \in Live' : x \in Live
      /\ \A x \in Live : (\A m \in 1..Len(kids) : x # kids[m]) => x \in Live'
      /\ e \in Live' /\ d \in Live' /\ first \in Live' /\ first # e /\ d # e
      /\ children'[place'[e]] = W /\ children'[place'[first]] = j
      /\ \A x, y \in Live' : AlikeNext(x, y) <=> Alike(x, y)
      /\ \A b \in 1..Len(W) : W[b] \in Live'
      /\ \A b \in 1..Len(j) : j[b] \in Live'
      /\ \A h \in Live' : h # e => \A b \in 1..Len(Kids(h)) : Kids(h)[b] \in Live'
      /\ Distinct(j)
  BY <1>5 DEF Turn
<1>7. /\ k \in 1..Len(W) /\ Len(W) \in Nat
      /\ \A i \in 1..k : W[i] = kids[i]
      /\ \A i \in k + 1..Len(W) : \E m \in k + 1..Len(kids) : W[i] = kids[m]
      /\ \A i \in 1..Len(W) : i # k => ~Alike(d, W[i])
      /\ first = d \/ \E m \in 1..k - 1 : first = kids[m]
      /\ \A b \in 1..Len(j) : \E x : /\ x = first \/ (first = d /\ \E m \in k + 1..Len(kids) : x = kids[m])
                                     /\ \E c \in 1..Len(Kids(x)) : j[b] = Kids(x)[c]
  BY <1>5 DEF Turn
<1>8. \A h \in Live' : h # e /\ h # first =>
        Kids(h)' = Kids(h) /\ \A a \in 1..Len(Kids(h)) : Settled(Kids(h), a) => Settled(Kids(h), a)'
  BY <1>5, TurnKeeps
<1> HIDE DEF kids, n
<1>9. kids[k] = d /\ d \in Live /\ d \notin D /\ \A i \in 1..n : s[i] # d
  BY <1>1, <1>2, <1>3, <1>4 DEF kids
<1>10. first = d \/ first \in D
  <2> SUFFICES ASSUME first # d PROVE first \in D
    OBVIOUS
  <2>1. PICK m \in 1..k - 1 : first = kids[m]
    BY <1>7
  <2>2. m \in 1..Len(kids) /\ m < k
    BY <1>4
  <2> QED BY <1>2, <2>1, <2>2 DEF kids
\* The list that d is in.
<1>11. \A i \in 1..Len(W) : i = k \/ i \in 1..k - 1 \/ i \in k + 1..Len(W)
  BY <1>7, BehindIs
<1>12. ASSUME NEW i \in 1..Len(W) PROVE W[i] \in D <=> i < k
  <2>1. CASE i \in k + 1..Len(W)
    <3>1. PICK m \in k + 1..Len(kids) : W[i] = kids[m]
      BY <1>7, <2>1
    <3>2. ~ (i < k)
      BY <1>4, <2>1
    <3> QED BY <1>2, <1>4, <3>1, <3>2 DEF kids
  <2>2. CASE i = k \/ i \in 1..k - 1
    <3>1. i \in 1..k
      BY <1>4, <2>2
    <3> QED BY <1>2, <1>4, <1>7, <3>1 DEF kids
  <2> QED BY <1>11, <2>1, <2>2
<1>13. ASSUME NEW a \in 1..k, NEW i \in 1..Len(W), i # a PROVE ~Alike(W[a], W[i])
  <2>1. W[a] = kids[a] /\ a \in 1..Len(kids)
    BY <1>4, <1>7
  <2>2. CASE a = k
    BY <1>7, <1>9, <1>13, <2>1, <2>2
  <2>3. CASE a # k
    <3>1. a < k /\ Settled(kids, a)
      BY <1>2, <1>4, <2>1, <2>3 DEF kids
    <3>2. \E m \in 1..Len(kids) : m # a /\ W[i] = kids[m]
      <4>1. CASE i \in k + 1..Len(W)
        <5>1. PICK m \in k + 1..Len(kids) : W[i] = kids[m]
          BY <1>7, <4>1
        <5>2. m \in 1..Len(kids) /\ m # a
          BY <1>4, <3>1
        <5> QED BY <5>1, <5>2
      <4>2. CASE i = k \/ i \in 1..k - 1
        <5>1. i \in 1..k /\ i \in 1..Len(kids)
          BY <1>4, <4>2
        <5> QED BY <1>7, <1>13, <5>1
      <4> QED BY <1>11, <4>1, <4>2
    <3> QED BY <2>1, <3>1, <3>2 DEF Settled
  <2> QED BY <2>2, <2>3
<1>14. \A a \in 1..k : Settled(Kids(e), a)'
  <2> SUFFICES ASSUME NEW a \in 1..k PROVE Settled(Kids(e), a)'
    OBVIOUS
  <2>1. a \in 1..Len(W)
    BY <1>4, <1>7
  <2>2. \A i \in 1..Len(W) : i # a => ~AlikeNext(W[a], W[i])
    BY <1>6, <1>13, <2>1
  <2> QED BY <1>6, <2>2, SettledAfter
<1>15. Link(D, e, d)'
  <2>1. Kids(e)' = W
    BY <1>6 DEF Kids
  <2>2. Reached(D, e, k)'
    <3>1. \A a \in 1..Len(W) : a < k => Settled(Kids(e), a)'
      BY <1>4, <1>14
    <3> QED BY <1>12, <2>1, <3>1 DEF Reached
  <2>3. k \in 1..Len(Kids(e)') /\ Kids(e)'[k] = d /\ Settled(Kids(e), k)'
    <3>1. k \in 1..k
      BY <1>4
    <3>2. W[k] = d
      BY <1>7, <1>9, <3>1
    <3> QED BY <1>7, <1>14, <2>1, <3>1, <3>2
  <2> QED BY <2>2, <2>3 DEF Link
\* The lists of the others on the way.
<1>16. ASSUME NEW h \in Live', h # e, h # first, NEW next, Link(D, h, next) PROVE Link(D, h, next)'
  <2>1. PICK m \in 1..Len(Kids(h)) : Kids(h)[m] = next /\ Reached(D, h, m) /\ Settled(Kids(h), m)
    BY <1>16 DEF Link
  <2>2. Kids(h)' = Kids(h) /\ \A a \in 1..Len(Kids(h)) : Settled(Kids(h), a) => Settled(Kids(h), a)'
    BY <1>8, <1>16
  <2>3. Reached(D, h, m)'
    BY <2>1, <2>2 DEF Reached
  <2> QED BY <2>1, <2>2, <2>3 DEF Link
<1>17. ASSUME NEW i \in 1..n - 1 PROVE Link(D, s[i], s[i + 1])'
  <2>1. i \in 1..n /\ i # n /\ s[i] \in Live
    BY <1>1 DEF n
  <2>2. s[i] # e
    BY <1>1, <2>1 DEF Distinct, n
  <2>3. s[i] # first
    BY <1>1, <1>9, <1>10, <2>1 DEF n
  <2>4. s[i] \in Live'
    BY <1>1, <1>6, <2>1 DEF kids, n
  <2>5. PICK h, x : h = s[i] /\ x = s[i + 1]
    OBVIOUS
  <2>6. Link(D, h, x)
    BY <1>1, <2>5 DEF n
  <2>7. Link(D, h, x)'
    BY <1>16, <2>2, <2>3, <2>4, <2>5, <2>6
  <2> QED BY <2>5, <2>7
\* What is done, and what is not begun.
<1>18. ASSUME NEW h \in Live', h \in D, NEW a \in 1..Len(Kids(h)') PROVE Kids(h)'[a] \in D /\ Settled(Kids(h), a)'
  <2>1. h \in Live /\ h # e
    BY <1>1, <1>6, <1>18 DEF n
  <2>2. \A b \in 1..Len(Kids(h)) : Kids(h)[b] \in D /\ Settled(Kids(h), b)
    BY <1>1, <1>18, <2>1 DEF Finished
  <2>3. CASE h # first
    BY <1>8, <1>18, <2>1, <2>2, <2>3
  <2>4. CASE h = first
    <3>1. first # d /\ Kids(h)' = j
      BY <1>6, <1>9, <1>18, <2>4 DEF Kids
    <3>2. \A b \in 1..Len(j) : \E c \in 1..Len(Kids(h)) : j[b] = Kids(h)[c]
      BY <1>7, <2>4, <3>1, SMTT(30)
    <3>3. a \in 1..Len(j) /\ j[a] \in D
      BY <1>18, <2>2, <3>1, <3>2
    <3>4. ASSUME NEW b \in 1..Len(j), b # a PROVE ~AlikeNext(j[a], j[b])
      <4>1. PICK c \in 1..Len(Kids(h)) : j[a] = Kids(h)[c]
        BY <3>2, <3>3
      <4>2. PICK m \in 1..Len(Kids(h)) : j[b] = Kids(h)[m]
        BY <3>2
      <4>3. j[a] # j[b]
        BY <1>6, <3>3, <3>4 DEF Distinct
      <4>4. ~Alike(j[a], j[b])
        BY <2>2, <4>1, <4>2, <4>3 DEF Settled
      <4> QED BY <1>6, <3>3, <4>4
    <3>5. children'[place'[h]] = j
      BY <1>6, <2>4
    <3>6. Settled(Kids(h), a)'
      BY <3>4, <3>5, SettledAfter
    <3> QED BY <3>1, <3>3, <3>6
  <2> QED BY <2>3, <2>4
<1>19. Finished(D)'
  BY <1>18 DEF Finished
<1>20. /\ Len(t) = n + 1 /\ t[n + 1] = d /\ \A i \in 1..n : t[i] = s[i]
  BY DEF n
<1>21. ASSUME NEW h \in Live', h \notin D, \A i \in 1..Len(t) : t[i] # h, NEW a \in 1..Len(Kids(h)')
       PROVE  Kids(h)'[a] \notin D
  <2>1. h # d /\ \A i \in 1..n : s[i] # h
    <3>1. n + 1 \in 1..Len(t) /\ \A i \in 1..n : i \in 1..Len(t)
      BY <1>1, <1>20
    <3> QED BY <1>20, <1>21, <3>1
  <2>2. h # e /\ h # first /\ h \in Live
    BY <1>1, <1>6, <1>10, <1>21, <2>1 DEF n
  <2>3. Kids(h)' = Kids(h)
    BY <1>8, <2>2
  <2> QED BY <1>1, <1>21, <2>1, <2>2, <2>3 DEF Untouched, n
<1>22. Untouched(D, t)'
  BY <1>21 DEF Untouched
<1>23. ASSUME NEW a \in 1..Len(Kids(d)') PROVE Kids(d)'[a] \notin D
  <2>1. ASSUME NEW x \in Live, x \notin D, \A i \in 1..n : s[i] # x, NEW c \in 1..Len(Kids(x)) PROVE Kids(x)[c] \notin D
    BY <1>1, <2>1 DEF Untouched, n
  <2>2. CASE first # d
    <3>1. Kids(d)' = Kids(d)
      BY <1>6, <1>8, <2>2
    <3> QED BY <1>9, <1>23, <2>1, <3>1
  <2>3. CASE first = d
    <3>1. Kids(d)' = j
      BY <1>6, <2>3 DEF Kids
    <3>2. PICK x : /\ x = first \/ (first = d /\ \E m \in k + 1..Len(kids) : x = kids[m])
                   /\ \E c \in 1..Len(Kids(x)) : j[a] = Kids(x)[c]
      BY <1>7, <1>23, <3>1
    <3>3. CASE x = d
      BY <1>9, <2>1, <3>1, <3>2, <3>3
    <3>4. CASE \E m \in k + 1..Len(kids) : x = kids[m]
      <4>1. PICK m \in k + 1..Len(kids) : x = kids[m]
        BY <3>4
      <4>2. m \in 1..Len(kids) /\ ~ (m < k)
        BY <1>4, <4>1
      <4>3. x \in Live /\ x \notin D /\ \A i \in 1..n : s[i] # x
        BY <1>1, <1>2, <1>3, <4>1, <4>2 DEF kids
      <4> QED BY <2>1, <3>1, <3>2, <4>3
    <3> QED BY <2>3, <3>2, <3>3, <3>4
  <2> QED BY <2>2, <2>3
<1>24. Reached(D, d, 1)'
  <2>1. \A a \in 1..Len(Kids(d)') : Kids(d)'[a] \in D <=> a < 1
    <3>1. \A m : \A a \in 1..m : ~ (a < 1)
      OBVIOUS
    <3> QED BY <1>23, <3>1
  <2>2. \A a \in 1..Len(Kids(d)') : a < 1 => Settled(Kids(d), a)'
    <3>1. \A m : \A a \in 1..m : ~ (a < 1)
      OBVIOUS
    <3> QED BY <3>1
  <2> QED BY <2>1, <2>2 DEF Reached
\* The way.
<1>25. Len(t) >= 1 /\ t[1] = 1 /\ Distinct(t) /\ \A i \in 1..Len(t) : t[i] \notin D
  <2>1. \A i \in 1..Len(t) : i \in 1..n \/ i = n + 1
    BY <1>1, <1>20
  <2>2. 1 \in 1..n /\ n + 1 >= 1
    BY <1>1 DEF n
  <2>3. Distinct(t)
    BY <1>1, <1>9, <1>20, <2>1 DEF Distinct, n
  <2> QED BY <1>1, <1>9, <1>20, <2>1, <2>2, <2>3 DEF n
<1>26. ASSUME NEW i \in 1..Len(t) - 1 PROVE Link(D, t[i], t[i + 1])'
  <2>1. i \in 1..n - 1 \/ i = n
    BY <1>1, <1>20
  <2>2. CASE i \in 1..n - 1
    <3>1. i \in 1..n /\ i + 1 \in 1..n
      BY <1>1, <2>2
    <3>2. t[i] = s[i] /\ t[i + 1] = s[i + 1]
      BY <1>20, <3>1
    <3> QED BY <1>17, <2>2, <3>2
  <2>3. CASE i = n
    <3>1. t[i] = e /\ t[i + 1] = d
      BY <1>1, <1>20, <2>3 DEF n
    <3> QED BY <1>15, <3>1
  <2> QED BY <2>1, <2>2, <2>3
<1>27. Path(D, t)'
  BY <1>19, <1>22, <1>25, <1>26 DEF Path
<1>28. t[Len(t)] = d
  BY <1>20
<1> QED BY <1>24, <1>27, <1>28 DEF Entering

\* Optimize has been through the last node of the way.
Leaving(D, s) ==
  \/ Len(s) = 1 /\ s[1] = 1 /\ 1 \in D /\ Finished(D)
  \/ /\ Len(s) > 1 /\ Path(D, Front(s))
     /\ \E k \in 1..Len(Kids(s[Len(s) - 1])) : Kids(s[Len(s) - 1])[k] = s[Len(s)] /\ Reached(D, s[Len(s) - 1], k + 1)

\* When all children of a node are done, so is the node.
LEMMA Closing ==
  ASSUME Forest, NEW D, NEW s \in Seq(Nat), Path(D, s), \A i \in 1..Len(s) : s[i] \in Handles,
         NEW e, e = s[Len(s)], Reached(D, e, Len(Kids(e)) + 1)
  PROVE  Leaving(D \cup {e}, s)
<1> DEFINE n == Len(s)
           E == D \cup {e}
<1>1. /\ n \in Nat /\ n >= 1 /\ n \in 1..Len(s) /\ e \in Live /\ \A i \in 1..n : s[i] \in Live
      /\ \A b \in 1..Len(Kids(e)) : \A i \in 1..n : s[i] # Kids(e)[b]
      /\ s[1] = 1 /\ Distinct(s) /\ \A i \in 1..n : s[i] \notin D
      /\ \A i \in 1..n - 1 : Link(D, s[i], s[i + 1])
      /\ Finished(D) /\ Untouched(D, s)
  BY PathIs DEF Path
<1>2. \A a \in 1..Len(Kids(e)) : Kids(e)[a] \in D /\ Settled(Kids(e), a)
  <2>1. Len(Kids(e)) \in Nat
    BY <1>1, OwnPlaces, KidsAre DEF Kids
  <2>2. \A a \in 1..Len(Kids(e)) : a < Len(Kids(e)) + 1
    BY <2>1
  <2> QED BY <2>2 DEF Reached
<1>3. Finished(E)
  BY <1>1, <1>2 DEF Finished
<1>4. CASE n = 1
  BY <1>1, <1>3, <1>4 DEF Leaving
<1>5. CASE n # 1
  <2> DEFINE m == n - 1
             w == s[m]
             r == Front(s)
  <2>1a. m \in Nat /\ m >= 1 /\ m \in 1..n /\ m \in 1..n - 1 /\ m + 1 = n /\ n > 1
    <3>1. n \in Nat /\ n >= 1
      BY <1>1
    <3> HIDE DEF n
    <3> QED BY <1>5, <3>1
  <2>1. m \in Nat /\ m >= 1 /\ m \in 1..n /\ m \in 1..n - 1 /\ m + 1 = n /\ n > 1 /\ w \in Live /\ w \notin D
    BY <1>1, <2>1a
  <2>2. PICK k \in 1..Len(Kids(w)) : Kids(w)[k] = e /\ Reached(D, w, k) /\ Settled(Kids(w), k)
    BY <1>1, <2>1 DEF Link
  <2>3. r \in Seq(Nat) /\ Len(r) = m /\ \A i \in 1..m : r[i] = s[i]
    BY <1>1, <2>1, SMTT(30) DEF Front
  <2>4. \A i \in 1..m : i \in 1..n /\ i # n
    <3> HIDE DEF m, n
    <3> QED BY <2>1a
  <2> HIDE DEF m, w, r, n
  <2>5. ASSUME NEW h \in Live, NEW a \in 1..Len(Kids(h)), Kids(h)[a] = e PROVE h = w /\ a = k
    <3>1. children[place[h]][a] = children[place[w]][k] /\ a \in 1..Len(children[place[h]]) /\ k \in 1..Len(children[place[w]])
      BY <2>2, <2>5 DEF Kids
    <3>2. place[h] \in InUse /\ place[w] \in InUse
      BY <2>1, OwnPlaces
    <3>3. place[h] = place[w] /\ a = k
      BY <3>1, <3>2, Listed
    <3> QED BY <2>1, <2>5, <3>3, OwnPlaces
  <2>6. Len(Kids(w)) \in Nat
    BY <2>1, OwnPlaces, KidsAre DEF Kids
  <2>7. Reached(E, w, k + 1)
    <3>1. \A a \in 1..Len(Kids(w)) : a < k + 1 <=> a < k \/ a = k
      BY <2>6
    <3>2. \A a \in 1..Len(Kids(w)) : Kids(w)[a] \in E <=> Kids(w)[a] \in D \/ a = k
      BY <2>1, <2>2, <2>5
    <3> QED BY <2>2, <3>1, <3>2 DEF Reached
  <2>8. ASSUME NEW i \in 1..m - 1 PROVE Link(E, r[i], r[i + 1])
    <3>1. i \in 1..m /\ i + 1 \in 1..m /\ i \in 1..n - 1 /\ i \in 1..n /\ i # m
      BY <2>1 DEF m
    <3>2. PICK l \in 1..Len(Kids(s[i])) : Kids(s[i])[l] = s[i + 1] /\ Reached(D, s[i], l) /\ Settled(Kids(s[i]), l)
      BY <1>1, <3>1 DEF Link
    <3>3. s[i] # w /\ s[i] \in Live
      BY <1>1, <2>1, <3>1 DEF Distinct, w, n
    <3>4. \A a \in 1..Len(Kids(s[i])) : Kids(s[i])[a] # e
      BY <2>5, <3>3
    <3>5. Reached(E, s[i], l)
      BY <3>2, <3>4 DEF Reached
    <3> QED BY <2>3, <3>1, <3>2, <3>5 DEF Link
  <2>9. Untouched(E, r)
    <3> SUFFICES ASSUME NEW h \in Live, h \notin E, \A i \in 1..Len(r) : r[i] # h, NEW a \in 1..Len(Kids(h))
                 PROVE  Kids(h)[a] \notin E
      BY DEF Untouched
    <3>1. h # w
      BY <2>1, <2>3 DEF w
    <3>2. \A i \in 1..n : s[i] # h
      <4>1. \A i \in 1..n : i = n \/ i \in 1..m
        BY <2>1
      <4> QED BY <2>3, <4>1 DEF n
    <3>3. Kids(h)[a] \notin D
      BY <1>1, <3>2 DEF Untouched, n
    <3> QED BY <2>5, <3>1, <3>3
  <2>10. \A i \in 1..m : r[i] \notin E
    BY <1>1, <2>1, <2>3, <2>4 DEF Distinct, n
  <2>11. Distinct(r) /\ r[1] = 1
    BY <1>1, <2>1, <2>3, <2>4 DEF Distinct, n
  <2>12. Path(E, r)
    BY <1>3, <2>1, <2>3, <2>8, <2>9, <2>10, <2>11 DEF Path
  <2>13. s[n - 1] = w /\ s[n] = e /\ n - 1 = m
    BY DEF w, n, m
  <2> QED BY <2>1, <2>2, <2>7, <2>12, <2>13 DEF Leaving, n, r
<1> QED BY <1>4, <1>5

\* Optimize has merged all that can be merged where it has been.
Optimizing ==
  stack # << >> /\ ~untidy => \E D : IF entered THEN Entering(D, stack) ELSE Leaving(D, stack)

\* It begins at the root.
LEMMA OptimizeBegins ==
  ASSUME OptimizeStart, Forest
  PROVE  Optimizing'
<1>1. stack' = <<1>> /\ entered' = TRUE
  BY DEF OptimizeStart
<1>2. PICK s : s = <<1>>
  OBVIOUS
<1>3. Len(s) = 1 /\ s[1] = 1 /\ \A i \in 1..Len(s) : i = 1
  BY <1>2
<1>4. (\A h, k : Reached({}, h, 1))'
  <2>1. \A m : \A a \in 1..m : ~ (a < 1)
    OBVIOUS
  <2> QED BY <2>1 DEF Reached
<1>5. (Path({}, s))'
  BY <1>3 DEF Path, Distinct, Finished, Untouched
<1>6. Entering({}, s)'
  BY <1>4, <1>5 DEF Entering
<1>7. Entering({}, stack)'
  BY <1>1, <1>2, <1>6
<1> QED BY <1>1, <1>7 DEF Optimizing

\* A way and its last node.
LEMMA FrontIs ==
  ASSUME NEW s \in Seq(Nat), Len(s) > 1
  PROVE  /\ Front(s) \in Seq(Nat) /\ Len(Front(s)) = Len(s) - 1 /\ Len(Front(s)) \in 1..Len(s) - 1
         /\ \A i \in 1..Len(Front(s)) : i \in 1..Len(s) /\ Front(s)[i] = s[i]
BY DEF Front

\* What is below, and to the right of, a node.
LEMMA SteppingIs ==
  ASSUME Forest, NEW h \in Live
  PROVE  /\ Kids(h) \in Seq(Nat \ {0}) /\ Len(Kids(h)) \in Nat
         /\ Td(links, place, h).down = Nth(Kids(h), 1)
         /\ \A k \in 1..Len(Kids(h)) : Td(links, place, Kids(h)[k]).right = Nth(Kids(h), k + 1)
<1>1. place[h] \in InUse
  BY OwnPlaces
<1>2. /\ children[place[h]] \in Seq(Nat \ {0}) /\ Len(children[place[h]]) \in Nat
      /\ Strung(links, place, children[place[h]]) /\ links[place[h]].down = Nth(children[place[h]], 1)
  BY <1>1, KidsAre
<1> QED BY <1>2 DEF Strung, Td, Kids

\* A step that leaves the tree alone leaves all this alone.
LEMMA Unmoved ==
  ASSUME UNCHANGED <<links, place, alpha, children>>, NEW D, NEW s
  PROVE  (Path(D, s)' <=> Path(D, s)) /\ (Leaving(D, s)' <=> Leaving(D, s)) /\ (Entering(D, s)' <=> Entering(D, s))
<1>1. Live' = Live
  BY DEF Live, InUse, Handles
<1>2. \A h : Kids(h)' = Kids(h)
  BY DEF Kids
<1>3. \A h, a : Settled(Kids(h), a)' <=> Settled(Kids(h), a)
  BY DEF Settled, Alike, Same, Kids
<1>4. \A h, k : Reached(D, h, k)' <=> Reached(D, h, k)
  BY <1>2, <1>3 DEF Reached
<1>5. \A h, x : Link(D, h, x)' <=> Link(D, h, x)
  BY <1>2, <1>3, <1>4 DEF Link
<1>6. Finished(D)' <=> Finished(D)
  BY <1>1, <1>2, <1>3 DEF Finished
<1>7. \A t : Untouched(D, t)' <=> Untouched(D, t)
  BY <1>1, <1>2 DEF Untouched
<1>8. \A t : Path(D, t)' <=> Path(D, t)
  BY <1>5, <1>6, <1>7 DEF Path
<1>9. Leaving(D, s)' <=> Leaving(D, s)
  BY <1>2, <1>4, <1>6, <1>8 DEF Leaving
<1> QED BY <1>4, <1>8, <1>9 DEF Entering

\* Down to the first child.
LEMMA DescendAdvances ==
  ASSUME Descend, Forest, Optimizing, ~untidy'
  PROVE  Optimizing'
<1>1. PICK s, e, d : s = stack /\ e = Last(stack) /\ d = Td(links, place, e).down
  OBVIOUS
<1>2. /\ stack # << >> /\ ~untidy /\ entered
      /\ (d = 0 => Goto(s, FALSE)) /\ (d # 0 => stack' = Append(s, d) /\ Visit(d))
  BY <1>1, Zenon DEF Descend
<1>3. PICK D : Entering(D, s)
  BY <1>1, <1>2 DEF Optimizing
<1>4. /\ s \in Seq(Nat) /\ (\A i \in 1..Len(s) : s[i] \in Handles)
      /\ Path(D, s) /\ e = s[Len(s)] /\ Reached(D, e, 1) /\ Len(s) \in 1..Len(s)
  <2>1. s \in Seq(Nat) /\ (\A i \in 1..Len(s) : s[i] \in Handles)
    BY <1>1 DEF Forest, Shape
  <2>2. e = s[Len(s)]
    BY <1>1 DEF Last
  <2> QED BY <1>3, <2>1, <2>2 DEF Entering, Path
<1>5. e \in Live
  BY <1>4, PathIs
<1>6. /\ Kids(e) \in Seq(Nat \ {0}) /\ Len(Kids(e)) \in Nat /\ d = Nth(Kids(e), 1)
  BY <1>1, <1>5, SteppingIs
<1>7. CASE d = 0
  <2>1. Len(Kids(e)) = 0
    <3>1. 1 \notin 1..Len(Kids(e))
      BY <1>6, <1>7, NthIs
    <3> QED BY <1>6, <3>1
  <2>2. Reached(D, e, Len(Kids(e)) + 1)
    BY <1>4, <2>1
  <2>3. Leaving(D \cup {e}, s)
    BY <1>4, <2>2, Closing
  <2>4. stack' = s /\ entered' = FALSE /\ UNCHANGED <<links, place, alpha, children>>
    BY <1>2, <1>7 DEF Goto
  <2>5. PICK C : C = D \cup {e}
    OBVIOUS
  <2>6. Leaving(C, s)'
    BY <2>3, <2>4, <2>5, Unmoved
  <2> QED BY <2>4, <2>6 DEF Optimizing
<1>8. CASE d # 0
  <2>1. 1 \in 1..Len(Kids(e)) /\ d = Kids(e)[1]
    BY <1>6, <1>8, NthIs
  <2>2. PICK t : t = Append(s, d)
    OBVIOUS
  <2>3. Visit(d) /\ entered' = TRUE /\ stack' = t
    BY <1>2, <1>8, <2>2 DEF Visit
  <2>4. Entering(D, t)'
    BY <1>4, <2>1, <2>2, <2>3, VisitAdvances
  <2> QED BY <2>3, <2>4 DEF Optimizing
<1> QED BY <1>7, <1>8

\* On to the right, or back.
LEMMA ProceedAdvances ==
  ASSUME Proceed, Forest, Optimizing, ~untidy'
  PROVE  Optimizing'
<1>1. PICK s, x, r, w : s = stack /\ x = Last(stack) /\ r = Td(links, place, x).right /\ w = Front(s)
  OBVIOUS
<1>2. /\ stack # << >> /\ ~untidy /\ ~entered
      /\ (r = 0 => Goto(w, FALSE)) /\ (r # 0 => stack' = Append(w, r) /\ Visit(r))
  BY <1>1, Zenon DEF Proceed
<1>3. PICK D : Leaving(D, s)
  BY <1>1, <1>2 DEF Optimizing
<1>4. /\ s \in Seq(Nat) /\ (\A i \in 1..Len(s) : s[i] \in Handles) /\ x = s[Len(s)]
  <2>1. s \in Seq(Nat) /\ (\A i \in 1..Len(s) : s[i] \in Handles)
    BY <1>1 DEF Forest, Shape
  <2>2. x = s[Len(s)]
    BY <1>1 DEF Last
  <2> QED BY <2>1, <2>2
<1>5. CASE Len(s) = 1
  <2>1. \/ stack' = w
        \/ stack' = Append(w, r) /\ r # 0
    BY <1>2 DEF Goto
  <2>2. r = 0
    <3>1. x \in Handles /\ x = 1
      <4>1. s[1] = 1
        BY <1>3, <1>5 DEF Leaving
      <4>2. 1 \in 1..1
        OBVIOUS
      <4> QED BY <1>4, <1>5, <4>1, <4>2
    <3> QED BY <1>1, <3>1 DEF Forest, Links, Td
  <2>3. w = << >>
    BY <1>1, <1>4, <1>5 DEF Front
  <2>4. stack' = << >>
    BY <1>2, <2>2, <2>3 DEF Goto
  <2> QED BY <2>4 DEF Optimizing
<1>6. CASE Len(s) # 1
  <2>1. Len(s) > 1
    <3>1. Len(s) # 0 /\ Len(s) \in Nat
      BY <1>1, <1>2, <1>4
    <3>2. \A m \in Nat : m # 0 /\ m # 1 => m > 1
      OBVIOUS
    <3> QED BY <1>6, <3>1, <3>2
  <2> DEFINE n == Len(s) - 1
  <2>2. /\ w \in Seq(Nat) /\ Len(w) = n /\ n \in 1..n
        /\ \A i \in 1..n : i \in 1..Len(s) /\ w[i] = s[i]
    BY <1>1, <1>4, <2>1, FrontIs
  <2>3. PICK e : e = s[n]
    OBVIOUS
  <2>4. Path(D, w) /\ \E k \in 1..Len(Kids(e)) : Kids(e)[k] = x /\ Reached(D, e, k + 1)
    BY <1>1, <1>3, <1>4, <2>1, <2>3 DEF Leaving
  <2> HIDE DEF n
  <2>5. PICK k \in 1..Len(Kids(e)) : Kids(e)[k] = x /\ Reached(D, e, k + 1)
    BY <2>4
  <2>6. e = w[Len(w)] /\ \A i \in 1..Len(w) : w[i] \in Handles
    BY <1>4, <2>2, <2>3
  <2>7. e \in Live
    BY <2>2, <2>4, <2>6, PathIs
  <2>8. Kids(e) \in Seq(Nat \ {0}) /\ Len(Kids(e)) \in Nat /\ r = Nth(Kids(e), k + 1)
    BY <1>1, <2>5, <2>7, SteppingIs
  <2>9. CASE r = 0
    <3>1. k = Len(Kids(e))
      <4>1. k + 1 \notin 1..Len(Kids(e))
        BY <2>8, <2>9, NthIs
      <4> QED BY <2>8, <4>1
    <3>2. Leaving(D \cup {e}, w)
      BY <2>2, <2>4, <2>5, <2>6, <3>1, Closing
    <3>3. stack' = w /\ entered' = FALSE /\ UNCHANGED <<links, place, alpha, children>>
      BY <1>2, <2>9 DEF Goto
    <3>4. PICK C : C = D \cup {e}
      OBVIOUS
    <3>5. Leaving(C, w)'
      BY <3>2, <3>3, <3>4, Unmoved
    <3> QED BY <3>3, <3>5 DEF Optimizing
  <2>10. CASE r # 0
    <3>1. k + 1 \in 1..Len(Kids(e)) /\ r = Kids(e)[k + 1]
      BY <2>8, <2>10, NthIs
    <3>2. PICK t : t = Append(w, r)
      OBVIOUS
    <3>3. Visit(r) /\ entered' = TRUE /\ stack' = t
      BY <1>2, <2>10, <3>2 DEF Visit
    <3>4. PICK m : m = k + 1
      OBVIOUS
    <3>5. Entering(D, t)'
      BY <2>2, <2>4, <2>5, <2>6, <3>1, <3>2, <3>3, <3>4, VisitAdvances
    <3> QED BY <3>3, <3>5 DEF Optimizing
  <2> QED BY <2>9, <2>10
<1> QED BY <1>5, <1>6

\* From the root all of the tree is reached: when the root is done, so is everything.
LEMMA AllDone ==
  ASSUME Forest, NEW D, 1 \in D, Finished(D), 1 \in Handles
  PROVE  Live \subseteq D
<1>1. PICK level : /\ \A h \in Handles : level[h] \in 1..h
                   /\ \A h \in Handles \ {1} : level[h] = level[alpha[h].parent] + 1
                   /\ \A x, y \in Handles : place[x] = place[y] => level[x] = level[y]
  BY DEF Forest, Levels
<1> DEFINE T == {level[h] : h \in Live \ D}
<1>2. \A h \in Handles : level[h] \in Nat
  <2>1. \A h \in Handles : h \in Nat
    BY PlacesAre
  <2>2. \A n \in Nat : \A a \in 1..n : a \in Nat
    OBVIOUS
  <2> QED BY <1>1, <2>1, <2>2
<1>3. SUFFICES ASSUME T # {} PROVE FALSE
  BY DEF T
<1>4. PICK n \in T : \A m \in T : n <= m
  <2>1. T \subseteq Nat
    BY <1>2, OwnPlaces
  <2> HIDE DEF T
  <2> QED BY <1>3, <2>1, Least
<1>5. PICK h \in Live \ D : n = level[h]
  OBVIOUS
<1>6. h # 1 /\ h \in Handles
  BY <1>5, OwnPlaces
<1>7. PICK p \in InUse : \E i \in 1..Len(children[p]) : h = children[p][i]
  BY <1>5, <1>6, LiveIs
<1>8. alpha[h].parent \in Handles /\ place[alpha[h].parent] = p
  BY <1>5, <1>6, <1>7, ParentIs, Listed
<1>9. PICK x \in Live : place[x] = p
  BY <1>8 DEF Forest, Lists
<1>10. x \in D
  <2> SUFFICES ASSUME x \notin D PROVE FALSE
    OBVIOUS
  <2>1. level[x] \in T /\ level[x] \in Nat /\ level[h] = level[x] + 1
    BY <1>1, <1>2, <1>6, <1>8, <1>9, OwnPlaces
  <2> HIDE DEF T
  <2> QED BY <1>4, <1>5, <2>1
<1>11. h \in D
  BY <1>7, <1>9, <1>10 DEF Finished, Kids
<1> QED BY <1>5, <1>11

\* Until Optimize is done, nothing is left behind where it has been.
LEMMA OptimizingStays ==
  ASSUME IInv, Optimizing, [Next]_vars
  PROVE  Optimizing'
<1>0. ~untidy => Forest
  BY DEF IInv
<1>1. CASE stack' = << >> \/ untidy'
  BY <1>1 DEF Optimizing
<1>2. CASE stack' # << >> /\ ~untidy'
  <2>1. CASE OptimizeStart \/ Descend \/ Proceed
    <3>1. Forest
      BY <1>0, <2>1 DEF OptimizeStart, Descend, Proceed, Callable
    <3> QED BY <1>2, <2>1, <3>1, OptimizeBegins, DescendAdvances, ProceedAdvances
  <2>2. ASSUME UNCHANGED vars PROVE Optimizing'
    <3>1. UNCHANGED <<links, place, alpha, children, stack, entered, untidy>>
      BY <2>2 DEF vars
    <3>2. PICK s, D : s = stack /\ IF entered THEN Entering(D, s) ELSE Leaving(D, s)
      BY <1>2, <3>1 DEF Optimizing
    <3>3. IF entered' THEN Entering(D, s)' ELSE Leaving(D, s)'
      BY <3>1, <3>2, Unmoved
    <3> QED BY <3>1, <3>2, <3>3 DEF Optimizing
  <2>3. ASSUME stack = << >>, UNCHANGED stack PROVE Optimizing'
    BY <1>2, <2>3
  <2>4. CASE \E key \in NodeKeys : (\E type \in Types : Emplace(key, type)) \/ \E h \in Handles : UpdateNodeKey(h, key)
    <3>1. ASSUME NEW key \in NodeKeys, NEW type \in Types, Emplace(key, type) PROVE Callable /\ UNCHANGED optimization
      BY <3>1, Zenon DEF Emplace, EmplaceRoot, EmplaceFirst, EmplaceLast, EmplaceAfter, Construct
    <3>2. ASSUME NEW key \in NodeKeys, NEW h \in Handles, UpdateNodeKey(h, key) PROVE Callable /\ UNCHANGED optimization
      BY <3>2 DEF UpdateNodeKey, Change
    <3> QED BY <2>3, <2>4, <3>1, <3>2 DEF Callable, optimization
  <2>5. CASE \E h \in Handles, b \in BOOLEAN : SetIsMergeable(h, b) \/ ToggleBranch(h, b)
    <3>1. stack = << >> /\ UNCHANGED stack
      BY <2>5 DEF SetIsMergeable, ToggleBranch, Change, Callable, optimization
    <3> QED BY <2>3, <3>1
  <2>6. CASE Destroy
    BY <2>3, <2>6 DEF Destroy, Callable, optimization
  <2> QED BY <2>1, <2>2, <2>4, <2>5, <2>6 DEF Next
<1> QED BY <1>1, <1>2

-----------------------------------------------------------------------------
(* Theorems.                                                               *)

\* The links, the indirection table and the history of the children belong
\* together after every step, unless a merge went wrong; the block is long
\* enough for its objects; and what was destroyed was destroyed once (Emplace,
\* UpdateNodeKey, SetIsMergeable, ToggleBranch, Optimize, ~MultiTree).
THEOREM Invariance == Spec => []IInv
<1>1. Init => IInv
  <2> SUFFICES ASSUME Init PROVE IInv
    OBVIOUS
  <2>0. used = 0 /\ room = 0 /\ overrun = FALSE /\ destroyed = << >>
    BY DEF Init
  <2>1a. Ended
    BY <2>0 DEF Ended
  <2>1b. Memory
    <3>1. 0 \in Nat /\ 0 <= 0 /\ FALSE \in BOOLEAN
      OBVIOUS
    <3> QED BY <2>0, <3>1 DEF Memory
  <2>1. Memory /\ Ended
    BY <2>1a, <2>1b
  <2> QED BY <2>1, InitKeeps DEF IInv
<1>2. IInv /\ [Next]_vars => IInv'
  BY Preserved
<1> QED BY <1>1, <1>2, PTL DEF Spec

\* The links of every node, also when it is looked up under the handle of a
\* node that was merged into it, give exactly the children it should have, in
\* order, as long as no merge is untidy (Emplace, mergeNodes).
THEOREM ChildrenStayInOrder == Spec => []ChildrenInOrder
<1>1. IInv => ChildrenInOrder
  BY ChildrenAre DEF IInv, ChildrenInOrder
<1> QED BY <1>1, Invariance, PTL

\* Only an object larger than all before it together is written beyond the
\* block (tryResizeMultiTable), and ~MultiTree destroys every object that it
\* reaches once, and reaches all of them if no branch is switched off.
THEOREM EachObjectLivesOnce == Spec => []EachLivesOnce
<1>1. IInv => EachLivesOnce
  BY DEF IInv, Memory, Ended, MemorySuffices, EachDestroyedOnce, EachLivesOnce
<1> QED BY <1>1, Invariance, PTL

\* When Optimize is done, no two siblings are left that could be merged (Optimize,
\* visitNode, mergeNodes), as long as no merge is untidy.
THEOREM AllIsMerged == Spec => OptimizeMergesAll
<1> DEFINE Done == stack # << >> /\ stack' = << >> =>
                     \A h \in Handles : LET c == Chain(links, place, h) IN
                       \A i, j \in DOMAIN c : i # j => ~(Merges(c[i], c[j]) /\ alpha[c[j]].mergeable)
<1>1. Init => Optimizing
  BY DEF Init, Optimizing
<1>2. IInv /\ Optimizing /\ [Next]_vars => Optimizing'
  BY OptimizingStays
<1>3. IInv /\ Optimizing /\ [Next]_vars => [Done]_vars
  <2> SUFFICES ASSUME IInv, Optimizing, Next, stack # << >>, stack' = << >>,
                      NEW h \in Handles, NEW i \in DOMAIN Chain(links, place, h), NEW j \in DOMAIN Chain(links, place, h), i # j,
                      Merges(Chain(links, place, h)[i], Chain(links, place, h)[j]),
                      alpha[Chain(links, place, h)[j]].mergeable
               PROVE  FALSE
    OBVIOUS
  <2>1. Proceed
    <3>1. ~Callable
      BY DEF Callable
    <3>2. \/ Descend \/ Proceed
      BY <3>1 DEF Next, Emplace, EmplaceRoot, EmplaceFirst, EmplaceLast, EmplaceAfter, UpdateNodeKey,
                  SetIsMergeable, ToggleBranch, Change, OptimizeStart, Destroy
    <3>3. ~Descend
      <4>1. \A d : Append(stack, d) # << >>
        OBVIOUS
      <4> QED BY <4>1 DEF Descend, Goto
    <3> QED BY <3>2, <3>3
  <2>2. ~untidy /\ Forest /\ ~entered
    BY <2>1 DEF Proceed, IInv
  <2>3. PICK D : Leaving(D, stack)
    BY <2>2 DEF Optimizing
  <2>4. stack \in Seq(Nat)
    BY <2>2 DEF Forest, Shape
  <2>5. Len(stack) = 1
    <3> SUFFICES ASSUME Len(stack) > 1 PROVE FALSE
      BY <2>3 DEF Leaving
    <3>1. Len(Front(stack)) = Len(stack) - 1
      BY <2>4, FrontIs
    <3>2. Front(stack) # << >>
      BY <2>4, <3>1
    <3>3. \A r : Append(Front(stack), r) # << >>
      <4>1. Front(stack) \in Seq(Nat)
        BY <2>4, FrontIs
      <4> QED BY <4>1
    <3> QED BY <2>1, <3>2, <3>3, Zenon DEF Proceed, Goto
  <2>6. 1 \in D /\ Finished(D) /\ 1 \in Handles
    <3>1. stack[1] = 1 /\ 1 \in D /\ Finished(D)
      BY <2>3, <2>5 DEF Leaving
    <3>2. \A k \in 1..Len(stack) : stack[k] \in Handles
      BY <2>2 DEF Forest, Shape
    <3>3. 1 \in 1..1
      OBVIOUS
    <3> QED BY <2>5, <3>1, <3>2, <3>3
  <2>7. Live \subseteq D
    BY <2>2, <2>6, AllDone
  <2>8. PICK x \in Live : place[x] = place[h]
    BY <2>2 DEF Forest, Lists
  <2>9. Chain(links, place, h) = Kids(x)
    BY <2>2, <2>8, ChildrenAre DEF Kids
  <2>10. DOMAIN Kids(x) = 1..Len(Kids(x))
    <3>1. Kids(x) \in Seq(Nat \ {0})
      BY <2>2, SteppingIs
    <3> QED BY <3>1
  <2>11. i \in 1..Len(Kids(x)) /\ j \in 1..Len(Kids(x)) /\ i # j
    BY <2>9, <2>10
  <2>12. ~Alike(Kids(x)[i], Kids(x)[j])
    BY <2>6, <2>7, <2>11 DEF Finished, Settled
  <2> QED BY <2>9, <2>12 DEF Merges, Alike, Same, Td
<1> QED BY <1>1, <1>2, <1>3, Invariance, PTL DEF Spec, OptimizeMergesAll
=============================================================================
