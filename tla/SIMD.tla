---------------------------------- MODULE SIMD ----------------------------------
(***************************************************************************)
(* SIMD<float32, 4> (SIMD.hpp) and the vectors that are made of the same   *)
(* numbers (Vectors.hpp).  Numbers are whole here: what rounding does is   *)
(* not modelled.  A vector is a tuple, and lanes count from 1.             *)
(***************************************************************************)
EXTENDS Integers, Sequences

\* Lane by lane: operator+, operator-, operator* of SIMD and of the vectors.
Plus(a, b) == [i \in DOMAIN a |-> a[i] + b[i]]
Minus(a, b) == [i \in DOMAIN a |-> a[i] - b[i]]
Mul(a, b) == [i \in DOMAIN a |-> a[i] * b[i]]

\* The same number in every lane: SIMD(a), operator=(a).
Broadcast(x) == <<x, x, x, x>>

Times(a, x) == [i \in DOMAIN a |-> a[i] * x]

Negated(a) == Times(a, -1)

\* Mutant: the two lanes of a always come first.
ShuffleInOrder(s, a, b) == <<a[s[1] + 1], a[s[2] + 1], b[s[3] + 1], b[s[4] + 1]>>

\* Shuffle<A, B, C, D>(a, b): two lanes of a, then two of b; but <2, 3, 2, 3> is
\* movehl, which has them in the other order.
Shuffle(s, a, b) ==
  IF s = <<2, 3, 2, 3>> THEN <<b[3], b[4], a[3], a[4]>>
  ELSE <<a[s[1] + 1], a[s[2] + 1], b[s[3] + 1], b[s[4] + 1]>>

Permute(s, a) == [i \in 1..4 |-> a[s[i] + 1]]

HorizontalAdd(a, b) == <<a[1] + a[2], a[3] + a[4], b[1] + b[2], b[3] + b[4]>>

\* DotProduct and Cross (Math.hpp), of as many numbers as there are.
DotProduct(a, b) ==
  LET sum[i \in 0..Len(a)] == IF i = 0 THEN 0 ELSE sum[i - 1] + a[i] * b[i] IN sum[Len(a)]

Cross(a, b) ==
  <<a[2] * b[3] - a[3] * b[2], a[3] * b[1] - a[1] * b[3], a[1] * b[2] - a[2] * b[1]>>
=============================================================================
