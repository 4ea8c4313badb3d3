------------------------------- MODULE Unicode -------------------------------
(***************************************************************************)
(* The UTF-8 functions of GTSL (Unicode.hpp) and the ways in which a view  *)
(* of a text counts its codepoints (StringCommon.h).  Texts in memory are  *)
(* sequences of bytes; byte i of the code is element i + 1.                *)
(***************************************************************************)
EXTENDS Integers, Sequences

\* cp >> 6k & mask, for a mask of w ones.
Bits(cp, k, w) == (cp \div 64^k) % 2^w

Lengths == <<1, 1, 1, 1, 1, 1, 1, 1, 1, 1, 1, 1, 1, 1, 1, 1,
             0, 0, 0, 0, 0, 0, 0, 0, 2, 2, 2, 2, 3, 3, 4, 0>>

UTF8CodePointLength(b) == Lengths[b \div 8 + 1]

\* utf[n].lead and the bits that a leading byte of n bytes stores.
Lead(n) == <<0, 192, 224, 240>>[n]
BitsStored(n) == <<7, 5, 4, 3>>[n]

\* The number of bytes is read from the lowest byte of the codepoint, which is
\* right below 128 only.
ToUTF8(cp) ==
  LET n == UTF8CodePointLength(cp % 256)
  IN  [i \in 1..n |-> IF i = 1 THEN Bits(cp, n - 1, BitsStored(n)) + Lead(n)
                               ELSE Bits(cp, n - i, 6) + 128]

\* The codepoint of the n bytes that start at a[i].
Gathered(a, i, n) ==
  LET g[k \in 0..(n - 1)] == IF k = 0 THEN a[i] % 2^BitsStored(n)
                                      ELSE g[k - 1] * 64 + (a[i + k] % 64)
  IN  g[n - 1]

\* The decoder of views; without a length there is nothing to gather.
ToUTF32(a, i) ==
  LET n == UTF8CodePointLength(a[i]) IN IF n = 0 THEN 0 ELSE Gathered(a, i, n)

\* The decoder of String::operator[], and whether it accepts the bytes: not longer
\* than necessary, no surrogate, in range, each tail byte marked as one.
ToUTF32Checked(a, i, n) ==
  LET cp == IF n = 0 THEN 0 ELSE Gathered(a, i, n)
      least == <<4194304, 0, 128, 2048, 65536>>[n + 1]
  IN  <<cp, /\ cp >= least /\ cp <= 1114111 /\ cp \div 2048 # 27
            /\ \A k \in 1..(n - 1) : a[i + k] \div 64 = 2>>

-----------------------------------------------------------------------------
\* Bytes and codepoints up to the first zero.
StringLengths(a) ==
  LET f[b \in 0..Len(a)] ==
        IF a[b + 1] = 0 THEN <<b, 0>>
        ELSE LET rest == f[b + UTF8CodePointLength(a[b + 1])] IN <<rest[1], rest[2] + 1>>
  IN  f[0]

\* The codepoints of a view of the bytes from..to-1, as the constructors count
\* that have no zero to go by.
CodepointsBetween(a, from, to) ==
  LET f[b \in from..(to + 3)] ==
        IF b >= to THEN 0 ELSE 1 + f[b + UTF8CodePointLength(a[b + 1])]
  IN  f[from]

\* The byte at which a codepoint starts, as operator[] of views walks to it.
ByteOf(a, cp) ==
  LET f[k \in 0..cp] == IF k = 0 THEN 0
                        ELSE LET b == f[k - 1] IN b + UTF8CodePointLength(a[b + 1])
  IN  f[cp]

-----------------------------------------------------------------------------
\* UTF-8 as the standard defines it: what the functions above are measured by.
Standard(cp) ==
  CASE cp < 128   -> <<cp>>
    [] cp < 2048  -> <<192 + cp \div 64, 128 + (cp % 64)>>
    [] cp < 65536 -> <<224 + cp \div 4096, 128 + ((cp \div 64) % 64), 128 + (cp % 64)>>
    [] OTHER      -> <<240 + cp \div 262144, 128 + ((cp \div 4096) % 64),
                       128 + ((cp \div 64) % 64), 128 + (cp % 64)>>

Encoded(text) ==
  LET f[k \in 0..Len(text)] == IF k = 0 THEN <<>> ELSE f[k - 1] \o Standard(text[k])
  IN  f[Len(text)]
==============================================================================
