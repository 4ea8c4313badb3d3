----------------------------- MODULE StringCommon -----------------------------
(***************************************************************************)
(* What GTSL does with views of texts (StringCommon.h): counting and       *)
(* decoding, cutting them into substrings, searching one in another, and   *)
(* the conversions between numbers and texts.  A text is written codepoint *)
(* by codepoint, and then a SubstringIterator runs over it.                *)
(***************************************************************************)
EXTENDS Unicode, FiniteSets, SequencesExt

CONSTANTS
  Chars,        \* the codepoints that texts are made of
  Dividers,     \* those that divide substrings
  MaxText,      \* codepoints in a text: bounds the runs
  Width,        \* bits of the integers that are converted
  FractionDigits \* digits behind the dot in texts of floats (6 in the code)

VARIABLES
  text,         \* the codepoints of the view
  begin, end,   \* the bytes between which the current substring is
  taken,        \* history: the substrings delivered
  finished      \* operator() has returned false

vars == <<text, begin, end, taken, finished>>

Digits == 48..57
Minus == 45
Comma == 44
Dot == 46
Power10(k) == 10^k

Init ==
  /\ text = <<>> /\ begin = 0 /\ end = 0
  /\ taken = <<>> /\ finished = FALSE

\* The bytes of a text, with zeros behind as in a String, and their number.
Data(t) == Encoded(t) \o <<0, 0, 0>>
Bytes(t) == Len(Encoded(t))

\* The codepoints between two bytes, as the constructor from iterators counts them
\* and operator[] finds them.
View(t, from, to) ==
  LET a == SubSeq(Data(t), from + 1, Len(Data(t)))
  IN  [k \in 1..CodepointsBetween(Data(t), from, to) |-> ToUTF32(a, ByteOf(a, k - 1) + 1)]

\* Where the loops over dividers, and over all else, stop that start at byte b.
PastDividers(t, b) ==
  LET a == Data(t)
      f[i \in b..Bytes(t)] ==
        IF i < Bytes(t) /\ ToUTF32(a, i + 1) \in Dividers
        THEN f[i + UTF8CodePointLength(a[i + 1])] ELSE i
  IN  f[b]

PastOthers(t, b) ==
  LET a == Data(t)
      f[i \in b..Bytes(t)] ==
        IF i < Bytes(t) /\ ToUTF32(a, i + 1) \notin Dividers
        THEN f[i + UTF8CodePointLength(a[i + 1])] ELSE i
  IN  f[b]

\* Mutant: dividers in front of a substring are taken for one.
AdvanceEmpty ==
  /\ ~finished
  /\ begin' = end /\ end' = PastOthers(text, PastDividers(text, end))
  /\ finished' = (begin' = end')
  /\ taken' = IF finished' THEN taken ELSE Append(taken, View(text, begin', end'))
  /\ UNCHANGED text

\* SubstringIterator::operator(), and operator* if it returned true.
Advance ==
  /\ ~finished
  /\ begin' = PastDividers(text, end)
  /\ end' = PastOthers(text, begin')
  /\ finished' = (begin' = end')
  /\ taken' = IF finished' THEN taken ELSE Append(taken, View(text, begin', end'))
  /\ UNCHANGED text

Write(c) ==
  /\ end = 0 /\ ~finished /\ Len(text) < MaxText
  /\ text' = Append(text, c)
  /\ UNCHANGED <<begin, end, taken, finished>>

\* The substrings ForEachSubstring calls its function with.
ForEachSubstring(t) ==
  LET f[b \in 0..Bytes(t)] ==
        IF b >= Bytes(t) THEN <<>>
        ELSE LET from == PastDividers(t, b)
                 to == PastOthers(t, from)
             IN  <<View(t, from, to)>> \o f[to]
  IN  f[0]

\* The elements Substrings adds to its container, each of which takes the lowest
\* byte of a codepoint.  For less than two bytes end() - 2 wraps around and the
\* loop does not end.
Substrings(t) ==
  LET f[b \in 0..Bytes(t)] ==
        IF b >= Bytes(t) - 2 THEN <<>>
        ELSE LET from == PastDividers(t, b)
                 to == PastOthers(t, from)
                 v == View(t, from, to)
             IN  <<[i \in DOMAIN v |-> v[i] % 256]>> \o f[to]
  IN  f[0]

\* IsIn: after a mismatch the search goes on behind it.
IsIn(t, candidate) ==
  LET At(s, i) == IF i < Len(s) THEN s[i + 1] ELSE 0
      Matched(m) == CHOOSE l \in 0..Len(candidate) :
                      /\ \A i \in 0..(l - 1) : At(candidate, i) = At(t, m + i)
                      /\ l = Len(candidate) \/ At(candidate, l) # At(t, m + l)
      f[m \in 0..(Len(t) + 1)] ==
        LET l == Matched(m) IN m < Len(t) /\ (l = Len(candidate) \/ f[m + l + 1])
  IN  f[0]

-----------------------------------------------------------------------------
\* numberString[c]: bytes are counted and codepoints are read, so that a text of
\* more bytes than codepoints is read beyond its end.
NumberAt(t, c) == IF c < Len(t) THEN t[c + 1] ELSE 0

\* ToNumber of unsigned integers of Width bits, from the last character to the
\* first: the value, and whether it is a number.
ToUnsigned(t) ==
  LET n == Bytes(t)
      f[j \in 0..n] ==
        IF j = 0 THEN <<0, 1, TRUE>>
        ELSE LET c == NumberAt(t, n - j)
                 last == f[j - 1]
                 value == last[1]
                 mult == last[2]
             IN  CASE c = 0 -> last
                   [] c \in Digits -> <<(value + (c - 48) * mult) % 2^Width, (mult * 10) % 2^Width, last[3]>>
                   [] OTHER -> <<0, 1, FALSE>>
  IN  IF f[n][3] THEN <<f[n][1], TRUE>> ELSE <<0, FALSE>>

AsSigned(v) == IF v < 2^(Width - 1) THEN v ELSE v - 2^Width

\* Mutant: the sign is applied to the multiplier.
ToSignedLate(t) ==
  LET n == Bytes(t)
      f[j \in 0..n] ==
        IF j = 0 THEN <<0, 1, TRUE>>
        ELSE LET c == NumberAt(t, n - j)
                 last == f[j - 1]
                 value == last[1]
                 mult == last[2]
             IN  CASE c = 0 -> last
                   [] c = Minus -> <<value, (2^Width - mult) % 2^Width, last[3]>>
                   [] c \in Digits -> <<(value + (c - 48) * mult) % 2^Width, (mult * 10) % 2^Width, last[3]>>
                   [] OTHER -> <<0, 1, FALSE>>
  IN  IF f[n][3] THEN <<AsSigned(f[n][1]), TRUE>> ELSE <<0, FALSE>>

\* ToNumber of signed integers: a sign negates what stands behind it.
ToSigned(t) ==
  LET n == Bytes(t)
      f[j \in 0..n] ==
        IF j = 0 THEN <<0, 1, TRUE>>
        ELSE LET c == NumberAt(t, n - j)
                 last == f[j - 1]
                 value == last[1]
                 mult == last[2]
             IN  CASE c = 0 -> last
                   [] c = Minus -> <<(2^Width - value) % 2^Width, (mult * 10) % 2^Width, last[3]>>
                   [] c \in Digits -> <<(value + (c - 48) * mult) % 2^Width, (mult * 10) % 2^Width, last[3]>>
                   [] OTHER -> <<0, 1, FALSE>>
  IN  IF f[n][3] THEN <<AsSigned(f[n][1]), TRUE>> ELSE <<0, FALSE>>

\* ToNumber of floats, in units of the last digit behind the dot.
ToFloat(t) ==
  LET n == Bytes(t)
      f[j \in 0..n] ==
        IF j = 0 THEN <<0, 1, TRUE>>
        ELSE LET c == NumberAt(t, n - j)
                 last == f[j - 1]
                 value == last[1]
                 div == last[2]
             IN  CASE c = 0 -> last
                   [] c = Dot -> <<IF value < 0 THEN -(-value \div div) ELSE value \div div, 1, last[3]>>
                   [] c = Minus -> <<-value, div * 10, last[3]>>
                   [] c \in Digits -> <<value + (c - 48) * div * Power10(FractionDigits), div * 10, last[3]>>
                   [] OTHER -> <<0, 1, FALSE>>
  IN  IF f[n][3] THEN <<f[n][1], TRUE>> ELSE <<0, FALSE>>

\* IsNumber, IsDecimalNumber: by the characters alone, wherever they stand.
IsNumber(t) == t # <<>> /\ \A i \in DOMAIN t : t[i] \in Digits \cup {Dot, Comma, Minus}
IsDecimalNumber(t) == (\A i \in DOMAIN t : t[i] \in Digits \cup {Dot, Minus}) /\ (\E i \in DOMAIN t : t[i] = Dot)

\* The loop over the digits of an unsigned number.
DigitsOf(n) ==
  LET f[m \in 0..n] == IF m < 10 THEN <<48 + m>> ELSE Append(f[m \div 10], 48 + (m % 10))
  IN  f[n]

UnsignedToString(n) == DigitsOf(n)

\* The smallest number is its own negation: its digits come out negative.
SignedToString(n) ==
  LET m == IF n < 0 THEN AsSigned(-n) ELSE n
      digits == IF m >= 0 THEN DigitsOf(m)
                ELSE [i \in DOMAIN DigitsOf(-m) |-> 96 - DigitsOf(-m)[i]]
  IN  IF n < 0 THEN <<Minus>> \o digits ELSE digits

\* The digits behind the dot are written as a number, whose leading zeros are lost,
\* although the factor is said to be there "to handle cases like 233.007".
FloatToString(x) ==
  LET m == IF x < 0 THEN -x ELSE x
      unit == Power10(FractionDigits)
      digits == DigitsOf(m \div unit) \o <<Dot>> \o DigitsOf(m % unit)
  IN  IF x < 0 THEN <<Minus>> \o digits ELSE digits

Next == Advance \/ \E c \in Chars : Write(c)

Spec == Init /\ [][Next]_vars

-----------------------------------------------------------------------------
\* The longest stretches of a text without dividers.
Runs(t) ==
  LET starts == {i \in 1..Len(t) : t[i] \notin Dividers /\ (i = 1 \/ t[i - 1] \in Dividers)}
      last(i) == CHOOSE j \in i..Len(t) :
                   /\ \A k \in i..j : t[k] \notin Dividers
                   /\ j = Len(t) \/ t[j + 1] \in Dividers
      order == SetToSortSeq(starts, <)
  IN  [k \in DOMAIN order |-> SubSeq(t, order[k], last(order[k]))]

\* The codepoints of a view are counted and decoded as they were written, whoever
\* counts and whoever decodes.
ViewsDecode(t) ==
  /\ StringLengths(Data(t)) = <<Bytes(t), Len(t)>>
  /\ View(t, 0, Bytes(t)) = t
  /\ \A k \in 1..Len(t) :
       LET b == ByteOf(Data(t), k - 1)
           n == UTF8CodePointLength(Data(t)[b + 1])
       IN  ToUTF32Checked(Data(t), b + 1, n) = <<t[k], TRUE>>
  /\ \A k \in 1..Len(t) : t[k] < 128 => ToUTF8(t[k]) = Standard(t[k])

CutsAgree(t) ==
  LET trailing == IF t # <<>> /\ Last(t) \in Dividers THEN <<<<>>>> ELSE <<>>
  IN  /\ ForEachSubstring(t) = Runs(t) \o trailing
      /\ Bytes(t) >= 2 /\ (\A k \in 1..Len(t) : t[k] < 256)
           => \/ Substrings(t) \in {Runs(t), Runs(t) \o trailing}
              \/ Len(Last(Runs(t))) <= 2 /\ Substrings(t) = Front(Runs(t))

SearchIsSound(t) ==
  \A c \in {<<x>> : x \in Chars} \cup {<<x, y>> : x, y \in Chars} :
    LET occurs == \E i \in 1..Len(t) : SubSeq(t, i, i + Len(c) - 1) = c
    IN  (IsIn(t, c) => occurs) /\ (Len(c) = 1 => IsIn(t, c) = occurs)

\* SubstringIterator delivers the stretches between dividers, all of them when it
\* ends; ForEachSubstring delivers the same and, if the text ends in a divider, an
\* empty one; Substrings may lose a last one that lies within the last two bytes,
\* and delivers nothing else.  What IsIn finds is there, and it finds every single
\* character.  The views they go by count and decode the text as it was written.
SubstringsAreRuns ==
  /\ IsPrefix(taken, Runs(text)) /\ (finished => taken = Runs(text))
  /\ end = 0 => ViewsDecode(text) /\ CutsAgree(text) /\ SearchIsSound(text)

\* What the digits of t[i..j] say.
Said(t, i, j) ==
  LET f[k \in (i - 1)..j] == IF k < i THEN 0 ELSE f[k - 1] * 10 + t[k] - 48 IN f[j]

\* A text of digits, with a sign where there may be one, is read as the number it
\* says (modulo 2^Width, if it is longer), other texts are refused by the
\* unsigned reader, and every number that is read is written so that it is read
\* again, if it is not the smallest number and its fraction does not begin with a
\* zero, of which FloatToString makes another number.  What can be read consists
\* of the characters of numbers.
ReadsBack(t) ==
  LET negative == t # <<>> /\ t[1] = Minus
      first == IF negative THEN 2 ELSE 1
      integer == first <= Len(t) /\ \A i \in first..Len(t) : t[i] \in Digits
      unit == Power10(FractionDigits)
      dots == {i \in 1..Len(t) : t[i] = Dot}
  IN  /\ t # <<>> /\ (ToUnsigned(t)[2] \/ ToSigned(t)[2]) => IsNumber(t)
      /\ IsDecimalNumber(t) => ToFloat(t)[2] /\ ~ToSigned(t)[2]
      /\ ToUnsigned(t)[2] <=> \A i \in 1..Len(t) : t[i] \in Digits
      /\ ToUnsigned(t)[2] => /\ ToUnsigned(t)[1] = Said(t, 1, Len(t)) % 2^Width
                             /\ ToUnsigned(UnsignedToString(ToUnsigned(t)[1])) = ToUnsigned(t)
      /\ integer => ToSigned(t) = <<AsSigned((IF negative THEN -Said(t, 2, Len(t)) ELSE Said(t, 1, Len(t))) % 2^Width), TRUE>>
      /\ ToSigned(t)[2] /\ ToSigned(t)[1] > -(2^(Width - 1)) => ToSigned(SignedToString(ToSigned(t)[1])) = ToSigned(t)
      /\ \A d \in dots :
           /\ Cardinality(dots) = 1 /\ Len(t) - d <= FractionDigits
           /\ \A i \in first..Len(t) : i = d \/ t[i] \in Digits
           => LET size == Said(t, first, d - 1) * unit + Said(t, d + 1, Len(t)) * (unit \div Power10(Len(t) - d))
                  x == IF negative THEN -size ELSE size
                  zeros == size % unit # 0 /\ size % unit < unit \div 10
              IN  /\ ToFloat(t) = <<x, TRUE>>
                  /\ ~zeros => ToFloat(FloatToString(x)) = <<x, TRUE>>

\* Numbers survive their conversions to texts and back (ToNumber, ToString).
NumbersReadBack == end = 0 => ReadsBack(text)
===============================================================================
