----------------------------- MODULE ShortString -----------------------------
(***************************************************************************)
(* GTSL::ShortString (ShortString.hpp): a text within an array, whose last *)
(* byte counts the bytes that are left.                                    *)
(***************************************************************************)
EXTENDS Unicode, SequencesExt

CONSTANTS
  Size,         \* SIZE: bytes of the array
  Texts,        \* the texts that views show: sequences of codepoints
  MaxCalls      \* calls: bounds the runs

VARIABLES
  array,        \* the bytes
  meant,        \* history: the bytes that were written since it was empty
  before,       \* history: a byte was written in front of the array
  calls

vars == <<array, meant, before, calls>>

Left(a) == a[Size]
GetBytes(a) == Size - Left(a) - 1
None == [i \in 1..Size |-> IF i = Size THEN Size - 1 ELSE 0]

Smaller(a, b) == IF a < b THEN a ELSE b

\* operator+= of bytes b: as many as are left, the counter, and a zero, which in a
\* full array is the counter itself.
Appended(a, b) ==
  LET n == Smaller(Len(b), Left(a))
      at == GetBytes(a)
      written == [i \in DOMAIN a |-> IF i - at \in 1..n THEN b[i - at] ELSE a[i]]
  IN  [written EXCEPT ![Size] = @ - n, ![at + n + 1] = 0]

Init == array = None /\ meant = <<>> /\ before = FALSE /\ calls = 0

Goes == ~before /\ calls < MaxCalls /\ calls' = calls + 1

\* The constructor from a view: the zero follows the counter here, too.
Construct(t) ==
  /\ array' = Appended(None, Encoded(t))
  /\ meant' = Encoded(t) /\ UNCHANGED before

AppendView(t) ==
  /\ array' = Appended(array, Encoded(t))
  /\ meant' = meant \o Encoded(t) /\ UNCHANGED before

\* operator= counts SIZE bytes as left: the first byte is written in front of the
\* array, and the others are one too far to the front.
Assign(t) ==
  /\ before' = TRUE
  /\ array' = IF t = <<>> THEN [array EXCEPT ![Size] = Size]
              ELSE LET b == Tail(Encoded(t))
                       n == Smaller(Len(b), Size - 1)
                       written == [i \in DOMAIN array |-> IF i \in 1..n THEN b[i] ELSE array[i]]
                   IN  [written EXCEPT ![Size] = Size - 1 - n, ![n + 1] = 0]
  /\ meant' = Encoded(t)

\* Insert, and Extract into a new one.
Reload == UNCHANGED <<array, meant, before>>

Next == Goes /\ (Reload \/ \E t \in Texts : Construct(t) \/ AppendView(t) \/ Assign(t))

Spec == Init /\ [][Next]_vars

-----------------------------------------------------------------------------
\* Whether bytes b end within a codepoint.
CutWithin(b) ==
  LET from == CHOOSE i \in 1..Len(b) : /\ UTF8CodePointLength(b[i]) # 0
                                       /\ \A j \in (i + 1)..Len(b) : UTF8CodePointLength(b[j]) = 0
  IN  b # <<>> /\ from + UTF8CodePointLength(b[from]) - 1 > Len(b)

\* A ShortString has the bytes that were written, as far as the array goes, and a
\* zero behind them.  The views of it, which look for that zero, see all of them,
\* unless they end within a codepoint; assignment writes in front of the array
\* and loses the first byte (constructors, operator+=, operator=, GetBytes).
KeepsWhatFits ==
  LET n == Smaller(Len(meant), Size - 1)
      held == SubSeq(meant, 1, n)
  IN  IF before
      THEN LET kept == Smaller(Len(meant) - 1, Size - 1)
           IN  /\ GetBytes(array) = kept /\ SubSeq(array, 1, kept) = SubSeq(meant, 2, kept + 1)
      ELSE /\ GetBytes(array) = n
           /\ SubSeq(array, 1, n) = held
           /\ array[n + 1] = 0
           /\ ~CutWithin(held) => StringLengths(array)[1] = n
=============================================================================
