-------------------------------- MODULE Strings --------------------------------
(***************************************************************************)
(* GTSL::String (String.hpp): a text in memory of its own, which counts its*)
(* bytes and its codepoints apart and ends it with zeros.                  *)
(***************************************************************************)
EXTENDS Unicode, SequencesExt

CONSTANTS
  StringSet,    \* variables that hold a String
  Texts,        \* the texts that views show: sequences of codepoints
  Marks,        \* the characters that are searched and appended, all ASCII
  Substitute,   \* the character that replaces them
  MaxBytes,     \* bytes of a text: bounds the runs
  MaxCalls      \* calls: bounds the runs

VARIABLES
  strings,      \* data (the memory, empty if there is none), bytes, codePoints
  meant,        \* history: the text that each string should have
  bare,         \* history: strings whose memory was renewed without a text
  strayed,      \* history: a byte was taken for a codepoint
  wild,         \* history: what left the memory, or "none"; the model stops there
  calls

vars == <<strings, meant, bare, strayed, wild, calls>>

Raw == -1
Empty == [data |-> <<>>, bytes |-> 0, codePoints |-> 0]

\* Mutant: the terminator is not counted.
TryResizeExact(s, size) ==
  IF size <= Len(s.data) THEN s
  ELSE LET capacity == IF s.data = <<>> THEN size ELSE size * 2
       IN  [s EXCEPT !.data = SubSeq(@, 1, s.bytes) \o [i \in 1..(capacity - s.bytes) |-> Raw]]

\* tryResize: three more bytes than asked for, or twice that when it grows.
TryResize(s, size) ==
  IF size + 3 <= Len(s.data) THEN s
  ELSE LET capacity == IF s.data = <<>> THEN size + 3 ELSE (size + 3) * 2
       IN  [s EXCEPT !.data = SubSeq(@, 1, s.bytes) \o [i \in 1..(capacity - s.bytes) |-> Raw]]

\* Bytes b written to memory from byte `at' on, as far as it goes, and whether it
\* goes that far.
Put(data, at, b) == [i \in DOMAIN data |-> IF i - at \in DOMAIN b THEN b[i - at] ELSE data[i]]
Fits(data, at, n) == at + n <= Len(data)

\* copy: appends a view.
Copy(s, t) ==
  LET r == TryResize(s, s.bytes + Len(Encoded(t)))
  IN  [data |-> Put(r.data, r.bytes, Encoded(t) \o <<0, 0, 0>>),
       bytes |-> r.bytes + Len(Encoded(t)), codePoints |-> r.codePoints + Len(t)]

Cleared(s) == [s EXCEPT !.bytes = 0, !.codePoints = 0]

\* getByteAndLengthForCodePoint: the byte of a codepoint, or -1 if the walk leaves
\* what was written.
ByteFor(s, cp) ==
  LET f[k \in 0..cp] ==
        IF k = 0 THEN 0
        ELSE LET b == f[k - 1]
             IN  IF b \notin 0..(Len(s.data) - 1) \/ s.data[b + 1] = Raw THEN -1
                 ELSE b + UTF8CodePointLength(s.data[b + 1])
      end == IF cp < 0 THEN -1 ELSE f[cp]
  IN  IF end >= Len(s.data) THEN -1 ELSE end

\* FindFirst: an index of codepoints.  FindLast: an index of bytes.  Or -1.
FindFirst(s, c) ==
  LET found == {k \in 0..(s.codePoints - 1) : ToUTF32(s.data, ByteFor(s, k) + 1) = c}
  IN  IF found = {} THEN -1 ELSE CHOOSE k \in found : \A j \in found : k <= j

FindLast(s, c) ==
  LET found == {b \in 0..(s.bytes - 1) : s.data[b + 1] = c}
  IN  IF found = {} THEN -1 ELSE CHOOSE b \in found : \A j \in found : b >= j

\* Strings made by the default constructor, or from a view.
Init ==
  /\ meant \in [StringSet -> Texts]
  /\ strings = [s \in StringSet |-> IF meant[s] = <<>> THEN Empty ELSE Copy(Empty, meant[s])]
  /\ bare = {} /\ strayed = FALSE /\ wild = "none" /\ calls = 0

-----------------------------------------------------------------------------
\* Results of a call: what is left of the memory, and why it was left.
Result(s, r, t, cause) ==
  /\ strings' = [strings EXCEPT ![s] = r]
  /\ meant' = [meant EXCEPT ![s] = t]
  /\ wild' = cause

Goes == wild = "none" /\ ~strayed /\ calls < MaxCalls /\ calls' = calls + 1
Kept == UNCHANGED strayed
Written(s) == bare' = bare \ {s}
Short(t) == Len(Encoded(t)) <= MaxBytes

\* The destructor, and a new default String in the place of the old one.
Renew(s) ==
  /\ strings[s] # Empty
  /\ Result(s, Empty, <<>>, "none") /\ Written(s) /\ Kept

\* String(initialCapacity), and Resize.
Reserve(s, n) ==
  /\ Result(s, TryResize(strings[s], n), meant[s], "none") /\ Kept
  /\ bare' = IF TryResize(strings[s], n) = strings[s] THEN bare ELSE bare \cup {s}

\* operator= of a view, the constructor from one, and operator= of another String.
\* A String assigned to itself is cleared before it is copied.
Assign(s, t) ==
  Result(s, Copy(Cleared(strings[s]), t), t, "none") /\ Written(s) /\ Kept

AssignString(s, o) ==
  LET t == IF s = o THEN <<>> ELSE meant[o]
  IN  Result(s, Copy(Cleared(strings[s]), t), t, "none") /\ Written(s) /\ Kept

\* The move constructor and operator=(String&&), which forgets the memory it had.
Move(s, o) ==
  /\ s # o
  /\ strings' = [strings EXCEPT ![s] = strings[o], ![o] = Empty]
  /\ meant' = [meant EXCEPT ![s] = meant[o], ![o] = <<>>]
  /\ bare' = (bare \ {s, o}) \cup (IF o \in bare THEN {s} ELSE {})
  /\ UNCHANGED <<strayed, wild>>

\* operator+= and operator<< of a view.
AppendView(s, t) ==
  /\ Short(meant[s] \o t)
  /\ Result(s, Copy(strings[s], t), meant[s] \o t, "none") /\ Written(s) /\ Kept

\* The view may show the string's own memory, which a growth gives back before
\* the view is read.
AppendItself(s) ==
  LET size == strings[s].bytes * 2
      grows == TryResize(strings[s], size) # strings[s]
  IN  /\ meant[s] # <<>> /\ Short(meant[s] \o meant[s])
      /\ Result(s, Copy(strings[s], meant[s]), meant[s] \o meant[s], IF grows THEN "own" ELSE "none")
      /\ Written(s) /\ Kept

\* operator+=(char8_t): makes room for a text of four bytes, writes five.
WithCharacter(s, c) ==
  LET r == TryResize(s, 4)
  IN  [data |-> Put(r.data, r.bytes, <<c, 0, 0, 0, 0>>), bytes |-> r.bytes + 1, codePoints |-> r.codePoints + 1]
CharacterFits(s) == Fits(TryResize(s, 4).data, s.bytes, 5)

AppendCharacter(s, c) ==
  /\ Short(Append(meant[s], c))
  /\ Result(s, WithCharacter(strings[s], c), Append(meant[s], c), IF CharacterFits(strings[s]) THEN "none" ELSE "character")
  /\ Written(s) /\ Kept

\* operator&= of a view: a blank and the view.
AppendSpaced(s, t) ==
  /\ Short(Append(meant[s], 32) \o t)
  /\ Result(s, Copy(WithCharacter(strings[s], 32), t), Append(meant[s], 32) \o t,
            IF CharacterFits(strings[s]) THEN "none" ELSE "character")
  /\ Written(s) /\ Kept

\* operator+ and operator& into a new string: a copy, which has no room to spare.
Concatenate(s, o, t, spaced) ==
  LET copy == Copy(Empty, meant[o])
      blank == IF spaced THEN <<32>> ELSE <<>>
  IN  /\ s # o /\ strings[s] = Empty /\ Short(meant[o] \o blank \o t)
      /\ Result(s, Copy(IF spaced THEN WithCharacter(copy, 32) ELSE copy, t), meant[o] \o blank \o t,
                IF spaced => CharacterFits(copy) THEN "none" ELSE "character")
      /\ Written(s) /\ Kept

\* operator+= of a Join: the texts with the connector between them.
AppendJoin(s, first, connector, second) ==
  /\ Short(meant[s] \o first \o connector \o second)
  /\ Result(s, Copy(Copy(Copy(strings[s], first), connector), second), meant[s] \o first \o connector \o second, "none")
  /\ Written(s) /\ Kept

\* ReplaceAll.
Replace(s, a, with) ==
  /\ Result(s, [strings[s] EXCEPT !.data = [i \in DOMAIN @ |-> IF i <= strings[s].bytes /\ @[i] = a THEN with ELSE @[i]]],
            [k \in DOMAIN meant[s] |-> IF meant[s][k] = a THEN with ELSE meant[s][k]], "none")
  /\ UNCHANGED <<bare, strayed>>

-----------------------------------------------------------------------------
\* Drop: four zeros are written behind what is kept.
Dropped(s, cp) ==
  [data |-> Put(s.data, ByteFor(s, cp), <<0, 0, 0, 0>>), bytes |-> ByteFor(s, cp), codePoints |-> cp]

CauseOfDrop(s, cp) ==
  IF s.data = <<>> THEN "null"
  ELSE IF ByteFor(s, cp) = -1 THEN "walk"
  ELSE IF ~Fits(s.data, ByteFor(s, cp), 4) THEN "end" ELSE "none"

Drop(s, cp) ==
  /\ cp \in 0..strings[s].codePoints
  /\ LET cause == CauseOfDrop(strings[s], cp)
     IN  Result(s, IF cause \in {"null", "walk"} THEN strings[s] ELSE Dropped(strings[s], cp), SubSeq(meant[s], 1, cp), cause)
  /\ bare' = bare \ {s} /\ Kept

\* LTrimFirst, LTrimLast: the text from a codepoint on is moved to the front.
Shifted(s, cp) ==
  LET b == ByteFor(s, cp)
      left == s.bytes - b
  IN  [data |-> Put(Put(s.data, 0, SubSeq(s.data, b + 1, s.bytes)), left, <<0, 0, 0, 0>>),
       bytes |-> left, codePoints |-> s.codePoints - cp]

CauseOfShift(s, cp) ==
  IF ByteFor(s, cp) = -1 \/ ByteFor(s, cp) > s.bytes THEN "walk"
  ELSE IF ~Fits(s.data, s.bytes - ByteFor(s, cp), 4) THEN "end" ELSE "none"

\* Where the caller means the k-th codepoint and the call goes by the index i.
Trim(s, i, k, nudge, fromLeft) ==
  LET cp == IF fromLeft THEN i + 1 + nudge ELSE i + nudge
      meantCp == IF fromLeft THEN k + nudge ELSE k - 1 + nudge
      cause == IF fromLeft THEN CauseOfShift(strings[s], cp) ELSE CauseOfDrop(strings[s], cp)
  IN  /\ meantCp \in 0..Len(meant[s])
      /\ Result(s, IF cause = "walk" THEN strings[s]
                   ELSE IF fromLeft THEN Shifted(strings[s], cp) ELSE Dropped(strings[s], cp),
                IF fromLeft THEN SubSeq(meant[s], meantCp + 1, Len(meant[s])) ELSE SubSeq(meant[s], 1, meantCp),
                cause)
      /\ bare' = bare \ {s}
      /\ strayed' = (cp # meantCp)

\* Positions of a mark in the text that the string should have.
Positions(s, c) == {k \in DOMAIN meant[s] : meant[s][k] = c}

TrimFirst(s, c, nudge, fromLeft) ==
  /\ FindFirst(strings[s], c) # -1
  /\ \E k \in Positions(s, c) :
       (\A j \in Positions(s, c) : k <= j) /\ Trim(s, FindFirst(strings[s], c), k, nudge, fromLeft)

TrimLast(s, c, nudge, fromLeft) ==
  /\ FindLast(strings[s], c) # -1
  /\ \E k \in Positions(s, c) :
       (\A j \in Positions(s, c) : k >= j) /\ Trim(s, FindLast(strings[s], c), k, nudge, fromLeft)

\* Insert and Extract: the bytes and one zero, into a new String in the place of
\* the other one.  A default String has not even a zero to write.
Reload(s, o) ==
  LET from == strings[o]
      made == TryResize(Empty, from.bytes)
  IN  /\ s # o
      /\ IF from.data = <<>>
         THEN Result(s, strings[s], meant[s], "null")
         ELSE Result(s, [data |-> Put(made.data, 0, SubSeq(from.data, 1, from.bytes + 1)),
                         bytes |-> from.bytes, codePoints |-> from.codePoints], meant[o], "none")
      /\ bare' = (bare \ {s}) \cup (IF o \in bare THEN {s} ELSE {}) /\ Kept

Next ==
  /\ Goes
  /\ \E s \in StringSet :
       \/ Renew(s) \/ AppendItself(s)
       \/ \E n \in {1, MaxBytes} : Reserve(s, n)
       \/ \E t \in Texts :
            \/ Assign(s, t) \/ AppendView(s, t) \/ AppendSpaced(s, t)
            \/ \E o \in StringSet, spaced \in BOOLEAN : Concatenate(s, o, t, spaced)
            \/ \E m \in Marks : AppendJoin(s, t, <<m>>, t)
       \/ \E o \in StringSet : AssignString(s, o) \/ Move(s, o) \/ Reload(s, o)
       \/ \E cp \in 0..MaxBytes : Drop(s, cp)
       \/ \E c \in Marks :
            \/ AppendCharacter(s, c)
            \/ Replace(s, c, Substitute)
            \/ \E nudge \in {-1, 0, 1}, fromLeft \in BOOLEAN :
                 TrimFirst(s, c, nudge, fromLeft) \/ TrimLast(s, c, nudge, fromLeft)

Spec == Init /\ [][Next]_vars

-----------------------------------------------------------------------------
\* Each String has the bytes and the codepoints of its text, each of which
\* operator[] decodes with the three bytes behind it in the memory, and a zero at
\* the end; until a search for the last character takes a byte for a codepoint.  The
\* memory is left by five things and by nothing else: a view of itself that is
\* appended, a character for which there is no room, the zeros behind a cut at the
\* end, a cut or the serialization of a String without memory, and no walk along its codepoints
\* but one that has strayed.
HoldsItsText ==
  /\ wild \in {"none", "own", "character", "end", "null"} \/ strayed
  /\ wild = "none" /\ ~strayed =>
       \A s \in StringSet :
         LET r == strings[s]
         IN  /\ SubSeq(r.data, 1, r.bytes) = Encoded(meant[s])
             /\ r.codePoints = Len(meant[s])
             /\ r.data # <<>> => r.bytes + 3 <= Len(r.data)
             /\ r.data # <<>> /\ s \notin bare => r.data[r.bytes + 1] = 0
             /\ \A k \in 1..r.codePoints : ToUTF32(r.data, ByteFor(r, k - 1) + 1) = meant[s][k]
=============================================================================
