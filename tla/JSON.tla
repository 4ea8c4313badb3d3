--------------------------------- MODULE JSON ---------------------------------
(***************************************************************************)
(* GTSL::JSON (JSON.hpp): ParseJSON goes through a text, here one that was *)
(* written by the serializer and may have a blank in it, and calls back;   *)
(* the callbacks fill a buffer with a record per value, in the order of    *)
(* the text.  An object or array only stores the number of its members, so *)
(* that a member is found by jumping from record to record.                *)
(***************************************************************************)
EXTENDS JSONSerializer, Integers

VARIABLES
  phase,        \* "written", "parsing", "valid", or "exit" for exit(-1)
  ptr, tokenStart, tokenEnd,    \* the iterators, from 1
  useKeys, commas,              \* the stacks of ParseJSON
  events,       \* history: the calls of the callbacks
  doc,          \* buffer: a record per value
  offsets,      \* objectOffsetsStack: the open objects and arrays in doc
  lastKey

cursor == <<ptr, tokenStart, tokenEnd>>
reader == <<useKeys, commas, events, doc, offsets, lastKey>>
vars == <<writer, phase, cursor, reader>>

Init ==
  /\ InitWriter
  /\ phase = "written"
  /\ ptr = 1 /\ tokenStart = 1 /\ tokenEnd = 1
  /\ useKeys = << >> /\ commas = << >>
  /\ events = << >> /\ doc = << >> /\ offsets = << >>
  /\ lastKey = NoName

-----------------------------------------------------------------------------
(* The callbacks.                                                          *)

\* One more member for the innermost open object or array.
Count(d, offs) == IF offs = << >> THEN d ELSE [d EXCEPT ![Last(offs)].count = @ + 1]

Store(b, type, value) ==
  [b EXCEPT !.doc = Append(Count(@, b.offsets),
     [type |-> type, name |-> IF b.offsets = << >> THEN NoName ELSE b.lastKey, value |-> value, count |-> 0])]

Handle(b, e) ==
  CASE e[1] = "key" -> [b EXCEPT !.lastKey = e[2]]
    [] e[2] = "start" -> [Store(b, e[1], NoName) EXCEPT !.offsets = Append(@, Len(b.doc) + 1)]
    [] e[2] = "end" -> [b EXCEPT !.offsets = Front(@)]
    [] OTHER -> Store(b, e[1], e[2])

Deliver(es) ==
  LET b == FoldLeft(Handle, [doc |-> doc, offsets |-> offsets, lastKey |-> lastKey], es)
  IN  /\ events' = events \o es
      /\ doc' = b.doc /\ offsets' = b.offsets /\ lastKey' = b.lastKey

-----------------------------------------------------------------------------
(* ParseJSON.                                                              *)

Reads(c) == phase = "parsing" /\ tokenEnd <= Len(text) /\ ptr <= Len(text) /\ text[ptr] = c

Sync(p) == ptr' = p /\ tokenStart' = p /\ tokenEnd' = p

\* evalObject: a number or a bool between tokenStart and tokenEnd.
Pending ==
  LET token == SubSeq(text, tokenStart, tokenEnd - 1)
  IN  IF \E w \in DOMAIN KindOf : token = <<w>> THEN <<<<KindOf[token[1]], token[1]>>>> ELSE << >>

Open(bracket, what, keys) ==
  /\ Reads(bracket)
  /\ Deliver(<<<<what, "start">>>>)
  /\ Sync(ptr + 1)
  /\ useKeys' = Append(useKeys, keys) /\ commas' = Append(commas, 0)
  /\ UNCHANGED <<writer, phase>>

Close(bracket, what) ==
  /\ Reads(bracket)
  /\ Deliver(Append(Pending, <<what, "end">>))
  /\ Sync(ptr + 1)
  /\ useKeys' = Front(useKeys) /\ commas' = Front(commas)
  /\ UNCHANGED <<writer, phase>>

\* A quoted string up to the next quote, escaped or not.
Quoted ==
  /\ Reads(Quote)
  /\ LET last == CHOOSE i \in ptr + 1..Len(text) : text[i] = Quote /\ \A j \in ptr + 1..i - 1 : text[j] # Quote
         kind == IF Last(useKeys) /\ Last(commas) = 0 THEN "key" ELSE "string"
     IN  Deliver(<<<<kind, text[ptr + 1]>>>>) /\ Sync(last + 1)
  /\ UNCHANGED <<writer, phase, useKeys, commas>>

\* Mutant: the colon is not noted.
ColonUnnoted ==
  /\ Reads(":")
  /\ Sync(ptr + 1)
  /\ UNCHANGED <<writer, phase, reader>>

\* Commas are counted below zero in arrays, where nobody reads the count.
Colon ==
  /\ Reads(":")
  /\ Sync(ptr + 1)
  /\ commas' = [commas EXCEPT ![Len(commas)] = @ + 1]
  /\ UNCHANGED <<writer, phase, useKeys, events, doc, offsets, lastKey>>

Comma ==
  /\ Reads(",")
  /\ Deliver(Pending)
  /\ Sync(ptr + 1)
  /\ commas' = [commas EXCEPT ![Len(commas)] = @ - 1]
  /\ UNCHANGED <<writer, phase, useKeys>>

\* skip: behind the start of a token, tokenEnd stays where the token ended.
Blank ==
  /\ Reads(" ")
  /\ IF tokenStart = tokenEnd THEN Sync(ptr + 1)
     ELSE ptr' = ptr + 1 /\ UNCHANGED <<tokenStart, tokenEnd>>
  /\ UNCHANGED <<writer, phase, reader>>

\* Any other character belongs to a token, also a terminator.
Word ==
  /\ \E w \in DOMAIN KindOf \cup {Nul} : Reads(w)
  /\ ptr' = ptr + 1 /\ tokenEnd' = tokenEnd + 1
  /\ UNCHANGED <<writer, phase, tokenStart, reader>>

\* The bytes of the text, and of a record: type, name and value.
WordBytes(word) == Len(word) + IF word \in Wide THEN 1 ELSE 0
TextBytes == FoldLeft(LAMBDA n, token : n + WordBytes(token), 0, text)

Bytes(r) ==
  9 + CASE r.type = "bool" -> 1 [] r.type \in {"int", "uint"} -> 8
        [] r.type = "string" -> 8 + WordBytes(r.value) [] OTHER -> 4

\* The buffer has twice the bytes of the text, or the 64 of DoubleAllocator;
\* whether the records fit is only seen when they are written.
Capacity == IF 2 * TextBytes <= 64 THEN 64 ELSE 2 * TextBytes

Finish ==
  /\ phase = "parsing" /\ tokenEnd > Len(text)
  /\ phase' = IF FoldLeft(LAMBDA n, r : n + Bytes(r), 0, doc) >= Capacity THEN "exit" ELSE "valid"
  /\ UNCHANGED <<writer, cursor, reader>>

\* The text is written, gets a blank or not outside of quotes, and is parsed.
Outside(i) == Cardinality({j \in 1..i - 1 : text[j] = Quote}) % 2 = 0

Begin ==
  /\ phase = "written" /\ stack = << >>
  /\ phase' = "parsing"
  /\ \/ UNCHANGED text
     \/ \E i \in 1..Len(text) : Outside(i) /\ text' = InsertAt(text, i, " ")
  /\ UNCHANGED <<stack, opened, calls, cursor, reader>>

Parse ==
  \/ Open("{", "object", TRUE) \/ Open("[", "array", FALSE)
  \/ Close("}", "object") \/ Close("]", "array")
  \/ Quoted \/ Colon \/ Comma \/ Blank \/ Word

Next ==
  \/ phase = "written" /\ Write /\ UNCHANGED <<phase, cursor, reader>>
  \/ Begin \/ Parse \/ Finish

Spec == Init /\ [][Next]_vars

-----------------------------------------------------------------------------
(* Access.                                                                 *)

\* getJumpLengthSameLevel: the record behind the value at o.
Behind[o \in DOMAIN doc] ==
  LET skip[n \in 0..doc[o].count] == IF n = 0 THEN o + 1 ELSE Behind[skip[n - 1]]
  IN  skip[doc[o].count]

\* operator[](index) and operator[](name); 0 for none.
ByIndex(o, index) ==
  LET at[n \in 0..index] == IF n = 0 THEN o + 1 ELSE Behind[at[n - 1]]
  IN  at[index]

ByName(o, name) ==
  LET found == {i \in 0..doc[o].count - 1 : doc[ByIndex(o, i)].name = name}
  IN  IF found = {} THEN 0 ELSE ByIndex(o, CHOOSE i \in found : \A j \in found : i <= j)

-----------------------------------------------------------------------------
(* Properties.                                                             *)

\* What was written is what is read: the callbacks are called exactly as the
\* serializer was, whatever the nesting, wherever there is a blank, and also if
\* a comma was left at the end of a list.
ReadsWhatWasWritten == phase \in {"valid", "exit"} => events = calls

\* The calls that started a value, in the order of their records, and the
\* number of values that are open around each.
Started == SelectSeq([i \in DOMAIN calls |-> i], LAMBDA i : calls[i][1] # "key" /\ calls[i][2] # "end")
Level(i) ==
  Cardinality({j \in 1..i - 1 : calls[j][2] = "start"}) - Cardinality({j \in 1..i - 1 : calls[j][2] = "end"})

\* The members of the object or array at o, by the calls.
Members(o) ==
  LET level(k) == Level(Started[k])
  IN  SelectSeq([k \in DOMAIN Started |-> k], LAMBDA k :
        k > o /\ level(k) = level(o) + 1 /\ \A j \in o + 1..k : level(j) > level(o))

\* Every member of every object and array is found under its index, every
\* first one of its name in an object under its name, and nothing else is.
FindsMembers ==
  phase = "valid" =>
    \A o \in DOMAIN doc : doc[o].type \in {"object", "array"} =>
      LET m == Members(o)
          named(n) == SelectSeq(m, LAMBDA k : calls[Started[k] - 1] = <<"key", n>>)
      IN  /\ doc[o].count = Len(m)
          /\ \A i \in DOMAIN m : ByIndex(o, i - 1) = m[i]
          /\ doc[o].type = "object" => \A n \in Names :
               ByName(o, n) = IF named(n) = << >> THEN 0 ELSE named(n)[1]
=============================================================================
