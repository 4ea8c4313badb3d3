---------------------------- MODULE JSONSerializer ----------------------------
(***************************************************************************)
(* GTSL::JSONSerializer (JSON.hpp) and the functions that write with it: a *)
(* stack counts the members of each open object or array, and says whether *)
(* there is a comma to take back when it is closed.                        *)
(*                                                                         *)
(* A name, a string and a number are one token of the text each.  Some     *)
(* have more bytes than codepoints, by one.                                *)
(***************************************************************************)
EXTENDS Naturals, SequencesExt

CONSTANTS
  Names,        \* the names of members
  Strings,      \* the contents of string values
  Wide,         \* those of them with a character of two bytes
  KindOf,       \* KindOf[word]: the type of a number, true or false
  NoName,       \* stands for the missing name of an element
  MaxCalls      \* bound on the number of calls

VARIABLES
  text,         \* the tokens in the buffer
  stack,        \* Serializer::stack; empty after EndSerializer
  opened,       \* history: what is open, as the caller knows it
  calls         \* history: what the caller asked to be written

writer == <<text, stack, opened, calls>>

Quote == "\""
Nul == "~"

\* MakeSerializer.
InitWriter ==
  /\ text = <<"{">>
  /\ stack = <<0>>
  /\ opened = <<"object">>
  /\ calls = <<<<"object", "start">>>>

\* RTrimLast(buffer, ','): FindLast gives the byte of the last comma, which is
\* the last byte of the text, and Drop keeps as many codepoints.  For every
\* wide character it keeps one more than there are before the comma: first
\* the comma, then terminators, of which there are four.
RTrimLast(s) ==
  LET comma == SelectLastInSeq(s, LAMBDA c : c = ",")
      extra == Len(SelectSeq(SubSeq(s, 1, comma - 1), LAMBDA c : c \in Wide))
  IN  IF extra = 0 THEN SubSeq(s, 1, comma - 1) ELSE s \o [i \in 1..extra - 1 |-> Nul]

\* Members of an object have names, elements of an array do not.  The size of
\* the stack is not tested: deeper than 16 it would overflow.
MayWrite(name) ==
  /\ stack # << >> /\ Len(calls) < MaxCalls
  /\ name = NoName <=> Last(opened) = "array"

\* StartJSONPair or StartJSONValue: the text of the name, and the count.
Named(name) == IF name = NoName THEN << >> ELSE <<Quote, name, Quote, ":">>
Counted == [stack EXCEPT ![Len(stack)] = @ + 1]
Asked(name, call) == calls' = calls \o IF name = NoName THEN <<call>> ELSE <<<<"key", name>>, call>>

\* Insert of a number or a bool, and of a string; EndJSONValue ends it.
Insert(name, word) ==
  /\ MayWrite(name)
  /\ text' = text \o Named(name) \o <<word, ",">>
  /\ stack' = Counted
  /\ Asked(name, <<KindOf[word], word>>)
  /\ UNCHANGED opened

InsertString(name, string) ==
  /\ MayWrite(name)
  /\ text' = text \o Named(name) \o <<Quote, string, Quote, ",">>
  /\ stack' = Counted
  /\ Asked(name, <<"string", string>>)
  /\ UNCHANGED opened

Start(name, bracket, what) ==
  /\ MayWrite(name)
  /\ text' = text \o Named(name) \o <<bracket>>
  /\ stack' = Append(Counted, 0)
  /\ opened' = Append(opened, what)
  /\ Asked(name, <<what, "start">>)

StartObject(name) == Start(name, "{", "object")
StartArray(name) == Start(name, "[", "array")

\* EndJSONObject, the bracket and EndJSONValue.
End(bracket, what) ==
  /\ Len(stack) > 1 /\ Last(opened) = what
  /\ text' = (IF Last(stack) > 0 THEN RTrimLast(text) ELSE text) \o <<bracket, ",">>
  /\ stack' = Front(stack) /\ opened' = Front(opened)
  /\ calls' = Append(calls, <<what, "end">>)

EndObject == End("}", "object")
EndArray == End("]", "array")

EndSerializer ==
  /\ Len(stack) = 1
  /\ text' = (IF Last(stack) > 0 THEN RTrimLast(text) ELSE text) \o <<"}">>
  /\ stack' = << >> /\ opened' = << >>
  /\ calls' = Append(calls, <<"object", "end">>)

Write ==
  \/ \E n \in Names \cup {NoName} :
       \/ \E w \in DOMAIN KindOf : Insert(n, w)
       \/ \E s \in Strings : InsertString(n, s)
       \/ StartObject(n) \/ StartArray(n)
  \/ EndObject \/ EndArray \/ EndSerializer

-----------------------------------------------------------------------------
\* A text without a wide name or string.
OnlyASCII == \A i \in DOMAIN calls : calls[i][2] \notin Wide

\* Commas stand between members and nowhere else, also around empty objects
\* and arrays and at any depth: none opens or closes a list, none is doubled,
\* and none is missing between two members, since RTrimLast "chops an string at
\* the last occurrence of a character" (EndJSONObject, EndSerializer).
CommasSeparate ==
  LET t == SelectSeq(text, LAMBDA c : c # " ")
  IN  stack = << >> =>
        \A i \in 1..Len(t) - 1 :
          /\ t[i] \in {"{", "[", ","} => t[i + 1] # ","
          /\ t[i] = "," => t[i + 1] \notin {"}", "]", Nul}
          /\ t[i] \in {"}", "]"} => t[i + 1] \in {",", "}", "]"}
=============================================================================
