------------------------------- MODULE MCLibrary -------------------------------
(***************************************************************************)
(* One instance for TLC of the components that share no state with one     *)
(* another, those of LibraryCore and the others.  Each behaviour exercises *)
(* one of them, the one in focus, and leaves the others in their initial   *)
(* states.                                                                 *)
(***************************************************************************)
EXTENDS LibraryCore, FontFile

CONSTANTS
  Names, Strings, Wide, NoName, MaxWritten,             \* JSON
  Chars, Dividers, MaxText, Width, FractionDigits,      \* StringCommon
  StringSet, Marks, Substitute, MaxBytes, MaxStringCalls, \* String
  Size, MaxShortCalls,                                  \* ShortString
  Fonts,                                                \* TTF
  Unit, MaxMoves                                        \* Matrix

VARIABLES
  text, stack, opened, calls, phase, ptr, tokenStart, tokenEnd,
  useKeys, commas, events, doc, offsets, lastKey,       \* JSON
  view, begin, end, taken, finished,                    \* StringCommon
  strings, meant, bare, strayed, wild, stringCalls,     \* String
  array, kept, before, shortCalls,                      \* ShortString
  font, step, names, unnamed, AB, Glyphs, glyphLoaded,
  last_glyph_advance_width, glyphCalls, KerningTable,   \* TTF
  matrix, affine, moves, straight,                      \* Matrix
  corners, point                                        \* Geometry

\* The words that may be written and what they are.
Words == [w \in {"1", "2.5"} |-> IF w = "1" THEN "uint" ELSE "float"]

\* What is written to strings: nothing, a character, a divider with one of two
\* bytes, and more than one character.
Texts == {<<>>, <<97>>, <<32, 233>>, <<97, 97, 32>>, <<97, 97, 97>>}

\* Rotations by halves, thirds and quarters of a circle.
Turns == {<<2, 0, 0, 0>>, <<1, 1, 1, 1>>, <<1, -1, 1, 1>>}
Axes == {[axis |-> <<1, 0, 0>>, quarters |-> 1], [axis |-> <<0, 1, 0>>, quarters |-> 1],
         [axis |-> <<0, 0, 1>>, quarters |-> 3], [axis |-> <<0, 1, 0>>, quarters |-> 2]}
RotatorsUsed == {<<1, 1, 0>>, <<1, 0, 1>>, <<0, 3, 1>>, <<1, 3, 2>>, <<1, 2, 3>>, <<1, 1, 1>>,
                 <<2, 2, 0>>}

(***************************************************************************)
(* The fonts: every way to give three glyphs one of five shapes, with      *)
(* widths of their own or not, and fonts in which something is missing.    *)
(***************************************************************************)
\* Contours that begin with, end with and repeat control points, with deltas of a
\* byte and of a word, and flags that are packed.
Curved == << <<Point(0, 0, FALSE), Point(10, 0, TRUE), Point(300, -5, TRUE), Point(300, -5, FALSE)>>,
             <<Point(1, 1, TRUE), Point(-400, 2, FALSE), Point(-400, 7, TRUE)>> >>
Even4 == << <<Point(1, 1, FALSE), Point(2, 2, FALSE), Point(3, 3, FALSE), Point(4, 4, FALSE)>> >>

Shapes == {Empty, Simple(Curved), Simple(Even4),
           Composite(<<Part(2, 200, 1, 16384), Part(1, 5, -3, 8192)>>),
           Composite(<<Part(0, -7, 0, -16384)>>)}

\* Composite glyphs of another form: one that is scaled by two numbers, one that is
\* sheared, one with a part placed by points, one without parts, and one with two lists.
OtherComposites ==
  {Composite(<<Transformation(0, 1, 2, <<8192, 0, 0, 16384>>)>>),
   Composite(<<Transformation(0, 1, 2, <<16384, 8192, 0, 16384>>)>>),
   Composite(<<Part(1, 0, 0, 16384), PartByPoints(0, 2, 3)>>),
   CompositeOf(<<>>),
   CompositeOf(<<<<Part(0, 1, 2, 16384), Part(1, 9, 9, 16384)>>, <<Part(1, -3, 0, 16384)>>>>)}

\* Composite glyphs consist of simple ones.
OneDeep(shapes) ==
  \A g \in 1..3 : shapes[g].kind = "composite" =>
    \A i \in DOMAIN shapes[g].parts : shapes[shapes[g].parts[i].glyph + 1].kind # "composite"

SegmentOf(first, last, delta, range) == [start |-> first, end |-> last, delta |-> delta, range |-> range]
FontCMap == << [platform |-> 1, encoding |-> 0, format |-> 0, segments |-> <<>>, ids |-> <<>>],
           [platform |-> 3, encoding |-> 1, format |-> 4,
            segments |-> <<SegmentOf(33, 34, -33, 0), SegmentOf(40, 41, 0, 4), SegmentOf(65535, 65535, 1, 0)>>,
            ids |-> <<2, 1>>] >>
FontChars == [c \in {33, 34, 40, 41} |-> CASE c = 33 -> 0 [] c = 34 -> 1 [] c = 40 -> 2 [] c = 41 -> 1]
FontNames == <<[id |-> 1, bytes |-> <<0, 65, 0, 66>>], [id |-> 2, bytes |-> <<67>>]>>
FontTexts == <<<<65, 66>>, <<67>>>>
PairOf(left, right, value) == [left |-> left, right |-> right, value |-> value]
FontKern == <<[version |-> 0, pairs |-> <<PairOf(0, 1, -5), PairOf(0, 2, 3)>>],
          [version |-> 1, pairs |-> <<PairOf(2, 1, 9)>>],
          [version |-> 0, pairs |-> <<PairOf(1, 1, 4)>>]>>
FontPairs == [p \in {<<0, 1>>, <<0, 2>>, <<1, 1>>} |->
            CASE p = <<0, 1>> -> -5 [] p = <<0, 2>> -> 3 [] p = <<1, 1>> -> 4]

Like(shapes, metrics, short) == Font(shapes, metrics, short, FontCMap, FontChars, FontNames, FontTexts, FontKern, FontPairs)

Plain == Like(<<Simple(Curved), Simple(Even4), Simple(Even4)>>, <<7>>, FALSE)

\* Stands for a font where none is read.
NoFont == [tables |-> {}]

AllFonts ==
  {NoFont} \union
  {Like(shapes, metrics, short) : shapes \in {s \in [1..3 -> Shapes] : OneDeep(s)},
                                  metrics \in {<<7>>, <<7, 8>>, <<7, 8, 9>>}, short \in BOOLEAN}
  \union {Like(<<Simple(Curved), Simple(Even4), shape>>, <<7>>, FALSE) : shape \in OtherComposites}
  \union {Like(<<Simple(Curved), shape, Simple(Even4)>>, <<7>>, TRUE) : shape \in {CompositeOf(<<>>)}}
  \union {[Plain EXCEPT !.tables = @ \ {t}] : t \in Plain.tables \ {"kern"}}
  \union {[Plain EXCEPT !.names = Append(FontNames, [id |-> 256, bytes |-> <<67>>])],
          [Plain EXCEPT !.cmap = <<FontCMap[1]>>],
          [Plain EXCEPT !.magic = 0],
          [Plain EXCEPT !.kern = <<>>, !.tables = @ \ {"kern"}, !.pairs = <<>>]}

\* A matrix without zeros in a row or column, a projection, and one without an inverse.
MatricesUsed ==
  {<<<<1, 2, 0, 1>>, <<0, 1, -1, 0>>, <<2, 0, 1, 1>>, <<1, 0, 3, 2>>>>,
   <<<<1, 0, 0, 0>>, <<0, 1, 0, 0>>, <<0, 0, 2, -1>>, <<0, 0, 1, 0>>>>,
   <<<<1, 2, 0, 0>>, <<2, 4, 0, 0>>, <<0, 0, 1, 0>>, <<0, 0, 0, 1>>>>}
Vectors == {<<0, 0, 0, 1>>, <<1, 0, 0, 1>>, <<0, 1, 0, 1>>, <<1, 2, 3, 1>>, <<1, -1, 2, 2>>}
OffsetsUsed == {<<1, 0, 0>>, <<0, 2, -1>>}
FactorsUsed == {<<2, 1, -1>>}

\* Corners of tetrahedra, sharp ones among them, and points within them and on every side.
CornersUsed == {<<0, 0, 0>>, <<2, 0, 0>>, <<0, 3, 0>>, <<1, 1, 2>>, <<3, 1, -1>>}
PointsUsed == {<<x, y, z>> : x \in {-1, 0, 1, 2, 4}, y \in {-1, 0, 1, 3}, z \in {-2, 0, 1, 3}}

J == INSTANCE JSON WITH KindOf <- Words, MaxCalls <- MaxWritten
C == INSTANCE StringCommon WITH text <- view
R == INSTANCE Strings WITH calls <- stringCalls, MaxCalls <- MaxStringCalls
H == INSTANCE ShortString WITH meant <- kept, calls <- shortCalls, MaxCalls <- MaxShortCalls
O == INSTANCE TTF WITH wild <- unnamed, calls <- glyphCalls
X == INSTANCE Matrix WITH Quaternions <- Turns, AxisAngles <- Axes, Rotators <- RotatorsUsed,
                          Offsets <- OffsetsUsed, Factors <- FactorsUsed,
                          Matrices <- MatricesUsed, Probes <- Vectors
D == INSTANCE Geometry WITH Corners <- CornersUsed, Points <- PointsUsed

json == <<text, stack, opened, calls, phase, ptr, tokenStart, tokenEnd,
          useKeys, commas, events, doc, offsets, lastKey>>
substrings == <<view, begin, end, taken, finished>>
string == <<strings, meant, bare, strayed, wild, stringCalls>>
shortString == <<array, kept, before, shortCalls>>
ttf == <<font, step, names, unnamed, AB, Glyphs, glyphLoaded,
         last_glyph_advance_width, glyphCalls, KerningTable>>
transforms == <<matrix, affine, moves, straight>>
geometry == <<corners, point>>

vars == <<focus, coreVars, json, substrings, string, shortString, ttf,
          transforms, geometry>>

Components == CoreComponents \union
  {"JSON", "StringCommon", "String", "ShortString", "TTF", "Matrix", "Geometry"}

Init ==
  /\ O!Init
  /\ focus \in IF font = NoFont THEN Components \ {"TTF"} ELSE {"TTF"}
  /\ CoreInit
  /\ J!Init
  /\ C!Init
  /\ R!Init /\ (focus = "String" \/ \A s \in StringSet : meant[s] = <<>>)
  /\ H!Init
  /\ X!Init
  /\ D!Init /\ (focus = "Geometry" \/ point = <<0, 0, 0>>)

OthersRest ==
  /\ Rests("JSON", json)
  /\ Rests("StringCommon", substrings) /\ Rests("String", string)
  /\ Rests("ShortString", shortString) /\ Rests("TTF", ttf)
  /\ Rests("Matrix", transforms) /\ Rests("Geometry", geometry)

Next ==
  /\ \/ CoreNext
     \/ CoreRests /\ \/ focus = "JSON" /\ J!Next
                     \/ focus = "StringCommon" /\ C!Next
                     \/ focus = "String" /\ R!Next
                     \/ focus = "ShortString" /\ H!Next
                     \/ focus = "TTF" /\ O!Next
                     \/ focus = "Matrix" /\ X!Next
                     \/ focus = "Geometry" /\ D!Next
  /\ OthersRest

Spec == Init /\ [][Next]_vars

-----------------------------------------------------------------------------
\* JSON: ParseJSON reads back what was written, its members are found by index and by
\* name, and the commas of a text with ASCII names stand between members.
ReadsWhatWasWritten ==
  focus = "JSON" =>
    /\ J!ReadsWhatWasWritten /\ J!FindsMembers
    /\ J!OnlyASCII => J!CommasSeparate

\* JSON: commas stand between members and nowhere else, whatever the names.
CommasSeparate == focus = "JSON" => J!CommasSeparate

\* StringCommon: the substrings are the longest runs without a divider, in order.
SubstringsAreRuns == focus = "StringCommon" => C!SubstringsAreRuns

\* StringCommon: numbers that were converted to text and back are what they were.
NumbersReadBack == focus = "StringCommon" => C!NumbersReadBack

\* String: a string holds the text that its calls make, within its memory, and a
\* ShortString the codepoints of it that fit.
HoldsItsText == (focus = "String" => R!HoldsItsText) /\ (focus = "ShortString" => H!KeepsWhatFits)

\* TTF: what MakeFont leaves is what the file says, and the path of every contour is
\* closed and goes through its points.
FontIsRead == focus = "TTF" => O!FontIsRead /\ O!PathsClose

\* Matrix: a matrix that collected transformations does what they do in their order.
TransformsCompose == focus = "Matrix" => X!TransformsCompose

\* Matrix: both inverses are inverses, where they are not refused.
InversesAgree == focus = "Matrix" => X!InversesAgree

\* Matrix: only a matrix without an inverse is refused one.
RefusesTheSingular == focus = "Matrix" => X!RefusesTheSingular

\* Geometry: the closest points are points of the shapes, and none is nearer.
ClosestIsClosest == focus = "Geometry" => D!ClosestIsClosest
=============================================================================
