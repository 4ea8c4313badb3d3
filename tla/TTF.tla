---------------------------------- MODULE TTF ----------------------------------
(***************************************************************************)
(* MakeFont and MakePath of TTF.hpp: the tables of a font file become its  *)
(* names, its characters, its glyphs, parsed one inside the other when a   *)
(* glyph is made of others, and its kerning; the contours of a glyph       *)
(* become segments.  Whether MakeFont says yes or no, it goes through the  *)
(* tables in this order and leaves what it read until then.                *)
(***************************************************************************)
EXTENDS Integers, Sequences, SequencesExt, FiniteSets

CONSTANTS
  Fonts         \* the files that are read: records as Font of FontFile makes them

VARIABLES
  font,         \* the file
  step,         \* how far MakeFont is; at last "true" or "false"
  names,        \* NameTable
  wild,         \* history: a name was put beyond the 25 there are
  AB,           \* the glyph of each character
  Glyphs,       \* those that were begun
  glyphLoaded,
  last_glyph_advance_width,
  calls,        \* the calls of parseGlyph that are not over, with their offsets
  KerningTable

vars == <<font, step, names, wild, AB, Glyphs, glyphLoaded, last_glyph_advance_width, calls, KerningTable>>

numGlyphs == Len(font.shapes)

-----------------------------------------------------------------------------
\* The reads: bytes in the order of the file, the highest first; at is where the
\* first of them stands, counted from 0.
ReadByte(at) == font.glyf[at + 1]
ReadUnsigned(at) == 256 * ReadByte(at) + ReadByte(at + 1)
Signed(v, width) == IF v >= 2^(width - 1) THEN v - 2^width ELSE v
ReadSigned(at) == Signed(ReadUnsigned(at), 16)
ReadChar(at) == Signed(ReadByte(at), 8)

HasBit(flags, value) == (flags \div value) % 2 = 1

\* The flags of n points; one with bit 3 stands for the points of the next byte, too.
ReadFlags(from, n) ==
  FoldLeft(LAMBDA s, i :
             IF s.repeat # 0
             THEN [s EXCEPT !.flags = Append(@, s.flag), !.repeat = (@ - 1) % 256]
             ELSE LET f == ReadByte(s.at)
                      again == HasBit(f, 8)
                  IN  [flags |-> Append(s.flags, f), flag |-> f,
                       repeat |-> IF again THEN ReadByte(s.at + 1) ELSE 0,
                       at |-> IF again THEN s.at + 2 ELSE s.at + 1],
           [flags |-> <<>>, flag |-> 0, repeat |-> 0, at |-> from], [i \in 1..n |-> i])

\* Mutant: a short coordinate that is dual, too, is negative.
ReadCoordinatesNegative(from, flags, short, dual) ==
  FoldLeft(LAMBDA s, f :
             LET last == IF s.list = <<>> THEN 0 ELSE Last(s.list)
                 read == IF HasBit(f, short) THEN -ReadByte(s.at) ELSE ReadSigned(s.at)
             IN  IF HasBit(f, dual) /\ ~HasBit(f, short)
                 THEN [s EXCEPT !.list = Append(@, last)]
                 ELSE [list |-> Append(s.list, last + read),
                       at |-> s.at + IF HasBit(f, short) THEN 1 ELSE 2],
           [list |-> <<>>, at |-> from], flags)

\* One coordinate of all points: as the one before when it is dual and not short, else
\* so much more, in a byte with the sign of the dual bit or in a word.
ReadCoordinates(from, flags, short, dual) ==
  FoldLeft(LAMBDA s, f :
             LET last == IF s.list = <<>> THEN 0 ELSE Last(s.list)
                 read == IF HasBit(f, short)
                         THEN IF HasBit(f, dual) THEN ReadByte(s.at) ELSE -ReadByte(s.at)
                         ELSE ReadSigned(s.at)
             IN  IF HasBit(f, dual) /\ ~HasBit(f, short)
                 THEN [s EXCEPT !.list = Append(@, last)]
                 ELSE [list |-> Append(s.list, Signed((last + read) % 65536, 16)),
                       at |-> s.at + IF HasBit(f, short) THEN 1 ELSE 2],
           [list |-> <<>>, at |-> from], flags)

\* A simple glyph: the ends of its contours, instructions that are skipped, and the
\* flags and coordinates of its points, which go to the contours in turn.
ReadContours(at, numContours) ==
  LET end == [c \in 0..numContours |-> IF c = 0 THEN -1 ELSE ReadUnsigned(at + 2 * (c - 1))]
      instructions == at + 2 * numContours
      f == ReadFlags(instructions + 2 + ReadUnsigned(instructions), end[numContours] + 1)
      xs == ReadCoordinates(f.at, f.flags, 2, 16)
      ys == ReadCoordinates(xs.at, f.flags, 4, 32)
      point == [i \in DOMAIN f.flags |->
                  [x |-> xs.list[i], y |-> ys.list[i], control |-> ~HasBit(f.flags[i], 1)]]
  IN  [c \in 1..numContours |-> SubSeq(point, end[c - 1] + 2, end[c] + 1)]

-----------------------------------------------------------------------------
\* A composite glyph's component: flags, glyph, offsets, scale, instructions.
Component(at) ==
  LET flags == ReadUnsigned(at)
      words == HasBit(flags, 1)
      dx == IF words THEN ReadSigned(at + 4) ELSE ReadChar(at + 4)
      dy == IF words THEN ReadSigned(at + 6) ELSE ReadChar(at + 5)
      scaleAt == at + IF words THEN 8 ELSE 6
      count == IF HasBit(flags, 8) THEN 1 ELSE IF HasBit(flags, 64) THEN 2
               ELSE IF HasBit(flags, 128) THEN 4 ELSE 0
      scale(k) == ReadSigned(scaleAt + 2 * k)
      matrix == CASE count = 0 -> <<16384, 0, 0, 16384>>
                  [] count = 1 -> <<scale(0), 0, 0, scale(0)>>
                  [] count = 2 -> <<scale(0), 0, 0, scale(1)>>
                  [] count = 4 -> <<scale(0), scale(1), scale(2), scale(3)>>
      after == scaleAt + 2 * count
  IN  [glyph |-> ReadUnsigned(at + 2), matrix |-> matrix,
       dx |-> IF HasBit(flags, 2048) THEN dx * matrix[1] ELSE dx * 16384,
       dy |-> IF HasBit(flags, 2048) THEN dy * matrix[4] ELSE dy * 16384,
       matched |-> ~HasBit(flags, 2), more |-> HasBit(flags, 32),
       next |-> IF HasBit(flags, 256) THEN after + 2 + ReadUnsigned(after) ELSE after]

\* A number of 2^14ths becomes a whole one.
Truncated(n) == IF n < 0 THEN -((-n) \div 16384) ELSE n \div 16384

\* The points of a component: each coordinate is made from itself alone, and the flags
\* of the points are not taken over.
Transformed(c, contours) ==
  [k \in DOMAIN contours |->
     [i \in DOMAIN contours[k] |->
        LET p == contours[k][i]
        IN  [x |-> Truncated(p.x * c.matrix[1] + p.x * c.matrix[2] + c.dx),
             y |-> Truncated(p.y * c.matrix[3] + p.y * c.matrix[4] + c.dy), control |-> FALSE]]]

-----------------------------------------------------------------------------
Init ==
  /\ font \in Fonts /\ step = "names"
  /\ names = <<>> /\ wild = FALSE /\ AB = <<>> /\ Glyphs = <<>>
  /\ glyphLoaded = {} /\ last_glyph_advance_width = 0 /\ calls = <<>> /\ KerningTable = <<>>

\* What TryGet of a table is for: without it MakeFont says no.
Needs(needed, next) == step' = IF needed \subseteq font.tables THEN next ELSE "false"

Put(f, key, value) == [k \in DOMAIN f \union {key} |-> IF k = key THEN value ELSE f[k]]

\* NameTable::Parse looks at the identifier of each name before it read it, when it is
\* still 0.  A text that begins with a zero byte has two bytes for each character.
TextOf(bytes) ==
  IF bytes # <<>> /\ bytes[1] = 0 THEN [j \in 1..(Len(bytes) \div 2) |-> bytes[2 * j]] ELSE bytes

NamesAfter(records) == FoldLeft(LAMBDA f, r : Put(f, r.id, TextOf(r.bytes)), names, records)

MagicNumber == 1594834165  \* 0x5F0F3CF5

ParseNames ==
  /\ step = "names"
  /\ IF {"head", "maxp", "name"} \subseteq font.tables /\ font.magic = MagicNumber
     THEN /\ Needs({"loca"}, "characters")
          /\ names' = NamesAfter(font.names)
          /\ wild' = (\E i \in DOMAIN font.names : font.names[i].id >= 25)
     ELSE step' = "false" /\ UNCHANGED <<names, wild>>
  /\ UNCHANGED <<font, AB, Glyphs, glyphLoaded, last_glyph_advance_width, calls, KerningTable>>

\* The first subtable of Unicode characters in format 4 is taken.  A segment gives the
\* glyph of a character by a difference, or by a word at so many bytes behind the
\* place where the segment's range offset stands.
Unicode(t) == (<<t.platform, t.encoding>> \in {<<0, 3>>, <<3, 1>>}) /\ t.format = 4

GlyphFor(t, i, c) ==
  LET s == t.segments[i]
      words == [j \in DOMAIN t.segments |-> t.segments[j].range] \o t.ids
  IN  IF s.range = 0 THEN c + s.delta
      ELSE words[i + s.range \div 2 + c - s.start] + s.delta

Mapped(t) ==
  FoldLeft(LAMBDA f, i :
             LET s == t.segments[i]
             IN  [c \in DOMAIN f \union s.start..s.end |->
                    IF c \in DOMAIN f /\ (s.range = 0 \/ c \notin s.start..s.end) THEN f[c] ELSE GlyphFor(t, i, c)],
           AB, [i \in DOMAIN t.segments |-> i])

ParseCharacters ==
  /\ step = "characters"
  /\ LET fit == SelectSeq(font.cmap, Unicode)
     IN  IF "cmap" \notin font.tables \/ fit = <<>>
         THEN step' = "false" /\ UNCHANGED AB
         ELSE AB' = Mapped(fit[1]) /\ Needs({"hhea", "glyf", "hmtx"}, IF numGlyphs = 0 THEN "false" ELSE "glyphs")
  /\ UNCHANGED <<font, names, wild, Glyphs, glyphLoaded, last_glyph_advance_width, calls, KerningTable>>

\* The beginning of parseGlyph: the glyph and its advance width, which is the last one
\* that was read when it has none of its own.
OffsetOf(g) == IF font.short THEN 2 * font.loca[g] ELSE font.loca[g]

Metric(g) == IF g < Len(font.metrics) THEN font.metrics[g + 1] ELSE last_glyph_advance_width

Begun(g, contours) ==
  /\ Glyphs' = Put(Glyphs, g, [AdvanceWidth |-> Metric(g), Contours |-> contours])
  /\ last_glyph_advance_width' = Metric(g)

\* Minus the number of contours, if that is negative, is how many lists of components
\* are read.  A glyph without bytes is done, but the last one of the font is not asked whether it
\* has none: it begins at the end of the table then, and MakeFont says no.
ParseGlyph(g) ==
  /\ IF g # numGlyphs - 1 /\ OffsetOf(g) = OffsetOf(g + 1)
     THEN Begun(g, <<>>) /\ glyphLoaded' = glyphLoaded \union {g} /\ UNCHANGED <<step, calls>>
     ELSE IF OffsetOf(g) >= OffsetOf(numGlyphs)
     THEN Begun(g, <<>>) /\ step' = "false" /\ UNCHANGED <<glyphLoaded, calls>>
     ELSE LET numContours == ReadSigned(OffsetOf(g))
              behind == OffsetOf(g) + 10
          IN  IF numContours >= 0
              THEN /\ Begun(g, IF numContours = 0 THEN <<>> ELSE ReadContours(behind, numContours))
                   /\ glyphLoaded' = glyphLoaded \union {g} /\ UNCHANGED <<step, calls>>
              ELSE /\ Begun(g, <<>>)
                   /\ calls' = Append(calls, [glyph |-> g, at |-> behind, lists |-> -numContours])
                   /\ UNCHANGED <<step, glyphLoaded>>
  /\ UNCHANGED <<font, names, wild, AB, KerningTable>>

\* The loop over all glyphs goes to the next that was not loaded as a part of another.
NextGlyph ==
  /\ step = "glyphs" /\ calls = <<>>
  /\ \E g \in 0..(numGlyphs - 1) :
       g \notin glyphLoaded /\ (\A h \in 0..(g - 1) : h \in glyphLoaded) /\ ParseGlyph(g)

\* The component of the innermost call, if it is not loaded, ...
LoadComponent ==
  /\ step = "glyphs" /\ calls # <<>>
  /\ LET c == Component(Last(calls).at) IN c.glyph \notin glyphLoaded /\ ParseGlyph(c.glyph)

\* ... and when it is, its contours become contours of the glyph.
AddComponent ==
  /\ step = "glyphs" /\ calls # <<>>
  /\ LET c == Component(Last(calls).at)
         g == Last(calls).glyph
         part == Glyphs[c.glyph].Contours
         left == Last(calls).lists - IF c.more THEN 0 ELSE 1
     IN  /\ c.glyph \in glyphLoaded
         /\ IF c.matched /\ part # <<>>
            THEN step' = "false" /\ UNCHANGED <<Glyphs, glyphLoaded, calls>>
            ELSE /\ Glyphs' = [Glyphs EXCEPT ![g].Contours = @ \o Transformed(c, part)]
                 /\ IF left > 0
                    THEN calls' = Append(Front(calls), [glyph |-> g, at |-> c.next, lists |-> left]) /\ UNCHANGED glyphLoaded
                    ELSE calls' = Front(calls) /\ glyphLoaded' = glyphLoaded \union {g}
                 /\ UNCHANGED step
  /\ UNCHANGED <<font, names, wild, AB, last_glyph_advance_width, KerningTable>>

\* Kerning: each subtable begins a length behind the beginning of the one before.
ParseKerning ==
  /\ step = "glyphs" /\ calls = <<>> /\ glyphLoaded = 0..(numGlyphs - 1)
  /\ step' = "true"
  /\ KerningTable' =
       FoldLeft(LAMBDA f, t : IF t.version = 0
                              THEN FoldLeft(LAMBDA h, p : Put(h, <<p.left, p.right>>, p.value), f, t.pairs)
                              ELSE f,
                KerningTable, IF "kern" \in font.tables THEN font.kern ELSE <<>>)
  /\ UNCHANGED <<font, names, wild, AB, Glyphs, glyphLoaded, last_glyph_advance_width, calls>>

Next == ParseNames \/ ParseCharacters \/ NextGlyph \/ LoadComponent \/ AddComponent \/ ParseKerning

Spec == Init /\ [][Next]_vars

-----------------------------------------------------------------------------
\* MakePath walks round a contour, beginning behind its first point that is on the
\* curve: two control points in a row have a point on the curve half way between them.
\* Positions are doubled, so that the halves are whole.
Twice(p) == <<2 * p.x, 2 * p.y>>
Middle(p, q) == [k \in 1..2 |-> (p[k] + q[k]) \div 2]
Segment(start, control, end, isCurve) == [start |-> start, control |-> control, end |-> end, isCurve |-> isCurve]

Along(s, p) ==
  LET this == Twice(p)
      half == Middle(s.control, this)
  IN  IF p.control
      THEN IF s.was
           THEN [s EXCEPT !.path = Append(@, Segment(s.start, s.control, half, TRUE)), !.start = half, !.control = this]
           ELSE [s EXCEPT !.was = TRUE, !.control = this]
      ELSE LET control == IF s.was THEN s.control ELSE <<0, 0>>
           IN  [path |-> Append(s.path, Segment(s.start, control, this, s.was)),
                start |-> this, control |-> control, was |-> FALSE]

FirstOnCurve(contour) == CHOOSE i \in DOMAIN contour : ~contour[i].control /\ \A j \in 1..(i - 1) : contour[j].control

Path(contour) ==
  LET first == FirstOnCurve(contour)
  IN  FoldLeft(Along, [path |-> <<>>, start |-> Twice(contour[first]), control |-> <<0, 0>>, was |-> FALSE],
               [p \in 1..Len(contour) |-> contour[1 + ((first + p - 1) % Len(contour))]]).path

-----------------------------------------------------------------------------
\* Every part of a glyph stands before it in the font.
InOrder == \A g \in DOMAIN font.shapes :
             font.shapes[g].kind = "composite" =>
               \A i \in DOMAIN font.shapes[g].parts : font.shapes[g].parts[i].glyph < g - 1

\* The points that a part contributes: moved and scaled along the axes, and, in a
\* composite glyph, all on the curve.  A part that is turned or sheared, too, has as many.
Placed(part, contours) ==
  [k \in DOMAIN contours |->
     [i \in DOMAIN contours[k] |->
        [x |-> Truncated(contours[k][i].x * part.matrix[1] + part.dx * 16384),
         y |-> Truncated(contours[k][i].y * part.matrix[4] + part.dy * 16384), control |-> FALSE]]]

Lengths(contours) == [k \in DOMAIN contours |-> Len(contours[k])]
AllPlaced(parts) == FoldLeft(LAMBDA s, part : s \o Placed(part, Glyphs[part.glyph].Contours), <<>>, parts)
Upright(parts) == \A i \in DOMAIN parts : parts[i].matrix[2] = 0 /\ parts[i].matrix[3] = 0

\* A glyph is what was drawn: its own contours to the point, or the ones of its parts,
\* in their places, whichever of them were parsed first.
IsDrawn(g) ==
  LET shape == font.shapes[g + 1]
      contours == Glyphs[g].Contours
  IN  CASE shape.kind = "empty" -> contours = <<>>
        [] shape.kind = "simple" -> contours = shape.contours
        [] shape.kind = "composite" ->
             /\ Lengths(contours) = Lengths(AllPlaced(shape.parts))
             /\ Upright(shape.parts) => contours = AllPlaced(shape.parts)

\* A font that is accepted is what its maker wrote: glyphs, kerning, names and
\* characters; the advance widths, too, when no glyph was parsed before its turn.  Two
\* things are lost on the way into a composite glyph: which points control a curve, and
\* how a part was turned.  A font is refused for a table it lacks, for another magic
\* number, for characters in no form that is read, because its last glyph is blank, or
\* for a part that is placed by its points.
FontIsRead ==
  /\ step = "true" =>
       /\ \A g \in 0..(numGlyphs - 1) : IsDrawn(g)
       /\ InOrder => \A g \in 0..(numGlyphs - 1) :
                       Glyphs[g].AdvanceWidth =
                         font.metrics[IF g < Len(font.metrics) THEN g + 1 ELSE Len(font.metrics)]
       /\ \A c \in DOMAIN font.chars : AB[c] = font.chars[c]
       /\ KerningTable = font.pairs
       /\ ~wild => names = font.texts
  /\ step = "false" =>
       \/ ~({"head", "maxp", "name", "loca", "cmap", "hhea", "glyf", "hmtx"} \subseteq font.tables)
       \/ font.magic # MagicNumber
       \/ ~\E i \in DOMAIN font.cmap : Unicode(font.cmap[i])
       \/ font.shapes[numGlyphs].kind = "empty"
       \/ \E g \in 1..numGlyphs : /\ font.shapes[g].kind = "composite"
                                /\ \E i \in DOMAIN font.shapes[g].parts : font.shapes[g].parts[i].points

\* The segments of a contour go round: each begins where the one before ended, the
\* first where the last ended; the points on the curve are among their ends, and the
\* control points are those of the curves, in their order.
PathsClose ==
  step = "true" =>
    \A g \in DOMAIN Glyphs : \A k \in DOMAIN Glyphs[g].Contours :
      LET contour == Glyphs[g].Contours[k]
          path == Path(contour)
          n == Len(path)
          on == {Twice(contour[i]) : i \in {j \in DOMAIN contour : ~contour[j].control}}
          first == FirstOnCurve(contour)
          around == SelectSeq([p \in DOMAIN contour |-> contour[1 + ((first + p - 1) % Len(contour))]], LAMBDA p : p.control)
          curves == SelectSeq(path, LAMBDA s : s.isCurve)
      IN  (\E i \in DOMAIN contour : ~contour[i].control) =>
            /\ \A i \in 1..n : path[i].end = path[1 + (i % n)].start
            /\ on \subseteq {path[i].end : i \in 1..n}
            /\ [i \in DOMAIN curves |-> curves[i].control] = [i \in DOMAIN around |-> Twice(around[i])]
=============================================================================
