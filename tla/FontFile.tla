------------------------------- MODULE FontFile -------------------------------
(***************************************************************************)
(* The fonts that TTF.hpp reads, as the programs that make them write them *)
(* (external): shapes become the bytes of the table glyf, with the offsets *)
(* of the table loca.                                                      *)
(***************************************************************************)
EXTENDS Integers, Sequences, SequencesExt

Point(x, y, control) == [x |-> x, y |-> y, control |-> control]

Empty == [kind |-> "empty"]
Simple(contours) == [kind |-> "simple", contours |-> contours]

Concat(s) == FoldLeft(LAMBDA a, b : a \o b, <<>>, s)

\* A composite glyph has minus as many contours as it has lists of parts: one, as a
\* rule, or none, if there is nothing to see.
CompositeOf(lists) == [kind |-> "composite", lists |-> lists, parts |-> Concat(lists)]
Composite(parts) == CompositeOf(<<parts>>)

\* A part is another glyph, transformed by a matrix of 2^14ths and moved, or placed so
\* that two points meet, of which dx and dy are the numbers.
Transformation(glyph, dx, dy, matrix) ==
  [glyph |-> glyph, dx |-> dx, dy |-> dy, matrix |-> matrix, points |-> FALSE]
Part(glyph, dx, dy, scale) == Transformation(glyph, dx, dy, <<scale, 0, 0, scale>>)
PartByPoints(glyph, this, that) == [Part(glyph, this, that, 16384) EXCEPT !.points = TRUE]

Word(n) == <<(n % 65536) \div 256, n % 256>>

\* A coordinate is written as its difference from the one before: not at all when there
\* is none, as a byte and a sign, or as a word.
IsByte(d) == d # 0 /\ d \in -255..255
DeltaBytes(d) == IF d = 0 THEN <<>> ELSE IF IsByte(d) THEN <<IF d < 0 THEN -d ELSE d>> ELSE Word(d)

Deltas(values) == [i \in DOMAIN values |-> IF i = 1 THEN values[1] ELSE values[i] - values[i - 1]]

Bit(condition, value) == IF condition THEN value ELSE 0

FlagOf(p, dx, dy) ==
  Bit(~p.control, 1) + Bit(IsByte(dx), 2) + Bit(IsByte(dy), 4)
    + Bit(dx = 0 \/ (IsByte(dx) /\ dx > 0), 16) + Bit(dy = 0 \/ (IsByte(dy) /\ dy > 0), 32)

\* The same flag twice is one with bit 3 and the number of repetitions.
PackedFlags(flags) ==
  FoldLeft(LAMBDA s, f :
             IF s.bytes # <<>> /\ s.last = f
             THEN IF s.repeats = 0
                  THEN [bytes |-> Append(Front(s.bytes), f + 8) \o <<1>>, last |-> f, repeats |-> 1]
                  ELSE [s EXCEPT !.bytes = Append(Front(s.bytes), s.repeats + 1), !.repeats = @ + 1]
             ELSE [bytes |-> Append(s.bytes, f), last |-> f, repeats |-> 0],
           [bytes |-> <<>>, last |-> 0, repeats |-> 0], flags).bytes

Bounds == <<0, 0, 0, 0, 0, 0, 0, 0>>

SimpleBytes(contours) ==
  LET points == Concat(contours)
      xs == Deltas([i \in DOMAIN points |-> points[i].x])
      ys == Deltas([i \in DOMAIN points |-> points[i].y])
      ends == [c \in DOMAIN contours |-> Len(Concat(SubSeq(contours, 1, c))) - 1]
  IN  Word(Len(contours)) \o Bounds
        \o Concat([c \in DOMAIN ends |-> Word(ends[c])])
        \o Word(1) \o <<7>>                                  \* an instruction
        \o PackedFlags([i \in DOMAIN points |-> FlagOf(points[i], xs[i], ys[i])])
        \o Concat([i \in DOMAIN points |-> DeltaBytes(xs[i])])
        \o Concat([i \in DOMAIN points |-> DeltaBytes(ys[i])])

\* The bit and the words of a scale: none, one, two, or a matrix.
ScaleOf(m) ==
  IF m[2] # 0 \/ m[3] # 0 THEN [bit |-> 128, words |-> m]
  ELSE IF m[1] # m[4] THEN [bit |-> 64, words |-> <<m[1], m[4]>>]
  ELSE IF m[1] # 16384 THEN [bit |-> 8, words |-> <<m[1]>>]
  ELSE [bit |-> 0, words |-> <<>>]

\* Offsets are words when they do not fit into bytes; the last part has no bit 5.
CompositeBytes(lists) ==
  Word(-Len(lists)) \o Bounds \o
  Concat([l \in DOMAIN lists |->
    Concat([i \in DOMAIN lists[l] |->
              LET p == lists[l][i]
                  words == ~({p.dx, p.dy} \subseteq -128..127)
                  scale == ScaleOf(p.matrix)
              IN  Word(Bit(words, 1) + Bit(~p.points, 2) + scale.bit + Bit(i < Len(lists[l]), 32))
                    \o Word(p.glyph)
                    \o (IF words THEN Word(p.dx) \o Word(p.dy) ELSE <<p.dx % 256, p.dy % 256>>)
                    \o Concat([k \in DOMAIN scale.words |-> Word(scale.words[k])])])])

BytesOf(shape) ==
  CASE shape.kind = "empty" -> <<>>
    [] shape.kind = "simple" -> SimpleBytes(shape.contours)
    [] shape.kind = "composite" -> CompositeBytes(shape.lists)

\* Glyphs begin at even offsets, of which the short format has the halves.
Even(bytes) == IF Len(bytes) % 2 = 0 THEN bytes ELSE Append(bytes, 0)

\* chars, texts and pairs are what is meant by the tables cmap, name and kern.
Font(shapes, metrics, short, cmap, chars, names, texts, kern, pairs) ==
  LET all == [i \in DOMAIN shapes |-> Even(BytesOf(shapes[i]))]
      at == [i \in 0..Len(all) |-> Len(Concat(SubSeq(all, 1, i)))]
  IN  [magic |-> 1594834165, shapes |-> shapes, glyf |-> Concat(all), short |-> short,
       loca |-> [i \in DOMAIN at |-> IF short THEN at[i] \div 2 ELSE at[i]],
       metrics |-> metrics, cmap |-> cmap, names |-> names, kern |-> kern,
      chars |-> chars, texts |-> texts, pairs |-> pairs,
       tables |-> {"head", "maxp", "name", "loca", "cmap", "hhea", "glyf", "hmtx"}
                    \union (IF kern = <<>> THEN {} ELSE {"kern"})]
=============================================================================
