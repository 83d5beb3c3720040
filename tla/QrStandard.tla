------------------------------ MODULE QrStandard ------------------------------
(***************************************************************************)
(* What the QR code standard (ISO/IEC 18004, level L) says, written down   *)
(* apart from the encoder: its tables, and a reader of a finished grid, a  *)
(* set of dark modules <<x, y>>.                                           *)
(***************************************************************************)
EXTENDS BitOps, Integers, Sequences, FiniteSets, SequencesExt

\* Alphanumeric characters that each version holds.
StandardCapacity ==
  <<25, 47, 77, 114, 154, 195, 224, 279, 335, 395, 468, 535, 619, 667, 758, 854, 938, 1046, 1153,
    1249, 1352, 1460, 1588, 1704, 1853, 1990, 2132, 2223, 2369, 2520, 2677, 2840, 3009, 3183,
    3351, 3537, 3729, 3927, 4087, 4296>>

\* The second alignment position of each version from 2 on; the first is 6, and
\* the others follow the second at equal distances up to the seventh module
\* from the edge.
SecondAlignment ==
  <<18, 22, 26, 30, 34, 22, 24, 26, 28, 30, 32, 34, 26, 26, 26, 30, 30, 30, 34, 28, 26, 30, 28,
    32, 30, 34, 26, 30, 26, 30, 34, 30, 34, 30, 24, 28, 32, 26, 30>>

\* Data codewords in each block.
BlockData ==
  <<<<19>>, <<34>>, <<55>>, <<80>>, <<108>>, <<68, 68>>, <<78, 78>>, <<97, 97>>, <<116, 116>>,
    <<68, 68, 69, 69>>, <<81, 81, 81, 81>>, <<92, 92, 93, 93>>, <<107, 107, 107, 107>>,
    <<115, 115, 115, 116>>, <<87, 87, 87, 87, 87, 88>>, <<98, 98, 98, 98, 98, 99>>,
    <<107, 108, 108, 108, 108, 108>>, <<120, 120, 120, 120, 120, 121>>,
    <<113, 113, 113, 114, 114, 114, 114>>>>

\* The format bits of level L for the masks 0 to 7.
FormatStrings == <<30660, 29427, 32170, 30877, 26159, 25368, 27713, 26998>>

\* The version bits from version 7 on.
VersionStrings ==
  <<31892, 34236, 39577, 42195, 48118, 51042, 55367, 58893, 63784, 68472, 70749, 76311, 79154>>

Side(v) == 4 * v + 17
Place(v) == (0 .. Side(v) - 1) \X (0 .. Side(v) - 1)

-----------------------------------------------------------------------------
(* Layout. *)

StandardAlignments(v) ==
  LET second == SecondAlignment[v - 1]
      last   == Side(v) - 7
      others == v \div 7
      gap    == IF others = 0 THEN 0 ELSE (last - second) \div others
  IN  IF v = 1 THEN {} ELSE {6} \cup {second + k * gap : k \in 0 .. others}

\* Their centres, but for those under a finder pattern.
AlignmentPlaces(v) ==
  (StandardAlignments(v) \X StandardAlignments(v))
    \ {<<6, 6>>, <<6, Side(v) - 7>>, <<Side(v) - 7, 6>>}

\* Finder patterns with their separators and format bits, timing patterns,
\* alignment patterns, version blocks.
StandardReserved(v) ==
  LET s       == Side(v)
      centres == AlignmentPlaces(v)
      block   == IF v < 7 THEN {} ELSE (s - 11 .. s - 9) \X (0 .. 5)
  IN  {m \in Place(v) :
         \/ m[1] = 6
         \/ m[2] = 6
         \/ m[1] <= 8 /\ m[2] <= 8
         \/ m[1] >= s - 8 /\ m[2] <= 8
         \/ m[1] <= 8 /\ m[2] >= s - 8}
      \cup UNION {(c[1] - 2 .. c[1] + 2) \X (c[2] - 2 .. c[2] + 2) : c \in centres}
      \cup block \cup {<<m[2], m[1]>> : m \in block}

-----------------------------------------------------------------------------
(* The reader. *)

\* A number from the places of its bits, the lowest first.
NumberFrom(grid, places) ==
  LET value[i \in 0 .. Len(places)] ==
        IF i = 0 THEN 0 ELSE value[i - 1] + (IF places[i] \in grid THEN 2^(i - 1) ELSE 0)
  IN  value[Len(places)]

\* The masks that both copies of the format bits name.
FormatRead(grid, v) ==
  LET first  == <<<<8, 0>>, <<8, 1>>, <<8, 2>>, <<8, 3>>, <<8, 4>>, <<8, 5>>, <<8, 7>>, <<8, 8>>,
                  <<7, 8>>, <<5, 8>>, <<4, 8>>, <<3, 8>>, <<2, 8>>, <<1, 8>>, <<0, 8>>>>
      second == [i \in 1 .. 15 |-> IF i <= 8 THEN <<Side(v) - i, 8>> ELSE <<8, Side(v) + i - 16>>]
  IN  {m \in 0 .. 7 : /\ NumberFrom(grid, first) = FormatStrings[m + 1]
                      /\ NumberFrom(grid, second) = FormatStrings[m + 1]}

\* Both version blocks.
VersionRead(grid, v) ==
  LET top == [i \in 1 .. 18 |-> <<Side(v) - 11 + ((i - 1) % 3), (i - 1) \div 3>>]
  IN  /\ NumberFrom(grid, top) = VersionStrings[v - 6]
      /\ NumberFrom(grid, [i \in 1 .. 18 |-> <<top[i][2], top[i][1]>>]) = VersionStrings[v - 6]

\* Distance between two modules, diagonal steps allowed.
Distance(m, n) ==
  LET dx == IF m[1] < n[1] THEN n[1] - m[1] ELSE m[1] - n[1]
      dy == IF m[2] < n[2] THEN n[2] - m[2] ELSE m[2] - n[2]
  IN  IF dx < dy THEN dy ELSE dx

\* Finder patterns, timing patterns and alignment patterns.
PatternsRead(grid, v) ==
  LET s       == Side(v)
      corners == {<<3, 3>>, <<3, s - 4>>, <<s - 4, 3>>}
      centres == AlignmentPlaces(v)
      Rings(c, width, dark) ==
        \A m \in ((c[1] - width .. c[1] + width) \X (c[2] - width .. c[2] + width)) \cap Place(v) :
          (m \in grid) = (Distance(m, c) \in dark)
  IN  /\ \A c \in corners : Rings(c, 4, {0, 1, 3})
      /\ \A c \in centres : Rings(c, 2, {0, 2})
      /\ \A i \in 8 .. s - 9 : (<<6, i>> \in grid) = (i % 2 = 0) /\ (<<i, 6>> \in grid) = (i % 2 = 0)

\* Row i and column j.
Masked(m, i, j) ==
  CASE m = 0 -> (i + j) % 2 = 0
    [] m = 1 -> i % 2 = 0
    [] m = 2 -> j % 3 = 0
    [] m = 3 -> (i + j) % 3 = 0
    [] m = 4 -> ((i \div 2) + (j \div 3)) % 2 = 0
    [] m = 5 -> ((i * j) % 2) + ((i * j) % 3) = 0
    [] m = 6 -> (((i * j) % 2) + ((i * j) % 3)) % 2 = 0
    [] m = 7 -> (((i + j) % 2) + ((i * j) % 3)) % 2 = 0

\* From the right, two columns at a time but for that of the timing pattern,
\* upwards and downwards in turn, the right one of a row first.
Walk(v) ==
  LET s       == Side(v)
      columns == <<>> \o SelectSeq([c \in 1 .. s |-> s - c], LAMBDA x : x # 6)
  IN  <<>> \o [k \in 1 .. s * (s - 1) |->
         LET pair == (k - 1) \div (2 * s)
             row  == ((k - 1) % (2 * s)) \div 2
         IN  <<columns[2 * pair + 1 + ((k - 1) % 2)], IF pair % 2 = 0 THEN s - 1 - row ELSE row>>]

\* The codewords in the order they stand in the grid.
CodewordsRead(grid, v, m) ==
  LET reserved == StandardReserved(v)
      free     == SelectSeq(Walk(v), LAMBDA at : at \notin reserved)
      bit      == <<>> \o [k \in DOMAIN free |->
                    IF (free[k] \in grid) = Masked(m, free[k][2], free[k][1])
                    THEN 0 ELSE 1]
  IN  <<>> \o [c \in 1 .. Len(bit) \div 8 |->
         LET value[b \in 0 .. 8] == IF b = 0 THEN 0 ELSE 2 * value[b - 1] + bit[8 * (c - 1) + b]
         IN  value[8]]

\* In which order the codewords of n data in blocks of these lengths stand:
\* a first one of each block, a second one of each that has one, and so on.
Interleaved(lengths) ==
  LET most == CHOOSE n \in ToSet(lengths) : \A k \in ToSet(lengths) : k <= n
      n    == Len(lengths)
  IN  SelectSeq([k \in 1 .. most * n |-> <<((k - 1) % n) + 1, (k - 1) \div n + 1>>],
                LAMBDA p : p[2] <= lengths[p[1]])

\* Block b of codewords: its data and its check codewords.
BlockRead(codewords, v, b) ==
  LET lengths == BlockData[v]
      order   == Interleaved(lengths)
      checks  == (Len(codewords) - Len(order)) \div Len(lengths)
      data    == SelectSeq([k \in DOMAIN order |-> k], LAMBDA k : order[k][1] = b)
  IN  [i \in DOMAIN data |-> codewords[data[i]]]
        \o [i \in 1 .. checks |-> codewords[Len(order) + (i - 1) * Len(lengths) + b]]

\* The powers of 2 in the field, 2^0 first, and their exponents.
Exponential ==
  LET power[i \in 0 .. 254] ==
        IF i = 0 THEN <<1>>
        ELSE LET before == power[i - 1]
                 double == 2 * Last(before)
             IN  Append(before, IF double < 256 THEN double ELSE Xor(double - 256, 29))
  IN  power[254]

Exponent == <<>> \o [x \in 1 .. 255 |-> (CHOOSE i \in 1 .. 255 : Exponential[i] = x) - 1]

\* The exclusive or of the values at 1 to n, half by half.
XorOver(n, Value(_)) ==
  LET over[r \in (1 .. n) \X (1 .. n)] ==
        IF r[1] = r[2] THEN Value(r[1])
        ELSE LET middle == (r[1] + r[2]) \div 2
             IN  Xor(over[<<r[1], middle>>], over[<<middle + 1, r[2]>>])
  IN  over[<<1, n>>]

\* Every block is a multiple of the generator: its polynomial is zero at the
\* first powers of 2, one for each check codeword.
BlocksIntact(codewords, v) ==
  \A b \in DOMAIN BlockData[v] :
    LET block  == <<>> \o BlockRead(codewords, v, b)
        checks == Len(block) - BlockData[v][b]
        Times(x, i) == IF x = 0 THEN 0 ELSE Exponential[((Exponent[x] + i) % 255) + 1]
    IN  \A i \in 0 .. checks - 1 :
          XorOver(Len(block), LAMBDA k : Times(block[k], i * (Len(block) - k))) = 0

\* The characters of the message: four bits of mode, the count, and pairs.
TextRead(codewords, v) ==
  LET data  == <<>> \o FlattenSeq([b \in DOMAIN BlockData[v] |->
                   SubSeq(BlockRead(codewords, v, b), 1, BlockData[v][b])])
      Number(from, n) ==
        LET value[i \in 0 .. n] ==
              IF i = 0 THEN 0
              ELSE 2 * value[i - 1] + BitOf(data[(from + i - 1) \div 8 + 1], 7 - ((from + i - 1) % 8))
        IN  value[n]
      width == IF v <= 9 THEN 9 ELSE IF v <= 26 THEN 11 ELSE 13
      chars == Number(4, width)
  IN  IF Number(0, 4) # 2 THEN <<-1>>
      ELSE <<>> \o [i \in 1 .. chars |->
             LET from == 4 + width + 11 * ((i - 1) \div 2)
             IN  IF i = chars /\ i % 2 = 1 THEN Number(from, 6)
                 ELSE IF i % 2 = 1 THEN Number(from, 11) \div 45
                 ELSE Number(from, 11) % 45]

-----------------------------------------------------------------------------
(* Penalties of a finished grid. *)

\* The whole runs of one colour in a line, as first and last place.
Runs(line) ==
  LET first == {i \in DOMAIN line : i = 1 \/ line[i - 1] # line[i]}
  IN  {<<i, CHOOSE j \in i .. Len(line) :
              /\ j = Len(line) \/ line[j + 1] # line[i]
              /\ \A k \in i .. j : line[k] = line[i]>> : i \in first}

\* Dark, light, three dark, light, dark of one length n, with four light on one
\* side and one on the other; beyond its ends a line is light.
FinderLike(line, runs) ==
  LET Dark(i) == i \in DOMAIN line /\ line[i]
      AllDark(from, to) == \A i \in from .. to : Dark(i)
      AllLight(from, to) == \A i \in from .. to : ~Dark(i)
  IN  {<<r, ahead, behind>> \in runs \X {1, 4} \X {1, 4} :
         LET i == r[1]
             n == r[2] - r[1] + 1
         IN  /\ Dark(i) /\ ahead # behind
             /\ AllLight(i + n, i + 2 * n - 1) /\ AllDark(i + 2 * n, i + 5 * n - 1)
             /\ AllLight(i + 5 * n, i + 6 * n - 1) /\ AllDark(i + 6 * n, i + 7 * n - 1)
             /\ AllLight(i - ahead * n, i - 1) /\ AllLight(i + 7 * n, i + (7 + behind) * n - 1)}

LineScore(line) ==
  LET runs == Runs(line)
  IN  MapThenSumSet(LAMBDA r : r[2] - r[1] - 1, {r \in runs : r[2] - r[1] >= 4})
        + 40 * Cardinality(FinderLike(line, runs))

\* Points for runs of five and more, squares, finder-like patterns, and for each
\* five per cent the dark modules are off one half.
StandardPenalty(grid, s) ==
  LET row(y)    == <<>> \o [x \in 1 .. s |-> <<x - 1, y>> \in grid]
      column(x) == <<>> \o [y \in 1 .. s |-> <<x, y - 1>> \in grid]
      squares   == {m \in (0 .. s - 2) \X (0 .. s - 2) :
                      Cardinality(((m[1] .. m[1] + 1) \X (m[2] .. m[2] + 1)) \cap grid) \in {0, 4}}
      dark      == Cardinality(grid)
      off       == CHOOSE k \in 0 .. 10 :
                     /\ 20 * dark >= (9 - k) * s * s /\ 20 * dark <= (11 + k) * s * s
                     /\ \A l \in 0 .. k - 1 : 20 * dark < (9 - l) * s * s \/ 20 * dark > (11 + l) * s * s
  IN  MapThenSumSet(LAMBDA i : LineScore(row(i)) + LineScore(column(i)), 0 .. s - 1)
        + 3 * Cardinality(squares) + 10 * off

=============================================================================
