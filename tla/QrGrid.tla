-------------------------------- MODULE QrGrid --------------------------------
(***************************************************************************)
(* The picture that src/src/qrcode/qr_encode.c draws.  A grid is the set   *)
(* of its dark modules <<x, y>>; the code packs them in bits behind a byte *)
(* for the size (getModuleBounded, setModuleBounded), which version stands *)
(* for here.                                                               *)
(***************************************************************************)
EXTENDS QrBits, SequencesExt

Size(version) == version * 4 + 17

Square(version) == (0 .. Size(version) - 1) \X (0 .. Size(version) - 1)

\* fillRectangle.
Rectangle(left, top, width, height) == (left .. left + width - 1) \X (top .. top + height - 1)

-----------------------------------------------------------------------------
(* Function modules. *)

\* Ascending positions of the alignment patterns: 6, then at equal steps.
getAlignmentPatternPositions(version) ==
  LET n    == NumAlign(version)
      step == ((version * 8 + n * 3 + 5) \div (n * 4 - 4)) * 2
  IN  IF n = 0 THEN <<>>
      ELSE [i \in 1 .. n |-> IF i = 1 THEN 6 ELSE version * 4 + 10 - (n - i) * step]

\* Their centres, without those under a finder pattern.
AlignmentCentres(version) ==
  LET pos == getAlignmentPatternPositions(version)
      n   == Len(pos)
  IN  {<<pos[i], pos[j]>> : <<i, j>> \in (1 .. n) \X (1 .. n) \ {<<1, 1>>, <<1, n>>, <<n, 1>>}}

\* Every function module dark.
initializeFunctionModules(version) ==
  LET size == Size(version)
  IN  UNION ({Rectangle(6, 0, 1, size), Rectangle(0, 6, size, 1),
              Rectangle(0, 0, 9, 9), Rectangle(size - 8, 0, 8, 9), Rectangle(0, size - 8, 9, 8)}
        \cup {Rectangle(c[1] - 2, c[2] - 2, 5, 5) : c \in AlignmentCentres(version)}
        \cup IF version >= 7 THEN {Rectangle(size - 11, 0, 3, 6), Rectangle(0, size - 11, 6, 3)}
             ELSE {})

\* value with n check bits behind it, of the polynomial poly.
WithCheckBits(value, n, poly) ==
  LET rem[i \in 0 .. n] ==
        IF i = 0 THEN value
        ELSE LET before == rem[i - 1]
             IN  Xor(2 * before, IF before \div 2^(n - 1) = 1 THEN poly ELSE 0)
  IN  value * 2^n + rem[n]

\* The 18 places of the version block right of the top, the lowest bit first.
VersionPlace(version, k) == <<Size(version) - 11 + (k % 3), k \div 3>>

Abs(n) == IF n < 0 THEN -n ELSE n

\* The light rings of the three finder patterns: distance 2 and 4.
FinderLight(version) ==
  LET size == Size(version)
      ring == {d \in (-4 .. 4) \X (-4 .. 4) :
                 \/ Abs(d[1]) \in {2, 4} /\ Abs(d[2]) <= Abs(d[1])
                 \/ Abs(d[2]) \in {2, 4} /\ Abs(d[1]) <= Abs(d[2])}
  IN  {<<c[1] + d[1], c[2] + d[2]>> :
         c \in {<<3, 3>>, <<size - 4, 3>>, <<3, size - 4>>}, d \in ring} \cap Square(version)

drawLightFunctionModules(qr, version) ==
  LET size    == Size(version)
      timing  == {i \in 7 .. size - 8 : i % 2 = 1}
      centres == AlignmentCentres(version)
      block   == IF version >= 7 THEN 0 .. 17 ELSE {}
      bits    == WithCheckBits(version, 12, 7973)
      Both(ks) == UNION {{VersionPlace(version, k),
                          <<VersionPlace(version, k)[2], VersionPlace(version, k)[1]>>} : k \in ks}
      light   == ({6} \X timing) \cup (timing \X {6}) \cup FinderLight(version)
                   \cup UNION {Rectangle(c[1] - 1, c[2] - 1, 3, 3) : c \in centres}
                   \cup Both(block)
  IN  (qr \ light) \cup centres \cup Both({k \in block : BitOf(bits, k) = 1})

\* The places of the first copy of the format bits, from bit 0 on.
FormatPlaces ==
  [i \in 1 .. 15 |-> IF i <= 6 THEN <<8, i - 1>>
                     ELSE IF i <= 8 THEN <<8, i>>
                     ELSE IF i = 9 THEN <<7, 8>> ELSE <<15 - i, 8>>]

\* And of the second.
FormatPlaces2(version) ==
  [i \in 1 .. 15 |-> IF i <= 8 THEN <<Size(version) - i, 8>> ELSE <<8, Size(version) - 16 + i>>]

\* Level LOW is 01; the bits are inverted by 0x5412.
FormatBits(mask) == Xor(WithCheckBits(8 + mask, 10, 1335), 21522)

drawFormatBits(mask, qr, version) ==
  LET Places(is) == {FormatPlaces[i] : i \in is} \cup {FormatPlaces2(version)[i] : i \in is}
      ones       == {i \in 1 .. 15 : BitOf(FormatBits(mask), i - 1) = 1}
  IN  (qr \ Places(1 .. 15)) \cup Places(ones) \cup {<<8, Size(version) - 8>>}

-----------------------------------------------------------------------------
(* Codewords and masks. *)

\* The right column of each pair, from the right; column 6 is left out.
Right(size, pair) ==
  IF size - 1 - 2 * pair <= 6 THEN size - 2 - 2 * pair ELSE size - 1 - 2 * pair

\* The k-th module of the zigzag scan.
ScanPlace(size, k) ==
  LET right == Right(size, k \div (2 * size))
      vert  == (k % (2 * size)) \div 2
  IN  <<right - (k % 2),
        IF ((right + 1) \div 2) % 2 = 0 THEN size - 1 - vert ELSE vert>>

\* The modules the codewords go to, in their order: those still light.
FreePlaces(qr, version) ==
  LET size == Size(version)
  IN  SelectSeq([k \in 1 .. (size - 1) * size |-> ScanPlace(size, k - 1)], LAMBDA m : m \notin qr)

drawCodewords(data, qr, version) ==
  LET free == FreePlaces(qr, version)
  IN  qr \cup {free[i] : i \in {i \in 1 .. Smaller(Len(free), 8 * Len(data)) :
                                  BitOf(data[(i - 1) \div 8 + 1], 7 - ((i - 1) % 8)) = 1}}

Invert(mask, x, y) ==
  CASE mask = 0 -> (x + y) % 2 = 0
    [] mask = 1 -> y % 2 = 0
    [] mask = 2 -> x % 3 = 0
    [] mask = 3 -> (x + y) % 3 = 0
    [] mask = 4 -> (x \div 3 + y \div 2) % 2 = 0
    [] mask = 5 -> ((x * y) % 2) + ((x * y) % 3) = 0
    [] mask = 6 -> (((x * y) % 2) + ((x * y) % 3)) % 2 = 0
    [] mask = 7 -> (((x + y) % 2) + ((x * y) % 3)) % 2 = 0

\* The mask turns all but the function modules; a second time it undoes itself.
applyMask(functionModules, qr, mask, version) ==
  {m \in Square(version) : (m \in qr) # (m \notin functionModules /\ Invert(mask, m[1], m[2]))}

-----------------------------------------------------------------------------
(* Penalties. A line is a function from 0 .. size - 1 to dark or not. *)

Row(qr, size, y) == <<>> \o [x \in 1 .. size |-> <<x - 1, y>> \in qr]
Column(qr, size, x) == <<>> \o [y \in 1 .. size |-> <<x, y - 1>> \in qr]

\* The first run of a line is lengthened by the light border.
finderPenaltyAddHistory(run, history, size) ==
  <<IF history[1] = 0 THEN run + size ELSE run>> \o SubSeq(history, 1, 6)

\* Light runs around 1:1:3:1:1 of dark and light, one of them of four.
finderPenaltyCountPatterns(history) ==
  LET n    == history[2]
      core == n > 0 /\ history[3] = n /\ history[4] = 3 * n /\ history[5] = n /\ history[6] = n
  IN  (IF core /\ history[1] >= 4 * n /\ history[7] >= n THEN 1 ELSE 0)
        + (IF core /\ history[7] >= 4 * n /\ history[1] >= n THEN 1 ELSE 0)

finderPenaltyTerminateAndCount(dark, run, history, size) ==
  LET ended == IF dark THEN finderPenaltyAddHistory(run, history, size) ELSE history
  IN  finderPenaltyCountPatterns(
        finderPenaltyAddHistory((IF dark THEN 0 ELSE run) + size, ended, size))

\* A line is read with its colour, the run so far, the runs before and the sum.
LineState == [dark : BOOLEAN, run : Nat, history : Seq(Nat), sum : Nat]

\* One module more: N1 is 3, N3 is 40.
AddModule(s, dark, size) ==
  IF dark = s.dark
  THEN [s EXCEPT !.run = @ + 1, !.sum = @ + (IF s.run = 4 THEN 3 ELSE IF s.run > 4 THEN 1 ELSE 0)]
  ELSE LET history == finderPenaltyAddHistory(s.run, s.history, size)
       IN  [dark |-> dark, run |-> 1, history |-> history,
            sum |-> s.sum + IF s.dark THEN 0 ELSE 40 * finderPenaltyCountPatterns(history)]

\* What one row or column adds, its first half read ahead of the second.
LinePenalty(line) ==
  LET size == Len(line)
      read[t \in (1 .. size) \X (1 .. size) \X LineState] ==
        IF t[1] = t[2] THEN AddModule(t[3], line[t[1]], size)
        ELSE LET middle == (t[1] + t[2]) \div 2
             IN  read[<<middle + 1, t[2], read[<<t[1], middle, t[3]>>]>>]
      end == read[<<1, size, [dark |-> FALSE, run |-> 0, sum |-> 0,
                              history |-> <<0, 0, 0, 0, 0, 0, 0>>]>>]
  IN  end.sum + 40 * finderPenaltyTerminateAndCount(end.dark, end.run, end.history, size)

\* The sum of the terms 1 to n, by halves.
SumTo(n, term) ==
  LET sum[t \in (1 .. n) \X (1 .. n)] ==
        IF t[1] = t[2] THEN term[t[1]]
        ELSE LET middle == (t[1] + t[2]) \div 2
             IN  sum[<<t[1], middle>>] + sum[<<middle + 1, t[2]>>]
  IN  sum[<<1, n>>]

\* Squares of two by two of one colour cost N2 = 3 each.
OneColour(rows, size) ==
  {m \in (1 .. size - 1) \X (1 .. size - 1) :
     /\ rows[m[2]][m[1]] = rows[m[2]][m[1] + 1]
     /\ rows[m[2]][m[1]] = rows[m[2] + 1][m[1]]
     /\ rows[m[2]][m[1]] = rows[m[2] + 1][m[1] + 1]}

getPenaltyScore(qr, version) ==
  LET size  == Size(version)
      rows  == <<>> \o [y \in 1 .. size |-> Row(qr, size, y - 1)]
      total == size * size
      k     == (Abs(20 * Cardinality(qr) - 10 * total) + total - 1) \div total - 1
  IN  IF k \notin 0 .. 9 THEN -1
      ELSE SumTo(size, [y \in 1 .. size |-> LinePenalty(rows[y])])
             + SumTo(size, [x \in 1 .. size |-> LinePenalty(Column(qr, size, x - 1))])
             + 3 * Cardinality(OneColour(rows, size))
             + 10 * k

=============================================================================
