------------------------------ MODULE MCQrEncode ------------------------------
(***************************************************************************)
(* QrEncode with texts around every capacity, some of them drawn.          *)
(***************************************************************************)
EXTENDS QrEncode

\* n characters, some of all, every one a step further than the one ahead.
Cycle(n, step) == <<>> \o [i \in 1 .. n |-> (i * step) % 45]

\* Texts as long as a version holds and one character longer.
Boundary == UNION {{Cycle(StandardCapacity[v], 7), Cycle(StandardCapacity[v] + 1, 7)} : v \in Version}

\* The longest text that the buffer of the segment holds, and one longer.
Longest == Cycle(5698, 7)
TooLong == Cycle(5699, 7)

\* Empty ones, single ones, runs of one character, and one that is not
\* alphanumeric.
MCTexts ==
  Boundary \cup {<<>>, <<44>>, Cycle(11, 0), Cycle(12, 13), Cycle(25, 44), <<1, NoPlace, 2>>,
                 Cycle(26, 31), Longest, TooLong}

\* Around the end of the query's buffer: letters up to it and beyond, and
\* escapes that it cuts in two.
Ones(n) == <<>> \o [i \in 1 .. n |-> 1]
CutText == Ones(1024)

MCQueries ==
  {Error, <<1, 44, 36>>, Ones(1023), CutText, Ones(1020) \o <<44, 5>>,
   Ones(1021) \o <<44, 5>>, Ones(1022) \o <<36, 5>>, TooLong}

HexShare(chars, value, n, step) ==
  Text([chars |-> chars, blanks |-> 0, value |-> value], "hex", [i \in 1 .. 2 * n |-> (i * step) % 16])

\* The shortest and the longest share, one of a usual length, one too long, and
\* two that are none.
MCShares ==
  {HexShare(1, 1, 1, 0), HexShare(3, 255, 256, 15), HexShare(2, 17, 64, 5), HexShare(1, 2, 257, 3),
   HexShare(1, 0, 16, 3), Text([chars |-> 1, blanks |-> 0, value |-> 3], "hex", <<1, 2, 3>>)}


=============================================================================
