------------------------------ MODULE MCPortal ------------------------------
(***************************************************************************)
(* Portal over GF(4) with 2-of-3 shares and secrets of at most three       *)
(* bytes: a URL value holds six characters.                                *)
(***************************************************************************)
EXTENDS Portal

Plain(text) == [i \in DOMAIN text |-> <<text[i], 1>>]

Short  == <<1, 1, 2, 3>>
Long   == <<2, 1, 1, 3, 3>>
Spaced == <<2, 1, 1, 1, 3, 3>>    \* Long with a second blank
Blanks == <<1, 1, 1, 1>>

\* A compressed form holds zero bytes; of blanks alone there is nothing to hold.
MCPhrases == (Short :> <<1, 0>>) @@ (Long :> <<2, 0>>) @@ (Spaced :> <<2, 0>>) @@ (Blanks :> <<>>)

\* Long exceeds JsonRoom.
MCExpanded == (<<1, 0>> :> Short) @@ (<<2, 0>> :> Long)

\* Two plain secrets, one as long in the URL and one as long in bytes as they
\* may be; a phrase with a blank too many; blanks; a zero byte, of which nothing
\* is left, in a message so long that its query loses the word list.
MCMessages ==
  {<< <<3, 3>>, <<2, 3>> >>,
   << <<2, 3>>, <<3, 1>>, <<1, 1>> >>,
   Plain(Spaced), Plain(Blanks),
   <<<<0, 3>>>> \o [i \in 1 .. 6 |-> <<1, 3>>]}

\* Three entries of one dealing, two of two.
MCMaxEntries == [d \in 0 .. MaxDeals |-> 4 - d]

\* Nine characters, which the buffer cuts after the second escape.
MCLongMessages == { << <<2, 3>>, <<1, 3>>, <<3, 3>> >> }

\* Memory after the buffer: a zero byte at once, or one character first.
MCAdjacent == {<<>>, <<2>>}

\* The benign case: a zero byte at once.
MCNothingAdjacent == {<<>>}

\* No abscissa; an odd digit; a wrong digit after a good byte; too many digits.
MCTypos ==
  {[x |-> 0, bytes |-> <<1>>, hex |-> "ok"],
   [x |-> 2, bytes |-> <<1>>, hex |-> "odd"],
   [x |-> 3, bytes |-> <<2, 1>>, hex |-> "digit"],
   [x |-> 1, bytes |-> <<3, 3, 3, 1>>, hex |-> "ok"]}

=============================================================================
