------------------------------- MODULE MCCodecs -------------------------------
(***************************************************************************)
(* Codecs with words of at most two letters, at most two (BIP-39) or three *)
(* (SLIP-39) to a phrase, indices whose halves hold four values, and        *)
(* secrets of at most seven bytes.  Base32 has its real widths.            *)
(***************************************************************************)
EXTENDS Codecs

P == 112
Q == 113

\* The first word, the last one, and those around the first high half.
MCBip39 == <<<<P>>, <<Q>>, <<P, P>>, <<P, Q>>, <<Q, P>>, <<Q, Q>>>>

\* A list that shares words with the other, at other indices.
MCSlip39 == <<<<P, P>>, <<Q>>, <<P>>>>

MCMaxWords == [l \in List |-> IF l = "bip39" THEN 2 ELSE 3]

Char == {P, Q, Space, Tab, Separator}

\* Every text of up to four characters, longer ones with few characters, and
\* one that is too long for all its spaces.
MCTexts ==
  UNION {[1 .. n -> Char] : n \in 1 .. 4}
    \cup [1 .. 5 -> {P, Space, Separator}] \cup [1 .. 5 -> {P, Tab, Separator}]
    \cup [1 .. 7 -> {Q, Separator}] \cup [1 .. 7 -> {P, Space}]
    \cup {[i \in 1 .. 10 |-> IF i \in {1, 10} THEN P ELSE Space]}

\* Halves of indices are below ByteSize. Counts and indices within and beyond the lists, and any passphrase.
MCStrayBytes ==
  UNION {[1 .. n -> {0, 1, 2, 3}] : n \in 1 .. 4}
    \cup {<<1, 1, 1>> \o pass : pass \in UNION {[1 .. n -> Char] : n \in 1 .. 4}}
    \cup {<<2, 0, 1, 1, 0>> \o pass : pass \in UNION {[1 .. n -> Char] : n \in 1 .. 2}}

\* Bytes with bits at both ends, of every length modulo five.
MCPayloads == UNION {[1 .. n -> {0, 1, 128, 255}] : n \in 1 .. 4}
                \cup [1 .. 5 -> {1, 255}] \cup [1 .. 6 -> {1, 128}] \cup [1 .. 7 -> {255, 254}]

Number(chars, value) == [chars |-> chars, blanks |-> 0, value |-> value]

\* Values at and beyond the ends, a text too long to be a number, and blanks.
MCPrefixes == {Number(1, 1), Number(3, 255), Number(3, 256), Number(1, 0), Number(7, 7),
               Number(8, 7), [chars |-> 5, blanks |-> 4, value |-> 9]}

\* The small a, q and z are 32, 48 and 57.
MCStrayCodes == UNION {[1 .. n -> {White, NoChar, 0, 16, 31, 32, 57, DotlessI}] : n \in 0 .. 3}
                  \cup [1 .. 4 -> {0, 1, 16, 48}] \cup UNION {[1 .. n -> {0, 1}] : n \in 5 .. 8}
                  \cup UNION {[1 .. n -> {n}] : n \in 9 .. 13} \cup {[i \in 1 .. 12 |-> 16 * (i % 2)]}

=============================================================================
