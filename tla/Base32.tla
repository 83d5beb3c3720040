-------------------------------- MODULE Base32 --------------------------------
(***************************************************************************)
(* Unpadded base32 of src/src/compression/encoding/base32.c.  A character  *)
(* is a number: 0..31 those of the alphabet, A-Z and 2-7 in this order, as *)
(* an encoder writes them; 32..57 the letters a-z; any other is negative   *)
(* or above.  Both directions regroup the same bits, most significant      *)
(* first: bytes of eight into characters of five and back.                 *)
(***************************************************************************)
EXTENDS CodecError, Integers, Sequences

ByteBits == 8
CharBits == 5

NoChar == -1         \* a character outside the alphabet

\* The small letters are as good as the capitals.
base32_char_to_value(c) ==
  IF c \in 0 .. 31 THEN c ELSE IF c \in 32 .. 57 THEN c - 32 ELSE NoChar

Values(chars) == [i \in DOMAIN chars |-> base32_char_to_value(chars[i])]

\* Bit i of data, whose elements have width bits; 0 behind the end.
Bit(data, width, i) ==
  IF i \div width >= Len(data) THEN 0
  ELSE (data[i \div width + 1] \div 2^(width - 1 - (i % width))) % 2

\* The number that to bits of data make from bit i on.
NumberAt(data, from, to, i) ==
  LET value[b \in 0 .. to] ==
        IF b = 0 THEN 0 ELSE 2 * value[b - 1] + Bit(data, from, i + b - 1)
  IN  value[to]

\* The bits of data in n groups of another width.
Regroup(data, from, to, n) == [j \in 1 .. n |-> NumberAt(data, from, to, (j - 1) * to)]

\* Characters of n bytes, and the NUL.
base32_encoded_len(n) == (n * ByteBits + CharBits - 1) \div CharBits + 1

\* Each five bytes make eight characters; the last group is filled with zeros
\* up to a whole character.
base32_encode(bytes, out_size) ==
  IF out_size < base32_encoded_len(Len(bytes)) THEN Error
  ELSE Regroup(bytes, ByteBits, CharBits, base32_encoded_len(Len(bytes)) - 1)

\* The lengths an encoder can make.
ValidLength(n) == n % 8 \in {0, 2, 4, 5, 7}

\* The bits of the last value that belong to no byte.
TrailingZero(values) ==
  LET whole == (Len(values) * CharBits) \div ByteBits
  IN  \A i \in whole * ByteBits .. Len(values) * CharBits - 1 : Bit(values, CharBits, i) = 0

\* A decoder that lets any bits trail.
DecodeAnyTail(chars, out_size) ==
  LET values == Values(chars)
      whole  == (Len(chars) * CharBits) \div ByteBits
  IN  IF /\ ValidLength(Len(chars))
         /\ whole <= out_size
         /\ \A i \in DOMAIN values : values[i] # NoChar
      THEN Regroup(values, CharBits, ByteBits, whole)
      ELSE Error

base32_decode(chars, out_size) ==
  LET values == Values(chars)
      whole  == (Len(chars) * CharBits) \div ByteBits
  IN  IF /\ ValidLength(Len(chars))
         /\ whole <= out_size
         /\ \A i \in DOMAIN values : values[i] # NoChar
         /\ TrailingZero(values)
      THEN Regroup(values, CharBits, ByteBits, whole)
      ELSE Error

=============================================================================
