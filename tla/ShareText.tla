------------------------------- MODULE ShareText ------------------------------
(***************************************************************************)
(* A share as text: "x:hex" on the page, "x:base32" in a QR code.  The C   *)
(* functions are those of src/src/compression/encoding/share_base32.c; the *)
(* page has a decoder of its own, shareFromBase32 in unsplit.js, for the   *)
(* boards on which jsQR reads the code.                                    *)
(*                                                                         *)
(* A text is a record: the part before the colon, the alphabet its other   *)
(* characters are taken from, and these characters.  A hex character is    *)
(* the value of a digit of either case, or one strtol treats otherwise.    *)
(***************************************************************************)
EXTENDS Base32, FiniteSetsExt

CONSTANT SSS_MAX_SECRET_LEN

ASSUME ShareTextAssumption == SSS_MAX_SECRET_LEN \in Nat \ {0}

\* Hex characters that are no digit: a minus, a blank or plus, any other.
Minus == 16
BlankOrPlus == 17
Other == 18

\* Characters of a code outside the alphabet that the page treats in its own way:
\* white space, and two letters beyond ASCII.
White == -2
DotlessI == 58
LongS == 59

CodeChar == White .. LongS

\* The part before the colon: its characters, the blanks ahead of the others, and
\* the number strtol reads; no number (a stray character, no colon, an empty
\* part) is 0.
Prefix == {p \in [chars : Nat, blanks : Nat, value : Int] : p.blanks <= p.chars}

ShareTexts == [x : Prefix, alphabet : {"hex", "base32"}, chars : Seq(Int)]

ASSUME TextErrorAssumption == Error \notin ShareTexts

Text(x, alphabet, chars) == [x |-> x, alphabet |-> alphabet, chars |-> chars]

SHARE_B32_BUF_SIZE == (SSS_MAX_SECRET_LEN * 8 + 4) \div 5 + 1

\* Both directions: x_str has room for seven characters.
ValidPrefix(x) == x.chars \in 1 .. 7 /\ x.value \in 1 .. 255

\* strtol(byte_str, 16) on two characters; NoChar when it stops early.
HexByte(hi, lo) ==
  IF lo \notin 0 .. 15 THEN NoChar
  ELSE IF hi \in 0 .. 15 THEN 16 * hi + lo
  ELSE IF hi = BlankOrPlus THEN lo
  ELSE IF hi = Minus THEN (256 - lo) % 256
  ELSE NoChar

hex_to_bytes(hex, out_max) ==
  LET bytes == [i \in 1 .. Len(hex) \div 2 |-> HexByte(hex[2 * i - 1], hex[2 * i])]
  IN  IF \/ Len(hex) % 2 # 0 \/ Len(hex) \div 2 > out_max
         \/ \E i \in DOMAIN bytes : bytes[i] = NoChar
      THEN Error ELSE bytes

bytes_to_hex(bytes) ==
  [i \in 1 .. 2 * Len(bytes) |->
     IF i % 2 = 1 THEN bytes[(i + 1) \div 2] \div 16 ELSE bytes[i \div 2] % 16]

\* snprintf writes the text and its NUL, or the function fails.
Printed(text, out_size) ==
  IF text.x.chars + 1 + Len(text.chars) >= out_size THEN Error ELSE text

share_to_base32(text, out_size) ==
  LET bytes == hex_to_bytes(text.chars, SSS_MAX_SECRET_LEN)
  IN  IF ~ValidPrefix(text.x) \/ bytes = Error \/ bytes = <<>> THEN Error
      ELSE Printed(Text(text.x, "base32", base32_encode(bytes, SHARE_B32_BUF_SIZE)), out_size)

share_from_base32(text, out_size) ==
  LET bytes == base32_decode(text.chars, SSS_MAX_SECRET_LEN)
  IN  IF ~ValidPrefix(text.x) \/ bytes = Error THEN Error
      ELSE Printed(Text(text.x, "hex", bytes_to_hex(bytes)), out_size)

-----------------------------------------------------------------------------
(* The page. *)

\* toUpperCase makes the capitals I and S of two more letters.
PageValue(c) ==
  IF c = DotlessI THEN 8 ELSE IF c = LongS THEN 18 ELSE base32_char_to_value(c)

PageValues(chars) == [i \in DOMAIN chars |-> PageValue(chars[i])]

\* A decoder of the page's that emits a byte only when nine bits wait.
shareFromBase32Late(text) ==
  LET values == PageValues(text.chars)
  IN  IF \A i \in DOMAIN values : values[i] # NoChar
      THEN Text(text.x, "hex", bytes_to_hex(Regroup(values, CharBits, ByteBits,
             IF values = <<>> THEN 0 ELSE (Len(values) * CharBits - 1) \div ByteBits)))
      ELSE text

\* The page's own decoder: any length, any x; what it cannot decode it leaves.
shareFromBase32(text) ==
  LET values == PageValues(text.chars)
  IN  IF (\A i \in DOMAIN values : values[i] # NoChar) /\ TrailingZero(values)
      THEN Text(text.x, "hex", bytes_to_hex(Regroup(values, CharBits, ByteBits,
             (Len(values) * CharBits) \div ByteBits)))
      ELSE text

Unblanked(x) == [chars |-> x.chars - x.blanks, blanks |-> 0, value |-> x.value]

\* decodeWithJsQR trims what jsQR reads.
Trimmed(text) ==
  LET inked == {i \in DOMAIN text.chars : text.chars[i] # White}
  IN  Text(Unblanked(text.x), text.alphabet, SubSeq(text.chars, 1, Max({0} \cup inked)))

=============================================================================
