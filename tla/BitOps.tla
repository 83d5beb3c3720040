-------------------------------- MODULE BitOps --------------------------------
(***************************************************************************)
(* Numbers as strings of bits: the operators ^, >> and & of the C code.    *)
(***************************************************************************)
EXTENDS Naturals

\* Bitwise exclusive or of a pair, bit by bit from the lowest.
XorPair[p \in Nat \X Nat] ==
  IF p[1] = 0 THEN p[2]
  ELSE IF p[2] = 0 THEN p[1]
  ELSE 2 * XorPair[<<p[1] \div 2, p[2] \div 2>>] + ((p[1] + p[2]) % 2)

Xor(a, b) == XorPair[<<a, b>>]

\* Bit i of value, the lowest being 0.
BitOf(value, i) == (value \div 2^i) % 2

=============================================================================
