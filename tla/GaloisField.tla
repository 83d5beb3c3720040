---------------------------- MODULE GaloisField ----------------------------
(***************************************************************************)
(* The finite field of src/src/sss/sss.c.  The code works in GF(2^8) with  *)
(* the reduction polynomial 0x11B and the generator 0x03; multiplication   *)
(* and division go through the two lookup tables gf_exp and gf_log that    *)
(* gf_init_tables fills on the first use.                                  *)
(*                                                                         *)
(* Width and Polynomial are parameters: the code's values are 8 and 283    *)
(* (0x11B), and the same table construction is the field GF(4) for         *)
(* (2, 7) and GF(8) for (3, 11), where 3 is a generator too.  A field      *)
(* element is the number its bits stand for, as in the code's uint8_t.     *)
(***************************************************************************)
EXTENDS BitOps, Naturals, FiniteSetsExt, SequencesExt

CONSTANTS
  Width,       \* bits of a field element: 8 in the code
  Polynomial   \* the reduction polynomial: 283 = 0x11B in the code

\* A shift of 1 to the left.
PowerOfTwo[n \in Nat] == IF n = 0 THEN 1 ELSE 2 * PowerOfTwo[n - 1]

FieldSize == PowerOfTwo[Width]    \* SSS_FINITE_GALOIS_FIELD

ASSUME FieldAssumption ==
  /\ Width \in Nat \ {0, 1}
  /\ Polynomial \in FieldSize .. 2 * FieldSize - 1

Elem == 0 .. FieldSize - 1    \* the values of a uint8_t

\* Addition is exclusive or, and so is subtraction (characteristic 2).
XorTable == [a \in Elem |-> [b \in Elem |-> Xor(a, b)]]

gf_add(a, b) == XorTable[a][b]

gf_sub(a, b) == XorTable[a][b]

-----------------------------------------------------------------------------
(***************************************************************************)
(* gf_init_tables: x runs through the powers of the generator.  One turn   *)
(* of the loop doubles x, reduces it when it leaves the field, and adds    *)
(* the old value: a multiplication by 0x03.                                *)
(***************************************************************************)
TimesTwo(x) == IF 2 * x >= FieldSize THEN Xor(2 * x, Polynomial) ELSE 2 * x

TimesThree == [x \in Elem |-> Xor(TimesTwo(x), x)]

\* The value of the loop variable x in turn i.
Power[i \in 0 .. FieldSize - 2] == IF i = 0 THEN 1 ELSE TimesThree[Power[i - 1]]

\* "It IS a primitive element ..., generating all ... non-zero elements."
ASSUME GeneratorAssumption ==
  /\ {Power[i] : i \in 0 .. FieldSize - 2} = Elem \ {0}
  /\ TimesThree[Power[FieldSize - 2]] = 1

\* The table is stored twice over, so that a sum of two logarithms indexes
\* it without a modulo.
gf_exp ==
  [i \in 0 .. 2 * FieldSize - 3 |->
     Power[IF i < FieldSize - 1 THEN i ELSE i - (FieldSize - 1)]]

\* The last turn of the loop that reached a value wins; gf_log[0] is set to 0.
gf_log ==
  [v \in Elem |->
     LET turns == {i \in 0 .. FieldSize - 2 : gf_exp[i] = v}
     IN  IF v = 0 \/ turns = {} THEN 0 ELSE Max(turns)]

MulTable ==
  [a \in Elem |-> [b \in Elem |->
     IF a = 0 \/ b = 0 THEN 0 ELSE gf_exp[gf_log[a] + gf_log[b]]]]

gf_mul(a, b) == MulTable[a][b]

\* Division by zero answers 0: the code's comment says it should not happen.
gf_div(a, b) ==
  IF a = 0 \/ b = 0 THEN 0 ELSE gf_exp[gf_log[a] + FieldSize - 1 - gf_log[b]]

\* Horner's rule, from the highest coefficient down; coeff[1] is the constant.
gf_poly_eval(coeff, x) ==
  FoldRight(LAMBDA c, acc : gf_add(gf_mul(acc, x), c), coeff, 0)

=============================================================================
