---------------------------- MODULE FieldTables ----------------------------
(***************************************************************************)
(* gf_init_tables of src/src/sss/sss.c as the loop it is, one turn a step, *)
(* on the two static arrays.  GaloisField defines the finished tables as   *)
(* functions; this module runs the loop at the device's own size, GF(256)  *)
(* with 0x11B, and compares what it leaves behind with the multiplication  *)
(* of polynomials.                                                         *)
(***************************************************************************)
EXTENDS GaloisField

VARIABLES
  exp,     \* static gf_exp, twice the field less two entries
  log,     \* static gf_log
  i,       \* the loop counter
  x,       \* the loop's power of the generator (a uint16_t)
  ready    \* static gf_tables_ready

vars == <<exp, log, i, x, ready>>

-----------------------------------------------------------------------------

Init ==
  /\ exp = [n \in 0 .. 2 * FieldSize - 3 |-> 0]
  /\ log = [v \in Elem |-> 0]
  /\ i = 0
  /\ x = 1
  /\ ready = FALSE

\* A turn that fills only the first half of the exponent table.
TurnOneHalf ==
  /\ ~ready
  /\ i < FieldSize - 1
  /\ exp' = [exp EXCEPT ![i] = x]
  /\ log' = [log EXCEPT ![x] = i]
  /\ x' = TimesThree[x]
  /\ i' = i + 1
  /\ UNCHANGED ready

\* A turn without the reduction by 0x11B.
TurnUnreduced ==
  /\ ~ready
  /\ i < FieldSize - 1
  /\ exp' = [exp EXCEPT ![i] = x, ![i + FieldSize - 1] = x]
  /\ log' = [log EXCEPT ![x] = i]
  /\ x' = Xor(2 * x, x)
  /\ i' = i + 1
  /\ UNCHANGED ready

\* A turn that doubles only: 0x02 does not generate the field of 0x11B.
TurnDoubling ==
  /\ ~ready
  /\ i < FieldSize - 1
  /\ exp' = [exp EXCEPT ![i] = x, ![i + FieldSize - 1] = x]
  /\ log' = [log EXCEPT ![x] = i]
  /\ x' = TimesTwo(x)
  /\ i' = i + 1
  /\ UNCHANGED ready

\* One turn of the loop.
Turn ==
  /\ ~ready
  /\ i < FieldSize - 1
  /\ exp' = [exp EXCEPT ![i] = x, ![i + FieldSize - 1] = x]
  /\ log' = [log EXCEPT ![x] = i]
  /\ x' = TimesThree[x]
  /\ i' = i + 1
  /\ UNCHANGED ready

\* After the loop: the undefined logarithm, then the flag.
Finish ==
  /\ ~ready
  /\ i = FieldSize - 1
  /\ log' = [log EXCEPT ![0] = 0]
  /\ ready' = TRUE
  /\ UNCHANGED <<exp, i, x>>

Next == Turn \/ Finish

Spec == Init /\ [][Next]_vars /\ WF_vars(Next)

-----------------------------------------------------------------------------

\* gf_mul and gf_div on the arrays.
TableMul(a, b) == IF a = 0 \/ b = 0 THEN 0 ELSE exp[log[a] + log[b]]

TableDiv(a, b) ==
  IF a = 0 \/ b = 0 THEN 0 ELSE exp[log[a] + FieldSize - 1 - log[b]]

\* Types: x never leaves the byte it is cast to when it indexes gf_log.
TypeOK ==
  /\ exp \in [0 .. 2 * FieldSize - 3 -> Elem]
  /\ log \in [Elem -> 0 .. FieldSize - 2]
  /\ i \in 0 .. FieldSize - 1
  /\ x \in Elem \ {0}
  /\ ready \in BOOLEAN

\* Once the flag is up, gf_mul is the multiplication of polynomials modulo
\* 0x11B, by its recursive definition: every b is reached from 0 by doubling
\* and by adding 1.  So no sum of two logarithms leaves the doubled table or
\* reads an entry the loop did not write.
TablesMultiply ==
  ready =>
    \A a, b \in Elem :
       /\ TableMul(a, 0) = 0
       /\ TableMul(a, 1) = a
       /\ TableMul(a, TimesTwo(b)) = TimesTwo(TableMul(a, b))
       /\ TableMul(a, Xor(b, 1)) = Xor(TableMul(a, b), a)

\* Once the flag is up, gf_div undoes gf_mul for every divisor but 0.
DivisionUndoes ==
  ready => \A a \in Elem : \A b \in Elem \ {0} : TableDiv(TableMul(a, b), b) = a

\* The loop visits every element but 0 exactly once before it returns to 1,
\* so no logarithm is overwritten: 0x03 generates the field.
EachPowerOnce ==
  [][~ready /\ i < FieldSize - 1 =>
       \A j \in 0 .. i - 1 : exp[j] # x]_vars

=============================================================================
