-------------------------- MODULE FieldTables_proofs --------------------------
(***************************************************************************)
(* The loop of gf_init_tables leaves the tables of a field, for any width  *)
(* and any reduction polynomial for which 0x03 is a generator.             *)
(* The laws of the field come from Shamir_proofs; the length of a secret,  *)
(* which comes with them, is in no statement here.                         *)
(***************************************************************************)
EXTENDS FieldTables, Shamir_proofs

\* After i turns: x is the i-th power of the generator, or 1 again after the
\* last, and the entries of both halves of exp and those of log are the ones
\* of the powers passed.  The entry of 0 was never written.
TurnsDone ==
  /\ x = IF i < FieldSize - 1 THEN Power[i] ELSE 1
  /\ \A n \in 0 .. FieldSize - 2 :
       n < i => exp[n] = Power[n] /\ exp[n + FieldSize - 1] = Power[n] /\ log[Power[n]] = n
  /\ log[0] = 0
  /\ ready => i = FieldSize - 1

LoopInv == TypeOK /\ TurnsDone

LEMMA InitTables == Init => LoopInv
<1> SUFFICES ASSUME Init PROVE LoopInv
  OBVIOUS
<1>0. FieldSize \in Nat /\ FieldSize >= 4 /\ 0 \in Elem /\ 1 \in Elem
  BY Sizes
<1>1. TypeOK
  <2>1. exp \in [0 .. 2 * FieldSize - 3 -> Elem]
    BY <1>0 DEF Init
  <2>2. log \in [Elem -> 0 .. FieldSize - 2]
    BY <1>0 DEF Init
  <2>3. i = 0 /\ x = 1 /\ ready = FALSE
    BY DEF Init
  <2>4. i \in 0 .. FieldSize - 1 /\ x \in Elem \ {0}
    BY <1>0, <2>3
  <2> QED BY <2>1, <2>2, <2>3, <2>4 DEF TypeOK
<1>2. x = Power[0]
  BY PowerEquation DEF Init
<1>3. i = 0 /\ log[0] = 0 /\ ready = FALSE
  BY <1>0 DEF Init
<1> QED BY <1>0, <1>1, <1>2, <1>3 DEF LoopInv, TurnsDone

LEMMA TurnKeeps ==
  ASSUME LoopInv, Turn
  PROVE  LoopInv'
<1>0. /\ FieldSize \in Nat /\ FieldSize >= 4 /\ 0 \in Elem /\ 1 \in Elem
      /\ i \in 0 .. FieldSize - 2 /\ i \in Nat /\ i' = i + 1 /\ x = Power[i] /\ x \in Elem \ {0}
      /\ ready = FALSE /\ ready' = FALSE
  BY Sizes DEF LoopInv, TypeOK, TurnsDone, Turn
<1>1. /\ exp \in [0 .. 2 * FieldSize - 3 -> Elem] /\ log \in [Elem -> 0 .. FieldSize - 2]
      /\ exp' = [exp EXCEPT ![i] = x, ![i + FieldSize - 1] = x]
      /\ log' = [log EXCEPT ![x] = i]
  BY DEF LoopInv, TypeOK, Turn
<1>2. i \in 0 .. 2 * FieldSize - 3 /\ i + FieldSize - 1 \in 0 .. 2 * FieldSize - 3
  BY <1>0
<1>3. x' = IF i' < FieldSize - 1 THEN Power[i'] ELSE 1
  <2>1. x' = TimesThree[Power[i]]
    BY <1>0 DEF Turn
  <2>2. CASE i < FieldSize - 2
    <3>1. i \in 0 .. FieldSize - 3 /\ i' < FieldSize - 1
      BY <1>0, <2>2
    <3> QED BY <1>0, <2>1, <3>1, PowerEquation
  <2>3. CASE i = FieldSize - 2
    <3>1. ~(i' < FieldSize - 1)
      BY <1>0, <2>3
    <3> QED BY <2>1, <2>3, <3>1, PowerEquation
  <2> QED BY <1>0, <2>2, <2>3
<1>4. i' \in 0 .. FieldSize - 1
  BY <1>0
<1>5. x' \in Elem \ {0}
  <2>1. CASE i' < FieldSize - 1
    <3>1. i' \in 0 .. FieldSize - 2
      BY <1>0, <1>4, <2>1
    <3> QED BY <1>3, <2>1, <3>1, PowerEquation
  <2>2. CASE ~(i' < FieldSize - 1)
    BY <1>0, <1>3, <2>2
  <2> QED BY <2>1, <2>2
<1>6. TypeOK'
  BY <1>0, <1>1, <1>4, <1>5 DEF TypeOK
<1>7. ASSUME NEW n \in 0 .. FieldSize - 2, n < i'
      PROVE  exp'[n] = Power[n] /\ exp'[n + FieldSize - 1] = Power[n] /\ log'[Power[n]] = n
  <2>0. /\ n \in Nat /\ n \in 0 .. 2 * FieldSize - 3 /\ n + FieldSize - 1 \in 0 .. 2 * FieldSize - 3
        /\ n # i + FieldSize - 1 /\ n + FieldSize - 1 # i
        /\ Power[n] \in Elem
    BY <1>0, PowerEquation
  <2>1. CASE n = i
    BY <1>0, <1>1, <1>2, <2>0, <2>1
  <2>2. CASE n # i
    <3>1. n < i /\ n + FieldSize - 1 # i + FieldSize - 1
      BY <1>0, <1>7, <2>0, <2>2
    <3>2. exp[n] = Power[n] /\ exp[n + FieldSize - 1] = Power[n] /\ log[Power[n]] = n
      BY <3>1 DEF LoopInv, TurnsDone
    <3>3. Power[n] # x
      BY <1>0, <2>2, PowerEquation
    <3>4. exp'[n] = exp[n] /\ exp'[n + FieldSize - 1] = exp[n + FieldSize - 1]
      BY <1>1, <1>2, <2>0, <2>2, <3>1
    <3>5. log'[Power[n]] = log[Power[n]]
      BY <1>1, <2>0, <3>3
    <3> QED BY <3>2, <3>4, <3>5
  <2> QED BY <2>1, <2>2
<1>8. log'[0] = 0
  BY <1>0, <1>1 DEF LoopInv, TurnsDone
<1> QED BY <1>0, <1>3, <1>6, <1>7, <1>8 DEF LoopInv, TurnsDone

LEMMA LoopStep == LoopInv /\ [Next]_vars => LoopInv'
<1> SUFFICES ASSUME LoopInv, [Next]_vars PROVE LoopInv'
  OBVIOUS
<1>1. CASE Turn
  BY <1>1, TurnKeeps
<1>2. CASE Finish
  <2>1. log \in [Elem -> 0 .. FieldSize - 2] /\ log[0] = 0 /\ log' = [log EXCEPT ![0] = 0]
    BY <1>2 DEF LoopInv, TypeOK, TurnsDone, Finish
  <2>2. log' = log
    BY <2>1
  <2>3. exp' = exp /\ i' = i /\ x' = x /\ ready' = TRUE /\ i = FieldSize - 1
    BY <1>2 DEF Finish
  <2> QED BY <2>2, <2>3 DEF LoopInv, TypeOK, TurnsDone
<1>3. CASE UNCHANGED vars
  BY <1>3 DEF LoopInv, TypeOK, TurnsDone, vars
<1> QED BY <1>1, <1>2, <1>3 DEF Next

\* When the flag goes up, the arrays are the tables of GaloisField.
LEMMA FinishedTables ==
  ASSUME LoopInv, ready
  PROVE  /\ \A a, b \in Elem : TableMul(a, b) = gf_mul(a, b)
         /\ \A a, b \in Elem : TableDiv(a, b) = gf_div(a, b)
<1>0. FieldSize \in Nat /\ FieldSize >= 4 /\ i = FieldSize - 1
  BY Sizes DEF LoopInv, TurnsDone
<1>1. \A n \in 0 .. FieldSize - 2 :
         exp[n] = Power[n] /\ exp[n + FieldSize - 1] = Power[n] /\ log[Power[n]] = n
  BY <1>0 DEF LoopInv, TurnsDone
<1>2. ASSUME NEW n \in 0 .. 2 * FieldSize - 3 PROVE exp[n] = gf_exp[n]
  <2>1. CASE n < FieldSize - 1
    <3>1. n \in 0 .. FieldSize - 2
      BY <1>0, <2>1
    <3> QED BY <1>1, <2>1, <3>1, Exponents
  <2>2. CASE ~(n < FieldSize - 1)
    <3>1. PICK m \in 0 .. FieldSize - 2 : m = n - (FieldSize - 1) /\ m + FieldSize - 1 = n
      BY <1>0, <2>2
    <3> QED BY <1>1, <2>2, <3>1, Exponents
  <2> QED BY <2>1, <2>2
<1>3. ASSUME NEW v \in Elem PROVE log[v] = gf_log[v]
  <2>1. CASE v = 0
    BY <2>1 DEF LoopInv, TurnsDone, gf_log
  <2>2. CASE v # 0
    BY <1>1, <2>2, Logarithm
  <2> QED BY <2>1, <2>2
<1>4. ASSUME NEW a \in Elem, NEW b \in Elem
      PROVE  TableMul(a, b) = gf_mul(a, b) /\ TableDiv(a, b) = gf_div(a, b)
  <2>1. log[a] = gf_log[a] /\ log[b] = gf_log[b]
    BY <1>3
  <2>2. gf_log[a] + gf_log[b] \in 0 .. 2 * FieldSize - 3
        /\ gf_log[a] + FieldSize - 1 - gf_log[b] \in 0 .. 2 * FieldSize - 3
    BY <1>0, Logarithm
  <2>3. exp[gf_log[a] + gf_log[b]] = gf_exp[gf_log[a] + gf_log[b]]
        /\ exp[gf_log[a] + FieldSize - 1 - gf_log[b]] = gf_exp[gf_log[a] + FieldSize - 1 - gf_log[b]]
    BY <1>2, <2>2
  <2>4. TableMul(a, b) = gf_mul(a, b)
    BY <2>1, <2>3 DEF TableMul, gf_mul, MulTable
  <2>5. TableDiv(a, b) = gf_div(a, b)
    BY <2>1, <2>3 DEF TableDiv, gf_div
  <2> QED BY <2>4, <2>5
<1> QED BY <1>4

\* Doubling, with the reduction, commutes with multiplication.
LEMMA MulDoubles ==
  ASSUME NEW a \in Elem, NEW b \in Elem
  PROVE  TimesTwo(b) \in Elem /\ gf_mul(a, TimesTwo(b)) = TimesTwo(gf_mul(a, b))
<1>1. TimesTwo(b) \in Elem
  BY TimesTwoLinear
<1>2. ASSUME NEW c \in Elem PROVE TimesTwo(c) = Xor(TimesThree[c], c)
  <2>1. TimesTwo(c) \in Nat /\ c \in Nat
    BY Sizes, TimesTwoLinear
  <2>2. Xor(Xor(TimesTwo(c), c), c) = Xor(TimesTwo(c), Xor(c, c))
    BY <2>1, XorAssociates
  <2>3. Xor(c, c) = 0 /\ Xor(TimesTwo(c), 0) = TimesTwo(c)
    BY <2>1, XorSelf, XorZero
  <2> QED BY <2>2, <2>3 DEF TimesThree
<1>3. TimesThree[b] \in Elem /\ gf_mul(a, b) \in Elem
  BY TimesThreeLinear, MulType
<1>4. gf_mul(a, Xor(TimesThree[b], b)) = Xor(gf_mul(a, TimesThree[b]), gf_mul(a, b))
  BY <1>3, MulDistributes
<1>5. gf_mul(a, TimesThree[b]) = TimesThree[gf_mul(a, b)]
  <2>1. gf_mul(TimesThree[b], a) = TimesThree[gf_mul(b, a)]
    BY MulTriples
  <2> QED BY <1>3, <2>1, MulCommutes
<1> QED BY <1>1, <1>2, <1>3, <1>4, <1>5

LEMMA LoopInvariant == Spec => []LoopInv
<1>1. Init => LoopInv
  BY InitTables
<1>2. LoopInv /\ [Next]_vars => LoopInv'
  BY LoopStep
<1> QED BY <1>1, <1>2, PTL DEF Spec

\* The loop of gf_init_tables keeps to its types: x is a byte other than 0
\* whenever it indexes gf_log, though it is a uint16_t.
THEOREM TypeCorrect == Spec => []TypeOK
<1>1. LoopInv => TypeOK
  BY DEF LoopInv
<1> QED BY <1>1, LoopInvariant, PTL

\* What the loop leaves behind multiplies polynomials.
THEOREM TablesAreMultiplication == Spec => []TablesMultiply
<1>1. LoopInv => TablesMultiply
  <2> SUFFICES ASSUME LoopInv, ready, NEW a \in Elem, NEW b \in Elem
               PROVE  /\ TableMul(a, 0) = 0
                      /\ TableMul(a, 1) = a
                      /\ TableMul(a, TimesTwo(b)) = TimesTwo(TableMul(a, b))
                      /\ TableMul(a, Xor(b, 1)) = Xor(TableMul(a, b), a)
    BY DEF TablesMultiply
  <2>0. 0 \in Elem /\ 1 \in Elem /\ TimesTwo(b) \in Elem /\ Xor(b, 1) \in Elem
    BY Sizes, MulDoubles, XorInElem
  <2>1. \A c \in Elem : TableMul(a, c) = gf_mul(a, c)
    BY FinishedTables
  <2>2. TableMul(a, 0) = 0 /\ TableMul(a, 1) = a
    BY <2>0, <2>1, MulType, MulOne
  <2>3. TableMul(a, TimesTwo(b)) = TimesTwo(TableMul(a, b))
    BY <2>0, <2>1, MulDoubles
  <2>4. TableMul(a, Xor(b, 1)) = Xor(TableMul(a, b), a)
    BY <2>0, <2>1, MulDistributes, MulOne
  <2> QED BY <2>2, <2>3, <2>4
<1> QED BY <1>1, LoopInvariant, PTL

\* What the loop leaves behind divides: gf_div undoes gf_mul.
THEOREM TablesDivide == Spec => []DivisionUndoes
<1>1. LoopInv => DivisionUndoes
  <2> SUFFICES ASSUME LoopInv, ready, NEW a \in Elem, NEW b \in Elem \ {0}
               PROVE  TableDiv(TableMul(a, b), b) = a
    BY DEF DivisionUndoes
  <2>1. gf_mul(a, b) \in Elem /\ gf_mul(b, a) = gf_mul(a, b)
    BY MulType, MulCommutes
  <2>2. PICK q \in Elem : q = gf_div(gf_mul(a, b), b) /\ gf_mul(q, b) = gf_mul(a, b)
    BY <2>1, DivUndoes
  <2>3. gf_mul(b, q) = gf_mul(b, a)
    BY <2>1, <2>2, MulCommutes
  <2>4. q = a
    BY <2>3, MulCancels
  <2>5. TableMul(a, b) = gf_mul(a, b)
    BY FinishedTables
  <2>6. TableDiv(gf_mul(a, b), b) = gf_div(gf_mul(a, b), b)
    BY <2>1, FinishedTables
  <2> QED BY <2>2, <2>4, <2>5, <2>6
<1> QED BY <1>1, LoopInvariant, PTL

\* The loop comes to no element twice, so it overwrites no logarithm.
THEOREM NoPowerTwice == Spec => EachPowerOnce
<1>1. LoopInv => (~ready /\ i < FieldSize - 1 => \A j \in 0 .. i - 1 : exp[j] # x)
  <2> SUFFICES ASSUME LoopInv, ~ready, i < FieldSize - 1, NEW j \in 0 .. i - 1 PROVE exp[j] # x
    OBVIOUS
  <2>1. FieldSize \in Nat /\ i \in 0 .. FieldSize - 2 /\ x = Power[i]
    BY Sizes DEF LoopInv, TypeOK, TurnsDone
  <2>2. j \in 0 .. FieldSize - 2 /\ j < i /\ j # i
    BY <2>1
  <2>3. exp[j] = Power[j]
    BY <2>2 DEF LoopInv, TurnsDone
  <2> QED BY <2>1, <2>2, <2>3, PowerEquation
<1> QED BY <1>1, LoopInvariant, PTL DEF EachPowerOnce

=============================================================================
