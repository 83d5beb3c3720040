---------------------------- MODULE Shamir_proofs ----------------------------
(***************************************************************************)
(* What gf_init_tables, sss_split and sss_combine compute, for every width *)
(* of the field, every reduction polynomial for which 0x03 is a generator, *)
(* every number of shares and every threshold.                             *)
(*                                                                         *)
(* First the laws of the field: addition is an exclusive or, gf_mul        *)
(* commutes, associates and distributes over it, and gf_div undoes it.     *)
(* What a recursive definition computes is reached through two facts about *)
(* sets: a set of numbers has a least element, and a definition that only  *)
(* descends has a solution.                                                *)
(*                                                                         *)
(* Then the sharing: the Lagrange sum of sss_combine gives back the        *)
(* constant of any polynomial with no more coefficients than there are     *)
(* shares, one wrong share always shows, and one share fewer than the      *)
(* threshold is explained by every secret in exactly one way.              *)
(***************************************************************************)
EXTENDS Shamir, FiniteSetTheorems, TLAPS

-----------------------------------------------------------------------------
(* Induction over numbers and sets, as facts about sets. *)

\* Every set of numbers has a least one.
LEMMA LeastElement ==
  ASSUME NEW T, T \subseteq Nat, T # {}
  PROVE  \E m \in T : \A n \in T : m <= n
<1> DEFINE Below == {U \in SUBSET Nat : \E m \in T : U = 0 .. m}
           R == StrictSubsetOrdering(Nat)
<1>1. IsWellFoundedOn(R, FiniteSubsetsOf(Nat))
  BY FS_StrictSubsetOrderingWellFounded
<1>2. Below \subseteq FiniteSubsetsOf(Nat)
  BY FS_Interval DEF FiniteSubsetsOf
<1>3. Below # {}
  <2>1. PICK m \in T : m \in Nat
    OBVIOUS
  <2>2. 0 .. m \in Below
    BY <2>1
  <2> QED BY <2>2
<1>4. PICK U \in Below : \A V \in Below : <<V, U>> \notin R
  <2> HIDE DEF Below, R
  <2> QED BY <1>1, <1>2, <1>3, WFMin
<1>5. PICK m \in T : U = 0 .. m
  OBVIOUS
<1>6. \A n \in T : m <= n
  <2> SUFFICES ASSUME NEW n \in T, n < m PROVE FALSE
    OBVIOUS
  <2>1. (0 .. n) \in Below
    OBVIOUS
  <2>2. 0 .. n \subseteq 0 .. m /\ 0 .. n # 0 .. m
    OBVIOUS
  <2> QED BY <1>4, <1>5, <2>1, <2>2 DEF StrictSubsetOrdering
<1> QED BY <1>6

\* A set of numbers that has 0 and the successor of each of its members.
LEMMA NatInduct ==
  ASSUME NEW T, 0 \in T, \A n \in Nat : n \in T => n + 1 \in T
  PROVE  Nat \subseteq T
<1> SUFFICES ASSUME Nat \ T # {} PROVE FALSE
  OBVIOUS
<1>1. PICK m \in Nat \ T : \A n \in Nat \ T : m <= n
  BY LeastElement
<1>2. m # 0 /\ m - 1 \in Nat /\ m - 1 \in T /\ (m - 1) + 1 = m
  BY <1>1
<1> QED BY <1>1, <1>2

\* A recursive definition, as the function that makes its right-hand side out
\* of its left-hand side: it only asks for values of lower rank.
Descends(D, V, rank, Body) ==
  /\ V # {}
  /\ rank \in [D -> Nat]
  /\ Body \in [[D -> V] -> [D -> V]]
  /\ \A g, h \in [D -> V], x \in D :
       (\A y \in D : rank[y] < rank[x] => g[y] = h[y]) => Body[g][x] = Body[h][x]

\* Such a definition defines something.
LEMMA Solution ==
  ASSUME NEW D, NEW V, NEW rank, NEW Body, Descends(D, V, rank, Body)
  PROVE  \E g \in [D -> V] : g = Body[g]
<1> USE DEF Descends
<1>0. PICK v : v \in V
  OBVIOUS
<1> DEFINE Solves(g, n) == \A x \in D : rank[x] < n => g[x] = Body[g][x]
           Reached == {n \in Nat : \E g \in [D -> V] : Solves(g, n)}
           At(n) == CHOOSE g \in [D -> V] : Solves(g, n)
           limit == [x \in D |-> At(rank[x] + 1)[x]]
<1>1. Nat \subseteq Reached
  <2>1. 0 \in Reached
    <3>1. [x \in D |-> v] \in [D -> V]
      BY <1>0
    <3>2. \A x \in D : ~(rank[x] < 0)
      OBVIOUS
    <3> QED BY <3>1, <3>2
  <2>2. ASSUME NEW n \in Nat, n \in Reached PROVE n + 1 \in Reached
    <3>1. PICK g \in [D -> V] : Solves(g, n)
      BY <2>2
    <3>2. ASSUME NEW x \in D, rank[x] < n + 1 PROVE Body[g][x] = Body[Body[g]][x]
      <4>1. \A y \in D : rank[y] < rank[x] => g[y] = Body[g][y]
        BY <3>1, <3>2
      <4> QED BY <4>1
    <3>3. Body[g] \in [D -> V]
      OBVIOUS
    <3> QED BY <3>2, <3>3
  <2> HIDE DEF Reached
  <2> QED BY <2>1, <2>2, NatInduct
<1>2. \A n \in Nat : At(n) \in [D -> V] /\ Solves(At(n), n)
  BY <1>1
<1>3. ASSUME NEW g \in [D -> V], NEW h \in [D -> V], NEW n \in Nat, NEW m \in Nat,
             Solves(g, n), Solves(h, m), NEW x \in D, rank[x] < n, rank[x] < m
      PROVE  g[x] = h[x]
  <2> DEFINE Differ == {k \in Nat : \E y \in D : rank[y] = k /\ k < n /\ k < m /\ g[y] # h[y]}
  <2> SUFFICES ASSUME g[x] # h[x] PROVE FALSE
    OBVIOUS
  <2>1. rank[x] \in Differ
    BY <1>3
  <2>2. PICK k \in Differ : \A l \in Differ : k <= l
    <3> HIDE DEF Differ
    <3>1. Differ \subseteq Nat
      BY DEF Differ
    <3> QED BY <2>1, <3>1, LeastElement
  <2>3. PICK y \in D : rank[y] = k /\ k < n /\ k < m /\ g[y] # h[y]
    BY <2>2
  <2>4. \A z \in D : rank[z] < rank[y] => g[z] = h[z]
    BY <2>2, <2>3
  <2>5. Body[g][y] = Body[h][y]
    BY <2>4
  <2>6. g[y] = Body[g][y] /\ h[y] = Body[h][y]
    BY <1>3, <2>3
  <2> QED BY <2>3, <2>5, <2>6
<1> HIDE DEF At, Reached
<1>4. limit \in [D -> V]
  BY <1>2
<1>5. ASSUME NEW x \in D PROVE limit[x] = Body[limit][x]
  <2> DEFINE g == At(rank[x] + 1)
  <2>1. g \in [D -> V] /\ Solves(g, rank[x] + 1) /\ limit[x] = g[x]
    BY <1>2
  <2>2. ASSUME NEW y \in D, rank[y] < rank[x] PROVE limit[y] = g[y]
    <3>1. At(rank[y] + 1) \in [D -> V] /\ Solves(At(rank[y] + 1), rank[y] + 1)
      BY <1>2
    <3>2. rank[y] < rank[y] + 1 /\ rank[y] < rank[x] + 1 /\ rank[y] + 1 \in Nat /\ rank[x] + 1 \in Nat
      BY <2>2
    <3>3. At(rank[y] + 1)[y] = g[y]
      <4> HIDE DEF g, Solves, limit
      <4> QED BY <1>3, <2>1, <3>1, <3>2
    <3> QED BY <3>3
  <2> HIDE DEF g
  <2>3. Body[limit][x] = Body[g][x]
    <3> HIDE DEF limit
    <3> QED BY <1>4, <2>1, <2>2
  <2>4. g[x] = Body[g][x]
    BY <2>1
  <2> QED BY <2>1, <2>3, <2>4
<1>6. Body[limit] \in [D -> V]
  <2> HIDE DEF limit
  <2> QED BY <1>4
<1>7. limit = Body[limit]
  <2> HIDE DEF limit
  <2> QED BY <1>4, <1>5, <1>6
<1> QED BY <1>4, <1>7

\* What holds of a value if it holds of those of lower rank.
LEMMA RankInduct ==
  ASSUME NEW D, NEW rank \in [D -> Nat], NEW T,
         \A x \in D : (\A y \in D : rank[y] < rank[x] => y \in T) => x \in T
  PROVE  D \subseteq T
<1> DEFINE Ranks == {rank[x] : x \in D \ T}
<1> SUFFICES ASSUME NEW z \in D \ T PROVE FALSE
  OBVIOUS
<1>1. PICK m \in Ranks : \A n \in Ranks : m <= n
  <2>1. Ranks \subseteq Nat /\ Ranks # {}
    OBVIOUS
  <2> HIDE DEF Ranks
  <2> QED BY <2>1, LeastElement
<1>2. PICK x \in D \ T : rank[x] = m
  BY <1>1
<1>3. \A y \in D : rank[y] < rank[x] => y \in T
  <2> SUFFICES ASSUME NEW y \in D, y \notin T PROVE ~(rank[y] < rank[x])
    OBVIOUS
  <2>1. rank[y] \in Ranks /\ rank[y] \in Nat /\ rank[x] \in Nat
    OBVIOUS
  <2>2. rank[x] <= rank[y]
    BY <1>1, <1>2, <2>1
  <2> QED BY <2>1, <2>2
<1> QED BY <1>2, <1>3


-----------------------------------------------------------------------------
(* Exclusive or. *)

LEMMA XorEquation ==
  /\ XorPair \in [Nat \X Nat -> Nat]
  /\ \A p \in Nat \X Nat :
       XorPair[p] = IF p[1] = 0 THEN p[2]
                    ELSE IF p[2] = 0 THEN p[1]
                    ELSE 2 * XorPair[<<p[1] \div 2, p[2] \div 2>>] + ((p[1] + p[2]) % 2)
<1> DEFINE D == Nat \X Nat
           rank == [p \in D |-> p[1] + p[2]]
           E(g, p) == IF p[1] = 0 THEN p[2]
                      ELSE IF p[2] = 0 THEN p[1]
                      ELSE 2 * g[<<p[1] \div 2, p[2] \div 2>>] + ((p[1] + p[2]) % 2)
           Body == [g \in [D -> Nat] |-> [p \in D |-> E(g, p)]]
<1>1. \A p \in D : <<p[1] \div 2, p[2] \div 2>> \in D
  OBVIOUS
<1>2. rank \in [D -> Nat]
  OBVIOUS
<1>3. ASSUME NEW g \in [D -> Nat], NEW p \in D PROVE E(g, p) \in Nat
  <2>1. g[<<p[1] \div 2, p[2] \div 2>>] \in Nat
    BY <1>1
  <2> QED BY <2>1
<1>4. Body \in [[D -> Nat] -> [D -> Nat]]
  BY <1>3
<1>10. ASSUME NEW p \in D, p[1] # 0, p[2] # 0
       PROVE  <<p[1] \div 2, p[2] \div 2>> \in D /\ rank[<<p[1] \div 2, p[2] \div 2>>] < rank[p]
  <2> DEFINE q == <<p[1] \div 2, p[2] \div 2>>
  <2>1. q \in D /\ rank[q] = p[1] \div 2 + p[2] \div 2 /\ rank[p] = p[1] + p[2]
    BY <1>1
  <2>2. p[1] \in Nat /\ p[2] \in Nat
    OBVIOUS
  <2>3. rank[q] < rank[p]
    <3> HIDE DEF q, rank, D
    <3> QED BY <1>10, <2>1, <2>2
  <2> QED BY <2>1, <2>3
<1>5. ASSUME NEW g \in [D -> Nat], NEW h \in [D -> Nat], NEW p \in D,
             \A q \in D : rank[q] < rank[p] => g[q] = h[q]
      PROVE  Body[g][p] = Body[h][p]
  <2>1. CASE p[1] = 0 \/ p[2] = 0
    BY <2>1
  <2>2. CASE ~(p[1] = 0 \/ p[2] = 0)
    BY <1>10, <1>5, <2>2
  <2> QED BY <2>1, <2>2
<1>6. \E g \in [D -> Nat] : g = Body[g]
  <2>1. Descends(D, Nat, rank, Body)
    <3> HIDE DEF D, rank, Body
    <3> QED BY <1>2, <1>4, <1>5 DEF Descends
  <2> HIDE DEF D, rank, Body
  <2> QED BY <2>1, Solution
<1>7. \E g : g = [p \in Nat \X Nat |-> E(g, p)]
  BY <1>6
<1>8. XorPair = [p \in Nat \X Nat |-> E(XorPair, p)]
  BY <1>7 DEF XorPair
<1>9. XorPair \in [D -> Nat]
  <2> DEFINE T == {p \in D : XorPair[p] \in Nat}
  <2>1. ASSUME NEW p \in D, \A q \in D : rank[q] < rank[p] => q \in T PROVE p \in T
    <3>1. CASE p[1] = 0 \/ p[2] = 0
      BY <1>8, <3>1
    <3>2. CASE ~(p[1] = 0 \/ p[2] = 0)
      <4> DEFINE q == <<p[1] \div 2, p[2] \div 2>>
      <4>1. XorPair[p] = 2 * XorPair[q] + ((p[1] + p[2]) % 2)
        BY <1>8, <3>2
      <4>2. XorPair[q] \in Nat
        BY <1>10, <2>1, <3>2
      <4>3. (p[1] + p[2]) % 2 \in Nat
        OBVIOUS
      <4> HIDE DEF q
      <4> QED BY <4>1, <4>2, <4>3
    <3> QED BY <3>1, <3>2
  <2>2. D \subseteq T
    <3> HIDE DEF D, rank, T
    <3> QED BY <1>2, <2>1, RankInduct
  <2> QED BY <1>8, <2>2
<1> QED BY <1>8, <1>9

\* Half of a number, and the bit that is lost.
LEMMA Halves ==
  ASSUME NEW a \in Nat
  PROVE  a \div 2 \in Nat /\ a % 2 \in {0, 1} /\ a = 2 * (a \div 2) + (a % 2)
         /\ (a # 0 => a \div 2 < a)
OBVIOUS

LEMMA XorType ==
  ASSUME NEW a \in Nat, NEW b \in Nat
  PROVE  Xor(a, b) \in Nat
BY XorEquation DEF Xor

\* The lowest bit and the others.
LEMMA XorStep ==
  ASSUME NEW a \in Nat, NEW b \in Nat
  PROVE  /\ Xor(a, b) = 2 * Xor(a \div 2, b \div 2) + ((a + b) % 2)
         /\ Xor(a, b) \div 2 = Xor(a \div 2, b \div 2)
         /\ Xor(a, b) % 2 = (a + b) % 2
         /\ Xor(a \div 2, b \div 2) \in Nat
<1> DEFINE p == <<a, b>>
<1>1. p \in Nat \X Nat /\ p[1] = a /\ p[2] = b
  OBVIOUS
<1>2. XorPair[p] = IF a = 0 THEN b ELSE IF b = 0 THEN a
                   ELSE 2 * Xor(a \div 2, b \div 2) + ((a + b) % 2)
  BY <1>1, XorEquation DEF Xor
<1>3. ASSUME NEW c \in Nat PROVE Xor(0, c) = c /\ Xor(c, 0) = c
  <2>1. <<0, c>> \in Nat \X Nat /\ <<c, 0>> \in Nat \X Nat
    OBVIOUS
  <2> QED BY <2>1, XorEquation DEF Xor
<1>4. Xor(a, b) = XorPair[p]
  BY DEF Xor
<1> HIDE DEF p
<1>5. /\ a \div 2 \in Nat /\ b \div 2 \in Nat /\ 0 \div 2 = 0
      /\ a = 2 * (a \div 2) + (a % 2) /\ b = 2 * (b \div 2) + (b % 2)
  BY Halves
<1>6. Xor(a, b) = 2 * Xor(a \div 2, b \div 2) + ((a + b) % 2)
  <2>1. CASE a = 0
    <3>1. Xor(0, b \div 2) = b \div 2 /\ Xor(a, b) = b
      BY <1>2, <1>3, <1>4, <1>5, <2>1
    <3> QED BY <1>5, <2>1, <3>1
  <2>2. CASE b = 0 /\ a # 0
    <3>1. Xor(a \div 2, 0) = a \div 2 /\ Xor(a, b) = a
      BY <1>2, <1>3, <1>4, <1>5, <2>2
    <3> QED BY <1>5, <2>2, <3>1
  <2>3. CASE a # 0 /\ b # 0
    BY <1>2, <1>4, <2>3
  <2> QED BY <2>1, <2>2, <2>3
<1>7. Xor(a \div 2, b \div 2) \in Nat
  BY <1>5, XorType
<1> QED BY <1>6, <1>7

LEMMA XorZero ==
  ASSUME NEW a \in Nat
  PROVE  Xor(0, a) = a /\ Xor(a, 0) = a
<1>1. <<0, a>> \in Nat \X Nat /\ <<a, 0>> \in Nat \X Nat
  OBVIOUS
<1> QED BY <1>1, XorEquation DEF Xor

\* A property of numbers that follows from the property of their halves.
LEMMA XorCommutes ==
  \A a, b \in Nat : Xor(a, b) = Xor(b, a)
<1> DEFINE T == {n \in Nat : \A a, b \in Nat : a + b <= n => Xor(a, b) = Xor(b, a)}
<1>1. 0 \in T
  <2> SUFFICES ASSUME NEW a \in Nat, NEW b \in Nat, a + b <= 0 PROVE Xor(a, b) = Xor(b, a)
    OBVIOUS
  <2>1. a = 0 /\ b = 0
    OBVIOUS
  <2> QED BY <2>1
<1>2. ASSUME NEW n \in Nat, n \in T PROVE n + 1 \in T
  <2> SUFFICES ASSUME NEW a \in Nat, NEW b \in Nat, a + b <= n + 1 PROVE Xor(a, b) = Xor(b, a)
    OBVIOUS
  <2>1. CASE a = 0 \/ b = 0
    BY <2>1, XorZero
  <2>2. CASE a # 0 /\ b # 0
    <3>1. a \div 2 \in Nat /\ b \div 2 \in Nat /\ a \div 2 + b \div 2 <= n
      BY <2>2, Halves
    <3>2. Xor(a \div 2, b \div 2) = Xor(b \div 2, a \div 2)
      BY <1>2, <3>1
    <3>3. a + b = b + a
      OBVIOUS
    <3> HIDE DEF T
    <3>4. Xor(a, b) = 2 * Xor(a \div 2, b \div 2) + ((a + b) % 2)
      BY XorStep
    <3>5. Xor(b, a) = 2 * Xor(b \div 2, a \div 2) + ((b + a) % 2)
      BY XorStep
    <3> QED BY <3>2, <3>3, <3>4, <3>5
  <2> QED BY <2>1, <2>2
<1>3. Nat \subseteq T
  <2> HIDE DEF T
  <2> QED BY <1>1, <1>2, NatInduct
<1> SUFFICES ASSUME NEW a \in Nat, NEW b \in Nat PROVE Xor(a, b) = Xor(b, a)
  OBVIOUS
<1>4. a + b \in T /\ a + b <= a + b
  BY <1>3
<1> QED BY <1>4

LEMMA XorAssociates ==
  \A a, b, c \in Nat : Xor(Xor(a, b), c) = Xor(a, Xor(b, c))
<1> DEFINE T == {n \in Nat : \A a, b, c \in Nat : a + b + c <= n =>
                               Xor(Xor(a, b), c) = Xor(a, Xor(b, c))}
<1>1. 0 \in T
  <2> SUFFICES ASSUME NEW a \in Nat, NEW b \in Nat, NEW c \in Nat, a + b + c <= 0
               PROVE  Xor(Xor(a, b), c) = Xor(a, Xor(b, c))
    OBVIOUS
  <2>1. a = 0 /\ b = 0 /\ c = 0
    OBVIOUS
  <2> QED BY <2>1, XorZero
<1>2. ASSUME NEW n \in Nat, n \in T PROVE n + 1 \in T
  <2> SUFFICES ASSUME NEW a \in Nat, NEW b \in Nat, NEW c \in Nat, a + b + c <= n + 1
               PROVE  Xor(Xor(a, b), c) = Xor(a, Xor(b, c))
    OBVIOUS
  <2>1. CASE a = 0 /\ b = 0 /\ c = 0
    BY <2>1, XorZero
  <2>2. CASE a # 0 \/ b # 0 \/ c # 0
    <3>1. a \div 2 \in Nat /\ b \div 2 \in Nat /\ c \div 2 \in Nat
          /\ a \div 2 + b \div 2 + c \div 2 <= n
      BY <2>2, Halves
    <3>2. Xor(Xor(a \div 2, b \div 2), c \div 2) = Xor(a \div 2, Xor(b \div 2, c \div 2))
      BY <1>2, <3>1
    <3> HIDE DEF T
    <3>3. Xor(a, b) \in Nat /\ Xor(b, c) \in Nat
      BY XorType
    <3>4. Xor(a, b) \div 2 = Xor(a \div 2, b \div 2) /\ Xor(a, b) % 2 = (a + b) % 2
      BY XorStep
    <3>5. Xor(b, c) \div 2 = Xor(b \div 2, c \div 2) /\ Xor(b, c) % 2 = (b + c) % 2
      BY XorStep
    <3>6. Xor(Xor(a, b), c) = 2 * Xor(Xor(a, b) \div 2, c \div 2) + ((Xor(a, b) + c) % 2)
      BY <3>3, XorStep
    <3>7. Xor(a, Xor(b, c)) = 2 * Xor(a \div 2, Xor(b, c) \div 2) + ((a + Xor(b, c)) % 2)
      BY <3>3, XorStep
    <3>8. (Xor(a, b) + c) % 2 = (a + Xor(b, c)) % 2
      BY <3>3, <3>4, <3>5
    <3> QED BY <3>2, <3>4, <3>5, <3>6, <3>7, <3>8
  <2> QED BY <2>1, <2>2
<1>3. Nat \subseteq T
  <2> HIDE DEF T
  <2> QED BY <1>1, <1>2, NatInduct
<1> SUFFICES ASSUME NEW a \in Nat, NEW b \in Nat, NEW c \in Nat
             PROVE  Xor(Xor(a, b), c) = Xor(a, Xor(b, c))
  OBVIOUS
<1>4. PICK n \in Nat : n = a + b + c
  OBVIOUS
<1>5. n \in T /\ a + b + c <= n
  BY <1>3, <1>4
<1> QED BY <1>5

LEMMA XorSelf ==
  \A a \in Nat : Xor(a, a) = 0
<1> DEFINE T == {n \in Nat : \A a \in Nat : a <= n => Xor(a, a) = 0}
<1>1. 0 \in T
  <2> SUFFICES ASSUME NEW a \in Nat, a <= 0 PROVE Xor(a, a) = 0
    OBVIOUS
  <2>1. a = 0
    OBVIOUS
  <2> QED BY <2>1, XorZero
<1>2. ASSUME NEW n \in Nat, n \in T PROVE n + 1 \in T
  <2> SUFFICES ASSUME NEW a \in Nat, a <= n + 1 PROVE Xor(a, a) = 0
    OBVIOUS
  <2>1. CASE a = 0
    BY <2>1, XorZero
  <2>2. CASE a # 0
    <3>1. a \div 2 \in Nat /\ a \div 2 <= n /\ (a + a) % 2 = 0
      BY <2>2, Halves
    <3>2. Xor(a \div 2, a \div 2) = 0
      BY <1>2, <3>1
    <3> HIDE DEF T
    <3>3. Xor(a, a) = 2 * Xor(a \div 2, a \div 2) + ((a + a) % 2)
      BY XorStep
    <3> QED BY <3>1, <3>2, <3>3
  <2> QED BY <2>1, <2>2
<1>3. Nat \subseteq T
  <2> HIDE DEF T
  <2> QED BY <1>1, <1>2, NatInduct
<1> QED BY <1>3

LEMMA XorDoubles ==
  ASSUME NEW a \in Nat, NEW b \in Nat
  PROVE  Xor(2 * a, 2 * b) = 2 * Xor(a, b)
<1>1. 2 * a \in Nat /\ 2 * b \in Nat /\ (2 * a) \div 2 = a /\ (2 * b) \div 2 = b
      /\ (2 * a + 2 * b) % 2 = 0
  OBVIOUS
<1>2. Xor(2 * a, 2 * b) = 2 * Xor((2 * a) \div 2, (2 * b) \div 2) + ((2 * a + 2 * b) % 2)
  BY <1>1, XorStep
<1>3. Xor(a, b) \in Nat
  BY XorType
<1> QED BY <1>1, <1>2, <1>3

LEMMA XorSwap ==
  ASSUME NEW a \in Nat, NEW b \in Nat, NEW c \in Nat, NEW d \in Nat
  PROVE  /\ Xor(Xor(a, b), Xor(c, d)) = Xor(Xor(a, c), Xor(b, d))
         /\ Xor(Xor(a, b), c) = Xor(Xor(a, c), b)
         /\ Xor(Xor(a, c), Xor(b, c)) = Xor(a, b)
<1>1. \A x, y \in Nat : Xor(x, y) \in Nat
  BY XorType
<1>2. Xor(Xor(a, b), c) = Xor(Xor(a, c), b)
  <2>1. Xor(Xor(a, b), c) = Xor(a, Xor(b, c))
    BY XorAssociates
  <2>2. Xor(b, c) = Xor(c, b)
    BY XorCommutes
  <2>3. Xor(Xor(a, c), b) = Xor(a, Xor(c, b))
    BY XorAssociates
  <2> QED BY <2>1, <2>2, <2>3
<1>3. Xor(Xor(a, b), Xor(c, d)) = Xor(Xor(Xor(a, b), c), d)
  BY <1>1, XorAssociates
<1>4. Xor(Xor(a, c), Xor(b, d)) = Xor(Xor(Xor(a, c), b), d)
  BY <1>1, XorAssociates
<1>5. Xor(Xor(a, c), Xor(b, c)) = Xor(a, b)
  <2>1. Xor(Xor(a, c), Xor(b, c)) = Xor(Xor(a, c), Xor(c, b))
    BY XorCommutes
  <2>2. Xor(Xor(a, c), Xor(c, b)) = Xor(a, Xor(c, Xor(c, b)))
    BY <1>1, XorAssociates
  <2>3. Xor(c, Xor(c, b)) = Xor(Xor(c, c), b)
    BY XorAssociates
  <2>4. Xor(Xor(c, c), b) = b
    BY XorSelf, XorZero
  <2> QED BY <2>1, <2>2, <2>3, <2>4
<1> QED BY <1>2, <1>3, <1>4, <1>5

LEMMA PowerOfTwoEquation ==
  /\ PowerOfTwo \in [Nat -> Nat \ {0}]
  /\ PowerOfTwo[0] = 1
  /\ \A n \in Nat : PowerOfTwo[n + 1] = 2 * PowerOfTwo[n]
<1> DEFINE E(g, n) == IF n = 0 THEN 1 ELSE 2 * g[n - 1]
           rank == [n \in Nat |-> n]
           Body == [g \in [Nat -> Nat] |-> [n \in Nat |-> E(g, n)]]
<1>1. rank \in [Nat -> Nat]
  OBVIOUS
<1>2. ASSUME NEW g \in [Nat -> Nat], NEW n \in Nat PROVE E(g, n) \in Nat
  <2>1. CASE n = 0
    BY <2>1
  <2>2. CASE n # 0
    BY <2>2
  <2> QED BY <2>1, <2>2
<1>3. Body \in [[Nat -> Nat] -> [Nat -> Nat]]
  BY <1>2
<1>4. ASSUME NEW g \in [Nat -> Nat], NEW h \in [Nat -> Nat], NEW n \in Nat,
             \A k \in Nat : rank[k] < rank[n] => g[k] = h[k]
      PROVE  Body[g][n] = Body[h][n]
  <2>1. CASE n = 0
    BY <2>1
  <2>2. CASE n # 0
    <3>1. n - 1 \in Nat /\ rank[n - 1] < rank[n]
      BY <2>2
    <3> QED BY <1>4, <2>2, <3>1
  <2> QED BY <2>1, <2>2
<1>5. Descends(Nat, Nat, rank, Body)
  <2> HIDE DEF rank, Body
  <2> QED BY <1>1, <1>3, <1>4 DEF Descends
<1>6. \E g \in [Nat -> Nat] : g = Body[g]
  <2> DEFINE D == Nat
  <2>1. Descends(D, D, rank, Body)
    BY <1>5
  <2>2. \E g \in [D -> D] : g = Body[g]
    <3> HIDE DEF rank, Body, D
    <3> QED BY <2>1, Solution
  <2> QED BY <2>2
<1>7. PowerOfTwo = [n \in Nat |-> E(PowerOfTwo, n)]
  <2>1. \E g : g = [n \in Nat |-> E(g, n)]
    BY <1>6
  <2> QED BY <2>1 DEF PowerOfTwo
<1>8. PowerOfTwo[0] = 1 /\ \A n \in Nat : PowerOfTwo[n + 1] = 2 * PowerOfTwo[n]
  BY <1>7
<1>9. \A n \in Nat : PowerOfTwo[n] \in Nat \ {0}
  <2> DEFINE T == {n \in Nat : PowerOfTwo[n] \in Nat \ {0}}
  <2>1. 0 \in T
    BY <1>8
  <2>2. \A n \in Nat : n \in T => n + 1 \in T
    BY <1>8
  <2>3. Nat \subseteq T
    <3> HIDE DEF T
    <3> QED BY <2>1, <2>2, NatInduct
  <2> QED BY <2>3
<1>10. DOMAIN PowerOfTwo = Nat /\ PowerOfTwo = [n \in Nat |-> PowerOfTwo[n]]
  BY <1>7
<1> QED BY <1>8, <1>9, <1>10

\* The highest bit.
LEMMA XorTop ==
  \A n \in Nat : \A a, b \in 0 .. 2 * PowerOfTwo[n] - 1 :
    /\ Xor(a, b) \in 0 .. 2 * PowerOfTwo[n] - 1
    /\ Xor(a, b) >= PowerOfTwo[n] <=> ~(a >= PowerOfTwo[n] <=> b >= PowerOfTwo[n])
<1> DEFINE Top(p, a, b) == /\ Xor(a, b) \in 0 .. 2 * p - 1
                           /\ Xor(a, b) >= p <=> ~(a >= p <=> b >= p)
           T == {n \in Nat : \A a, b \in 0 .. 2 * PowerOfTwo[n] - 1 : Top(PowerOfTwo[n], a, b)}
<1>1. 0 \in T
  <2>0. PowerOfTwo[0] = 1 /\ 0 .. 2 * 1 - 1 = 0 .. 1
    BY PowerOfTwoEquation
  <2> SUFFICES ASSUME NEW a \in 0 .. 1, NEW b \in 0 .. 1 PROVE Top(1, a, b)
    <3> HIDE DEF Top
    <3> QED BY <2>0
  <2>1. Xor(0, 0) = 0 /\ Xor(0, 1) = 1 /\ Xor(1, 0) = 1 /\ Xor(1, 1) = 0
    BY XorZero, XorSelf
  <2>2. (a = 0 \/ a = 1) /\ (b = 0 \/ b = 1)
    OBVIOUS
  <2> QED BY <2>1, <2>2
<1>2. ASSUME NEW n \in Nat, n \in T PROVE n + 1 \in T
  <2>1. PICK p \in Nat \ {0} : p = PowerOfTwo[n] /\ PowerOfTwo[n + 1] = 2 * p
    BY PowerOfTwoEquation
  <2>2. \A a, b \in 0 .. 2 * p - 1 : Top(p, a, b)
    BY <1>2, <2>1
  <2>3. ASSUME NEW a \in 0 .. 2 * (2 * p) - 1, NEW b \in 0 .. 2 * (2 * p) - 1 PROVE Top(2 * p, a, b)
    <3>1. a \in Nat /\ b \in Nat /\ a \div 2 \in 0 .. 2 * p - 1 /\ b \div 2 \in 0 .. 2 * p - 1
          /\ (a >= 2 * p <=> a \div 2 >= p) /\ (b >= 2 * p <=> b \div 2 >= p)
      OBVIOUS
    <3>2. Top(p, a \div 2, b \div 2)
      BY <2>2, <3>1
    <3>3. PICK x \in Nat : x = Xor(a \div 2, b \div 2)
      BY <3>1, XorType
    <3>4. PICK y \in Nat : y = Xor(a, b)
      BY <3>1, XorType
    <3>5. y = 2 * x + ((a + b) % 2) /\ (a + b) % 2 \in {0, 1}
      <4>1. y = 2 * x + ((a + b) % 2)
        BY <3>1, <3>3, <3>4, XorStep
      <4>2. (a + b) % 2 \in {0, 1}
        BY <3>1
      <4> QED BY <4>1, <4>2
    <3>6. y \in 0 .. 2 * (2 * p) - 1 /\ (y >= 2 * p <=> x >= p)
      BY <3>2, <3>3, <3>5
    <3> QED BY <3>1, <3>2, <3>3, <3>4, <3>6
  <2> HIDE DEF Top
  <2> QED BY <2>1, <2>3
<1>3. Nat \subseteq T
  <2> HIDE DEF T
  <2> QED BY <1>1, <1>2, NatInduct
<1> QED BY <1>3

-----------------------------------------------------------------------------
(* The bytes. *)

LEMMA Sizes ==
  /\ FieldSize \in Nat /\ FieldSize >= 4
  /\ 0 \in Elem /\ 1 \in Elem /\ Elem \subseteq Nat /\ IsFiniteSet(Elem)
  /\ Polynomial \in Nat /\ FieldSize <= Polynomial /\ Polynomial < 2 * FieldSize
<1>1. Width \in Nat /\ Width - 2 \in Nat /\ (Width - 2) + 1 = Width - 1 /\ (Width - 1) + 1 = Width
      /\ Width - 1 \in Nat
  BY FieldAssumption
<1>2. PowerOfTwo[Width - 2] \in Nat \ {0} /\ PowerOfTwo[Width - 1] = 2 * PowerOfTwo[Width - 2]
      /\ PowerOfTwo[Width] = 2 * PowerOfTwo[Width - 1]
  BY <1>1, PowerOfTwoEquation
<1>3. FieldSize \in Nat /\ FieldSize >= 4
  BY <1>2 DEF FieldSize
<1>4. IsFiniteSet(Elem)
  BY <1>3, FS_Interval DEF Elem
<1> QED BY <1>3, <1>4, FieldAssumption DEF Elem

\* Sums of bytes are bytes; of numbers of nine bits, the highest goes when
\* both have it.
LEMMA XorInElem ==
  /\ \A a, b \in Elem : Xor(a, b) \in Elem
  /\ \A a, b \in 0 .. 2 * FieldSize - 1 :
       Xor(a, b) < FieldSize <=> (a >= FieldSize <=> b >= FieldSize)
<1>1. Width - 1 \in Nat /\ Width \in Nat /\ (Width - 1) + 1 = Width
  BY FieldAssumption
<1>2. FieldSize = 2 * PowerOfTwo[Width - 1]
  BY <1>1, PowerOfTwoEquation DEF FieldSize
<1>3. \A a, b \in Elem : Xor(a, b) \in Elem
  BY <1>1, <1>2, XorTop DEF Elem
<1>4. ASSUME NEW a \in 0 .. 2 * FieldSize - 1, NEW b \in 0 .. 2 * FieldSize - 1
      PROVE  Xor(a, b) < FieldSize <=> (a >= FieldSize <=> b >= FieldSize)
  <2>1. Xor(a, b) >= FieldSize <=> ~(a >= FieldSize <=> b >= FieldSize)
    BY <1>1, XorTop DEF FieldSize
  <2>2. FieldSize \in Nat
    BY Sizes
  <2>3. a \in Nat /\ b \in Nat
    BY <2>2
  <2>4. Xor(a, b) \in Nat
    BY <2>3, XorType
  <2> QED BY <2>1, <2>2, <2>4
<1> QED BY <1>3, <1>4

\* Doubling with the reduction adds up.
LEMMA TimesTwoLinear ==
  ASSUME NEW a \in Elem, NEW b \in Elem
  PROVE  TimesTwo(a) \in Elem /\ TimesTwo(Xor(a, b)) = Xor(TimesTwo(a), TimesTwo(b))
<1>0. a \in Nat /\ b \in Nat /\ FieldSize \in Nat /\ Polynomial \in 0 .. 2 * FieldSize - 1
      /\ Polynomial >= FieldSize /\ Polynomial \in Nat
  BY Sizes
<1>1. PICK u \in 0 .. 2 * FieldSize - 1 : u = 2 * a
  BY <1>0 DEF Elem
<1>2. PICK v \in 0 .. 2 * FieldSize - 1 : v = 2 * b
  BY <1>0 DEF Elem
<1>3. u \in Nat /\ v \in Nat /\ 2 * Xor(a, b) = Xor(u, v)
  BY <1>0, <1>1, <1>2, XorDoubles
<1>4. Xor(u, v) < FieldSize <=> (u >= FieldSize <=> v >= FieldSize)
  BY XorInElem
<1>5. Xor(u, v) \in Nat
  BY <1>3, XorType
<1>6. TimesTwo(Xor(a, b)) = IF Xor(u, v) >= FieldSize THEN Xor(Xor(u, v), Polynomial) ELSE Xor(u, v)
  BY <1>3 DEF TimesTwo
<1>7. TimesTwo(a) = IF u >= FieldSize THEN Xor(u, Polynomial) ELSE u
  BY <1>1 DEF TimesTwo
<1>8. TimesTwo(b) = IF v >= FieldSize THEN Xor(v, Polynomial) ELSE v
  BY <1>2 DEF TimesTwo
<1>9. TimesTwo(a) \in Elem
  <2>1. CASE u >= FieldSize
    <3>1. Xor(u, Polynomial) < FieldSize
      BY <1>0, <2>1, XorInElem
    <3>2. Xor(u, Polynomial) \in Nat
      BY <1>0, <1>3, XorType
    <3> QED BY <1>0, <1>7, <2>1, <3>1, <3>2 DEF Elem
  <2>2. CASE ~(u >= FieldSize)
    BY <1>0, <1>3, <1>7, <2>2 DEF Elem
  <2> QED BY <2>1, <2>2
<1>10. TimesTwo(Xor(a, b)) = Xor(TimesTwo(a), TimesTwo(b))
  <2>1. CASE u >= FieldSize /\ v >= FieldSize
    <3>1. Xor(Xor(u, Polynomial), Xor(v, Polynomial)) = Xor(u, v)
      BY <1>0, <1>3, XorSwap
    <3>2. ~(Xor(u, v) >= FieldSize)
      BY <1>0, <1>4, <1>5, <2>1
    <3> QED BY <1>6, <1>7, <1>8, <2>1, <3>1, <3>2
  <2>2. CASE u >= FieldSize /\ ~(v >= FieldSize)
    <3>1. Xor(Xor(u, Polynomial), v) = Xor(Xor(u, v), Polynomial)
      BY <1>0, <1>3, XorSwap
    <3>2. Xor(u, v) >= FieldSize
      BY <1>0, <1>4, <1>5, <2>2
    <3> QED BY <1>6, <1>7, <1>8, <2>2, <3>1, <3>2
  <2>3. CASE ~(u >= FieldSize) /\ v >= FieldSize
    <3>1. Xor(u, Xor(v, Polynomial)) = Xor(Xor(u, v), Polynomial)
      BY <1>0, <1>3, XorAssociates
    <3>2. Xor(u, v) >= FieldSize
      BY <1>0, <1>4, <1>5, <2>3
    <3> QED BY <1>6, <1>7, <1>8, <2>3, <3>1, <3>2
  <2>4. CASE ~(u >= FieldSize) /\ ~(v >= FieldSize)
    <3>1. ~(Xor(u, v) >= FieldSize)
      BY <1>0, <1>4, <1>5, <2>4
    <3> QED BY <1>6, <1>7, <1>8, <2>4, <3>1
  <2> QED BY <2>1, <2>2, <2>3, <2>4
<1> QED BY <1>9, <1>10

\* A turn of the loop adds up.
LEMMA TimesThreeLinear ==
  /\ TimesThree \in [Elem -> Elem]
  /\ TimesThree[0] = 0
  /\ \A a, b \in Elem : TimesThree[Xor(a, b)] = Xor(TimesThree[a], TimesThree[b])
<1>1. \A a \in Elem : TimesTwo(a) \in Elem
  BY TimesTwoLinear
<1>2. TimesThree \in [Elem -> Elem]
  BY <1>1, XorInElem DEF TimesThree
<1>3. TimesThree[0] = 0
  <2>1. 0 \in Elem /\ FieldSize \in Nat /\ FieldSize >= 4
    BY Sizes
  <2>2. TimesTwo(0) = 0
    BY <2>1 DEF TimesTwo
  <2> QED BY <2>1, <2>2, XorSelf DEF TimesThree
<1>4. ASSUME NEW a \in Elem, NEW b \in Elem
      PROVE  TimesThree[Xor(a, b)] = Xor(TimesThree[a], TimesThree[b])
  <2>1. Xor(a, b) \in Elem /\ TimesTwo(a) \in Nat /\ TimesTwo(b) \in Nat /\ a \in Nat /\ b \in Nat
    BY <1>1, Sizes, XorInElem
  <2>2. TimesTwo(Xor(a, b)) = Xor(TimesTwo(a), TimesTwo(b))
    BY TimesTwoLinear
  <2>3. Xor(Xor(TimesTwo(a), TimesTwo(b)), Xor(a, b)) = Xor(Xor(TimesTwo(a), a), Xor(TimesTwo(b), b))
    BY <2>1, XorSwap
  <2> QED BY <2>1, <2>2, <2>3 DEF TimesThree
<1> QED BY <1>2, <1>3, <1>4

-----------------------------------------------------------------------------
(* The tables. *)

\* One to one, when the image is as large.
LEMMA SameSizeSameElement ==
  ASSUME NEW S, IsFiniteSet(S), NEW f, DOMAIN f = S,
         Cardinality({f[x] : x \in S}) = Cardinality(S),
         NEW x \in S, NEW y \in S, f[x] = f[y]
  PROVE  x = y
<1> DEFINE T == {f[z] : z \in S}
           g == [z \in S |-> f[z]]
<1>1. g \in Surjection(S, T)
  BY DEF Surjection
<1>2. g \in Injection(S, T)
  <2>1. Cardinality(T) = Cardinality(S)
    OBVIOUS
  <2> HIDE DEF T, g
  <2> QED BY <1>1, <2>1, FS_Surjection
<1>3. g[x] = f[x] /\ g[y] = f[y]
  OBVIOUS
<1> HIDE DEF g, T
<1> QED BY <1>2, <1>3 DEF Injection, IsInjective

\* The values of the loop variable.
LEMMA PowerEquation ==
  /\ Power \in [0 .. FieldSize - 2 -> Elem \ {0}]
  /\ Power[0] = 1
  /\ \A i \in 0 .. FieldSize - 3 : Power[i + 1] = TimesThree[Power[i]]
  /\ TimesThree[Power[FieldSize - 2]] = 1
  /\ \A v \in Elem \ {0} : \E i \in 0 .. FieldSize - 2 : Power[i] = v
  /\ \A i, j \in 0 .. FieldSize - 2 : Power[i] = Power[j] => i = j
<1> DEFINE D == 0 .. FieldSize - 2
           E(g, i) == IF i = 0 THEN 1 ELSE TimesThree[g[i - 1]]
           rank == [i \in D |-> i]
           Body == [g \in [D -> Elem] |-> [i \in D |-> E(g, i)]]
<1>0. FieldSize \in Nat /\ FieldSize >= 4 /\ 1 \in Elem /\ TimesThree \in [Elem -> Elem] /\ D \subseteq Nat
  BY Sizes, TimesThreeLinear
<1>1. rank \in [D -> Nat]
  BY <1>0
<1>2. ASSUME NEW g \in [D -> Elem], NEW i \in D PROVE E(g, i) \in Elem
  <2>1. CASE i = 0
    BY <1>0, <2>1
  <2>2. CASE i # 0
    <3>1. i - 1 \in D
      BY <1>0, <2>2
    <3>2. g[i - 1] \in Elem
      BY <3>1
    <3> QED BY <1>0, <2>2, <3>2
  <2> QED BY <2>1, <2>2
<1>3. Body \in [[D -> Elem] -> [D -> Elem]]
  <2> HIDE DEF E
  <2> QED BY <1>2
<1>4. ASSUME NEW g \in [D -> Elem], NEW h \in [D -> Elem], NEW i \in D,
             \A k \in D : rank[k] < rank[i] => g[k] = h[k]
      PROVE  Body[g][i] = Body[h][i]
  <2>1. CASE i = 0
    BY <2>1
  <2>2. CASE i # 0
    <3>1. i - 1 \in D /\ rank[i - 1] < rank[i]
      BY <1>0, <2>2
    <3>2. g[i - 1] = h[i - 1]
      BY <1>4, <3>1
    <3> QED BY <2>2, <3>2
  <2> QED BY <2>1, <2>2
<1>5. Descends(D, Elem, rank, Body)
  <2> HIDE DEF rank, Body, D
  <2> QED BY <1>0, <1>1, <1>3, <1>4 DEF Descends
<1>6. \E g \in [D -> Elem] : g = Body[g]
  <2> HIDE DEF rank, Body, D
  <2> QED BY <1>5, Solution
<1>7. Power = [i \in D |-> E(Power, i)]
  <2>1. \E g : g = [i \in D |-> E(g, i)]
    BY <1>6
  <2> QED BY <2>1 DEF Power
<1>8. DOMAIN Power = D /\ Power = [i \in D |-> Power[i]]
  BY <1>7
<1>9. Power[0] = 1
  BY <1>0, <1>7
<1>10. \A i \in 0 .. FieldSize - 3 : Power[i + 1] = TimesThree[Power[i]]
  <2> SUFFICES ASSUME NEW i \in 0 .. FieldSize - 3 PROVE Power[i + 1] = TimesThree[Power[i]]
    OBVIOUS
  <2>1. i + 1 \in D /\ i + 1 # 0 /\ (i + 1) - 1 = i
    BY <1>0
  <2> HIDE DEF D
  <2> QED BY <1>7, <2>1
<1>11. {Power[i] : i \in D} = Elem \ {0} /\ TimesThree[Power[FieldSize - 2]] = 1
  BY GeneratorAssumption
<1>12. Cardinality(D) = FieldSize - 1 /\ Cardinality(Elem \ {0}) = FieldSize - 1 /\ IsFiniteSet(D)
  <2>1. Cardinality(0 .. FieldSize - 2) = FieldSize - 1 /\ IsFiniteSet(0 .. FieldSize - 2)
    BY <1>0, FS_Interval
  <2>2. Cardinality(1 .. FieldSize - 1) = FieldSize - 1
    BY <1>0, FS_Interval
  <2>3. Elem \ {0} = 1 .. FieldSize - 1
    BY <1>0 DEF Elem
  <2> QED BY <2>1, <2>2, <2>3
<1>13. ASSUME NEW i \in D, NEW j \in D, Power[i] = Power[j] PROVE i = j
  <2> HIDE DEF D
  <2>1. Cardinality({Power[k] : k \in D}) = Cardinality(D)
    BY <1>11, <1>12
  <2> QED BY <1>8, <1>12, <1>13, <2>1, SameSizeSameElement
<1> HIDE DEF D, E
<1>14. Power \in [D -> Elem \ {0}]
  BY <1>8, <1>11
<1>15. \A v \in Elem \ {0} : \E i \in D : Power[i] = v
  BY <1>11
<1> USE DEF D
<1> QED BY <1>9, <1>10, <1>11, <1>13, <1>14, <1>15

\* What holds of 1 and is kept by a turn of the loop holds of all but 0.
LEMMA PowerInduct ==
  ASSUME NEW T, 1 \in T, \A x \in Elem \ {0} : x \in T => TimesThree[x] \in T
  PROVE  Elem \ {0} \subseteq T
<1> DEFINE U == {i \in Nat : i \in 0 .. FieldSize - 2 => Power[i] \in T}
<1>0. FieldSize \in Nat /\ FieldSize >= 4
  BY Sizes
<1>1. 0 \in U
  BY PowerEquation
<1>2. ASSUME NEW i \in Nat, i \in U PROVE i + 1 \in U
  <2>1. CASE i + 1 \in 0 .. FieldSize - 2
    <3>1. i \in 0 .. FieldSize - 3 /\ i \in 0 .. FieldSize - 2
      BY <1>0, <2>1
    <3>2. Power[i] \in T /\ Power[i] \in Elem \ {0}
      BY <1>2, <3>1, PowerEquation
    <3>3. Power[i + 1] = TimesThree[Power[i]]
      BY <3>1, PowerEquation
    <3> QED BY <3>2, <3>3
  <2> QED BY <2>1
<1>3. Nat \subseteq U
  <2> HIDE DEF U
  <2> QED BY <1>1, <1>2, NatInduct
<1> SUFFICES ASSUME NEW v \in Elem \ {0} PROVE v \in T
  OBVIOUS
<1>4. PICK i \in 0 .. FieldSize - 2 : Power[i] = v
  BY PowerEquation
<1>5. i \in Nat
  BY <1>0
<1> QED BY <1>3, <1>4, <1>5

\* The logarithm of a power is its exponent.
LEMMA Logarithm ==
  /\ \A i \in 0 .. FieldSize - 2 : gf_log[Power[i]] = i
  /\ \A v \in Elem : gf_log[v] \in 0 .. FieldSize - 2
  /\ \A v \in Elem \ {0} : Power[gf_log[v]] = v
<1>0. FieldSize \in Nat /\ FieldSize >= 4 /\ 0 \in 0 .. FieldSize - 2
  BY Sizes
<1>1. \A i \in 0 .. FieldSize - 2 : gf_exp[i] = Power[i]
  BY <1>0 DEF gf_exp
<1>2. ASSUME NEW i \in 0 .. FieldSize - 2 PROVE gf_log[Power[i]] = i
  <2>1. {j \in 0 .. FieldSize - 2 : gf_exp[j] = Power[i]} = {i}
    BY <1>1, PowerEquation
  <2>2. Max({i}) = i
    BY <1>0 DEF Max
  <2>3. Power[i] \in Elem /\ Power[i] # 0
    BY PowerEquation
  <2> QED BY <2>1, <2>2, <2>3 DEF gf_log
<1>3. ASSUME NEW v \in Elem \ {0} PROVE gf_log[v] \in 0 .. FieldSize - 2 /\ Power[gf_log[v]] = v
  <2>1. PICK i \in 0 .. FieldSize - 2 : Power[i] = v
    BY PowerEquation
  <2> QED BY <1>2, <2>1
<1>4. gf_log[0] = 0
  BY Sizes DEF gf_log
<1>5. \A v \in Elem : gf_log[v] \in 0 .. FieldSize - 2
  BY <1>0, <1>3, <1>4
<1> QED BY <1>2, <1>3, <1>5

\* The table of exponents goes round twice.
LEMMA Exponents ==
  /\ \A s \in 0 .. 2 * FieldSize - 3 :
       gf_exp[s] = Power[IF s < FieldSize - 1 THEN s ELSE s - (FieldSize - 1)]
                   /\ gf_exp[s] \in Elem \ {0}
  /\ \A s \in 0 .. 2 * FieldSize - 4 : gf_exp[s + 1] = TimesThree[gf_exp[s]]
<1>0. FieldSize \in Nat /\ FieldSize >= 4
  BY Sizes
<1>1. ASSUME NEW s \in 0 .. 2 * FieldSize - 3
      PROVE  /\ gf_exp[s] = Power[IF s < FieldSize - 1 THEN s ELSE s - (FieldSize - 1)]
             /\ gf_exp[s] \in Elem \ {0}
  <2>1. (IF s < FieldSize - 1 THEN s ELSE s - (FieldSize - 1)) \in 0 .. FieldSize - 2
    BY <1>0
  <2>2. gf_exp[s] = Power[IF s < FieldSize - 1 THEN s ELSE s - (FieldSize - 1)]
    BY DEF gf_exp
  <2> QED BY <2>1, <2>2, PowerEquation
<1>2. ASSUME NEW s \in 0 .. 2 * FieldSize - 4 PROVE gf_exp[s + 1] = TimesThree[gf_exp[s]]
  <2>0. s \in 0 .. 2 * FieldSize - 3 /\ s + 1 \in 0 .. 2 * FieldSize - 3
    BY <1>0
  <2>1. CASE s < FieldSize - 2
    <3>1. s \in 0 .. FieldSize - 3 /\ s < FieldSize - 1 /\ s + 1 < FieldSize - 1
      BY <1>0, <2>1
    <3>2. gf_exp[s] = Power[s] /\ gf_exp[s + 1] = Power[s + 1]
      BY <1>1, <2>0, <3>1
    <3> QED BY <3>1, <3>2, PowerEquation
  <2>2. CASE s = FieldSize - 2
    <3>1. s < FieldSize - 1 /\ ~(s + 1 < FieldSize - 1) /\ (s + 1) - (FieldSize - 1) = 0
      BY <1>0, <2>2
    <3>2. gf_exp[s] = Power[s] /\ gf_exp[s + 1] = Power[0]
      BY <1>1, <2>0, <3>1
    <3> QED BY <2>2, <3>2, PowerEquation
  <2>3. CASE s > FieldSize - 2
    <3>1. PICK t \in 0 .. FieldSize - 3 : t = s - (FieldSize - 1)
      BY <1>0, <2>3
    <3>2. ~(s < FieldSize - 1) /\ ~(s + 1 < FieldSize - 1) /\ (s + 1) - (FieldSize - 1) = t + 1
      BY <1>0, <2>3, <3>1
    <3>3. gf_exp[s] = Power[t] /\ gf_exp[s + 1] = Power[t + 1]
      BY <1>1, <2>0, <3>1, <3>2
    <3> QED BY <3>3, PowerEquation
  <2> QED BY <1>0, <2>1, <2>2, <2>3
<1> QED BY <1>1, <1>2

\* Numbers whose sum is 0 are the same.
LEMMA XorDifference ==
  ASSUME NEW a \in Nat, NEW b \in Nat, Xor(a, b) = 0
  PROVE  a = b
<1>1. Xor(Xor(a, b), b) = Xor(a, Xor(b, b))
  BY XorAssociates
<1>2. Xor(b, b) = 0 /\ Xor(a, 0) = a /\ Xor(0, b) = b
  BY XorSelf, XorZero
<1> QED BY <1>1, <1>2

\* Products are bytes, and only 0 gives 0; gf_log and gf_exp are what gf_mul does.
LEMMA MulType ==
  /\ \A a, b \in Elem : gf_mul(a, b) \in Elem
  /\ \A a \in Elem : gf_mul(a, 0) = 0 /\ gf_mul(0, a) = 0
  /\ \A a, b \in Elem \ {0} :
       gf_mul(a, b) = gf_exp[gf_log[a] + gf_log[b]] /\ gf_mul(a, b) \in Elem \ {0}
<1>0. FieldSize \in Nat /\ FieldSize >= 4 /\ 0 \in Elem
  BY Sizes
<1>1. ASSUME NEW a \in Elem \ {0}, NEW b \in Elem \ {0}
      PROVE  gf_mul(a, b) = gf_exp[gf_log[a] + gf_log[b]] /\ gf_mul(a, b) \in Elem \ {0}
  <2>1. gf_mul(a, b) = gf_exp[gf_log[a] + gf_log[b]]
    BY DEF gf_mul, MulTable
  <2>2. PICK s \in 0 .. 2 * FieldSize - 3 : s = gf_log[a] + gf_log[b]
    BY <1>0, Logarithm
  <2> QED BY <2>1, <2>2, Exponents
<1>2. ASSUME NEW a \in Elem PROVE gf_mul(a, 0) = 0 /\ gf_mul(0, a) = 0
  BY <1>0 DEF gf_mul, MulTable
<1>3. ASSUME NEW a \in Elem, NEW b \in Elem PROVE gf_mul(a, b) \in Elem
  BY <1>0, <1>1, <1>2
<1> QED BY <1>1, <1>2, <1>3

LEMMA MulCommutes ==
  ASSUME NEW a \in Elem, NEW b \in Elem
  PROVE  gf_mul(a, b) = gf_mul(b, a)
<1>1. CASE a = 0 \/ b = 0
  BY <1>1, MulType
<1>2. CASE a # 0 /\ b # 0
  <2>1. gf_log[a] \in Int /\ gf_log[b] \in Int
    BY Sizes, Logarithm
  <2>2. gf_log[a] + gf_log[b] = gf_log[b] + gf_log[a]
    BY <2>1
  <2>3. gf_mul(a, b) = gf_exp[gf_log[a] + gf_log[b]]
    BY <1>2, MulType
  <2>4. gf_mul(b, a) = gf_exp[gf_log[b] + gf_log[a]]
    BY <1>2, MulType
  <2> QED BY <2>2, <2>3, <2>4
<1> QED BY <1>1, <1>2

LEMMA MulOne ==
  ASSUME NEW a \in Elem
  PROVE  gf_mul(1, a) = a /\ gf_mul(a, 1) = a
<1>0. FieldSize \in Nat /\ FieldSize >= 4 /\ 0 \in Elem /\ 1 \in Elem
  BY Sizes
<1>1. gf_mul(1, a) = a
  <2>1. CASE a = 0
    BY <1>0, <2>1, MulType
  <2>2. CASE a # 0
    <3>1. Power[0] = 1 /\ 0 \in 0 .. FieldSize - 2
      BY <1>0, PowerEquation
    <3>2. gf_log[1] = 0
      BY <3>1, Logarithm
    <3>3. PICK l \in 0 .. FieldSize - 2 : l = gf_log[a] /\ Power[l] = a
      BY <2>2, Logarithm
    <3>4. l \in 0 .. 2 * FieldSize - 3 /\ l < FieldSize - 1 /\ 0 + l = l
      BY <1>0
    <3>5. gf_mul(1, a) = gf_exp[0 + l]
      <4>1. 1 \in Elem \ {0} /\ a \in Elem \ {0}
        BY <1>0, <2>2
      <4>2. gf_mul(1, a) = gf_exp[gf_log[1] + gf_log[a]]
        BY <4>1, MulType
      <4> QED BY <3>2, <3>3, <4>2
    <3> QED BY <3>3, <3>4, <3>5, Exponents
  <2> QED BY <2>1, <2>2
<1> QED BY <1>0, <1>1, MulCommutes

\* Multiplication by the generator adds one to the logarithm.
LEMMA MulTriples ==
  ASSUME NEW a \in Elem, NEW c \in Elem
  PROVE  gf_mul(TimesThree[a], c) = TimesThree[gf_mul(a, c)]
<1>0. FieldSize \in Nat /\ FieldSize >= 4 /\ 0 \in Elem /\ 1 \in Elem /\ TimesThree[0] = 0
      /\ TimesThree[a] \in Elem
  BY Sizes, TimesThreeLinear
<1>1. CASE a = 0 \/ c = 0
  BY <1>0, <1>1, MulType
<1>2. CASE a # 0 /\ c # 0
  <2>1. PICK i \in 0 .. FieldSize - 2 : i = gf_log[a] /\ Power[i] = a
    BY <1>2, Logarithm
  <2>2. PICK l \in 0 .. FieldSize - 2 : l = gf_log[c]
    BY Logarithm
  <2>3. i + l \in 0 .. 2 * FieldSize - 4 /\ i \in Nat /\ l \in Nat
    BY <1>0
  <2>4. gf_mul(a, c) = gf_exp[i + l]
    BY <1>2, <2>1, <2>2, MulType
  <2>5. TimesThree[gf_mul(a, c)] = gf_exp[(i + l) + 1]
    BY <2>3, <2>4, Exponents
  <2>6. CASE i < FieldSize - 2
    <3>1. i \in 0 .. FieldSize - 3 /\ i + 1 \in 0 .. FieldSize - 2 /\ (i + 1) + l = (i + l) + 1
      BY <1>0, <2>3, <2>6
    <3>2. TimesThree[a] = Power[i + 1]
      BY <2>1, <3>1, PowerEquation
    <3>3. gf_log[TimesThree[a]] = i + 1 /\ TimesThree[a] \in Elem \ {0}
      BY <3>1, <3>2, Logarithm, PowerEquation
    <3>4. gf_mul(TimesThree[a], c) = gf_exp[(i + 1) + l]
      <4>1. c \in Elem \ {0}
        BY <1>2
      <4>2. gf_mul(TimesThree[a], c) = gf_exp[gf_log[TimesThree[a]] + gf_log[c]]
        BY <3>3, <4>1, MulType
      <4> QED BY <2>2, <3>3, <4>2
    <3> QED BY <2>5, <3>1, <3>4
  <2>7. CASE i = FieldSize - 2
    <3>1. TimesThree[a] = 1
      BY <2>1, <2>7, PowerEquation
    <3>2. gf_mul(TimesThree[a], c) = c
      BY <3>1, MulOne
    <3>3. (i + l) + 1 \in 0 .. 2 * FieldSize - 3 /\ ~((i + l) + 1 < FieldSize - 1)
          /\ ((i + l) + 1) - (FieldSize - 1) = l
      BY <1>0, <2>3, <2>7
    <3>4. gf_exp[(i + l) + 1] = Power[l]
      BY <3>3, Exponents
    <3>5. Power[l] = c
      BY <1>2, <2>2, Logarithm
    <3> QED BY <2>5, <3>2, <3>4, <3>5
  <2> QED BY <1>0, <2>6, <2>7
<1> QED BY <1>1, <1>2

\* Multiplication distributes over addition.
LEMMA MulDistributes ==
  ASSUME NEW a \in Elem, NEW b \in Elem, NEW c \in Elem
  PROVE  gf_mul(a, Xor(b, c)) = Xor(gf_mul(a, b), gf_mul(a, c))
<1> DEFINE T == {u \in Elem : gf_mul(u, Xor(b, c)) = Xor(gf_mul(u, b), gf_mul(u, c))}
<1>0. Xor(b, c) \in Elem /\ 0 \in Elem /\ 1 \in Elem
  BY Sizes, XorInElem
<1>1. 1 \in T
  BY <1>0, MulOne
<1>2. ASSUME NEW u \in Elem \ {0}, u \in T PROVE TimesThree[u] \in T
  <2>1. gf_mul(u, b) \in Elem /\ gf_mul(u, c) \in Elem /\ TimesThree[u] \in Elem
    BY MulType, TimesThreeLinear
  <2>2. gf_mul(TimesThree[u], Xor(b, c)) = TimesThree[Xor(gf_mul(u, b), gf_mul(u, c))]
    BY <1>0, <1>2, MulTriples
  <2>3. TimesThree[Xor(gf_mul(u, b), gf_mul(u, c))] = Xor(TimesThree[gf_mul(u, b)], TimesThree[gf_mul(u, c)])
    BY <2>1, TimesThreeLinear
  <2>4. gf_mul(TimesThree[u], b) = TimesThree[gf_mul(u, b)]
        /\ gf_mul(TimesThree[u], c) = TimesThree[gf_mul(u, c)]
    BY MulTriples
  <2> QED BY <2>1, <2>2, <2>3, <2>4
<1>3. 0 \in T
  BY <1>0, MulType, XorSelf
<1>4. Elem \ {0} \subseteq T
  <2> HIDE DEF T
  <2> QED BY <1>1, <1>2, PowerInduct
<1> QED BY <1>3, <1>4

LEMMA MulAssociates ==
  ASSUME NEW a \in Elem, NEW b \in Elem, NEW c \in Elem
  PROVE  gf_mul(gf_mul(a, b), c) = gf_mul(a, gf_mul(b, c))
<1> DEFINE T == {u \in Elem : gf_mul(gf_mul(u, b), c) = gf_mul(u, gf_mul(b, c))}
<1>0. gf_mul(b, c) \in Elem /\ 0 \in Elem /\ 1 \in Elem
  BY Sizes, MulType
<1>1. 1 \in T
  BY <1>0, MulOne
<1>2. ASSUME NEW u \in Elem \ {0}, u \in T PROVE TimesThree[u] \in T
  <2>1. gf_mul(u, b) \in Elem /\ TimesThree[u] \in Elem
    BY MulType, TimesThreeLinear
  <2>2. gf_mul(TimesThree[u], b) = TimesThree[gf_mul(u, b)]
    BY MulTriples
  <2>3. gf_mul(TimesThree[gf_mul(u, b)], c) = TimesThree[gf_mul(gf_mul(u, b), c)]
    BY <2>1, MulTriples
  <2>4. gf_mul(TimesThree[u], gf_mul(b, c)) = TimesThree[gf_mul(u, gf_mul(b, c))]
    BY <1>0, MulTriples
  <2> QED BY <1>2, <2>1, <2>2, <2>3, <2>4
<1>3. 0 \in T
  BY <1>0, MulType
<1>4. Elem \ {0} \subseteq T
  <2> HIDE DEF T
  <2> QED BY <1>1, <1>2, PowerInduct
<1> QED BY <1>3, <1>4

\* Division undoes multiplication.
LEMMA DivUndoes ==
  /\ \A a, b \in Elem : gf_div(a, b) \in Elem
  /\ \A a \in Elem, b \in Elem \ {0} : gf_mul(gf_div(a, b), b) = a
<1>0. FieldSize \in Nat /\ FieldSize >= 4 /\ 0 \in Elem
  BY Sizes
<1>1. ASSUME NEW a \in Elem \ {0}, NEW b \in Elem \ {0}
      PROVE  gf_div(a, b) \in Elem \ {0} /\ gf_mul(gf_div(a, b), b) = a
  <2>1. PICK i \in 0 .. FieldSize - 2 : i = gf_log[a] /\ Power[i] = a
    BY Logarithm
  <2>2. PICK j \in 0 .. FieldSize - 2 : j = gf_log[b]
    BY Logarithm
  <2>3. PICK s \in 0 .. 2 * FieldSize - 3 : s = i + FieldSize - 1 - j
    BY <1>0
  <2>4. gf_div(a, b) = gf_exp[s]
    BY <2>1, <2>2, <2>3 DEF gf_div
  <2>5. PICK t \in 0 .. FieldSize - 2 : t = IF s < FieldSize - 1 THEN s ELSE s - (FieldSize - 1)
    <3>1. CASE s < FieldSize - 1
      BY <1>0, <3>1
    <3>2. CASE ~(s < FieldSize - 1)
      BY <1>0, <3>2
    <3> QED BY <3>1, <3>2
  <2>6. gf_div(a, b) = Power[t] /\ gf_div(a, b) \in Elem \ {0}
    BY <2>4, <2>5, Exponents
  <2>7. gf_log[gf_div(a, b)] = t
    BY <2>6, Logarithm
  <2>8. gf_mul(gf_div(a, b), b) = gf_exp[t + j]
    BY <2>2, <2>6, <2>7, MulType
  <2>9. t + j \in 0 .. 2 * FieldSize - 3
        /\ \/ (t + j = i) /\ (i < FieldSize - 1)
           \/ (~(t + j < FieldSize - 1)) /\ ((t + j) - (FieldSize - 1) = i)
    <3>1. CASE s < FieldSize - 1
      BY <1>0, <2>3, <2>5, <3>1
    <3>2. CASE ~(s < FieldSize - 1)
      BY <1>0, <2>3, <2>5, <3>2
    <3> QED BY <3>1, <3>2
  <2>10. gf_exp[t + j] = Power[i]
    BY <2>9, Exponents
  <2> QED BY <2>1, <2>6, <2>8, <2>10
<1>2. \A b \in Elem : gf_div(0, b) = 0 /\ gf_div(b, 0) = 0
  BY DEF gf_div
<1>3. \A b \in Elem : gf_mul(0, b) = 0
  BY MulType
<1> QED BY <1>0, <1>1, <1>2, <1>3

\* Cancellation.
LEMMA MulCancels ==
  ASSUME NEW a \in Elem \ {0}, NEW b \in Elem, NEW c \in Elem, gf_mul(a, b) = gf_mul(a, c)
  PROVE  b = c
<1>0. Xor(b, c) \in Elem /\ b \in Nat /\ c \in Nat /\ gf_mul(a, b) \in Nat
  BY Sizes, XorInElem, MulType
<1>1. gf_mul(a, Xor(b, c)) = 0
  BY <1>0, MulDistributes, XorSelf
<1>2. Xor(b, c) = 0
  BY <1>0, <1>1, MulType
<1> QED BY <1>0, <1>2, XorDifference

-----------------------------------------------------------------------------
(* Sums and products over finite sets. *)

Grows(T, S) == \A s \in SUBSET S : (\A m \in s : s \ {m} \in T) => s \in T

\* What holds of every subset of a finite set if it holds of the smaller ones.
LEMMA SubsetInduct ==
  ASSUME NEW S, IsFiniteSet(S), NEW T, Grows(T, S)
  PROVE  SUBSET S \subseteq T
<1> USE DEF Grows
<1> DEFINE rank == [s \in SUBSET S |-> Cardinality(s)]
<1>1. \A s \in SUBSET S : IsFiniteSet(s) /\ Cardinality(s) \in Nat
  BY FS_Subset, FS_CardinalityType
<1>2. rank \in [SUBSET S -> Nat]
  BY <1>1
<1>3. ASSUME NEW s \in SUBSET S, \A t \in SUBSET S : rank[t] < rank[s] => t \in T
      PROVE  s \in T
  <2>1. ASSUME NEW m \in s PROVE s \ {m} \in T
    <3>1. s \ {m} \in SUBSET S /\ Cardinality(s \ {m}) = Cardinality(s) - 1
      BY <1>1, FS_RemoveElement
    <3>2. rank[s \ {m}] < rank[s]
      BY <1>1, <3>1
    <3> QED BY <1>3, <3>1, <3>2
  <2> QED BY <2>1
<1>4. \A s \in SUBSET S : (\A t \in SUBSET S : rank[t] < rank[s] => t \in T) => s \in T
  BY <1>3
<1> DEFINE D == SUBSET S
<1> HIDE DEF rank, D
<1>5. D \subseteq T
  BY <1>2, <1>4, RankInduct DEF D
<1> QED BY <1>5 DEF D

\* A commutative operation table with a neutral element.
Adds(t, e, V) ==
  /\ t \in [V -> [V -> V]]
  /\ e \in V
  /\ \A a \in V : t[e][a] = a /\ t[a][e] = a
  /\ \A a, b \in V : t[a][b] = t[b][a]
  /\ \A a, b, c \in V : t[t[a][b]][c] = t[a][t[b][c]]

\* The recursion of FoldFunctionOnSet, on the subsets of S.
IsFold(g, t, e, f, S) ==
  g = [s \in SUBSET S |->
         IF s = {} THEN e
         ELSE t[f[CHOOSE i \in s : TRUE]][g[s \ {CHOOSE i \in s : TRUE}]]]

Total(t, e, f, S) == (CHOOSE g : IsFold(g, t, e, f, S))[S]

Values(f, S, V) == \A i \in S : f[i] \in V

LEMMA FoldExists ==
  ASSUME NEW S, IsFiniteSet(S), NEW t, NEW e, NEW V, Adds(t, e, V), NEW f, Values(f, S, V)
  PROVE  \E g : Values(g, SUBSET S, V) /\ IsFold(g, t, e, f, S)
<1> DEFINE D == SUBSET S
           rank == [s \in D |-> Cardinality(s)]
           E(g, s) == IF s = {} THEN e
                      ELSE t[f[CHOOSE i \in s : TRUE]][g[s \ {CHOOSE i \in s : TRUE}]]
           Body == [g \in [D -> V] |-> [s \in D |-> E(g, s)]]
<1>1. \A s \in D : IsFiniteSet(s) /\ Cardinality(s) \in Nat
  BY FS_Subset, FS_CardinalityType
<1>2. rank \in [D -> Nat]
  BY <1>1
<1>3. ASSUME NEW s \in D, s # {}
      PROVE  /\ (CHOOSE i \in s : TRUE) \in s
             /\ s \ {CHOOSE i \in s : TRUE} \in D
             /\ f[CHOOSE i \in s : TRUE] \in V
  BY <1>3 DEF Values
<1>4. ASSUME NEW g \in [D -> V], NEW s \in D PROVE E(g, s) \in V
  <2>1. CASE s = {}
    BY <2>1 DEF Adds
  <2>2. CASE s # {}
    <3>1. PICK c \in V : c = f[CHOOSE i \in s : TRUE]
      BY <1>3, <2>2
    <3>2. PICK r \in V : r = g[s \ {CHOOSE i \in s : TRUE}]
      BY <1>3, <2>2
    <3>3. t[c][r] \in V
      BY DEF Adds
    <3> QED BY <2>2, <3>1, <3>2, <3>3
  <2> QED BY <2>1, <2>2
<1>5. Body \in [[D -> V] -> [D -> V]]
  <2> HIDE DEF E
  <2> QED BY <1>4
<1>6. ASSUME NEW g \in [D -> V], NEW h \in [D -> V], NEW s \in D,
             \A r \in D : rank[r] < rank[s] => g[r] = h[r]
      PROVE  Body[g][s] = Body[h][s]
  <2>1. CASE s = {}
    BY <2>1
  <2>2. CASE s # {}
    <3>1. PICK c \in s : c = CHOOSE i \in s : TRUE
      BY <1>3, <2>2
    <3>2. s \ {c} \in D /\ Cardinality(s \ {c}) = Cardinality(s) - 1
      BY <1>1, FS_RemoveElement
    <3>3. rank[s \ {c}] < rank[s]
      BY <1>1, <3>2
    <3>4. g[s \ {c}] = h[s \ {c}]
      BY <1>6, <3>2, <3>3
    <3>5. E(g, s) = E(h, s)
      BY <3>1, <3>4
    <3> QED BY <3>5
  <2> QED BY <2>1, <2>2
<1>7. V # {}
  BY DEF Adds
<1>8. Descends(D, V, rank, Body)
  <2> HIDE DEF rank, Body, D
  <2> QED BY <1>2, <1>5, <1>6, <1>7 DEF Descends
<1>9. \E g \in [D -> V] : g = Body[g]
  <2> HIDE DEF rank, Body, D
  <2> QED BY <1>8, Solution
<1> QED BY <1>9 DEF IsFold, Values

\* One turn of the recursion.
LEMMA FoldAt ==
  ASSUME NEW S, NEW t, NEW e, NEW f, NEW g, IsFold(g, t, e, f, S), NEW s \in SUBSET S, s # {}
  PROVE  g[s] = t[f[CHOOSE i \in s : TRUE]][g[s \ {CHOOSE i \in s : TRUE}]]
BY DEF IsFold

\* A fold over T of what agrees on T is the same.
LEMMA FoldUnique ==
  ASSUME NEW T, IsFiniteSet(T), NEW S, T \subseteq S, NEW R, T \subseteq R,
         NEW t, NEW e, NEW f, NEW h, \A i \in T : f[i] = h[i],
         NEW g, IsFold(g, t, e, f, S), NEW k, IsFold(k, t, e, h, R)
  PROVE  g[T] = k[T]
<1> DEFINE U == {s \in SUBSET T : g[s] = k[s]}
<1>1. ASSUME NEW s \in SUBSET T, \A m \in s : s \ {m} \in U PROVE s \in U
  <2>1. CASE s = {}
    BY <2>1 DEF IsFold
  <2>2. CASE s # {}
    <3>1. PICK c \in s : c = CHOOSE i \in s : TRUE
      BY <2>2
    <3>2. s \in SUBSET S /\ s \in SUBSET R
      OBVIOUS
    <3>3. g[s] = t[f[c]][g[s \ {c}]]
      BY <2>2, <3>1, <3>2, FoldAt
    <3>4. k[s] = t[h[c]][k[s \ {c}]]
      BY <2>2, <3>1, <3>2, FoldAt
    <3>5. g[s \ {c}] = k[s \ {c}]
      BY <1>1
    <3> QED BY <3>3, <3>4, <3>5
  <2> QED BY <2>1, <2>2
<1>2. SUBSET T \subseteq U
  <2> HIDE DEF U
  <2>1. Grows(U, T)
    BY <1>1 DEF Grows
  <2> QED BY <2>1, SubsetInduct
<1> QED BY <1>2

\* The elements may be taken in any order.
LEMMA FoldAnyOrder ==
  ASSUME NEW S, IsFiniteSet(S), NEW t, NEW e, NEW V, Adds(t, e, V), NEW f, Values(f, S, V),
         NEW g, Values(g, SUBSET S, V), IsFold(g, t, e, f, S)
  PROVE  \A m \in S : g[S] = t[f[m]][g[S \ {m}]]
<1> DEFINE U == {s \in SUBSET S : \A m \in s : g[s] = t[f[m]][g[s \ {m}]]}
<1>1. ASSUME NEW s \in SUBSET S, \A m \in s : s \ {m} \in U PROVE s \in U
  <2> SUFFICES ASSUME NEW m \in s PROVE g[s] = t[f[m]][g[s \ {m}]]
    OBVIOUS
  <2>1. PICK c \in s : c = CHOOSE i \in s : TRUE
    OBVIOUS
  <2>2. g[s] = t[f[c]][g[s \ {c}]]
    BY <2>1 DEF IsFold
  <2>3. CASE m = c
    BY <2>2, <2>3
  <2>4. CASE m # c
    <3>1. m \in s \ {c} /\ c \in s \ {m} /\ (s \ {c}) \ {m} = (s \ {m}) \ {c}
      BY <2>4
    <3>2. PICK r \in V : r = g[(s \ {c}) \ {m}]
      BY DEF Values
    <3>3. g[s \ {c}] = t[f[m]][r]
      BY <1>1, <3>1, <3>2
    <3>4. g[s \ {m}] = t[f[c]][r]
      BY <1>1, <3>1, <3>2
    <3>5. PICK a \in V : a = f[m]
      BY DEF Values
    <3>6. PICK b \in V : b = f[c]
      BY DEF Values
    <3>7. t[b][t[a][r]] = t[a][t[b][r]]
      <4>1. \A u, v, w \in V : t[t[u][v]][w] = t[u][t[v][w]]
        BY DEF Adds
      <4>2. \A u, v \in V : t[u][v] = t[v][u]
        BY DEF Adds
      <4>3. t[t[b][a]][r] = t[b][t[a][r]]
        BY <4>1
      <4>4. t[t[a][b]][r] = t[a][t[b][r]]
        BY <4>1
      <4>5. t[a][b] = t[b][a]
        BY <4>2
      <4> QED BY <4>3, <4>4, <4>5
    <3> QED BY <2>2, <3>3, <3>4, <3>5, <3>6, <3>7
  <2> QED BY <2>3, <2>4
<1>2. Grows(U, S)
  <2> HIDE DEF U
  <2> QED BY <1>1 DEF Grows
<1>3. SUBSET S \subseteq U
  <2> HIDE DEF U
  <2> QED BY <1>2, SubsetInduct
<1> QED BY <1>3

LEMMA TotalUnique ==
  ASSUME NEW T, IsFiniteSet(T), NEW S, IsFiniteSet(S), T \subseteq S,
         NEW t, NEW e, NEW V, Adds(t, e, V), NEW f, Values(f, S, V),
         NEW h, \A i \in T : f[i] = h[i], NEW g, IsFold(g, t, e, f, S)
  PROVE  Total(t, e, h, T) = g[T]
<1>1. Values(h, T, V)
  BY DEF Values
<1>2. \E k : IsFold(k, t, e, h, T)
  BY <1>1, FoldExists
<1>3. PICK k : k = CHOOSE l : IsFold(l, t, e, h, T)
  OBVIOUS
<1>4. IsFold(k, t, e, h, T)
  BY <1>2, <1>3
<1>5. g[T] = k[T]
  BY <1>4, FoldUnique
<1> QED BY <1>3, <1>5 DEF Total

\* What a fold over a finite set gives.
LEMMA TotalEquation ==
  ASSUME NEW S, IsFiniteSet(S), NEW t, NEW e, NEW V, Adds(t, e, V), NEW f, Values(f, S, V)
  PROVE  /\ Total(t, e, f, S) \in V
         /\ S = {} => Total(t, e, f, S) = e
         /\ \A m \in S : Total(t, e, f, S) = t[f[m]][Total(t, e, f, S \ {m})]
         /\ \A h : (\A i \in S : f[i] = h[i]) => Total(t, e, f, S) = Total(t, e, h, S)
<1>1. PICK g : Values(g, SUBSET S, V) /\ IsFold(g, t, e, f, S)
  BY FoldExists
<1>2. Total(t, e, f, S) = g[S]
  BY <1>1, TotalUnique
<1>3. \A m \in S : IsFiniteSet(S \ {m}) /\ Total(t, e, f, S \ {m}) = g[S \ {m}]
  BY <1>1, TotalUnique, FS_RemoveElement
<1>4. \A m \in S : g[S] = t[f[m]][g[S \ {m}]]
  BY <1>1, FoldAnyOrder
<1>5. S = {} => g[S] = e
  BY <1>1 DEF IsFold
<1>6. ASSUME NEW h, \A i \in S : f[i] = h[i] PROVE Total(t, e, f, S) = Total(t, e, h, S)
  BY <1>1, <1>2, <1>6, TotalUnique
<1>7. g[S] \in V
  BY <1>1 DEF Values
<1>8. \A m \in S : Total(t, e, f, S) = t[f[m]][Total(t, e, f, S \ {m})]
  BY <1>2, <1>3, <1>4
<1> QED BY <1>2, <1>5, <1>6, <1>7, <1>8

-----------------------------------------------------------------------------
(* The two folds of sss_combine. *)

Sum(f, S) == FoldFunctionOnSet(gf_add, 0, f, S)

Product(f, S) == FoldFunctionOnSet(gf_mul, 1, f, S)

Elems(f, S) == \A i \in S : f[i] \in Elem

LEMMA SumIsTotal ==
  ASSUME NEW f, NEW S
  PROVE  Sum(f, S) = Total(XorTable, 0, f, S)
BY DEF Sum, FoldFunctionOnSet, MapThenFoldSet, Total, IsFold, gf_add

LEMMA ProductIsTotal ==
  ASSUME NEW f, NEW S
  PROVE  Product(f, S) = Total(MulTable, 1, f, S)
BY DEF Product, FoldFunctionOnSet, MapThenFoldSet, Total, IsFold, gf_mul

LEMMA AddTable ==
  /\ Adds(XorTable, 0, Elem)
  /\ \A a, b \in Elem : gf_add(a, b) = Xor(a, b) /\ gf_sub(a, b) = Xor(a, b) /\ XorTable[a][b] = Xor(a, b)
<1>1. \A a, b \in Elem : XorTable[a][b] = Xor(a, b) /\ Xor(a, b) \in Elem
  BY XorInElem DEF XorTable
<1>2. XorTable \in [Elem -> [Elem -> Elem]]
  BY XorInElem DEF XorTable
<1>3. 0 \in Elem /\ Elem \subseteq Nat
  BY Sizes
<1>4. \A a \in Elem : XorTable[0][a] = a /\ XorTable[a][0] = a
  BY <1>1, <1>3, XorZero
<1>5. \A a, b \in Elem : XorTable[a][b] = XorTable[b][a]
  BY <1>1, <1>3, XorCommutes
<1>6. ASSUME NEW a \in Elem, NEW b \in Elem, NEW c \in Elem
      PROVE  XorTable[XorTable[a][b]][c] = XorTable[a][XorTable[b][c]]
  <2>1. XorTable[XorTable[a][b]][c] = Xor(Xor(a, b), c)
    BY <1>1
  <2>2. XorTable[a][XorTable[b][c]] = Xor(a, Xor(b, c))
    BY <1>1
  <2> QED BY <1>3, <2>1, <2>2, XorAssociates
<1>7. Adds(XorTable, 0, Elem)
  BY <1>2, <1>3, <1>4, <1>5, <1>6 DEF Adds
<1> QED BY <1>1, <1>7 DEF gf_add, gf_sub

LEMMA AddType ==
  ASSUME NEW a \in Elem, NEW b \in Elem
  PROVE  gf_add(a, b) = Xor(a, b) /\ gf_sub(a, b) = Xor(a, b) /\ gf_add(a, b) \in Elem
<1>1. gf_add(a, b) = Xor(a, b) /\ gf_sub(a, b) = Xor(a, b)
  BY AddTable
<1>2. Xor(a, b) \in Elem
  BY XorInElem
<1> QED BY <1>1, <1>2

LEMMA TimesTable == Adds(MulTable, 1, Elem)
<1>1. MulTable \in [Elem -> [Elem -> Elem]]
  <2>1. ASSUME NEW a \in Elem, NEW b \in Elem PROVE MulTable[a][b] \in Elem
    BY MulType DEF gf_mul
  <2>2. DOMAIN MulTable = Elem /\ \A a \in Elem : MulTable[a] = [b \in Elem |-> MulTable[a][b]]
    BY DEF MulTable
  <2>3. \A a \in Elem : MulTable[a] \in [Elem -> Elem]
    BY <2>1, <2>2
  <2>4. MulTable = [a \in Elem |-> MulTable[a]]
    BY DEF MulTable
  <2> QED BY <2>3, <2>4
<1>2. 1 \in Elem
  BY Sizes
<1>3. \A a \in Elem : MulTable[1][a] = a /\ MulTable[a][1] = a
  BY MulOne DEF gf_mul
<1>4. \A a, b \in Elem : MulTable[a][b] = MulTable[b][a]
  BY MulCommutes DEF gf_mul
<1>5. \A a, b, c \in Elem : MulTable[MulTable[a][b]][c] = MulTable[a][MulTable[b][c]]
  BY MulAssociates DEF gf_mul
<1> QED BY <1>1, <1>2, <1>3, <1>4, <1>5 DEF Adds

LEMMA SumEquation ==
  ASSUME NEW S, IsFiniteSet(S), NEW f, Elems(f, S)
  PROVE  /\ Sum(f, S) \in Elem
         /\ S = {} => Sum(f, S) = 0
         /\ \A m \in S : Sum(f, S) = Xor(f[m], Sum(f, S \ {m}))
         /\ \A h : (\A i \in S : f[i] = h[i]) => Sum(f, S) = Sum(h, S)
<1>1. Values(f, S, Elem) /\ Adds(XorTable, 0, Elem)
  BY AddTable DEF Elems, Values
<1>2. /\ Sum(f, S) \in Elem
      /\ S = {} => Sum(f, S) = 0
      /\ \A m \in S : Sum(f, S) = XorTable[f[m]][Sum(f, S \ {m})]
      /\ \A h : (\A i \in S : f[i] = h[i]) => Sum(f, S) = Sum(h, S)
  BY <1>1, TotalEquation, SumIsTotal
<1>3. ASSUME NEW m \in S PROVE Sum(f, S \ {m}) \in Elem
  <2>1. IsFiniteSet(S \ {m}) /\ Values(f, S \ {m}, Elem)
    BY <1>1, FS_RemoveElement DEF Values
  <2> QED BY <1>1, <2>1, TotalEquation, SumIsTotal
<1>4. \A m \in S : XorTable[f[m]][Sum(f, S \ {m})] = Xor(f[m], Sum(f, S \ {m}))
  BY <1>3, AddTable DEF Elems
<1> QED BY <1>2, <1>4

LEMMA ProductEquation ==
  ASSUME NEW S, IsFiniteSet(S), NEW f, Elems(f, S)
  PROVE  /\ Product(f, S) \in Elem
         /\ S = {} => Product(f, S) = 1
         /\ \A m \in S : Product(f, S) = gf_mul(f[m], Product(f, S \ {m}))
         /\ \A h : (\A i \in S : f[i] = h[i]) => Product(f, S) = Product(h, S)
<1>1. Values(f, S, Elem) /\ Adds(MulTable, 1, Elem)
  BY TimesTable DEF Elems, Values
<1>2. /\ Product(f, S) \in Elem
      /\ S = {} => Product(f, S) = 1
      /\ \A m \in S : Product(f, S) = MulTable[f[m]][Product(f, S \ {m})]
      /\ \A h : (\A i \in S : f[i] = h[i]) => Product(f, S) = Product(h, S)
  BY <1>1, TotalEquation, ProductIsTotal
<1> QED BY <1>2 DEF gf_mul

\* Sums add up, and a common factor comes out.
LEMMA SumAdds ==
  ASSUME NEW S, IsFiniteSet(S), NEW f, Elems(f, S), NEW g, Elems(g, S),
         NEW h, \A i \in S : h[i] = Xor(f[i], g[i])
  PROVE  Sum(h, S) = Xor(Sum(f, S), Sum(g, S))
<1> DEFINE T == {s \in SUBSET S : Sum(h, s) = Xor(Sum(f, s), Sum(g, s))}
<1>0. \A i \in S : f[i] \in Elem /\ g[i] \in Elem /\ h[i] \in Elem
  BY XorInElem DEF Elems
<1>1. ASSUME NEW s \in SUBSET S
      PROVE  IsFiniteSet(s) /\ Elems(f, s) /\ Elems(g, s) /\ Elems(h, s)
  BY <1>0, FS_Subset DEF Elems
<1>2. ASSUME NEW s \in SUBSET S, \A m \in s : s \ {m} \in T PROVE s \in T
  <2>1. CASE s = {}
    <3>1. Sum(f, s) = 0 /\ Sum(g, s) = 0 /\ Sum(h, s) = 0
      BY <1>1, <2>1, SumEquation
    <3> QED BY <3>1, XorSelf
  <2>2. CASE s # {}
    <3>1. PICK m \in s : TRUE
      BY <2>2
    <3>2. s \ {m} \in SUBSET S
      OBVIOUS
    <3>3. PICK a \in Elem : a = Sum(f, s \ {m})
      BY <1>1, <3>2, SumEquation
    <3>4. PICK b \in Elem : b = Sum(g, s \ {m})
      BY <1>1, <3>2, SumEquation
    <3>5. Sum(h, s \ {m}) = Xor(a, b)
      BY <1>2, <3>3, <3>4
    <3>6. Sum(f, s) = Xor(f[m], a) /\ Sum(g, s) = Xor(g[m], b)
      BY <1>1, <3>3, <3>4, SumEquation
    <3>7. Sum(h, s) = Xor(h[m], Xor(a, b))
      BY <1>1, <3>5, SumEquation
    <3>8. f[m] \in Nat /\ g[m] \in Nat /\ a \in Nat /\ b \in Nat
      BY <1>0, Sizes
    <3>9. Xor(Xor(f[m], g[m]), Xor(a, b)) = Xor(Xor(f[m], a), Xor(g[m], b))
      BY <3>8, XorSwap
    <3> QED BY <3>6, <3>7, <3>9
  <2> QED BY <2>1, <2>2
<1>3. Grows(T, S)
  <2> HIDE DEF T
  <2> QED BY <1>2 DEF Grows
<1>4. SUBSET S \subseteq T
  <2> HIDE DEF T
  <2> QED BY <1>3, SubsetInduct
<1> QED BY <1>4

LEMMA SumScales ==
  ASSUME NEW S, IsFiniteSet(S), NEW f, Elems(f, S), NEW c \in Elem,
         NEW h, \A i \in S : h[i] = gf_mul(c, f[i])
  PROVE  Sum(h, S) = gf_mul(c, Sum(f, S))
<1> DEFINE T == {s \in SUBSET S : Sum(h, s) = gf_mul(c, Sum(f, s))}
<1>0. \A i \in S : f[i] \in Elem /\ h[i] \in Elem
  BY MulType DEF Elems
<1>1. ASSUME NEW s \in SUBSET S PROVE IsFiniteSet(s) /\ Elems(f, s) /\ Elems(h, s)
  BY <1>0, FS_Subset DEF Elems
<1>2. ASSUME NEW s \in SUBSET S, \A m \in s : s \ {m} \in T PROVE s \in T
  <2>1. CASE s = {}
    <3>1. Sum(f, s) = 0 /\ Sum(h, s) = 0
      BY <1>1, <2>1, SumEquation
    <3> QED BY <3>1, MulType
  <2>2. CASE s # {}
    <3>1. PICK m \in s : TRUE
      BY <2>2
    <3>2. s \ {m} \in SUBSET S
      OBVIOUS
    <3>3. PICK a \in Elem : a = Sum(f, s \ {m})
      BY <1>1, <3>2, SumEquation
    <3>5. Sum(h, s \ {m}) = gf_mul(c, a)
      BY <1>2, <3>3
    <3>6. Sum(f, s) = Xor(f[m], a)
      BY <1>1, <3>3, SumEquation
    <3>7. Sum(h, s) = Xor(h[m], gf_mul(c, a))
      BY <1>1, <3>5, SumEquation
    <3>8. gf_mul(c, Xor(f[m], a)) = Xor(gf_mul(c, f[m]), gf_mul(c, a))
      BY <1>0, MulDistributes
    <3> QED BY <3>6, <3>7, <3>8
  <2> QED BY <2>1, <2>2
<1>3. Grows(T, S)
  <2> HIDE DEF T
  <2> QED BY <1>2 DEF Grows
<1>4. SUBSET S \subseteq T
  <2> HIDE DEF T
  <2> QED BY <1>3, SubsetInduct
<1> QED BY <1>4

\* A product without a factor 0 is not 0.
LEMMA ProductNotZero ==
  ASSUME NEW S, IsFiniteSet(S), NEW f, \A i \in S : f[i] \in Elem \ {0}
  PROVE  Product(f, S) \in Elem \ {0}
<1> DEFINE T == {s \in SUBSET S : Product(f, s) \in Elem \ {0}}
<1>1. ASSUME NEW s \in SUBSET S PROVE IsFiniteSet(s) /\ Elems(f, s)
  BY FS_Subset DEF Elems
<1>2. ASSUME NEW s \in SUBSET S, \A m \in s : s \ {m} \in T PROVE s \in T
  <2>1. CASE s = {}
    <3>1. Product(f, s) = 1
      BY <1>1, <2>1, ProductEquation
    <3> QED BY <3>1, Sizes
  <2>2. CASE s # {}
    <3>1. PICK m \in s : TRUE
      BY <2>2
    <3>2. Product(f, s \ {m}) \in Elem \ {0} /\ f[m] \in Elem \ {0}
      BY <1>2
    <3>3. Product(f, s) = gf_mul(f[m], Product(f, s \ {m}))
      BY <1>1, ProductEquation
    <3> QED BY <3>2, <3>3, MulType
  <2> QED BY <2>1, <2>2
<1>3. Grows(T, S)
  <2> HIDE DEF T
  <2> QED BY <1>2 DEF Grows
<1>4. SUBSET S \subseteq T
  <2> HIDE DEF T
  <2> QED BY <1>3, SubsetInduct
<1> QED BY <1>4

-----------------------------------------------------------------------------
(* The Lagrange basis at 0 of the abscissas x of a set S of shares. *)

Points(x, S) ==
  /\ IsFiniteSet(S)
  /\ \A i \in S : x[i] \in Elem \ {0}
  /\ \A i, j \in S : x[i] = x[j] => i = j

Differences(x, S, i) == [j \in S \ {i} |-> gf_sub(x[j], x[i])]

Basis(x, S, i) ==
  gf_div(Product(x, S \ {i}), Product(Differences(x, S, i), S \ {i}))

\* What sss_combine computes from the values f at those abscissas.
Interp(x, S, f) == Sum([i \in S |-> gf_mul(Basis(x, S, i), f[i])], S)

LEMMA PointsDiffer ==
  ASSUME NEW x, NEW S, Points(x, S), NEW i \in S, NEW j \in S, i # j
  PROVE  Xor(x[i], x[j]) \in Elem \ {0}
<1>1. x[i] \in Elem /\ x[j] \in Elem /\ x[i] # x[j] /\ x[i] \in Nat /\ x[j] \in Nat
  BY Sizes DEF Points
<1>2. Xor(x[i], x[j]) \in Elem
  BY <1>1, XorInElem
<1> QED BY <1>1, <1>2, XorDifference

\* The quotient is what it should be, and not 0.
LEMMA BasisType ==
  ASSUME NEW x, NEW S, Points(x, S), NEW i \in S
  PROVE  /\ Basis(x, S, i) \in Elem \ {0}
         /\ Product(x, S \ {i}) \in Elem \ {0}
         /\ Product(Differences(x, S, i), S \ {i}) \in Elem \ {0}
         /\ gf_mul(Basis(x, S, i), Product(Differences(x, S, i), S \ {i})) = Product(x, S \ {i})
<1>1. IsFiniteSet(S \ {i})
  BY FS_RemoveElement DEF Points
<1>2. \A j \in S \ {i} : x[j] \in Elem \ {0}
  BY DEF Points
<1>3. ASSUME NEW j \in S \ {i} PROVE Differences(x, S, i)[j] \in Elem \ {0}
  <2>1. Xor(x[j], x[i]) \in Elem \ {0}
    BY PointsDiffer
  <2>2. x[j] \in Elem /\ x[i] \in Elem
    BY DEF Points
  <2> QED BY <2>1, <2>2, AddTable DEF Differences
<1>4. Product(x, S \ {i}) \in Elem \ {0}
  BY <1>1, <1>2, ProductNotZero
<1>5. Product(Differences(x, S, i), S \ {i}) \in Elem \ {0}
  BY <1>1, <1>3, ProductNotZero
<1>6. Basis(x, S, i) = gf_div(Product(x, S \ {i}), Product(Differences(x, S, i), S \ {i}))
  BY DEF Basis
<1>7. Basis(x, S, i) \in Elem
      /\ gf_mul(Basis(x, S, i), Product(Differences(x, S, i), S \ {i})) = Product(x, S \ {i})
  BY <1>4, <1>5, <1>6, DivUndoes
<1>8. Basis(x, S, i) # 0
  BY <1>4, <1>5, <1>7, MulType
<1> QED BY <1>4, <1>5, <1>7, <1>8

LEMMA PointsFewer ==
  ASSUME NEW x, NEW S, Points(x, S), NEW m
  PROVE  Points(x, S \ {m})
BY FS_RemoveElement DEF Points

\* One abscissa more.
LEMMA BasisRemove ==
  ASSUME NEW x, NEW S, Points(x, S), NEW i \in S, NEW m \in S, i # m
  PROVE  gf_mul(Basis(x, S, i), Xor(x[m], x[i])) = gf_mul(x[m], Basis(x, S \ {m}, i))
<1> DEFINE R == S \ {m}
           d == Differences(x, S, i)
           c == Differences(x, R, i)
<1>0. Points(x, R) /\ i \in R /\ m \in S \ {i} /\ (S \ {i}) \ {m} = R \ {i}
      /\ IsFiniteSet(S \ {i}) /\ IsFiniteSet(R \ {i})
  BY PointsFewer, FS_RemoveElement DEF Points
<1>1. PICK b \in Elem, num \in Elem \ {0}, den \in Elem \ {0} :
         /\ b = Basis(x, S, i) /\ num = Product(x, S \ {i}) /\ den = Product(d, S \ {i})
         /\ gf_mul(b, den) = num
  BY BasisType
<1>2. PICK b1 \in Elem, num1 \in Elem \ {0}, den1 \in Elem \ {0} :
         /\ b1 = Basis(x, R, i) /\ num1 = Product(x, R \ {i}) /\ den1 = Product(c, R \ {i})
         /\ gf_mul(b1, den1) = num1
  <2> HIDE DEF R
  <2> QED BY <1>0, BasisType
<1>3. \A j \in S : x[j] \in Elem
  BY DEF Points
<1>4. PICK e \in Elem : e = Xor(x[m], x[i])
  BY <1>3, XorInElem
<1>5. PICK y \in Elem : y = x[m]
  BY <1>3
<1>6. num = gf_mul(y, num1)
  <2>1. Elems(x, S \ {i})
    BY <1>3 DEF Elems
  <2>2. Product(x, S \ {i}) = gf_mul(x[m], Product(x, (S \ {i}) \ {m}))
    BY <1>0, <2>1, ProductEquation
  <2> HIDE DEF R
  <2> QED BY <1>0, <1>1, <1>2, <1>5, <2>2
<1>7. den = gf_mul(e, den1)
  <2>1. \A j \in S \ {i} : d[j] = Xor(x[j], x[i]) /\ d[j] \in Elem
    <3>1. x[i] \in Elem
      BY <1>3
    <3> SUFFICES ASSUME NEW j \in S \ {i} PROVE d[j] = Xor(x[j], x[i]) /\ d[j] \in Elem
      OBVIOUS
    <3>2. d[j] = gf_sub(x[j], x[i])
      BY DEF Differences
    <3>3. x[j] \in Elem
      BY <1>3
    <3> HIDE DEF d
    <3>4. gf_sub(x[j], x[i]) = Xor(x[j], x[i])
      BY <3>1, <3>3, AddTable
    <3>5. Xor(x[j], x[i]) \in Elem
      BY <3>1, <3>3, XorInElem
    <3> QED BY <3>2, <3>4, <3>5
  <2>2. \A j \in R \ {i} : c[j] = d[j]
    BY DEF Differences
  <2> HIDE DEF d, c, R
  <2>3. Elems(d, S \ {i}) /\ Elems(c, R \ {i})
    BY <1>0, <2>1, <2>2 DEF Elems
  <2>4. Product(d, S \ {i}) = gf_mul(d[m], Product(d, (S \ {i}) \ {m}))
    BY <1>0, <2>3, ProductEquation
  <2>5. Product(c, R \ {i}) = Product(d, R \ {i})
    BY <1>0, <2>2, <2>3, ProductEquation
  <2>6. d[m] = e
    BY <1>0, <1>4, <2>1
  <2> QED BY <1>0, <1>1, <1>2, <2>4, <2>5, <2>6
<1> HIDE DEF R, d, c
<1>8. gf_mul(den1, gf_mul(b, e)) = num
  <2>1. gf_mul(b, gf_mul(e, den1)) = gf_mul(gf_mul(b, e), den1)
    BY MulAssociates
  <2>2. gf_mul(gf_mul(b, e), den1) = gf_mul(den1, gf_mul(b, e))
    BY MulType, MulCommutes
  <2> QED BY <1>1, <1>7, <2>1, <2>2
<1>9. gf_mul(den1, gf_mul(y, b1)) = num
  <2>1. gf_mul(y, gf_mul(b1, den1)) = gf_mul(gf_mul(y, b1), den1)
    BY MulAssociates
  <2>2. gf_mul(gf_mul(y, b1), den1) = gf_mul(den1, gf_mul(y, b1))
    BY MulType, MulCommutes
  <2> QED BY <1>2, <1>6, <2>1, <2>2
<1>10. gf_mul(b, e) = gf_mul(y, b1)
  <2>1. gf_mul(b, e) \in Elem /\ gf_mul(y, b1) \in Elem
    BY MulType
  <2> QED BY <1>8, <1>9, <2>1, MulCancels
<1> QED BY <1>1, <1>2, <1>4, <1>5, <1>10 DEF R

\* The terms of the sum are bytes.
LEMMA InterpType ==
  ASSUME NEW x, NEW S, Points(x, S), NEW f, Elems(f, S)
  PROVE  /\ Interp(x, S, f) \in Elem
         /\ \A h : (\A i \in S : h[i] = gf_mul(Basis(x, S, i), f[i])) => Sum(h, S) = Interp(x, S, f)
         /\ \A g : (\A i \in S : g[i] = f[i]) => Interp(x, S, g) = Interp(x, S, f)
<1> DEFINE t == [i \in S |-> gf_mul(Basis(x, S, i), f[i])]
<1>1. \A i \in S : t[i] = gf_mul(Basis(x, S, i), f[i]) /\ t[i] \in Elem
  <2> SUFFICES ASSUME NEW i \in S PROVE gf_mul(Basis(x, S, i), f[i]) \in Elem
    OBVIOUS
  <2>1. Basis(x, S, i) \in Elem /\ f[i] \in Elem
    BY BasisType DEF Elems
  <2> QED BY <2>1, MulType
<1>2. Interp(x, S, f) = Sum(t, S)
  BY DEF Interp
<1>3. ASSUME NEW g, \A i \in S : g[i] = f[i] PROVE Interp(x, S, g) = Interp(x, S, f)
  <2>1. [i \in S |-> gf_mul(Basis(x, S, i), g[i])] = [i \in S |-> gf_mul(Basis(x, S, i), f[i])]
    BY <1>3
  <2> QED BY <2>1 DEF Interp
<1> HIDE DEF t
<1>4. IsFiniteSet(S) /\ Elems(t, S)
  BY <1>1 DEF Points, Elems
<1>5. Sum(t, S) \in Elem /\ \A h : (\A i \in S : t[i] = h[i]) => Sum(t, S) = Sum(h, S)
  BY <1>4, SumEquation
<1> QED BY <1>1, <1>2, <1>3, <1>5

\* A factor x[m] - x[i] in every term removes the share m from the sum.
LEMMA InterpShift ==
  ASSUME NEW x, NEW S, Points(x, S), NEW m \in S, NEW f, Elems(f, S),
         NEW h, \A i \in S : h[i] = gf_mul(Basis(x, S, i), gf_mul(Xor(x[m], x[i]), f[i]))
  PROVE  Elems(h, S) /\ Sum(h, S) = gf_mul(x[m], Interp(x, S \ {m}, f))
<1> DEFINE R == S \ {m}
           t == [i \in R |-> gf_mul(Basis(x, R, i), f[i])]
<1>1. Points(x, R) /\ Elems(f, R) /\ IsFiniteSet(S) /\ IsFiniteSet(R)
  BY PointsFewer DEF Elems, Points
<1>2. \A i \in S : x[i] \in Elem /\ f[i] \in Elem /\ Basis(x, S, i) \in Elem
  BY BasisType DEF Points, Elems
<1>3. ASSUME NEW i \in S PROVE h[i] \in Elem
  <2>1. Xor(x[m], x[i]) \in Elem
    BY <1>2, XorInElem
  <2>2. gf_mul(Xor(x[m], x[i]), f[i]) \in Elem
    BY <1>2, <2>1, MulType
  <2> QED BY <1>2, <2>2, MulType
<1>4. h[m] = 0
  <2>1. x[m] \in Nat
    BY <1>2, Sizes
  <2>2. Xor(x[m], x[m]) = 0
    BY <2>1, XorSelf
  <2> QED BY <1>2, <2>2, MulType
<1>5. ASSUME NEW i \in R PROVE t[i] \in Elem /\ h[i] = gf_mul(x[m], t[i])
  <2>1. i \in S /\ i # m
    OBVIOUS
  <2>2. PICK b \in Elem : b = Basis(x, S, i)
    BY <1>2
  <2>3. PICK b1 \in Elem : b1 = Basis(x, R, i)
    <3> HIDE DEF R
    <3> QED BY <1>1, BasisType
  <2>4. PICK e \in Elem : e = Xor(x[m], x[i])
    BY <1>2, <2>1, XorInElem
  <2>5. gf_mul(b, e) = gf_mul(x[m], b1)
    BY <2>1, <2>2, <2>3, <2>4, BasisRemove
  <2>6. x[m] \in Elem /\ f[i] \in Elem
    BY <1>2, <2>1
  <2>7. gf_mul(b, gf_mul(e, f[i])) = gf_mul(gf_mul(b, e), f[i])
    BY <2>6, MulAssociates
  <2>8. gf_mul(gf_mul(x[m], b1), f[i]) = gf_mul(x[m], gf_mul(b1, f[i]))
    BY <2>6, MulAssociates
  <2>9. t[i] = gf_mul(b1, f[i])
    BY <2>3
  <2>10. h[i] = gf_mul(b, gf_mul(e, f[i]))
    BY <2>1, <2>2, <2>4
  <2>11. t[i] \in Elem
    BY <2>6, <2>9, MulType
  <2> HIDE DEF t
  <2> QED BY <2>5, <2>7, <2>8, <2>9, <2>10, <2>11
<1>6. Sum(h, S) = Sum(h, R)
  <2>1. Elems(h, S) /\ Elems(h, R)
    BY <1>3 DEF Elems
  <2>2. Sum(h, S) = Xor(h[m], Sum(h, R)) /\ Sum(h, R) \in Elem
    BY <1>1, <2>1, SumEquation
  <2>3. Sum(h, R) \in Nat
    BY <2>2, Sizes
  <2> QED BY <1>4, <2>2, <2>3, XorZero
<1>7. Sum(t, R) = Interp(x, R, f)
  BY DEF Interp
<1>8. Sum(h, R) = gf_mul(x[m], Sum(t, R))
  <2>1. Elems(t, R)
    BY <1>5 DEF Elems
  <2>2. x[m] \in Elem
    BY <1>2
  <2> HIDE DEF t, R
  <2> QED BY <1>1, <1>5, <2>1, <2>2, SumScales
<1> QED BY <1>3, <1>6, <1>7, <1>8 DEF Elems

\* The basis polynomials add up to 1.
LEMMA InterpOne ==
  ASSUME NEW x, NEW S, Points(x, S), S # {}, NEW f, \A i \in S : f[i] = 1
  PROVE  Interp(x, S, f) = 1
<1> DEFINE T == {s \in SUBSET S : s # {} => Interp(x, s, f) = 1}
<1>0. IsFiniteSet(S) /\ 1 \in Elem /\ 0 \in Elem
  BY Sizes DEF Points
<1>1. ASSUME NEW s \in SUBSET S PROVE Points(x, s) /\ Elems(f, s) /\ IsFiniteSet(s)
  BY <1>0, FS_Subset DEF Points, Elems
<1>2. ASSUME NEW s \in SUBSET S, \A m \in s : s \ {m} \in T PROVE s \in T
  <2> SUFFICES ASSUME s # {} PROVE Interp(x, s, f) = 1
    OBVIOUS
  <2>1. PICK m \in s : TRUE
    OBVIOUS
  <2>a. Points(x, s) /\ Elems(f, s) /\ IsFiniteSet(s)
    BY <1>1
  <2>b. \A i \in s : f[i] = 1 /\ x[i] \in Elem /\ Basis(x, s, i) \in Elem
    BY <2>a, BasisType DEF Points
  <2>2. CASE s = {m}
    <3> DEFINE b == Basis(x, s, m)
               t == [i \in s |-> gf_mul(Basis(x, s, i), f[i])]
    <3>1. s \ {m} = {}
      BY <2>2
    <3>2. Product(x, {}) = 1 /\ Product(Differences(x, s, m), {}) = 1
      <4>1. IsFiniteSet({}) /\ Elems(x, {}) /\ Elems(Differences(x, s, m), {})
        BY FS_EmptySet DEF Elems
      <4> QED BY <4>1, ProductEquation
    <3>3. gf_mul(b, 1) = 1
      BY <2>a, <3>1, <3>2, BasisType
    <3>4. b \in Elem
      BY <2>b
    <3>5. b = 1
      BY <3>3, <3>4, MulOne
    <3>6. Interp(x, s, f) = Sum(t, s)
      BY DEF Interp
    <3>7. t[m] = 1 /\ \A i \in s : t[i] = 1
      <4>1. gf_mul(1, 1) = 1
        BY <1>0, MulOne
      <4> QED BY <2>2, <2>b, <3>5, <4>1
    <3> HIDE DEF t
    <3>8. Elems(t, s) /\ Elems(t, {}) /\ IsFiniteSet({})
      BY <1>0, <3>7, FS_EmptySet DEF Elems
    <3>9. Sum(t, s) = Xor(1, Sum(t, {})) /\ Sum(t, {}) = 0
      <4>1. Sum(t, s) = Xor(t[m], Sum(t, s \ {m}))
        BY <2>a, <3>8, SumEquation
      <4>2. Sum(t, {}) = 0
        BY <3>8, SumEquation
      <4> QED BY <3>1, <3>7, <4>1, <4>2
    <3>10. Xor(1, 0) = 1
      BY XorZero
    <3> QED BY <3>6, <3>9, <3>10
  <2>3. CASE s # {m}
    <3>1. PICK n \in s : n # m
      BY <2>3
    <3> DEFINE hm == [i \in s |-> gf_mul(Basis(x, s, i), gf_mul(Xor(x[m], x[i]), f[i]))]
               hn == [i \in s |-> gf_mul(Basis(x, s, i), gf_mul(Xor(x[n], x[i]), f[i]))]
               h == [i \in s |-> Xor(hm[i], hn[i])]
               t == [i \in s |-> gf_mul(Basis(x, s, i), f[i])]
               e == Xor(x[m], x[n])
    <3>2. Interp(x, s \ {m}, f) = 1 /\ Interp(x, s \ {n}, f) = 1
      <4>1. s \ {m} # {} /\ s \ {n} # {}
        BY <3>1
      <4> QED BY <1>2, <4>1
    <3>3. Elems(hm, s) /\ Sum(hm, s) = gf_mul(x[m], 1)
      BY <2>a, <3>2, InterpShift
    <3>4. Elems(hn, s) /\ Sum(hn, s) = gf_mul(x[n], 1)
      BY <2>a, <3>2, InterpShift
    <3>5. x[m] \in Elem /\ x[n] \in Elem /\ e \in Elem \ {0}
      BY <2>a, <2>b, <3>1, PointsDiffer
    <3>6. Sum(hm, s) = x[m] /\ Sum(hn, s) = x[n]
      BY <3>3, <3>4, <3>5, MulOne
    <3>7. \A i \in s : h[i] = Xor(hm[i], hn[i])
      OBVIOUS
    <3>8. Sum(h, s) = Xor(x[m], x[n])
      <4> HIDE DEF h, hm, hn
      <4> QED BY <2>a, <3>3, <3>4, <3>6, <3>7, SumAdds
    <3>9. ASSUME NEW i \in s PROVE h[i] = gf_mul(e, t[i]) /\ t[i] \in Elem
      <4>1. PICK b \in Elem : b = Basis(x, s, i)
        BY <2>b
      <4>2. PICK u \in Elem : u = Xor(x[m], x[i])
        BY <2>b, XorInElem
      <4>3. PICK v \in Elem : v = Xor(x[n], x[i])
        BY <2>b, XorInElem
      <4>4. hm[i] = gf_mul(b, u) /\ hn[i] = gf_mul(b, v)
        BY <2>b, <4>1, <4>2, <4>3, MulOne
      <4>5. Xor(gf_mul(b, u), gf_mul(b, v)) = gf_mul(b, Xor(u, v))
        BY MulDistributes
      <4>6. Xor(u, v) = e
        <5>1. x[m] \in Nat /\ x[n] \in Nat /\ x[i] \in Nat
          BY <2>b, Sizes
        <5> QED BY <4>2, <4>3, <5>1, XorSwap
      <4>7. t[i] = b
        BY <2>b, <4>1, MulOne
      <4>8. gf_mul(b, e) = gf_mul(e, b)
        <5> HIDE DEF e
        <5> QED BY <3>5, MulCommutes
      <4>9. h[i] = Xor(hm[i], hn[i])
        OBVIOUS
      <4> HIDE DEF h, hm, hn, t, e
      <4> QED BY <4>4, <4>5, <4>6, <4>7, <4>8, <4>9
    <3>10. Interp(x, s, f) = Sum(t, s)
      BY DEF Interp
    <3>11. Interp(x, s, f) \in Elem
      BY <2>a, InterpType
    <3>12. Sum(h, s) = gf_mul(e, Sum(t, s))
      <4> HIDE DEF h, t, e
      <4>1. Elems(t, s)
        BY <3>9 DEF Elems
      <4> QED BY <2>a, <3>5, <3>9, <4>1, SumScales
    <3>13. gf_mul(e, 1) = e
      <4> HIDE DEF e
      <4> QED BY <3>5, MulOne
    <3> HIDE DEF h, t, hm, hn
    <3>14. gf_mul(e, Interp(x, s, f)) = gf_mul(e, 1)
      BY <3>8, <3>10, <3>12, <3>13
    <3> HIDE DEF e
    <3> QED BY <1>0, <3>5, <3>11, <3>14, MulCancels
  <2> QED BY <2>2, <2>3
<1>3. Grows(T, S)
  <2> HIDE DEF T
  <2> QED BY <1>2 DEF Grows
<1>4. SUBSET S \subseteq T
  <2> HIDE DEF T
  <2> QED BY <1>0, <1>3, SubsetInduct
<1> QED BY <1>4

\* A constant and x times the rest.
LEMMA InterpHorner ==
  ASSUME NEW x, NEW S, Points(x, S), NEW m \in S, NEW c \in Elem, NEW q, Elems(q, S),
         NEW f, \A i \in S : f[i] = Xor(gf_mul(q[i], x[i]), c)
  PROVE  /\ Elems(f, S)
         /\ Interp(x, S, f) = Xor(c, gf_mul(x[m], Xor(Interp(x, S, q), Interp(x, S \ {m}, q))))
<1> DEFINE one == [i \in S |-> 1]
           tq == [i \in S |-> gf_mul(Basis(x, S, i), q[i])]
           t1 == [i \in S |-> gf_mul(Basis(x, S, i), one[i])]
           u == [i \in S |-> gf_mul(c, t1[i])]
           v == [i \in S |-> gf_mul(x[m], tq[i])]
           w == [i \in S |-> gf_mul(Basis(x, S, i), gf_mul(Xor(x[m], x[i]), q[i]))]
           vw == [i \in S |-> Xor(v[i], w[i])]
           t == [i \in S |-> gf_mul(Basis(x, S, i), f[i])]
<1>0. IsFiniteSet(S) /\ 1 \in Elem
      /\ \A i \in S : x[i] \in Elem /\ q[i] \in Elem /\ Basis(x, S, i) \in Elem
  BY Sizes, BasisType DEF Points, Elems
<1>1. ASSUME NEW i \in S
      PROVE  /\ t1[i] = Basis(x, S, i) /\ t1[i] \in Elem /\ tq[i] \in Elem
             /\ u[i] \in Elem /\ v[i] \in Elem
             /\ t[i] = Xor(u[i], vw[i])
             /\ f[i] \in Elem
  <2>1. PICK b \in Elem : b = Basis(x, S, i)
    BY <1>0
  <2>2. PICK y \in Elem : y = x[i]
    BY <1>0
  <2>3. PICK z \in Elem : z = x[m]
    BY <1>0
  <2>4. PICK r \in Elem : r = q[i]
    BY <1>0
  <2>5. t1[i] = b
    BY <2>1, MulOne
  <2>6. tq[i] = gf_mul(b, r) /\ gf_mul(b, r) \in Elem
    BY <2>1, <2>4, MulType
  <2>7. u[i] = gf_mul(c, b) /\ gf_mul(c, b) \in Elem
    <3>1. u[i] = gf_mul(c, t1[i])
      OBVIOUS
    <3> QED BY <2>5, <3>1, MulType
  <2>8. v[i] = gf_mul(z, gf_mul(b, r)) /\ gf_mul(z, gf_mul(b, r)) \in Elem
    <3>1. v[i] = gf_mul(x[m], tq[i])
      OBVIOUS
    <3> QED BY <2>3, <2>6, <3>1, MulType
  <2>9. w[i] = gf_mul(b, gf_mul(Xor(z, y), r))
    BY <2>1, <2>2, <2>3, <2>4
  <2>10. t[i] = gf_mul(b, Xor(gf_mul(r, y), c)) /\ f[i] = Xor(gf_mul(r, y), c)
    BY <2>1, <2>2, <2>4
  <2>11. gf_mul(r, y) \in Elem /\ gf_mul(r, z) \in Elem /\ gf_mul(b, c) \in Elem
         /\ gf_mul(b, gf_mul(r, y)) \in Elem /\ gf_mul(b, gf_mul(r, z)) \in Elem /\ Xor(z, y) \in Elem
    BY MulType, XorInElem
  <2>12. gf_mul(b, Xor(gf_mul(r, y), c)) = Xor(gf_mul(b, gf_mul(r, y)), gf_mul(b, c))
    BY <2>11, MulDistributes
  <2>13. w[i] = Xor(gf_mul(b, gf_mul(r, z)), gf_mul(b, gf_mul(r, y)))
    <3>1. gf_mul(Xor(z, y), r) = gf_mul(r, Xor(z, y))
      BY <2>11, MulCommutes
    <3>2. gf_mul(r, Xor(z, y)) = Xor(gf_mul(r, z), gf_mul(r, y))
      BY MulDistributes
    <3>3. gf_mul(b, Xor(gf_mul(r, z), gf_mul(r, y))) = Xor(gf_mul(b, gf_mul(r, z)), gf_mul(b, gf_mul(r, y)))
      BY <2>11, MulDistributes
    <3> QED BY <2>9, <3>1, <3>2, <3>3
  <2>14. v[i] = gf_mul(b, gf_mul(r, z))
    <3>1. gf_mul(z, gf_mul(b, r)) = gf_mul(gf_mul(b, r), z)
      BY <2>6, MulCommutes
    <3> QED BY <2>8, <3>1, MulAssociates
  <2>15. vw[i] = gf_mul(b, gf_mul(r, y))
    <3>1. vw[i] = Xor(v[i], w[i])
      OBVIOUS
    <3>2. PICK g \in Nat : g = gf_mul(b, gf_mul(r, z))
      BY <2>11, Sizes
    <3>3. PICK k \in Nat : k = gf_mul(b, gf_mul(r, y))
      BY <2>11, Sizes
    <3>4. Xor(g, Xor(g, k)) = Xor(Xor(g, g), k) /\ Xor(g, g) = 0 /\ Xor(0, k) = k
      BY XorAssociates, XorSelf, XorZero
    <3> HIDE DEF vw, v, w
    <3> QED BY <2>13, <2>14, <3>1, <3>2, <3>3, <3>4
  <2>16. gf_mul(b, c) = gf_mul(c, b)
    BY MulCommutes
  <2>17. Xor(gf_mul(b, gf_mul(r, y)), gf_mul(b, c)) = Xor(gf_mul(b, c), gf_mul(b, gf_mul(r, y)))
    <3>1. gf_mul(b, gf_mul(r, y)) \in Nat /\ gf_mul(b, c) \in Nat
      BY <2>11, Sizes
    <3> QED BY <3>1, XorCommutes
  <2>18. f[i] \in Elem
    BY <2>10, <2>11, XorInElem
  <2> HIDE DEF t1, tq, u, v, w, vw, t
  <2>19. t[i] = Xor(u[i], vw[i])
    BY <2>7, <2>10, <2>12, <2>15, <2>16, <2>17
  <2> QED BY <2>1, <2>5, <2>6, <2>7, <2>8, <2>18, <2>19
<1>2. Elems(f, S) /\ Elems(t1, S) /\ Elems(tq, S) /\ Elems(u, S) /\ Elems(v, S)
  <2> HIDE DEF t1, tq, u, v, w, vw, t
  <2> QED BY <1>1 DEF Elems
<1>3. Sum(t1, S) = 1
  <2>1. Interp(x, S, one) = 1
    BY InterpOne
  <2> QED BY <2>1 DEF Interp
<1>4. Sum(u, S) = c
  <2>1. Sum(u, S) = gf_mul(c, Sum(t1, S))
    <3>1. \A i \in S : u[i] = gf_mul(c, t1[i])
      OBVIOUS
    <3> HIDE DEF t1, u
    <3> QED BY <1>0, <1>2, <3>1, SumScales
  <2> QED BY <1>3, <2>1, MulOne
<1>5. Sum(v, S) = gf_mul(x[m], Interp(x, S, q))
  <2>1. Interp(x, S, q) = Sum(tq, S)
    BY DEF Interp
  <2>2. \A i \in S : v[i] = gf_mul(x[m], tq[i])
    OBVIOUS
  <2> HIDE DEF v, tq
  <2> QED BY <1>0, <1>2, <2>1, <2>2, SumScales
<1>6. Elems(w, S) /\ Sum(w, S) = gf_mul(x[m], Interp(x, S \ {m}, q))
  BY InterpShift
<1>7. Sum(vw, S) = Xor(Sum(v, S), Sum(w, S)) /\ Elems(vw, S)
  <2>1. \A i \in S : vw[i] = Xor(v[i], w[i])
    OBVIOUS
  <2> HIDE DEF vw, v, w
  <2>2. Elems(vw, S)
    BY <1>2, <1>6, <2>1, XorInElem DEF Elems
  <2> QED BY <1>0, <1>2, <1>6, <2>1, <2>2, SumAdds
<1>8. Sum(t, S) = Xor(Sum(u, S), Sum(vw, S))
  <2> HIDE DEF t, u, v, w, vw, t1, tq
  <2> QED BY <1>0, <1>1, <1>2, <1>7, SumAdds
<1>9. Interp(x, S, f) = Sum(t, S)
  BY DEF Interp
<1>10. Points(x, S \ {m}) /\ Elems(q, S \ {m})
  BY PointsFewer DEF Elems
<1>11. Interp(x, S, q) \in Elem /\ Interp(x, S \ {m}, q) \in Elem
  BY <1>10, InterpType
<1>12. gf_mul(x[m], Xor(Interp(x, S, q), Interp(x, S \ {m}, q)))
         = Xor(gf_mul(x[m], Interp(x, S, q)), gf_mul(x[m], Interp(x, S \ {m}, q)))
  BY <1>0, <1>11, MulDistributes
<1> HIDE DEF t, u, v, w, vw, t1, tq
<1> QED BY <1>2, <1>4, <1>5, <1>6, <1>7, <1>8, <1>9, <1>12

-----------------------------------------------------------------------------
(* Polynomials: gf_poly_eval with the values it passes through. *)

\* The values of gf_poly_eval's accumulator: h[j] after coefficient j.
IsHorner(h, coeff, k, x) ==
  /\ h \in [1 .. k + 1 -> Elem]
  /\ h[k + 1] = 0
  /\ \A j \in 1 .. k : h[j] = Xor(gf_mul(h[j + 1], x), coeff[j])

LEMMA HornerExists ==
  ASSUME NEW k \in Nat, NEW coeff \in [1 .. k -> Elem], NEW x \in Elem
  PROVE  \E h : IsHorner(h, coeff, k, x) /\ gf_poly_eval(coeff, x) = h[1]
<1> DEFINE I == 1 .. k
           D == SUBSET I
           rank == [s \in D |-> Cardinality(s)]
           E(g, s) == IF s = {} THEN 0 ELSE gf_add(gf_mul(g[s \ {Min(s)}], x), coeff[Min(s)])
           Body == [g \in [D -> Elem] |-> [s \in D |-> E(g, s)]]
<1>0. IsFiniteSet(I) /\ 0 \in Elem
  BY FS_Interval, Sizes
<1>1. \A s \in D : IsFiniteSet(s) /\ Cardinality(s) \in Nat
  <2> HIDE DEF I
  <2> QED BY <1>0, FS_Subset, FS_CardinalityType
<1>2. rank \in [D -> Nat]
  BY <1>1
<1>3. ASSUME NEW s \in D, s # {} PROVE Min(s) \in s
  <2>1. s \subseteq Nat
    OBVIOUS
  <2>2. \E n \in s : \A l \in s : n <= l
    BY <1>3, <2>1, LeastElement
  <2> QED BY <2>2 DEF Min
<1>4. ASSUME NEW g \in [D -> Elem], NEW s \in D PROVE E(g, s) \in Elem
  <2>1. CASE s = {}
    BY <1>0, <2>1
  <2>2. CASE s # {}
    <3>1. Min(s) \in I /\ s \ {Min(s)} \in D
      BY <1>3, <2>2
    <3>2. coeff[Min(s)] \in Elem /\ g[s \ {Min(s)}] \in Elem
      BY <3>1
    <3>3. gf_mul(g[s \ {Min(s)}], x) \in Elem
      BY <3>2, MulType
    <3>4. gf_add(gf_mul(g[s \ {Min(s)}], x), coeff[Min(s)]) \in Elem
      BY <3>2, <3>3, AddType
    <3> QED BY <2>2, <3>4
  <2> QED BY <2>1, <2>2
<1>5. Body \in [[D -> Elem] -> [D -> Elem]]
  <2> HIDE DEF E, D
  <2> QED BY <1>4
<1>6. ASSUME NEW g \in [D -> Elem], NEW h \in [D -> Elem], NEW s \in D,
             \A r \in D : rank[r] < rank[s] => g[r] = h[r]
      PROVE  Body[g][s] = Body[h][s]
  <2>1. CASE s = {}
    BY <2>1
  <2>2. CASE s # {}
    <3>1. PICK c \in s : c = Min(s)
      BY <1>3, <2>2
    <3>2. s \ {c} \in D /\ Cardinality(s \ {c}) = Cardinality(s) - 1
      BY <1>1, FS_RemoveElement
    <3>3. rank[s \ {c}] < rank[s]
      BY <1>1, <3>2
    <3>4. g[s \ {c}] = h[s \ {c}]
      BY <1>6, <3>2, <3>3
    <3>5. E(g, s) = E(h, s)
      BY <3>1, <3>4
    <3> HIDE DEF E
    <3> QED BY <3>5
  <2> QED BY <2>1, <2>2
<1>7. Descends(D, Elem, rank, Body)
  <2> HIDE DEF rank, Body, D
  <2> QED BY <1>0, <1>2, <1>5, <1>6 DEF Descends
<1>8. \E g \in [D -> Elem] : g = Body[g]
  <2> HIDE DEF rank, Body, D
  <2> QED BY <1>7, Solution
<1>9. PICK g : g = CHOOSE gg : gg = [s \in D |-> E(gg, s)]
  OBVIOUS
<1>10. g = [s \in D |-> E(g, s)] /\ gf_poly_eval(coeff, x) = g[I]
  <2>1. \E gg : gg = [s \in D |-> E(gg, s)]
    BY <1>8
  <2>2. DOMAIN coeff = I
    OBVIOUS
  <2>3. g = [s \in D |-> E(g, s)]
    BY <1>9, <2>1
  <2>4. gf_poly_eval(coeff, x) = g[I]
    BY <1>9, <2>2 DEF gf_poly_eval, FoldRight, MapThenFoldSet
  <2> QED BY <2>3, <2>4
<1>11. \A s \in D : g[s] \in Elem
  <2> DEFINE T == {s \in D : g[s] \in Elem}
  <2>1. ASSUME NEW s \in D, \A m \in s : s \ {m} \in T PROVE s \in T
    <3>1. CASE s = {}
      BY <1>0, <1>10, <3>1
    <3>2. CASE s # {}
      <4>1. PICK c \in s : c = Min(s)
        BY <1>3, <3>2
      <4>2. g[s \ {c}] \in Elem /\ coeff[c] \in Elem
        BY <2>1
      <4>3. gf_mul(g[s \ {c}], x) \in Elem
        BY <4>2, MulType
      <4>4. gf_add(gf_mul(g[s \ {c}], x), coeff[c]) \in Elem
        BY <4>2, <4>3, AddTable, XorInElem
      <4>5. g[s] = gf_add(gf_mul(g[s \ {c}], x), coeff[c])
        BY <1>10, <3>2, <4>1
      <4> QED BY <4>4, <4>5
    <3> QED BY <3>1, <3>2
  <2>2. Grows(T, I)
    <3> HIDE DEF T, I
    <3> QED BY <2>1 DEF Grows
  <2>3. SUBSET I \subseteq T
    <3> HIDE DEF T, I
    <3> QED BY <1>0, <2>2, SubsetInduct
  <2> QED BY <2>3
<1> DEFINE h == [j \in 1 .. k + 1 |-> g[j .. k]]
<1>12. \A j \in 1 .. k + 1 : j .. k \in D /\ h[j] = g[j .. k]
  OBVIOUS
<1>13. h \in [1 .. k + 1 -> Elem]
  BY <1>11, <1>12
<1>14. h[k + 1] = 0
  <2>1. k + 1 .. k = {} /\ k + 1 \in 1 .. k + 1
    OBVIOUS
  <2>2. g[{}] = 0
    BY <1>10
  <2> QED BY <2>1, <2>2
<1>15. ASSUME NEW j \in 1 .. k PROVE h[j] = Xor(gf_mul(h[j + 1], x), coeff[j])
  <2>1. j \in 1 .. k + 1 /\ j + 1 \in 1 .. k + 1 /\ (j .. k) \ {j} = (j + 1) .. k /\ j \in j .. k
        /\ j .. k \in D /\ (j + 1) .. k \in D
    OBVIOUS
  <2>2. Min(j .. k) = j
    BY DEF Min
  <2>3. g[j .. k] = gf_add(gf_mul(g[(j + 1) .. k], x), coeff[j])
    <3>1. j .. k # {}
      BY <2>1
    <3> QED BY <1>10, <2>1, <2>2, <3>1
  <2>4. g[(j + 1) .. k] \in Elem /\ coeff[j] \in Elem
    BY <1>11, <2>1
  <2>5. gf_mul(g[(j + 1) .. k], x) \in Elem
    BY <2>4, MulType
  <2> QED BY <1>12, <2>1, <2>3, <2>4, <2>5, AddTable
<1>16. h[1] = g[I]
  OBVIOUS
<1> HIDE DEF h
<1>17. IsHorner(h, coeff, k, x)
  BY <1>13, <1>14, <1>15 DEF IsHorner
<1> QED BY <1>10, <1>16, <1>17

LEMMA HornerUnique ==
  ASSUME NEW k \in Nat, NEW coeff \in [1 .. k -> Elem], NEW x \in Elem,
         NEW h, IsHorner(h, coeff, k, x)
  PROVE  gf_poly_eval(coeff, x) = h[1] /\ gf_poly_eval(coeff, x) \in Elem
<1>1. PICK g : IsHorner(g, coeff, k, x) /\ gf_poly_eval(coeff, x) = g[1]
  BY HornerExists
<1> DEFINE T == {n \in Nat : n \in 0 .. k => g[k + 1 - n] = h[k + 1 - n]}
<1>2. 0 \in T
  BY <1>1 DEF IsHorner
<1>3. ASSUME NEW n \in Nat, n \in T PROVE n + 1 \in T
  <2> SUFFICES ASSUME n + 1 \in 0 .. k PROVE g[k + 1 - (n + 1)] = h[k + 1 - (n + 1)]
    OBVIOUS
  <2>1. PICK j \in 1 .. k : j = k + 1 - (n + 1) /\ j + 1 = k + 1 - n
    OBVIOUS
  <2>2. g[j + 1] = h[j + 1]
    BY <1>3, <2>1
  <2>3. g[j] = h[j]
    BY <1>1, <2>2 DEF IsHorner
  <2> QED BY <2>1, <2>3
<1>4. Nat \subseteq T
  <2> HIDE DEF T
  <2> QED BY <1>2, <1>3, NatInduct
<1>5. k \in T /\ k + 1 - k = 1
  BY <1>4
<1>6. g[1] = h[1]
  BY <1>5
<1>7. g[1] \in Elem
  BY <1>1 DEF IsHorner
<1> QED BY <1>1, <1>6, <1>7

LEMMA InterpZero ==
  ASSUME NEW x, NEW S, Points(x, S), NEW f, \A i \in S : f[i] = 0
  PROVE  Interp(x, S, f) = 0
<1> DEFINE t == [i \in S |-> gf_mul(Basis(x, S, i), f[i])]
<1>1. ASSUME NEW i \in S PROVE t[i] = 0
  <2>1. Basis(x, S, i) \in Elem
    BY BasisType
  <2>2. gf_mul(Basis(x, S, i), 0) = 0
    BY <2>1, MulType
  <2> QED BY <2>2
<1>2. Interp(x, S, f) = Sum(t, S)
  BY DEF Interp
<1>3. 0 \in Elem /\ gf_mul(0, 0) = 0
  BY Sizes, MulType
<1> HIDE DEF t
<1>4. Elems(t, S) /\ \A i \in S : t[i] = gf_mul(0, t[i])
  BY <1>1, <1>3 DEF Elems
<1>5. IsFiniteSet(S)
  BY DEF Points
<1>6. Sum(t, S) = gf_mul(0, Sum(t, S)) /\ Sum(t, S) \in Elem
  BY <1>3, <1>4, <1>5, SumScales, SumEquation
<1> QED BY <1>2, <1>6, MulType

\* The shares of a polynomial of n coefficients give its constant, whenever
\* there are at least n of them; here for the polynomials gf_poly_eval passes.
Remainders(hh, R, j) == [i \in R |-> hh[i][j]]

LEMMA InterpTails ==
  ASSUME NEW k \in Nat, NEW coeff \in [1 .. k -> Elem], NEW x, NEW S, Points(x, S),
         NEW hh, \A i \in S : IsHorner(hh[i], coeff, k, x[i])
  PROVE  \A n \in Nat : n \in 0 .. k =>
           \A R \in SUBSET S : (R # {} /\ Cardinality(R) >= n) =>
             Interp(x, R, Remainders(hh, R, k + 1 - n)) = IF n = 0 THEN 0 ELSE coeff[k + 1 - n]
<1> DEFINE Good(n) == \A R \in SUBSET S : (R # {} /\ Cardinality(R) >= n) =>
                        Interp(x, R, Remainders(hh, R, k + 1 - n)) = IF n = 0 THEN 0 ELSE coeff[k + 1 - n]
           T == {n \in Nat : n \in 0 .. k => Good(n)}
<1>0. ASSUME NEW R \in SUBSET S PROVE Points(x, R) /\ IsFiniteSet(R) /\ Cardinality(R) \in Nat
  BY FS_Subset, FS_CardinalityType DEF Points
<1>a. \A R \in SUBSET S : \A i \in R : Remainders(hh, R, k + 1)[i] = 0
  BY DEF IsHorner, Remainders
<1>1. 0 \in T
  <2> SUFFICES ASSUME NEW R \in SUBSET S PROVE Interp(x, R, Remainders(hh, R, k + 1 - 0)) = 0
    OBVIOUS
  <2>1. k + 1 - 0 = k + 1
    OBVIOUS
  <2>2. \A i \in R : Remainders(hh, R, k + 1)[i] = 0
    BY <1>a
  <2>3. Interp(x, R, Remainders(hh, R, k + 1)) = 0
    BY <1>0, <2>2, InterpZero
  <2> QED BY <2>1, <2>3
<1>2. ASSUME NEW n \in Nat, n \in T PROVE n + 1 \in T
  <2> SUFFICES ASSUME n + 1 \in 0 .. k, NEW R \in SUBSET S, R # {}, Cardinality(R) >= n + 1
               PROVE  Interp(x, R, Remainders(hh, R, k + 1 - (n + 1))) = coeff[k + 1 - (n + 1)]
    OBVIOUS
  <2>1. PICK j \in 1 .. k : j = k + 1 - (n + 1) /\ j + 1 = k + 1 - n /\ n \in 0 .. k
    OBVIOUS
  <2>2. Good(n)
    BY <1>2, <2>1
  <2>3. PICK m \in R : TRUE
    OBVIOUS
  <2> DEFINE P == R \ {m}
             q == Remainders(hh, R, j + 1)
             q1 == Remainders(hh, P, j + 1)
             f == Remainders(hh, R, j)
  <2>4. Points(x, R) /\ Points(x, P) /\ P \in SUBSET S /\ IsFiniteSet(R) /\ Cardinality(R) \in Nat
        /\ Cardinality(P) = Cardinality(R) - 1 /\ IsFiniteSet(P)
    BY <1>0, FS_RemoveElement
  <2>5. \A i \in R : q[i] \in Elem /\ f[i] = Xor(gf_mul(q[i], x[i]), coeff[j])
    BY DEF IsHorner, Remainders
  <2>6. \A i \in P : q1[i] = q[i]
    BY DEF Remainders
  <2> HIDE DEF q, q1, f, P
  <2>7. Elems(q, R) /\ Elems(q, P)
    BY <2>5 DEF Elems, P
  <2>8. Interp(x, P, q1) = Interp(x, P, q)
    BY <2>4, <2>6, <2>7, InterpType
  <2>9. Interp(x, R, f) = Xor(coeff[j], gf_mul(x[m], Xor(Interp(x, R, q), Interp(x, P, q))))
    <3>1. coeff[j] \in Elem
      OBVIOUS
    <3>2. Interp(x, R, f) = Xor(coeff[j], gf_mul(x[m], Xor(Interp(x, R, q), Interp(x, R \ {m}, q))))
      BY <2>4, <2>5, <2>7, <3>1, InterpHorner
    <3> QED BY <3>2 DEF P
  <2>10. Interp(x, R, q) = Interp(x, P, q)
    <3>1. CASE n = 0
      <4>1. j + 1 = k + 1
        BY <2>1, <3>1
      <4>2. \A i \in R : q[i] = 0
        BY <1>a, <4>1 DEF q
      <4>3. \A i \in P : q[i] = 0
        BY <4>2 DEF P
      <4> QED BY <2>4, <4>2, <4>3, InterpZero
    <3>2. CASE n # 0
      <4>1. P # {}
        BY <2>4, <3>2, FS_EmptySet
      <4>2. Cardinality(P) >= n /\ Cardinality(R) >= n
        BY <2>4
      <4>3. Interp(x, R, q) = coeff[j + 1]
        BY <2>1, <2>2, <3>2, <4>2 DEF q
      <4>4. Interp(x, P, q1) = coeff[j + 1]
        BY <2>1, <2>2, <2>4, <3>2, <4>1, <4>2 DEF q1
      <4> QED BY <2>8, <4>3, <4>4
    <3> QED BY <3>1, <3>2
  <2>11. Interp(x, P, q) \in Elem /\ x[m] \in Elem /\ coeff[j] \in Elem
    BY <2>4, <2>7, InterpType DEF Points
  <2>12. Interp(x, P, q) \in Nat /\ coeff[j] \in Nat
    BY <2>11, Sizes
  <2>13. Xor(Interp(x, P, q), Interp(x, P, q)) = 0
    BY <2>12, XorSelf
  <2>14. gf_mul(x[m], 0) = 0 /\ Xor(coeff[j], 0) = coeff[j]
    BY <2>11, <2>12, MulType, XorZero
  <2>15. Interp(x, R, f) = coeff[j]
    BY <2>9, <2>10, <2>13, <2>14
  <2> QED BY <2>1, <2>15 DEF f
<1>3. Nat \subseteq T
  <2> HIDE DEF T
  <2> QED BY <1>1, <1>2, NatInduct
<1> QED BY <1>3

HornerOf(coeff, k, x) == CHOOSE h : IsHorner(h, coeff, k, x)

LEMMA HornerValue ==
  ASSUME NEW k \in Nat, NEW coeff \in [1 .. k -> Elem], NEW x \in Elem
  PROVE  /\ IsHorner(HornerOf(coeff, k, x), coeff, k, x)
         /\ gf_poly_eval(coeff, x) = HornerOf(coeff, k, x)[1]
         /\ gf_poly_eval(coeff, x) \in Elem
<1>1. \E h : IsHorner(h, coeff, k, x)
  BY HornerExists
<1>2. IsHorner(HornerOf(coeff, k, x), coeff, k, x)
  BY <1>1 DEF HornerOf
<1> QED BY <1>2, HornerUnique

\* Enough shares give the constant.
LEMMA Recovery ==
  ASSUME NEW k \in Nat, k >= 1, NEW coeff \in [1 .. k -> Elem], NEW x, NEW S, Points(x, S),
         Cardinality(S) >= k, NEW f, \A i \in S : f[i] = gf_poly_eval(coeff, x[i])
  PROVE  Elems(f, S) /\ Interp(x, S, f) = coeff[1]
<1> DEFINE hh == [i \in S |-> HornerOf(coeff, k, x[i])]
<1>1. ASSUME NEW i \in S
      PROVE  IsHorner(hh[i], coeff, k, x[i]) /\ f[i] = hh[i][1] /\ f[i] \in Elem
  <2>1. x[i] \in Elem
    BY DEF Points
  <2> QED BY <2>1, HornerValue
<1> HIDE DEF hh
<1>2. S # {}
  BY FS_EmptySet
<1>3. k + 1 - k = 1 /\ k \in 0 .. k /\ k # 0 /\ S \in SUBSET S
  OBVIOUS
<1>4. Interp(x, S, Remainders(hh, S, k + 1 - k)) = coeff[k + 1 - k]
  BY <1>1, <1>2, <1>3, InterpTails
<1>5. Elems(f, S)
  BY <1>1 DEF Elems
<1>6. \A i \in S : Remainders(hh, S, 1)[i] = f[i]
  BY <1>1 DEF Remainders
<1>7. Interp(x, S, Remainders(hh, S, 1)) = Interp(x, S, f)
  BY <1>5, <1>6, InterpType
<1> QED BY <1>3, <1>4, <1>5, <1>7

\* One wrong value always shows.
LEMMA WrongValueShows ==
  ASSUME NEW x, NEW S, Points(x, S), NEW f, Elems(f, S), NEW g, Elems(g, S), NEW m \in S,
         \A i \in S : i # m => f[i] = g[i], f[m] # g[m]
  PROVE  Interp(x, S, f) # Interp(x, S, g)
<1> SUFFICES ASSUME Interp(x, S, f) = Interp(x, S, g) PROVE FALSE
  OBVIOUS
<1> DEFINE t == [i \in S |-> gf_mul(Basis(x, S, i), f[i])]
           u == [i \in S |-> gf_mul(Basis(x, S, i), g[i])]
           b == Basis(x, S, m)
<1>0. IsFiniteSet(S) /\ IsFiniteSet(S \ {m})
  BY FS_RemoveElement DEF Points
<1>1. ASSUME NEW i \in S PROVE t[i] \in Elem /\ u[i] \in Elem
  <2>1. Basis(x, S, i) \in Elem /\ f[i] \in Elem /\ g[i] \in Elem
    BY BasisType DEF Elems
  <2> QED BY <2>1, MulType
<1>2. \A i \in S \ {m} : t[i] = u[i]
  OBVIOUS
<1>3. t[m] = gf_mul(b, f[m]) /\ u[m] = gf_mul(b, g[m])
  OBVIOUS
<1>4. Sum(t, S) = Sum(u, S)
  BY DEF Interp
<1> HIDE DEF t, u
<1>5. Elems(t, S) /\ Elems(u, S) /\ Elems(t, S \ {m})
  BY <1>1 DEF Elems
<1>6. PICK r \in Elem : r = Sum(t, S \ {m}) /\ r = Sum(u, S \ {m})
  BY <1>0, <1>2, <1>5, SumEquation
<1>7. Xor(t[m], r) = Xor(u[m], r)
  <2>1. Sum(t, S) = Xor(t[m], Sum(t, S \ {m}))
    BY <1>0, <1>5, SumEquation
  <2>2. Sum(u, S) = Xor(u[m], Sum(u, S \ {m}))
    BY <1>0, <1>5, SumEquation
  <2> QED BY <1>4, <1>6, <2>1, <2>2
<1>8. t[m] = u[m]
  <2>1. t[m] \in Nat /\ u[m] \in Nat /\ r \in Nat
    BY <1>1, Sizes
  <2>2. Xor(Xor(t[m], r), r) = t[m] /\ Xor(Xor(u[m], r), r) = u[m]
    <3>1. Xor(r, r) = 0 /\ Xor(t[m], 0) = t[m] /\ Xor(u[m], 0) = u[m]
      BY <2>1, XorSelf, XorZero
    <3> QED BY <2>1, <3>1, XorAssociates
  <2> QED BY <1>7, <2>2
<1>9. b \in Elem \ {0} /\ f[m] \in Elem /\ g[m] \in Elem
  BY BasisType DEF Elems
<1> HIDE DEF b
<1> QED BY <1>3, <1>8, <1>9, MulCancels

\* Polynomials with the same constant and the same values at one abscissa
\* fewer than they have coefficients are the same.
LEMMA SamePolynomial ==
  ASSUME NEW k \in Nat, k >= 1, NEW a \in [1 .. k -> Elem], NEW b \in [1 .. k -> Elem], a[1] = b[1],
         NEW x, NEW S, Points(x, S), Cardinality(S) >= k - 1,
         \A i \in S : gf_poly_eval(a, x[i]) = gf_poly_eval(b, x[i])
  PROVE  a = b
<1> DEFINE ha == [i \in S |-> HornerOf(a, k, x[i])]
           hb == [i \in S |-> HornerOf(b, k, x[i])]
           Same(j) == a[j] = b[j] /\ \A i \in S : ha[i][j] = hb[i][j]
           T == {n \in Nat : n + 1 \in 1 .. k => Same(n + 1)}
<1>0. \A i \in S : x[i] \in Elem \ {0}
  BY DEF Points
<1>1. ASSUME NEW i \in S
      PROVE  IsHorner(ha[i], a, k, x[i]) /\ IsHorner(hb[i], b, k, x[i]) /\ ha[i][1] = hb[i][1]
  BY <1>0, HornerValue
<1>2. 0 \in T
  <2>1. Same(1)
    <3> HIDE DEF ha, hb
    <3> QED BY <1>1
  <2> QED BY <2>1
<1> HIDE DEF ha, hb
<1>3. ASSUME NEW n \in Nat, n \in T PROVE n + 1 \in T
  <2> SUFFICES ASSUME (n + 1) + 1 \in 1 .. k PROVE Same((n + 1) + 1)
    OBVIOUS
  <2>1. PICK j \in 1 .. k : j = n + 1
    OBVIOUS
  <2>2. Same(j)
    BY <1>3, <2>1
  <2>3. j + 1 \in 1 .. k /\ k + 1 - (k - j) = j + 1 /\ k - j \in Nat /\ k - j \in 0 .. k /\ k - j # 0
        /\ Cardinality(S) >= k - j
    <3>1. IsFiniteSet(S)
      BY DEF Points
    <3>2. Cardinality(S) \in Nat
      BY <3>1, FS_CardinalityType
    <3> QED BY <2>1, <3>2
  <2>4. ASSUME NEW i \in S PROVE ha[i][j + 1] = hb[i][j + 1]
    <3>1. PICK u \in Elem : u = ha[i][j + 1]
      BY <1>1, <2>3 DEF IsHorner
    <3>2. PICK v \in Elem : v = hb[i][j + 1]
      BY <1>1, <2>3 DEF IsHorner
    <3>3. PICK y \in Elem \ {0} : y = x[i]
      BY <1>0
    <3>4. ha[i][j] = Xor(gf_mul(u, y), a[j])
      BY <1>1, <3>1, <3>3 DEF IsHorner
    <3>5. hb[i][j] = Xor(gf_mul(v, y), b[j])
      BY <1>1, <3>2, <3>3 DEF IsHorner
    <3>6. PICK c \in Elem : c = a[j] /\ c = b[j]
      BY <2>2
    <3>7. PICK s \in Elem : s = gf_mul(y, u) /\ s = gf_mul(u, y)
      BY MulType, MulCommutes
    <3>8. PICK t \in Elem : t = gf_mul(y, v) /\ t = gf_mul(v, y)
      BY MulType, MulCommutes
    <3>9. Xor(s, c) = Xor(t, c)
      BY <2>2, <3>4, <3>5, <3>6, <3>7, <3>8
    <3>10. s = t
      <4>1. s \in Nat /\ t \in Nat /\ c \in Nat
        BY Sizes
      <4>2. Xor(Xor(s, c), c) = s /\ Xor(Xor(t, c), c) = t
        <5>1. Xor(c, c) = 0 /\ Xor(s, 0) = s /\ Xor(t, 0) = t
          BY <4>1, XorSelf, XorZero
        <5> QED BY <4>1, <5>1, XorAssociates
      <4> QED BY <3>9, <4>2
    <3>11. gf_mul(y, u) = gf_mul(y, v)
      BY <3>7, <3>8, <3>10
    <3>12. u = v
      BY <3>11, MulCancels
    <3> QED BY <3>1, <3>2, <3>12
  <2>5. a[j + 1] = b[j + 1]
    <3>1. S # {} /\ S \in SUBSET S
      <4>1. Cardinality(S) # 0
        BY <2>1, <2>3
      <4> QED BY <4>1, FS_EmptySet
    <3>2. Interp(x, S, Remainders(ha, S, k + 1 - (k - j))) = a[k + 1 - (k - j)]
      BY <1>1, <2>3, <3>1, InterpTails
    <3>3. Interp(x, S, Remainders(hb, S, k + 1 - (k - j))) = b[k + 1 - (k - j)]
      BY <1>1, <2>3, <3>1, InterpTails
    <3>4. Remainders(ha, S, j + 1) = Remainders(hb, S, j + 1)
      BY <2>4 DEF Remainders
    <3> QED BY <2>3, <3>2, <3>3, <3>4
  <2> QED BY <2>1, <2>4, <2>5
<1>4. Nat \subseteq T
  <2> HIDE DEF T
  <2> QED BY <1>2, <1>3, NatInduct
<1>5. ASSUME NEW j \in 1 .. k PROVE a[j] = b[j]
  <2>1. PICK n \in Nat : n + 1 = j
    <3>1. j - 1 \in Nat /\ (j - 1) + 1 = j
      OBVIOUS
    <3> QED BY <3>1
  <2> QED BY <1>4, <2>1
<1> QED BY <1>5

\* The polynomial c + (X - z) q.
LEMMA LinearFactor ==
  ASSUME NEW n \in Nat, NEW q \in [1 .. n -> Elem], NEW c \in Elem, NEW z \in Elem
  PROVE  \E p \in [1 .. n + 1 -> Elem] : \A x \in Elem :
           gf_poly_eval(p, x) = Xor(c, gf_mul(Xor(x, z), gf_poly_eval(q, x)))
<1> DEFINE lead(j) == IF j = 1 THEN c ELSE q[j - 1]
           last(j) == IF j = n + 1 THEN 0 ELSE gf_mul(z, q[j])
           p == [j \in 1 .. n + 1 |-> Xor(lead(j), last(j))]
<1>0. 0 \in Elem
  BY Sizes
<1>1. ASSUME NEW j \in 1 .. n + 1 PROVE lead(j) \in Elem /\ last(j) \in Elem
  <2>1. lead(j) \in Elem
    <3>1. CASE j = 1
      BY <3>1
    <3>2. CASE j # 1
      <4>1. j - 1 \in 1 .. n
        BY <3>2
      <4> QED BY <3>2, <4>1
    <3> QED BY <3>1, <3>2
  <2>2. last(j) \in Elem
    <3>1. CASE j = n + 1
      BY <1>0, <3>1
    <3>2. CASE j # n + 1
      <4>1. j \in 1 .. n
        BY <3>2
      <4>2. q[j] \in Elem
        BY <4>1
      <4> QED BY <3>2, <4>2, MulType
    <3> QED BY <3>1, <3>2
  <2> QED BY <2>1, <2>2
<1>2. p \in [1 .. n + 1 -> Elem]
  <2>1. \A j \in 1 .. n + 1 : Xor(lead(j), last(j)) \in Elem
    <3> HIDE DEF lead, last
    <3> QED BY <1>1, XorInElem
  <2> HIDE DEF lead, last
  <2> QED BY <2>1
<1>3. ASSUME NEW x \in Elem
      PROVE  gf_poly_eval(p, x) = Xor(c, gf_mul(Xor(x, z), gf_poly_eval(q, x)))
  <2>1. PICK hq : IsHorner(hq, q, n, x) /\ gf_poly_eval(q, x) = hq[1]
    BY HornerExists
  <2>2. PICK e \in Elem : e = Xor(x, z)
    BY XorInElem
  <2> DEFINE hp == [j \in 1 .. n + 2 |->
                      IF j = n + 2 THEN 0 ELSE Xor(lead(j), gf_mul(e, hq[j]))]
  <2>3. \A j \in 1 .. n + 1 : hq[j] \in Elem
    BY <2>1 DEF IsHorner
  <2>4. ASSUME NEW j \in 1 .. n + 1
        PROVE  hp[j] = Xor(lead(j), gf_mul(e, hq[j])) /\ hp[j] \in Elem
    <3>1. gf_mul(e, hq[j]) \in Elem
      BY <2>3, MulType
    <3>2. Xor(lead(j), gf_mul(e, hq[j])) \in Elem
      <4> HIDE DEF lead, last
      <4> QED BY <1>1, <3>1, XorInElem
    <3>3. j \in 1 .. n + 2 /\ j # n + 2
      OBVIOUS
    <3> HIDE DEF lead
    <3> QED BY <3>2, <3>3
  <2>5. hp[n + 2] = 0
    OBVIOUS
  <2>6. hp \in [1 .. (n + 1) + 1 -> Elem]
    <3>1. \A j \in 1 .. n + 2 : hp[j] \in Elem
      <4> HIDE DEF hp
      <4>1. \A j \in 1 .. n + 2 : j \in 1 .. n + 1 \/ j = n + 2
        OBVIOUS
      <4> QED BY <1>0, <2>4, <2>5, <4>1
    <3>2. (n + 1) + 1 = n + 2
      OBVIOUS
    <3>3. DOMAIN hp = 1 .. n + 2 /\ hp = [j \in 1 .. n + 2 |-> hp[j]]
      OBVIOUS
    <3> HIDE DEF hp
    <3> QED BY <3>1, <3>2, <3>3
  <2> HIDE DEF hp
  <2>7. ASSUME NEW j \in 1 .. n + 1 PROVE hp[j] = Xor(gf_mul(hp[j + 1], x), p[j])
    <3>0. PICK l \in Elem : l = lead(j)
      BY <1>1
    <3>1. p[j] = Xor(l, last(j))
      BY <3>0
    <3>2. CASE j = n + 1
      <4>1. hq[j] = 0 /\ last(j) = 0 /\ j + 1 = n + 2
        BY <2>1, <3>2 DEF IsHorner
      <4>2. gf_mul(e, 0) = 0 /\ gf_mul(0, x) = 0
        BY MulType
      <4>3. l \in Nat
        BY Sizes
      <4>4. hp[j] = Xor(l, 0) /\ Xor(l, 0) = l
        BY <2>4, <3>0, <4>1, <4>2, <4>3, XorZero
      <4>5. Xor(gf_mul(hp[j + 1], x), p[j]) = Xor(0, l) /\ Xor(0, l) = l
        <5> HIDE DEF lead, last, p
        <5> QED BY <2>5, <3>1, <4>1, <4>2, <4>3, <4>4, XorZero
      <4> QED BY <4>4, <4>5
    <3>3. CASE j # n + 1
      <4>1. j \in 1 .. n /\ j + 1 \in 1 .. n + 1 /\ j + 1 # 1 /\ (j + 1) - 1 = j
        BY <3>3
      <4>2. PICK r \in Elem : r = q[j]
        BY <4>1
      <4>3. PICK h \in Elem : h = hq[j + 1]
        BY <2>3, <4>1
      <4>4. lead(j + 1) = r /\ last(j) = gf_mul(z, r)
        BY <3>3, <4>1, <4>2
      <4>5. hq[j] = Xor(gf_mul(h, x), r)
        BY <2>1, <4>1, <4>2, <4>3 DEF IsHorner
      <4>6. hp[j + 1] = Xor(r, gf_mul(e, h))
        BY <2>4, <4>1, <4>3, <4>4
      <4>7. hp[j] = Xor(l, gf_mul(e, Xor(gf_mul(h, x), r)))
        BY <2>4, <3>0, <4>5
      <4>8. p[j] = Xor(l, gf_mul(z, r))
        BY <3>1, <4>4
      <4> HIDE DEF lead, last, p
      <4>9. PICK A \in Elem : A = gf_mul(e, gf_mul(h, x))
        BY MulType
      <4>10. PICK B \in Elem : B = gf_mul(x, r)
        BY MulType
      <4>11. PICK C \in Elem : C = gf_mul(z, r)
        BY MulType
      <4>12. gf_mul(e, Xor(gf_mul(h, x), r)) = Xor(A, Xor(B, C))
        <5>1. gf_mul(h, x) \in Elem
          BY MulType
        <5>2. gf_mul(e, Xor(gf_mul(h, x), r)) = Xor(A, gf_mul(e, r))
          BY <4>9, <5>1, MulDistributes
        <5>3. gf_mul(e, r) = gf_mul(r, e)
          BY MulCommutes
        <5>4. gf_mul(r, Xor(x, z)) = Xor(gf_mul(r, x), gf_mul(r, z))
          BY MulDistributes
        <5>5. gf_mul(r, x) = B /\ gf_mul(r, z) = C
          BY <4>10, <4>11, MulCommutes
        <5> QED BY <2>2, <5>2, <5>3, <5>4, <5>5
      <4>13. gf_mul(hp[j + 1], x) = Xor(B, A)
        <5>1. gf_mul(e, h) \in Elem
          BY MulType
        <5>2. Xor(r, gf_mul(e, h)) \in Elem
          BY <5>1, XorInElem
        <5>3. gf_mul(Xor(r, gf_mul(e, h)), x) = gf_mul(x, Xor(r, gf_mul(e, h)))
          BY <5>2, MulCommutes
        <5>4. gf_mul(x, Xor(r, gf_mul(e, h))) = Xor(gf_mul(x, r), gf_mul(x, gf_mul(e, h)))
          BY <5>1, MulDistributes
        <5>5. gf_mul(x, gf_mul(e, h)) = gf_mul(gf_mul(e, h), x)
          BY <5>1, MulCommutes
        <5>6. gf_mul(gf_mul(e, h), x) = A
          BY <4>9, MulAssociates
        <5> QED BY <4>6, <4>10, <5>3, <5>4, <5>5, <5>6
      <4>14. A \in Nat /\ B \in Nat /\ C \in Nat /\ l \in Nat
        BY Sizes
      <4>15. Xor(l, Xor(A, Xor(B, C))) = Xor(Xor(B, A), Xor(l, C))
        <5>1. PICK D \in Nat : D = Xor(A, B)
          BY <4>14, XorType
        <5>2. Xor(B, A) = D /\ Xor(A, Xor(B, C)) = Xor(D, C)
          BY <4>14, <5>1, XorCommutes, XorAssociates
        <5>3. Xor(l, Xor(D, C)) = Xor(Xor(l, D), C)
          BY <4>14, XorAssociates
        <5>4. Xor(D, Xor(l, C)) = Xor(Xor(D, l), C)
          BY <4>14, XorAssociates
        <5>5. Xor(l, D) = Xor(D, l)
          BY <4>14, XorCommutes
        <5> QED BY <5>2, <5>3, <5>4, <5>5
      <4> QED BY <4>7, <4>8, <4>11, <4>12, <4>13, <4>15
    <3> QED BY <3>2, <3>3
  <2>8. IsHorner(hp, p, n + 1, x)
    <3>1. (n + 1) + 1 = n + 2
      OBVIOUS
    <3> HIDE DEF p
    <3> QED BY <2>5, <2>6, <2>7, <3>1 DEF IsHorner
  <2>9. gf_poly_eval(p, x) = hp[1]
    <3>1. n + 1 \in Nat
      OBVIOUS
    <3> HIDE DEF p
    <3> QED BY <1>2, <2>8, <3>1, HornerUnique
  <2>10. hp[1] = Xor(c, gf_mul(e, hq[1]))
    <3>1. 1 \in 1 .. n + 1 /\ lead(1) = c
      OBVIOUS
    <3> QED BY <2>4, <3>1
  <2> QED BY <2>1, <2>2, <2>9, <2>10
<1> HIDE DEF p
<1> QED BY <1>2, <1>3

\* Through any points there is a polynomial with as many coefficients.
LEMMA PolynomialThrough ==
  ASSUME NEW S, IsFiniteSet(S), NEW x, Elems(x, S), \A i, j \in S : x[i] = x[j] => i = j,
         NEW y, Elems(y, S)
  PROVE  \E p \in [1 .. Cardinality(S) -> Elem] : \A i \in S : gf_poly_eval(p, x[i]) = y[i]
<1> DEFINE Through(p, s, v) == \A i \in s : gf_poly_eval(p, x[i]) = v[i]
           T == {s \in SUBSET S : \A v \in [S -> Elem] :
                   \E p \in [1 .. Cardinality(s) -> Elem] : Through(p, s, v)}
<1>0. \A i \in S : x[i] \in Elem
  BY DEF Elems
<1>1. ASSUME NEW s \in SUBSET S, \A m \in s : s \ {m} \in T PROVE s \in T
  <2> SUFFICES ASSUME NEW v \in [S -> Elem]
               PROVE  \E p \in [1 .. Cardinality(s) -> Elem] : Through(p, s, v)
    OBVIOUS
  <2>0. IsFiniteSet(s) /\ Cardinality(s) \in Nat
    BY FS_Subset, FS_CardinalityType
  <2>1. CASE s = {}
    <3>1. \A p : Through(p, s, v)
      BY <2>1
    <3>2. [j \in 1 .. Cardinality(s) |-> 0] \in [1 .. Cardinality(s) -> Elem]
      BY Sizes
    <3> QED BY <3>1, <3>2
  <2>2. CASE s # {}
    <3>1. PICK m \in s : TRUE
      BY <2>2
    <3> DEFINE w == [i \in S |-> gf_div(Xor(v[i], v[m]), Xor(x[i], x[m]))]
    <3>2. w \in [S -> Elem]
      <4> SUFFICES ASSUME NEW i \in S PROVE gf_div(Xor(v[i], v[m]), Xor(x[i], x[m])) \in Elem
        OBVIOUS
      <4>1. Xor(v[i], v[m]) \in Elem
        BY XorInElem
      <4>2. Xor(x[i], x[m]) \in Elem
        BY <1>0, XorInElem
      <4> QED BY <4>1, <4>2, DivUndoes
    <3>3. PICK n \in Nat : n = Cardinality(s \ {m}) /\ n + 1 = Cardinality(s)
      <4>1. IsFiniteSet(s \ {m}) /\ Cardinality(s \ {m}) = Cardinality(s) - 1
        BY <2>0, FS_RemoveElement
      <4>2. Cardinality(s \ {m}) \in Nat
        BY <4>1, FS_CardinalityType
      <4> QED BY <2>0, <4>1, <4>2
    <3>4. PICK q \in [1 .. n -> Elem] : Through(q, s \ {m}, w)
      <4>1. s \ {m} \in T
        BY <1>1
      <4> HIDE DEF w, Through
      <4> QED BY <3>2, <3>3, <4>1
    <3>5. PICK p \in [1 .. n + 1 -> Elem] : \A z \in Elem :
            gf_poly_eval(p, z) = Xor(v[m], gf_mul(Xor(z, x[m]), gf_poly_eval(q, z)))
      <4>1. v[m] \in Elem /\ x[m] \in Elem
        BY <1>0
      <4> QED BY <4>1, LinearFactor
    <3>6. ASSUME NEW i \in s PROVE gf_poly_eval(p, x[i]) = v[i]
      <4>0. x[i] \in Elem /\ x[m] \in Elem /\ v[i] \in Elem /\ v[m] \in Elem
            /\ v[i] \in Nat /\ v[m] \in Nat /\ x[i] \in Nat /\ x[m] \in Nat
        BY <1>0, Sizes
      <4>1. gf_poly_eval(p, x[i]) = Xor(v[m], gf_mul(Xor(x[i], x[m]), gf_poly_eval(q, x[i])))
        BY <3>5, <4>0
      <4>2. CASE i = m
        <5>1. Xor(x[i], x[m]) = 0
          BY <4>0, <4>2, XorSelf
        <5>2. gf_poly_eval(q, x[i]) \in Elem
          BY <4>0, HornerValue
        <5>3. gf_mul(0, gf_poly_eval(q, x[i])) = 0 /\ Xor(v[m], 0) = v[m]
          BY <4>0, <5>2, MulType, XorZero
        <5> QED BY <4>1, <4>2, <5>1, <5>3
      <4>3. CASE i # m
        <5>1. x[i] # x[m]
          BY <4>3
        <5>2. PICK e \in Elem \ {0} : e = Xor(x[i], x[m])
          BY <4>0, <5>1, XorInElem, XorDifference
        <5>3. PICK a \in Elem : a = Xor(v[i], v[m])
          BY <4>0, XorInElem
        <5>4. gf_poly_eval(q, x[i]) = gf_div(a, e)
          <6>1. i \in s \ {m} /\ i \in S
            BY <4>3
          <6>2. w[i] = gf_div(Xor(v[i], v[m]), Xor(x[i], x[m]))
            BY <6>1
          <6> HIDE DEF w
          <6> QED BY <3>4, <5>2, <5>3, <6>1, <6>2
        <5>5. gf_mul(gf_div(a, e), e) = a /\ gf_div(a, e) \in Elem
          BY DivUndoes
        <5>6. gf_mul(e, gf_div(a, e)) = a
          BY <5>5, MulCommutes
        <5>7. Xor(v[m], Xor(v[i], v[m])) = v[i]
          <6>1. Xor(v[i], v[m]) = Xor(v[m], v[i])
            BY <4>0, XorCommutes
          <6>2. Xor(v[m], Xor(v[m], v[i])) = Xor(Xor(v[m], v[m]), v[i])
            BY <4>0, XorAssociates
          <6>3. Xor(v[m], v[m]) = 0 /\ Xor(0, v[i]) = v[i]
            BY <4>0, XorSelf, XorZero
          <6> QED BY <6>1, <6>2, <6>3
        <5> QED BY <4>1, <5>2, <5>3, <5>4, <5>6, <5>7
      <4> QED BY <4>2, <4>3
    <3> QED BY <3>3, <3>6
  <2> QED BY <2>1, <2>2
<1>2. Grows(T, S)
  <2> HIDE DEF T
  <2> QED BY <1>1 DEF Grows
<1>3. SUBSET S \subseteq T
  <2> HIDE DEF T
  <2> QED BY <1>2, SubsetInduct
<1>4. S \in T
  BY <1>3
<1>5. [i \in S |-> y[i]] \in [S -> Elem]
  BY DEF Elems
<1> QED BY <1>4, <1>5

-----------------------------------------------------------------------------
(* sss_split and sss_combine. *)

LEMMA CoefficientsType ==
  ASSUME NEW k \in Nat, k >= 1, NEW byte \in Elem, NEW random \in [1 .. k - 1 -> Elem]
  PROVE  /\ Coefficients(byte, random) \in [1 .. k -> Elem]
         /\ Coefficients(byte, random)[1] = byte
         /\ \A j \in 1 .. k - 1 : Coefficients(byte, random)[j + 1] = random[j]
<1>1. random \in Seq(Elem) /\ Len(random) = k - 1
  OBVIOUS
<1>2. <<byte>> \in Seq(Elem) /\ Len(<<byte>>) = 1 /\ <<byte>>[1] = byte
  OBVIOUS
<1>3. Len(<<byte>> \o random) = k
  BY <1>1, <1>2
<1>4. <<byte>> \o random \in Seq(Elem)
  BY <1>1, <1>2
<1>5. (<<byte>> \o random)[1] = byte
  BY <1>1, <1>2
<1>6. \A j \in 1 .. k - 1 : (<<byte>> \o random)[j + 1] = random[j]
  BY <1>1, <1>2
<1>7. <<byte>> \o random \in [1 .. k -> Elem]
  <2>1. \A s \in Seq(Elem) : s \in [1 .. Len(s) -> Elem]
    OBVIOUS
  <2>2. <<byte>> \o random \in [1 .. Len(<<byte>> \o random) -> Elem]
    BY <1>4, <2>1
  <2> QED BY <1>3, <2>2
<1> QED BY <1>5, <1>6, <1>7 DEF Coefficients

\* What a share of sss_split holds.
LEMMA SplitType ==
  ASSUME NEW secret \in Seq(Elem), NEW n \in Nat, NEW k \in Nat, SplitAccepts(Len(secret), n, k),
         NEW draws \in Draws(Len(secret), k), NEW i \in 1 .. n
  PROVE  LET s == sss_split(secret, draws, n)
         IN  /\ i \in Elem \ {0}
             /\ s[i] \in Share /\ s[i].x = i /\ s[i].len = Len(secret)
             /\ \A b \in 1 .. Len(secret) :
                  /\ secret[b] \in Elem /\ draws[b] \in [1 .. k - 1 -> Elem]
                  /\ b \in 1 .. SSS_MAX_SECRET_LEN
                  /\ s[i].data[b] = gf_poly_eval(Coefficients(secret[b], draws[b]), i)
<1> DEFINE L == Len(secret)
           d == [b \in 1 .. SSS_MAX_SECRET_LEN |->
                   IF b <= L THEN gf_poly_eval(Coefficients(secret[b], draws[b]), i) ELSE 0]
<1>0. L \in Nat /\ L \in 1 .. SSS_MAX_SECRET_LEN /\ n <= FieldSize - 1 /\ k >= 2
      /\ SSS_MAX_SECRET_LEN \in Nat /\ FieldSize \in Nat
  BY LengthAssumption, Sizes DEF SplitAccepts
<1>1. i \in Elem \ {0}
  BY <1>0 DEF Elem
<1>2. ASSUME NEW b \in 1 .. L
      PROVE  secret[b] \in Elem /\ draws[b] \in [1 .. k - 1 -> Elem] /\ b \in 1 .. SSS_MAX_SECRET_LEN
             /\ gf_poly_eval(Coefficients(secret[b], draws[b]), i) \in Elem
  <2>1. secret[b] \in Elem /\ b \in 1 .. SSS_MAX_SECRET_LEN
    BY <1>0
  <2>2. draws[b] \in [1 .. k - 1 -> Elem]
    BY DEF Draws
  <2>3. Coefficients(secret[b], draws[b]) \in [1 .. k -> Elem]
    BY <1>0, <2>1, <2>2, CoefficientsType
  <2> QED BY <1>1, <2>1, <2>2, <2>3, HornerValue
<1>3. d \in [1 .. SSS_MAX_SECRET_LEN -> Elem]
  <2> SUFFICES ASSUME NEW b \in 1 .. SSS_MAX_SECRET_LEN
               PROVE  (IF b <= L THEN gf_poly_eval(Coefficients(secret[b], draws[b]), i) ELSE 0) \in Elem
    OBVIOUS
  <2>1. CASE b <= L
    <3>1. b \in 1 .. L
      BY <1>0, <2>1
    <3> QED BY <1>2, <2>1, <3>1
  <2>2. CASE ~(b <= L)
    BY <2>2, Sizes
  <2> QED BY <2>1, <2>2
<1>4. sss_split(secret, draws, n)[i] = [x |-> i, len |-> L, data |-> d]
  BY DEF sss_split
<1>5. \A b \in 1 .. L : d[b] = gf_poly_eval(Coefficients(secret[b], draws[b]), i)
  BY <1>0, <1>2
<1> HIDE DEF d
<1>6. sss_split(secret, draws, n)[i] \in Share
  BY <1>0, <1>1, <1>3, <1>4 DEF Share
<1> QED BY <1>1, <1>2, <1>4, <1>5, <1>6

\* Without distinct abscissas a term may be wrong, but it is a byte.
LEMMA BasisElem ==
  ASSUME NEW x, NEW S, IsFiniteSet(S), Elems(x, S), NEW i \in S
  PROVE  Basis(x, S, i) \in Elem
<1>1. IsFiniteSet(S \ {i}) /\ Elems(x, S \ {i})
  BY FS_RemoveElement DEF Elems
<1>2. ASSUME NEW j \in S \ {i} PROVE Differences(x, S, i)[j] \in Elem
  <2>1. x[j] \in Elem /\ x[i] \in Elem
    BY DEF Elems
  <2>2. gf_sub(x[j], x[i]) \in Elem
    BY <2>1, AddType
  <2> QED BY <2>2 DEF Differences
<1>3. Elems(Differences(x, S, i), S \ {i})
  BY <1>2 DEF Elems
<1>4. Product(x, S \ {i}) \in Elem /\ Product(Differences(x, S, i), S \ {i}) \in Elem
  BY <1>1, <1>3, ProductEquation
<1> QED BY <1>4, DivUndoes DEF Basis

\* sss_combine computes the sum of InterpType for every byte.
LEMMA CombineIsInterp ==
  ASSUME NEW m \in Nat, NEW shares \in [1 .. m -> Share], NEW secret_len \in Nat,
         NEW b \in 1 .. secret_len
  PROVE  sss_combine(shares, secret_len)[b]
           = Interp([i \in 1 .. m |-> shares[i].x], 1 .. m, [i \in 1 .. m |-> shares[i].data[b]])
<1> DEFINE x == [i \in 1 .. m |-> shares[i].x]
           bas == [i \in 1 .. m |-> lagrange_basis_0(x, i)]
           f == [i \in 1 .. m |-> shares[i].data[b]]
           t == [i \in 1 .. m |-> gf_mul(bas[i], shares[i].data[b])]
           u == [i \in 1 .. m |-> gf_mul(Basis(x, 1 .. m, i), f[i])]
<1>1. Len(shares) = m
  OBVIOUS
<1>2. sss_combine(shares, secret_len)[b] = FoldFunction(gf_add, 0, t)
  BY <1>1 DEF sss_combine
<1>3. DOMAIN t = 1 .. m /\ DOMAIN x = 1 .. m
  OBVIOUS
<1>4. FoldFunction(gf_add, 0, t) = Sum(t, 1 .. m)
  <2> HIDE DEF t
  <2> QED BY <1>3 DEF FoldFunction, Sum
<1>5. ASSUME NEW i \in 1 .. m PROVE lagrange_basis_0(x, i) = Basis(x, 1 .. m, i)
  BY <1>3 DEF lagrange_basis_0, Basis, Product, Differences
<1>6. t = u
  BY <1>5
<1> QED BY <1>2, <1>4, <1>6 DEF Interp

\* The bytes of a recovery are bytes.
LEMMA CombineType ==
  ASSUME NEW m \in Nat, NEW shares \in [1 .. m -> Share], NEW secret_len \in Nat,
         secret_len <= SSS_MAX_SECRET_LEN
  PROVE  sss_combine(shares, secret_len) \in [1 .. secret_len -> Elem]
<1> DEFINE x == [i \in 1 .. m |-> shares[i].x]
<1>1. ASSUME NEW b \in 1 .. secret_len PROVE sss_combine(shares, secret_len)[b] \in Elem
  <2> DEFINE f == [i \in 1 .. m |-> shares[i].data[b]]
             u == [i \in 1 .. m |-> gf_mul(Basis(x, 1 .. m, i), f[i])]
  <2>0. IsFiniteSet(1 .. m) /\ b \in 1 .. SSS_MAX_SECRET_LEN
    BY LengthAssumption, FS_Interval
  <2>1. \A i \in 1 .. m : x[i] \in Elem /\ f[i] \in Elem
    BY <2>0 DEF Share
  <2>2. sss_combine(shares, secret_len)[b] = Interp(x, 1 .. m, f)
    BY CombineIsInterp
  <2>3. Interp(x, 1 .. m, f) = Sum(u, 1 .. m)
    BY DEF Interp
  <2>4. \A i \in 1 .. m : u[i] = gf_mul(Basis(x, 1 .. m, i), f[i])
    OBVIOUS
  <2> HIDE DEF x, f, u
  <2>5. ASSUME NEW i \in 1 .. m PROVE u[i] \in Elem
    <3>1. Elems(x, 1 .. m)
      BY <2>1 DEF Elems
    <3>2. Basis(x, 1 .. m, i) \in Elem
      BY <2>0, <3>1, BasisElem
    <3> QED BY <2>1, <2>4, <3>2, MulType
  <2>6. Elems(u, 1 .. m)
    BY <2>5 DEF Elems
  <2> QED BY <2>0, <2>2, <2>3, <2>6, SumEquation
<1>2. DOMAIN sss_combine(shares, secret_len) = 1 .. secret_len
      /\ sss_combine(shares, secret_len)
           = [b \in 1 .. secret_len |-> sss_combine(shares, secret_len)[b]]
  BY DEF sss_combine
<1> QED BY <1>1, <1>2

\* Different abscissas, none of them 0.
Quota(shares, m) ==
  /\ \A i \in 1 .. m : shares[i].x # 0
  /\ \A i, j \in 1 .. m : shares[i].x = shares[j].x => i = j

\* In byte b the shares show values of one polynomial; or all but share w do.
OnPolynomial(shares, m, b, coeff) ==
  \A i \in 1 .. m : shares[i].data[b] = gf_poly_eval(coeff, shares[i].x)

OffPolynomialAt(shares, m, b, coeff, w) ==
  /\ shares[w].data[b] # gf_poly_eval(coeff, shares[w].x)
  /\ \A i \in 1 .. m : i # w => shares[i].data[b] = gf_poly_eval(coeff, shares[i].x)

\* Shares of one polynomial give its constant back; and if just one of them
\* is wrong, they give something else.
LEMMA CombineByte ==
  ASSUME NEW m \in Nat, NEW shares \in [1 .. m -> Share], NEW secret_len \in Nat,
         secret_len <= SSS_MAX_SECRET_LEN, NEW b \in 1 .. secret_len, Quota(shares, m),
         NEW k \in Nat, k >= 1, k <= m, NEW coeff \in [1 .. k -> Elem]
  PROVE  /\ OnPolynomial(shares, m, b, coeff) => sss_combine(shares, secret_len)[b] = coeff[1]
         /\ \A w \in 1 .. m :
              OffPolynomialAt(shares, m, b, coeff, w) => sss_combine(shares, secret_len)[b] # coeff[1]
<1> DEFINE I == 1 .. m
           x == [i \in I |-> shares[i].x]
           f == [i \in I |-> shares[i].data[b]]
           g == [i \in I |-> gf_poly_eval(coeff, shares[i].x)]
<1>0. b \in 1 .. SSS_MAX_SECRET_LEN
  BY LengthAssumption
<1>1. \A i \in I : x[i] = shares[i].x /\ f[i] = shares[i].data[b]
                   /\ g[i] = gf_poly_eval(coeff, x[i])
  OBVIOUS
<1>2. \A i \in I : x[i] \in Elem /\ f[i] \in Elem
  <2> SUFFICES ASSUME NEW i \in I PROVE shares[i].x \in Elem /\ shares[i].data[b] \in Elem
    OBVIOUS
  <2>1. shares[i] \in Share
    OBVIOUS
  <2> QED BY <1>0, <2>1 DEF Share
<1>3. sss_combine(shares, secret_len)[b] = Interp(x, I, f)
  BY CombineIsInterp, ZenonT(60)
<1>4. IsFiniteSet(I) /\ Cardinality(I) >= k
  BY FS_Interval
<1> HIDE DEF x, f, g, I
<1>5. Points(x, I)
  BY <1>1, <1>2, <1>4 DEF Points, Quota, I
<1>6. Elems(g, I) /\ Interp(x, I, g) = coeff[1]
  BY <1>1, <1>4, <1>5, Recovery
<1>7. Elems(f, I)
  BY <1>2 DEF Elems
<1>8. ASSUME OnPolynomial(shares, m, b, coeff)
      PROVE  sss_combine(shares, secret_len)[b] = coeff[1]
  <2>1. \A i \in I : f[i] = g[i]
    BY <1>1, <1>8 DEF I, OnPolynomial
  <2>2. Interp(x, I, f) = Interp(x, I, g)
    BY <1>5, <1>6, <2>1, InterpType
  <2> QED BY <1>3, <1>6, <2>2
<1>9. ASSUME NEW w \in 1 .. m, OffPolynomialAt(shares, m, b, coeff, w)
      PROVE  sss_combine(shares, secret_len)[b] # coeff[1]
  <2>1. w \in I /\ f[w] # g[w]
    BY <1>1, <1>9 DEF I, OffPolynomialAt
  <2>3. \A i \in I : i # w => f[i] = g[i]
    BY <1>1, <1>9 DEF I, OffPolynomialAt
  <2>2. Elems(g, I)
    BY <1>6
  <2>4. Interp(x, I, f) # Interp(x, I, g)
    BY <1>5, <1>7, <2>1, <2>2, <2>3, WrongValueShows
  <2> QED BY <1>3, <1>6, <2>4
<1> QED BY <1>8, <1>9

\* Every byte of a secret of L bytes has its polynomial.
EveryByte(shares, m, L, k, coeff, secret) ==
  \A b \in 1 .. L :
    /\ coeff[b] \in [1 .. k -> Elem] /\ coeff[b][1] = secret[b]
    /\ OnPolynomial(shares, m, b, coeff[b])

\* When every byte lies on a polynomial of its own, the secret is recovered.
LEMMA CombineRecovers ==
  ASSUME NEW m \in Nat, NEW shares \in [1 .. m -> Share], Quota(shares, m),
         NEW L \in Nat, L <= SSS_MAX_SECRET_LEN, NEW secret, secret \in [1 .. L -> Elem],
         NEW k \in Nat, k >= 1, k <= m, NEW coeff, EveryByte(shares, m, L, k, coeff, secret)
  PROVE  sss_combine(shares, L) = secret
<1>1. ASSUME NEW b \in 1 .. L PROVE sss_combine(shares, L)[b] = secret[b]
  <2>1. PICK c \in [1 .. k -> Elem] : c[1] = secret[b] /\ OnPolynomial(shares, m, b, c)
    BY DEF EveryByte
  <2>2. sss_combine(shares, L)[b] = c[1]
    BY <2>1, CombineByte
  <2> QED BY <2>1, <2>2
<1>2. sss_combine(shares, L) \in [1 .. L -> Elem]
  BY CombineType
<1> QED BY <1>1, <1>2

LEMMA ValueAtZero ==
  ASSUME NEW k \in Nat, k >= 1, NEW p \in [1 .. k -> Elem]
  PROVE  gf_poly_eval(p, 0) = p[1]
<1>0. 0 \in Elem
  BY Sizes
<1>1. PICK h : IsHorner(h, p, k, 0) /\ gf_poly_eval(p, 0) = h[1]
  BY <1>0, HornerExists
<1>2. h[1] = Xor(gf_mul(h[1 + 1], 0), p[1]) /\ h[1 + 1] \in Elem
  <2>1. 1 \in 1 .. k /\ 1 + 1 \in 1 .. k + 1
    OBVIOUS
  <2> QED BY <1>1, <2>1 DEF IsHorner
<1>3. p[1] \in Elem /\ p[1] \in Nat
  <2>1. 1 \in 1 .. k
    OBVIOUS
  <2>2. p[1] \in Elem
    BY <2>1
  <2> QED BY <2>2, Sizes
<1>4. gf_mul(h[1 + 1], 0) = 0 /\ Xor(0, p[1]) = p[1]
  BY <1>2, <1>3, MulType, XorZero
<1> QED BY <1>1, <1>2, <1>4

\* Whatever the byte, one choice of the random coefficients explains the
\* values y of one share fewer than the threshold.
Explains(random, byte, X, y) ==
  \A v \in X : gf_poly_eval(Coefficients(byte, random), v) = y[v]

LEMMA OneExplanation ==
  ASSUME NEW k \in Nat, k >= 1, NEW X \in SUBSET (Elem \ {0}), Cardinality(X) = k - 1,
         NEW byte \in Elem, NEW y, Elems(y, X)
  PROVE  \E random \in [1 .. k - 1 -> Elem] :
           /\ Explains(random, byte, X, y)
           /\ \A other \in [1 .. k - 1 -> Elem] : Explains(other, byte, X, y) => other = random
<1> DEFINE Z == X \cup {0}
           id == [v \in Z |-> v]
           all == [v \in Z |-> IF v = 0 THEN byte ELSE y[v]]
<1>0. IsFiniteSet(Elem) /\ 0 \in Elem
  BY Sizes
<1>1. IsFiniteSet(X) /\ 0 \notin X
  BY <1>0, FS_Subset
<1>2. IsFiniteSet(Z) /\ Cardinality(Z) = k
  BY <1>1, FS_AddElement
<1>3. Elems(id, Z) /\ (\A i, j \in Z : id[i] = id[j] => i = j) /\ Elems(all, Z)
  BY <1>0 DEF Elems
<1>4. PICK p \in [1 .. k -> Elem] : \A i \in Z : gf_poly_eval(p, id[i]) = all[i]
  <2>a. \A i, j \in Z : id[i] = id[j] => i = j
    OBVIOUS
  <2> HIDE DEF Z, id, all
  <2>b. Elems(id, Z) /\ Elems(all, Z)
    BY <1>3
  <2>c. IsFiniteSet(Z)
    BY <1>2
  <2>1. \E p \in [1 .. Cardinality(Z) -> Elem] : \A i \in Z : gf_poly_eval(p, id[i]) = all[i]
    BY <2>a, <2>b, <2>c, PolynomialThrough
  <2> QED BY <1>2, <2>1
<1>5. \A v \in X : gf_poly_eval(p, v) = y[v]
  BY <1>1, <1>4
<1>6. p[1] = byte
  <2>1. gf_poly_eval(p, 0) = byte
    BY <1>4
  <2> QED BY <2>1, ValueAtZero
<1> DEFINE r == [j \in 1 .. k - 1 |-> p[j + 1]]
<1>7. r \in [1 .. k - 1 -> Elem]
  <2>1. \A j \in 1 .. k - 1 : j + 1 \in 1 .. k
    OBVIOUS
  <2> QED BY <2>1
<1>8. Coefficients(byte, r) = p
  <2>1. \A j \in 1 .. k - 1 : r[j] = p[j + 1]
    OBVIOUS
  <2> HIDE DEF r
  <2>a. Coefficients(byte, r) \in [1 .. k -> Elem] /\ Coefficients(byte, r)[1] = byte
    BY <1>7, CoefficientsType
  <2>b. \A j \in 1 .. k - 1 : Coefficients(byte, r)[j + 1] = r[j]
    BY <1>7, CoefficientsType
  <2>2. Coefficients(byte, r) \in [1 .. k -> Elem] /\ Coefficients(byte, r)[1] = p[1]
        /\ \A j \in 1 .. k - 1 : Coefficients(byte, r)[j + 1] = p[j + 1]
    BY <1>6, <2>1, <2>a, <2>b
  <2>3. ASSUME NEW j \in 1 .. k PROVE Coefficients(byte, r)[j] = p[j]
    <3>1. CASE j = 1
      BY <2>2, <3>1
    <3>2. CASE j # 1
      <4>1. j - 1 \in 1 .. k - 1 /\ (j - 1) + 1 = j
        BY <3>2
      <4> QED BY <2>2, <4>1
    <3> QED BY <3>1, <3>2
  <2> QED BY <2>2, <2>3
<1>9. Explains(r, byte, X, y)
  BY <1>5, <1>8 DEF Explains
<1>10. Points(id, X)
  BY <1>1 DEF Points
<1> HIDE DEF r, Z, all
<1>11. ASSUME NEW o \in [1 .. k - 1 -> Elem], Explains(o, byte, X, y) PROVE o = r
  <2> DEFINE c == Coefficients(byte, o)
  <2>1. c \in [1 .. k -> Elem] /\ c[1] = byte /\ \A j \in 1 .. k - 1 : c[j + 1] = o[j]
    BY CoefficientsType
  <2>2. \A i \in X : id[i] = i
    BY DEF Z
  <2>3. \A i \in X : gf_poly_eval(c, id[i]) = gf_poly_eval(p, id[i])
    BY <1>5, <1>11, <2>2 DEF Explains
  <2> HIDE DEF c, id
  <2>4. c = p
    BY <1>6, <1>10, <2>1, <2>3, SamePolynomial, SMTT(30)
  <2>5. \A j \in 1 .. k - 1 : o[j] = p[j + 1] /\ r[j] = p[j + 1]
    BY <2>1, <2>4 DEF r
  <2> QED BY <1>7, <2>5
<1> QED BY <1>7, <1>9, <1>11

=============================================================================
