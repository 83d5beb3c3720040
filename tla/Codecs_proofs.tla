----------------------------- MODULE Codecs_proofs -----------------------------
(***************************************************************************)
(* What a user types comes back, and what a device deals is read: for any  *)
(* word lists, buffer sizes and texts that CodecsAssumption admits.        *)
(*                                                                         *)
(* A code's way is a matter of bits: regrouping keeps them in their order, *)
(* so that decoding an encoded share gives its bytes (CodeIsRead) and      *)
(* encoding a decoded code its characters (TakenCode).  A phrase's way is  *)
(* a matter of words: SpelledAt says where in a text they stand, Tokens    *)
(* finds just these, and Join writes a text that spells them.  What is     *)
(* compressed holds the indices of the words, and these are found again    *)
(* (ClassicRecovered, PassphraseRecovered, ClassicStable, PassphraseStable).*)
(* The invariant, CodecsInv, only says by which calls each value came.     *)
(***************************************************************************)
EXTENDS Codecs, FiniteSetTheorems, SequenceTheorems, TLAPS

-----------------------------------------------------------------------------
(* Induction. *)

\* Every set of numbers has a least one.
LEMMA LeastElement ==
  ASSUME NEW T, T \subseteq Nat, T # {}
  PROVE  \E m \in T : \A n \in T : m <= n
<1> DEFINE Below == {U \in SUBSET Nat : \E m \in T : U = 0 .. m}
           R == StrictSubsetOrdering(Nat)
<1>1. IsWellFoundedOn(R, FiniteSubsetsOf(Nat))
  BY FS_StrictSubsetOrderingWellFounded
<1>2. Below \subseteq FiniteSubsetsOf(Nat)
  BY FS_Interval DEF FiniteSubsetsOf
<1>3. Below # {}
  <2>1. PICK m \in T : m \in Nat
    OBVIOUS
  <2>2. 0 .. m \in Below
    BY <2>1
  <2> QED BY <2>2
<1>4. PICK U \in Below : \A V \in Below : <<V, U>> \notin R
  <2> HIDE DEF Below, R
  <2> QED BY <1>1, <1>2, <1>3, WFMin
<1>5. PICK m \in T : U = 0 .. m
  OBVIOUS
<1>6. \A n \in T : m <= n
  <2> SUFFICES ASSUME NEW n \in T, n < m PROVE FALSE
    OBVIOUS
  <2>1. (0 .. n) \in Below
    OBVIOUS
  <2>2. 0 .. n \subseteq 0 .. m /\ 0 .. n # 0 .. m
    OBVIOUS
  <2> QED BY <1>4, <1>5, <2>1, <2>2 DEF StrictSubsetOrdering
<1> QED BY <1>6

\* A set of numbers that has 0 and the successor of each of its members.
LEMMA NatInduct ==
  ASSUME NEW T, 0 \in T, \A n \in Nat : n \in T => n + 1 \in T
  PROVE  Nat \subseteq T
<1> SUFFICES ASSUME Nat \ T # {} PROVE FALSE
  OBVIOUS
<1>1. PICK m \in Nat \ T : \A n \in Nat \ T : m <= n
  BY LeastElement
<1>2. m # 0 /\ m - 1 \in Nat /\ m - 1 \in T /\ (m - 1) + 1 = m
  BY <1>1
<1> QED BY <1>1, <1>2

\* A recursive definition, as the function that makes its right-hand side out
\* of its left-hand side: it only asks for values of lower rank.
Descends(D, V, rank, Body) ==
  /\ V # {}
  /\ rank \in [D -> Nat]
  /\ Body \in [[D -> V] -> [D -> V]]
  /\ \A g, h \in [D -> V], x \in D :
       (\A y \in D : rank[y] < rank[x] => g[y] = h[y]) => Body[g][x] = Body[h][x]

\* Such a definition defines something.
LEMMA Solution ==
  ASSUME NEW D, NEW V, NEW rank, NEW Body, Descends(D, V, rank, Body)
  PROVE  \E g \in [D -> V] : g = Body[g]
<1> USE DEF Descends
<1>0. PICK v : v \in V
  OBVIOUS
<1> DEFINE Solves(g, n) == \A x \in D : rank[x] < n => g[x] = Body[g][x]
           Reached == {n \in Nat : \E g \in [D -> V] : Solves(g, n)}
           At(n) == CHOOSE g \in [D -> V] : Solves(g, n)
           limit == [x \in D |-> At(rank[x] + 1)[x]]
<1>1. Nat \subseteq Reached
  <2>1. 0 \in Reached
    <3>1. [x \in D |-> v] \in [D -> V]
      BY <1>0
    <3>2. \A x \in D : ~(rank[x] < 0)
      OBVIOUS
    <3> QED BY <3>1, <3>2
  <2>2. ASSUME NEW n \in Nat, n \in Reached PROVE n + 1 \in Reached
    <3>1. PICK g \in [D -> V] : Solves(g, n)
      BY <2>2
    <3>2. ASSUME NEW x \in D, rank[x] < n + 1 PROVE Body[g][x] = Body[Body[g]][x]
      <4>1. \A y \in D : rank[y] < rank[x] => g[y] = Body[g][y]
        BY <3>1, <3>2
      <4> QED BY <4>1
    <3>3. Body[g] \in [D -> V]
      OBVIOUS
    <3> QED BY <3>2, <3>3
  <2> HIDE DEF Reached
  <2> QED BY <2>1, <2>2, NatInduct
<1>2. \A n \in Nat : At(n) \in [D -> V] /\ Solves(At(n), n)
  BY <1>1
<1>3. ASSUME NEW g \in [D -> V], NEW h \in [D -> V], NEW n \in Nat, NEW m \in Nat,
             Solves(g, n), Solves(h, m), NEW x \in D, rank[x] < n, rank[x] < m
      PROVE  g[x] = h[x]
  <2> DEFINE Differ == {k \in Nat : \E y \in D : rank[y] = k /\ k < n /\ k < m /\ g[y] # h[y]}
  <2> SUFFICES ASSUME g[x] # h[x] PROVE FALSE
    OBVIOUS
  <2>1. rank[x] \in Differ
    BY <1>3
  <2>2. PICK k \in Differ : \A l \in Differ : k <= l
    <3> HIDE DEF Differ
    <3>1. Differ \subseteq Nat
      BY DEF Differ
    <3> QED BY <2>1, <3>1, LeastElement
  <2>3. PICK y \in D : rank[y] = k /\ k < n /\ k < m /\ g[y] # h[y]
    BY <2>2
  <2>4. \A z \in D : rank[z] < rank[y] => g[z] = h[z]
    BY <2>2, <2>3
  <2>5. Body[g][y] = Body[h][y]
    BY <2>4
  <2>6. g[y] = Body[g][y] /\ h[y] = Body[h][y]
    BY <1>3, <2>3
  <2> QED BY <2>3, <2>5, <2>6
<1> HIDE DEF At, Reached
<1>4. limit \in [D -> V]
  BY <1>2
<1>5. ASSUME NEW x \in D PROVE limit[x] = Body[limit][x]
  <2> DEFINE g == At(rank[x] + 1)
  <2>1. g \in [D -> V] /\ Solves(g, rank[x] + 1) /\ limit[x] = g[x]
    BY <1>2
  <2>2. ASSUME NEW y \in D, rank[y] < rank[x] PROVE limit[y] = g[y]
    <3>1. At(rank[y] + 1) \in [D -> V] /\ Solves(At(rank[y] + 1), rank[y] + 1)
      BY <1>2
    <3>2. rank[y] < rank[y] + 1 /\ rank[y] < rank[x] + 1 /\ rank[y] + 1 \in Nat /\ rank[x] + 1 \in Nat
      BY <2>2
    <3>3. At(rank[y] + 1)[y] = g[y]
      <4> HIDE DEF g, Solves, limit
      <4> QED BY <1>3, <2>1, <3>1, <3>2
    <3> QED BY <3>3
  <2> HIDE DEF g
  <2>3. Body[limit][x] = Body[g][x]
    <3> HIDE DEF limit
    <3> QED BY <1>4, <2>1, <2>2
  <2>4. g[x] = Body[g][x]
    BY <2>1
  <2> QED BY <2>1, <2>3, <2>4
<1>6. Body[limit] \in [D -> V]
  <2> HIDE DEF limit
  <2> QED BY <1>4
<1>7. limit = Body[limit]
  <2> HIDE DEF limit
  <2> QED BY <1>4, <1>5, <1>6
<1> QED BY <1>4, <1>7

(* Smallest and largest elements. *)

\* The least element of a set of numbers.
LEMMA LeastIsMin ==
  ASSUME NEW T, T \subseteq Nat, T # {}
  PROVE  Min(T) \in T /\ \A n \in T : Min(T) <= n
<1>1. \E m \in T : \A n \in T : m <= n
  BY LeastElement
<1> QED BY <1>1 DEF Min

\* The greatest element of a bounded one.
LEMMA GreatestIsMax ==
  ASSUME NEW m \in Nat, NEW T \in SUBSET (0 .. m), T # {}
  PROVE  Max(T) \in T /\ \A n \in T : n <= Max(T)
<1> DEFINE U == {m - n : n \in T}
<1>1. U \subseteq Nat /\ U # {}
  <2>1. \A n \in T : n \in Int /\ m - n \in Nat
    OBVIOUS
  <2> QED BY <2>1
<1>2. PICK u \in U : \A v \in U : u <= v
  BY <1>1, LeastElement
<1>3. PICK n \in T : u = m - n
  OBVIOUS
<1>4. \A k \in T : k <= n
  <2> SUFFICES ASSUME NEW k \in T PROVE k <= n
    OBVIOUS
  <2>1. m - k \in U /\ k \in Int /\ n \in Int
    OBVIOUS
  <2>2. m - n <= m - k
    BY <1>2, <1>3, <2>1
  <2> QED BY <2>1, <2>2
<1> QED BY <1>4 DEF Max

(* Sequences. *)

\* The head of a text.
LEMMA HeadOf ==
  ASSUME NEW S, NEW t \in Seq(S), NEW n \in 0 .. Len(t)
  PROVE  /\ SubSeq(t, 1, n) \in Seq(S) /\ Len(SubSeq(t, 1, n)) = n
         /\ \A i \in 1 .. n : SubSeq(t, 1, n)[i] = t[i]
<1>1. n \in Int /\ 1 \in Int /\ n \in Nat /\ n <= Len(t) /\ \A i \in 1 .. n : t[i] \in S
  OBVIOUS
<1>2. /\ SubSeq(t, 1, n) \in Seq(S) /\ Len(SubSeq(t, 1, n)) = IF 1 <= n THEN n - 1 + 1 ELSE 0
      /\ \A i \in 1 .. n - 1 + 1 : SubSeq(t, 1, n)[i] = t[1 + i - 1]
  BY <1>1, SubSeqProperties
<1> QED BY <1>1, <1>2

\* Sequences of the same elements.
LEMMA SameSeq ==
  ASSUME NEW S, NEW s \in Seq(S), NEW R, NEW t \in Seq(R), Len(s) = Len(t),
         \A i \in 1 .. Len(s) : s[i] = t[i]
  PROVE  s = t
<1>1. s = [i \in 1 .. Len(s) |-> s[i]] /\ t = [i \in 1 .. Len(t) |-> t[i]]
  OBVIOUS
<1> QED BY <1>1

-----------------------------------------------------------------------------
(* Bits and groups of them. *)

\* A function on 1 .. n is a sequence.
LEMMA FunIsSeq ==
  ASSUME NEW S, NEW n \in Nat, NEW f \in [1 .. n -> S]
  PROVE  f \in Seq(S) /\ Len(f) = n
OBVIOUS

\* A sequence of small numbers.
LEMMA OfNumbers ==
  ASSUME NEW m \in Nat, NEW s \in Seq(0 .. m)
  PROVE  s \in Seq(Nat) /\ \A j \in 1 .. Len(s) : s[j] \in 0 .. m
<1>1. 0 .. m \subseteq Nat
  OBVIOUS
<1> QED BY <1>1, SeqMonotonic, ElementOfSeq

IsBit(b) == b \in {0, 1}

\* A bit of the data, or one behind their end.
LEMMA BitType ==
  ASSUME NEW data \in Seq(Nat), NEW width \in {ByteBits, CharBits}, NEW i \in Nat
  PROVE  IsBit(Bit(data, width, i))
<1>1. i \div width \in Nat
  BY DEF ByteBits, CharBits
<1>2. CASE i \div width >= Len(data)
  BY <1>2 DEF Bit, IsBit
<1>3. CASE i \div width < Len(data)
  <2>1. data[i \div width + 1] \in Nat
    BY <1>1, <1>3
  <2>2. i % width \in 0 .. width - 1
    BY DEF ByteBits, CharBits
  <2>3. 2^(width - 1 - (i % width)) \in Nat \ {0}
    <3> DEFINE k == width - 1 - (i % width)
    <3>1. k \in {0, 1, 2, 3, 4, 5, 6, 7}
      BY <2>2 DEF ByteBits, CharBits
    <3>2. /\ 2^0 = 1 /\ 2^1 = 2 /\ 2^2 = 4 /\ 2^3 = 8
          /\ 2^4 = 16 /\ 2^5 = 32 /\ 2^6 = 64 /\ 2^7 = 128
      OBVIOUS
    <3> HIDE DEF k
    <3>3. 2^k \in {2^0, 2^1, 2^2, 2^3, 2^4, 2^5, 2^6, 2^7}
      BY <3>1, Zenon
    <3>4. 2^k \in Nat \ {0}
      BY <3>2, <3>3
    <3> QED BY <3>4 DEF k
  <2>4. \A p \in Nat \ {0} : (data[i \div width + 1] \div p) % 2 \in {0, 1}
    BY <2>1
  <2> QED BY <1>1, <1>3, <2>3, <2>4 DEF Bit, IsBit
<1> QED BY <1>1, <1>2, <1>3

\* The recursion of NumberAt.
LEMMA NumberSteps ==
  ASSUME NEW data \in Seq(Nat), NEW from \in {ByteBits, CharBits}, NEW to \in Nat, NEW i \in Nat
  PROVE  \E value \in [0 .. to -> Nat] :
           /\ value[0] = 0
           /\ \A b \in 1 .. to : value[b] = 2 * value[b - 1] + Bit(data, from, i + b - 1)
           /\ NumberAt(data, from, to, i) = value[to]
<1> DEFINE D == 0 .. to
           rank == [b \in D |-> b]
           E(g, b) == IF b = 0 THEN 0 ELSE 2 * g[b - 1] + Bit(data, from, i + b - 1)
           Body == [g \in [D -> Nat] |-> [b \in D |-> E(g, b)]]
           value == CHOOSE g : g = [b \in 0 .. to |-> E(g, b)]
<1>1. \A b \in 1 .. to : Bit(data, from, i + b - 1) \in Nat
  BY BitType DEF IsBit
<1>2. ASSUME NEW g \in [D -> Nat], NEW b \in D PROVE E(g, b) \in Nat
  BY <1>1
<1>3. Body \in [[D -> Nat] -> [D -> Nat]]
  BY <1>2
<1>4. ASSUME NEW g \in [D -> Nat], NEW h \in [D -> Nat], NEW b \in D,
             \A c \in D : rank[c] < rank[b] => g[c] = h[c]
      PROVE  Body[g][b] = Body[h][b]
  <2>1. CASE b = 0
    BY <2>1
  <2>2. CASE b # 0
    <3>1. b - 1 \in D /\ rank[b - 1] < rank[b]
      BY <2>2
    <3> QED BY <1>4, <3>1
  <2> QED BY <2>1, <2>2
<1>5. \E g \in [D -> Nat] : g = Body[g]
  <2>1. rank \in [D -> Nat]
    OBVIOUS
  <2>2. Descends(D, Nat, rank, Body)
    <3> HIDE DEF D, rank, Body
    <3> QED BY <1>3, <1>4, <2>1 DEF Descends
  <2> HIDE DEF D, rank, Body
  <2> QED BY <2>2, Solution
<1>6. value = [b \in 0 .. to |-> E(value, b)]
  <2>1. \E g : g = [b \in 0 .. to |-> E(g, b)]
    BY <1>5
  <2> QED BY <2>1
<1>7. NumberAt(data, from, to, i) = value[to]
  BY DEF NumberAt
<1> HIDE DEF value
<1>8. \A b \in D : value[b] \in Nat
  <2> DEFINE T == {b \in Nat : b \in D => value[b] \in Nat}
  <2>1. 0 \in T
    BY <1>6
  <2>2. ASSUME NEW b \in Nat, b \in T PROVE b + 1 \in T
    <3> SUFFICES ASSUME b + 1 \in D PROVE value[b + 1] \in Nat
      OBVIOUS
    <3>1. b \in D /\ b + 1 \in 1 .. to /\ (b + 1) - 1 = b
      OBVIOUS
    <3>2. value[b] \in Nat /\ Bit(data, from, i + (b + 1) - 1) \in Nat
      BY <1>1, <2>2, <3>1
    <3>3. value[b + 1] = 2 * value[b] + Bit(data, from, i + (b + 1) - 1)
      BY <1>6, <3>1
    <3> QED BY <3>2, <3>3
  <2> HIDE DEF T
  <2>3. Nat \subseteq T
    BY <2>1, <2>2, NatInduct
  <2> QED BY <2>3 DEF T
<1>9. value \in [0 .. to -> Nat]
  BY <1>6, <1>8
<1>10. value[0] = 0
  BY <1>6
<1>11. \A b \in 1 .. to : value[b] = 2 * value[b - 1] + Bit(data, from, i + b - 1)
  BY <1>6
<1> QED BY <1>7, <1>9, <1>10, <1>11

\* Characters and bytes by their bits.
LEMMA FiveBits ==
  ASSUME NEW data \in Seq(Nat), NEW from \in {ByteBits, CharBits}, NEW i \in Nat
  PROVE  NumberAt(data, from, CharBits, i)
           = 16 * Bit(data, from, i) + 8 * Bit(data, from, i + 1) + 4 * Bit(data, from, i + 2)
               + 2 * Bit(data, from, i + 3) + Bit(data, from, i + 4)
<1> DEFINE to == 5
<1>1. to \in Nat
  OBVIOUS
<1> HIDE DEF to
<1>2. PICK value \in [0 .. to -> Nat] :
        /\ value[0] = 0
        /\ \A b \in 1 .. to : value[b] = 2 * value[b - 1] + Bit(data, from, i + b - 1)
        /\ NumberAt(data, from, to, i) = value[to]
  BY <1>1, NumberSteps
<1>3. /\ value[1] = 2 * value[0] + Bit(data, from, i)
      /\ value[2] = 2 * value[1] + Bit(data, from, i + 1)
      /\ value[3] = 2 * value[2] + Bit(data, from, i + 2)
      /\ value[4] = 2 * value[3] + Bit(data, from, i + 3)
      /\ value[5] = 2 * value[4] + Bit(data, from, i + 4)
  BY <1>2 DEF to
<1>4. /\ Bit(data, from, i) \in {0, 1}
      /\ Bit(data, from, i + 1) \in {0, 1}
      /\ Bit(data, from, i + 2) \in {0, 1}
      /\ Bit(data, from, i + 3) \in {0, 1}
      /\ Bit(data, from, i + 4) \in {0, 1}
  <2>1. \A k \in Nat : i + k \in Nat
    OBVIOUS
  <2>2. \A k \in Nat : Bit(data, from, i + k) \in {0, 1}
    BY <2>1, BitType DEF IsBit
  <2> QED BY <2>2, BitType DEF IsBit
<1>5. value[0] = 0 /\ NumberAt(data, from, CharBits, i) = value[5]
  BY <1>2 DEF to, CharBits
<1> DEFINE a == Bit(data, from, i)
           b == Bit(data, from, i + 1)
           c == Bit(data, from, i + 2)
           d == Bit(data, from, i + 3)
           e == Bit(data, from, i + 4)
<1>6. a \in {0, 1} /\ b \in {0, 1} /\ c \in {0, 1} /\ d \in {0, 1} /\ e \in {0, 1}
  BY <1>4
<1>7. /\ value[1] = a
      /\ value[2] = 2 * value[1] + b
      /\ value[3] = 2 * value[2] + c
      /\ value[4] = 2 * value[3] + d
      /\ value[5] = 2 * value[4] + e
  <2>1. value[1] = 2 * value[0] + a /\ a \in Nat
    BY <1>3, <1>6
  <2>2. value[1] = a
    <3> HIDE DEF a
    <3> QED BY <1>5, <2>1
  <2> QED BY <1>3, <2>2
<1> HIDE DEF a, b, c, d, e
<1>8. value[5] = 16 * a + 8 * b + 4 * c + 2 * d + e
  BY <1>6, <1>7
<1> QED BY <1>5, <1>8 DEF a, b, c, d, e

\* A number of eight bits, without its recursion.
LEMMA EightBits ==
  ASSUME NEW data \in Seq(Nat), NEW from \in {ByteBits, CharBits}, NEW i \in Nat
  PROVE  NumberAt(data, from, ByteBits, i)
           = 128 * Bit(data, from, i) + 64 * Bit(data, from, i + 1) + 32 * Bit(data, from, i + 2)
               + 16 * Bit(data, from, i + 3) + 8 * Bit(data, from, i + 4)
               + 4 * Bit(data, from, i + 5) + 2 * Bit(data, from, i + 6) + Bit(data, from, i + 7)
<1> DEFINE to == 8
<1>1. to \in Nat
  OBVIOUS
<1> HIDE DEF to
<1>2. PICK value \in [0 .. to -> Nat] :
        /\ value[0] = 0
        /\ \A b \in 1 .. to : value[b] = 2 * value[b - 1] + Bit(data, from, i + b - 1)
        /\ NumberAt(data, from, to, i) = value[to]
  BY <1>1, NumberSteps
<1>3. /\ value[1] = 2 * value[0] + Bit(data, from, i)
      /\ value[2] = 2 * value[1] + Bit(data, from, i + 1)
      /\ value[3] = 2 * value[2] + Bit(data, from, i + 2)
      /\ value[4] = 2 * value[3] + Bit(data, from, i + 3)
      /\ value[5] = 2 * value[4] + Bit(data, from, i + 4)
      /\ value[6] = 2 * value[5] + Bit(data, from, i + 5)
      /\ value[7] = 2 * value[6] + Bit(data, from, i + 6)
      /\ value[8] = 2 * value[7] + Bit(data, from, i + 7)
  BY <1>2 DEF to
<1>4. /\ Bit(data, from, i) \in {0, 1}
      /\ Bit(data, from, i + 1) \in {0, 1}
      /\ Bit(data, from, i + 2) \in {0, 1}
      /\ Bit(data, from, i + 3) \in {0, 1}
      /\ Bit(data, from, i + 4) \in {0, 1}
      /\ Bit(data, from, i + 5) \in {0, 1}
      /\ Bit(data, from, i + 6) \in {0, 1}
      /\ Bit(data, from, i + 7) \in {0, 1}
  <2>1. \A k \in Nat : i + k \in Nat
    OBVIOUS
  <2>2. \A k \in Nat : Bit(data, from, i + k) \in {0, 1}
    BY <2>1, BitType DEF IsBit
  <2> QED BY <2>2, BitType DEF IsBit
<1>5. value[0] = 0 /\ NumberAt(data, from, ByteBits, i) = value[8]
  BY <1>2 DEF to, ByteBits
<1> DEFINE a == Bit(data, from, i)
           b == Bit(data, from, i + 1)
           c == Bit(data, from, i + 2)
           d == Bit(data, from, i + 3)
           e == Bit(data, from, i + 4)
           f == Bit(data, from, i + 5)
           g == Bit(data, from, i + 6)
           h == Bit(data, from, i + 7)
<1>6. a \in {0, 1} /\ b \in {0, 1} /\ c \in {0, 1} /\ d \in {0, 1} /\ e \in {0, 1} /\ f \in {0, 1} /\ g \in {0, 1} /\ h \in {0, 1}
  BY <1>4
<1>7. /\ value[1] = a
      /\ value[2] = 2 * value[1] + b
      /\ value[3] = 2 * value[2] + c
      /\ value[4] = 2 * value[3] + d
      /\ value[5] = 2 * value[4] + e
      /\ value[6] = 2 * value[5] + f
      /\ value[7] = 2 * value[6] + g
      /\ value[8] = 2 * value[7] + h
  <2>1. value[1] = 2 * value[0] + a /\ a \in Nat
    BY <1>3, <1>6
  <2>2. value[1] = a
    <3> HIDE DEF a
    <3> QED BY <1>5, <2>1
  <2> QED BY <1>3, <2>2
<1> HIDE DEF a, b, c, d, e, f, g, h
<1>8. value[8] = 128 * a + 64 * b + 32 * c + 16 * d + 8 * e + 4 * f + 2 * g + h
  BY <1>6, <1>7
<1> QED BY <1>5, <1>8 DEF a, b, c, d, e, f, g, h

\* The bits of a number made of five.
LEMMA FiveBitNumber ==
  \A a, b, c, d, e \in {0, 1} :
    LET n == 16 * a + 8 * b + 4 * c + 2 * d + e
    IN  /\ n \in 0 .. 31
        /\ (n \div 16) % 2 = a /\ (n \div 8) % 2 = b /\ (n \div 4) % 2 = c
        /\ (n \div 2) % 2 = d /\ (n \div 1) % 2 = e
OBVIOUS

\* The bits of a number made of eight.
LEMMA EightBitNumber ==
  \A a, b, c, d, e, f, g, h \in {0, 1} :
    LET n == 128 * a + 64 * b + 32 * c + 16 * d + 8 * e + 4 * f + 2 * g + h
    IN  /\ n \in 0 .. 255
        /\ (n \div 128) % 2 = a /\ (n \div 64) % 2 = b /\ (n \div 32) % 2 = c
        /\ (n \div 16) % 2 = d /\ (n \div 8) % 2 = e /\ (n \div 4) % 2 = f
        /\ (n \div 2) % 2 = g /\ (n \div 1) % 2 = h
OBVIOUS

\* A number is made of its five bits.
LEMMA FiveBitsMake ==
  \A n \in 0 .. 31 :
    n = 16 * ((n \div 16) % 2) + 8 * ((n \div 8) % 2) + 4 * ((n \div 4) % 2)
          + 2 * ((n \div 2) % 2) + ((n \div 1) % 2)
OBVIOUS

\* A number is made of its eight bits.
LEMMA EightBitsMake ==
  \A n \in 0 .. 255 :
    n = 128 * ((n \div 128) % 2) + 64 * ((n \div 64) % 2) + 32 * ((n \div 32) % 2)
          + 16 * ((n \div 16) % 2) + 8 * ((n \div 8) % 2) + 4 * ((n \div 4) % 2)
          + 2 * ((n \div 2) % 2) + ((n \div 1) % 2)
OBVIOUS

\* The powers that Bit divides by.
LEMMA PowersOfTwo ==
  /\ 2^0 = 1 /\ 2^1 = 2 /\ 2^2 = 4 /\ 2^3 = 8
  /\ 2^4 = 16 /\ 2^5 = 32 /\ 2^6 = 64 /\ 2^7 = 128
OBVIOUS

\* The bits of one element.
LEMMA BitsOfChar ==
  ASSUME NEW chars \in Seq(Nat), NEW j \in 1 .. Len(chars)
  PROVE  LET c == chars[j] i == (j - 1) * 5
         IN  /\ Bit(chars, CharBits, i) = (c \div 16) % 2 /\ Bit(chars, CharBits, i + 1) = (c \div 8) % 2
             /\ Bit(chars, CharBits, i + 2) = (c \div 4) % 2 /\ Bit(chars, CharBits, i + 3) = (c \div 2) % 2
             /\ Bit(chars, CharBits, i + 4) = (c \div 1) % 2
<1> DEFINE i == (j - 1) * 5
<1>1. \A k \in 0 .. 4 : (i + k) \div 5 = j - 1 /\ (i + k) % 5 = k
  OBVIOUS
<1>2. \A k \in 0 .. 4 : Bit(chars, CharBits, i + k) = (chars[j] \div 2^(4 - k)) % 2
  <2> TAKE k \in 0 .. 4
  <2>1. (i + k) \div 5 = j - 1 /\ (i + k) % 5 = k /\ ~(j - 1 >= Len(chars)) /\ j - 1 + 1 = j /\ 5 - 1 - k = 4 - k
    BY <1>1
  <2> HIDE DEF i
  <2> QED BY <2>1 DEF Bit, CharBits
<1>3. i + 0 = i /\ 4 - 0 = 4 /\ 4 - 1 = 3 /\ 4 - 2 = 2 /\ 4 - 3 = 1 /\ 4 - 4 = 0
  OBVIOUS
<1> HIDE DEF i
<1>4. /\ Bit(chars, CharBits, i + 0) = (chars[j] \div 2^(4 - 0)) % 2
      /\ Bit(chars, CharBits, i + 1) = (chars[j] \div 2^(4 - 1)) % 2
      /\ Bit(chars, CharBits, i + 2) = (chars[j] \div 2^(4 - 2)) % 2
      /\ Bit(chars, CharBits, i + 3) = (chars[j] \div 2^(4 - 3)) % 2
      /\ Bit(chars, CharBits, i + 4) = (chars[j] \div 2^(4 - 4)) % 2
  BY <1>2
<1> QED BY <1>3, <1>4, PowersOfTwo DEF i

\* The bits of a byte, in their places.
LEMMA BitsOfByte ==
  ASSUME NEW octets \in Seq(Nat), NEW j \in 1 .. Len(octets)
  PROVE  LET c == octets[j] i == (j - 1) * 8
         IN  /\ Bit(octets, ByteBits, i) = (c \div 128) % 2 /\ Bit(octets, ByteBits, i + 1) = (c \div 64) % 2
             /\ Bit(octets, ByteBits, i + 2) = (c \div 32) % 2 /\ Bit(octets, ByteBits, i + 3) = (c \div 16) % 2
             /\ Bit(octets, ByteBits, i + 4) = (c \div 8) % 2 /\ Bit(octets, ByteBits, i + 5) = (c \div 4) % 2
             /\ Bit(octets, ByteBits, i + 6) = (c \div 2) % 2 /\ Bit(octets, ByteBits, i + 7) = (c \div 1) % 2
<1> DEFINE i == (j - 1) * 8
<1>1. \A k \in 0 .. 7 : (i + k) \div 8 = j - 1 /\ (i + k) % 8 = k
  OBVIOUS
<1>2. \A k \in 0 .. 7 : Bit(octets, ByteBits, i + k) = (octets[j] \div 2^(7 - k)) % 2
  <2> TAKE k \in 0 .. 7
  <2>1. (i + k) \div 8 = j - 1 /\ (i + k) % 8 = k /\ ~(j - 1 >= Len(octets)) /\ j - 1 + 1 = j /\ 8 - 1 - k = 7 - k
    BY <1>1
  <2> HIDE DEF i
  <2> QED BY <2>1 DEF Bit, ByteBits
<1>3. /\ i + 0 = i /\ 7 - 0 = 7 /\ 7 - 1 = 6 /\ 7 - 2 = 5 /\ 7 - 3 = 4
      /\ 7 - 4 = 3 /\ 7 - 5 = 2 /\ 7 - 6 = 1 /\ 7 - 7 = 0
  OBVIOUS
<1> HIDE DEF i
<1>4. /\ Bit(octets, ByteBits, i + 0) = (octets[j] \div 2^(7 - 0)) % 2
      /\ Bit(octets, ByteBits, i + 1) = (octets[j] \div 2^(7 - 1)) % 2
      /\ Bit(octets, ByteBits, i + 2) = (octets[j] \div 2^(7 - 2)) % 2
      /\ Bit(octets, ByteBits, i + 3) = (octets[j] \div 2^(7 - 3)) % 2
      /\ Bit(octets, ByteBits, i + 4) = (octets[j] \div 2^(7 - 4)) % 2
      /\ Bit(octets, ByteBits, i + 5) = (octets[j] \div 2^(7 - 5)) % 2
      /\ Bit(octets, ByteBits, i + 6) = (octets[j] \div 2^(7 - 6)) % 2
      /\ Bit(octets, ByteBits, i + 7) = (octets[j] \div 2^(7 - 7)) % 2
  BY <1>2
<1> QED BY <1>3, <1>4, PowersOfTwo DEF i

\* Elements below 2^width are given by their bits.
LEMMA SameChars ==
  ASSUME NEW s \in Seq(0 .. 31), NEW t \in Seq(0 .. 31), Len(s) = Len(t),
         \A i \in 0 .. 5 * Len(s) - 1 : Bit(s, CharBits, i) = Bit(t, CharBits, i)
  PROVE  s = t
<1>1. /\ s \in Seq(Nat) /\ \A j \in 1 .. Len(s) : s[j] \in 0 .. 31
      /\ t \in Seq(Nat) /\ \A j \in 1 .. Len(t) : t[j] \in 0 .. 31
  <2>1. 31 \in Nat
    OBVIOUS
  <2> QED BY <2>1, OfNumbers
<1>2. ASSUME NEW j \in 1 .. Len(s) PROVE s[j] = t[j]
  <2> DEFINE i == (j - 1) * 5
  <2>1. \A k \in 0 .. 4 : i + k \in 0 .. 5 * Len(s) - 1
    OBVIOUS
  <2>2. j \in 1 .. Len(t)
    OBVIOUS
  <2>3. /\ Bit(s, CharBits, i) = (s[j] \div 16) % 2 /\ Bit(s, CharBits, i + 1) = (s[j] \div 8) % 2
        /\ Bit(s, CharBits, i + 2) = (s[j] \div 4) % 2 /\ Bit(s, CharBits, i + 3) = (s[j] \div 2) % 2
        /\ Bit(s, CharBits, i + 4) = (s[j] \div 1) % 2
    BY <1>1, BitsOfChar
  <2>4. /\ Bit(t, CharBits, i) = (t[j] \div 16) % 2 /\ Bit(t, CharBits, i + 1) = (t[j] \div 8) % 2
        /\ Bit(t, CharBits, i + 2) = (t[j] \div 4) % 2 /\ Bit(t, CharBits, i + 3) = (t[j] \div 2) % 2
        /\ Bit(t, CharBits, i + 4) = (t[j] \div 1) % 2
    BY <1>1, <2>2, BitsOfChar
  <2>5. i + 0 = i /\ s[j] \in 0 .. 31 /\ t[j] \in 0 .. 31
    BY <1>1, <2>2
  <2> HIDE DEF i
  <2>6. /\ Bit(s, CharBits, i + 0) = Bit(t, CharBits, i + 0) /\ Bit(s, CharBits, i + 1) = Bit(t, CharBits, i + 1)
        /\ Bit(s, CharBits, i + 2) = Bit(t, CharBits, i + 2) /\ Bit(s, CharBits, i + 3) = Bit(t, CharBits, i + 3)
        /\ Bit(s, CharBits, i + 4) = Bit(t, CharBits, i + 4)
    BY <2>1
  <2>7. /\ (s[j] \div 16) % 2 = (t[j] \div 16) % 2 /\ (s[j] \div 8) % 2 = (t[j] \div 8) % 2
        /\ (s[j] \div 4) % 2 = (t[j] \div 4) % 2 /\ (s[j] \div 2) % 2 = (t[j] \div 2) % 2
        /\ (s[j] \div 1) % 2 = (t[j] \div 1) % 2
    BY <2>3, <2>4, <2>5, <2>6
  <2> QED BY <2>5, <2>7, FiveBitsMake
<1> QED BY <1>2, SameSeq

\* Bytes of the same bits are the same.
LEMMA SameBytes ==
  ASSUME NEW s \in Seq(0 .. 255), NEW t \in Seq(0 .. 255), Len(s) = Len(t),
         \A i \in 0 .. 8 * Len(s) - 1 : Bit(s, ByteBits, i) = Bit(t, ByteBits, i)
  PROVE  s = t
<1>1. /\ s \in Seq(Nat) /\ \A j \in 1 .. Len(s) : s[j] \in 0 .. 255
      /\ t \in Seq(Nat) /\ \A j \in 1 .. Len(t) : t[j] \in 0 .. 255
  <2>1. 255 \in Nat
    OBVIOUS
  <2> QED BY <2>1, OfNumbers
<1>2. ASSUME NEW j \in 1 .. Len(s) PROVE s[j] = t[j]
  <2> DEFINE i == (j - 1) * 8
  <2>1. \A k \in 0 .. 7 : i + k \in 0 .. 8 * Len(s) - 1
    OBVIOUS
  <2>2. j \in 1 .. Len(t)
    OBVIOUS
  <2>3. /\ Bit(s, ByteBits, i) = (s[j] \div 128) % 2 /\ Bit(s, ByteBits, i + 1) = (s[j] \div 64) % 2
        /\ Bit(s, ByteBits, i + 2) = (s[j] \div 32) % 2 /\ Bit(s, ByteBits, i + 3) = (s[j] \div 16) % 2
        /\ Bit(s, ByteBits, i + 4) = (s[j] \div 8) % 2 /\ Bit(s, ByteBits, i + 5) = (s[j] \div 4) % 2
        /\ Bit(s, ByteBits, i + 6) = (s[j] \div 2) % 2 /\ Bit(s, ByteBits, i + 7) = (s[j] \div 1) % 2
    BY <1>1, BitsOfByte
  <2>4. /\ Bit(t, ByteBits, i) = (t[j] \div 128) % 2 /\ Bit(t, ByteBits, i + 1) = (t[j] \div 64) % 2
        /\ Bit(t, ByteBits, i + 2) = (t[j] \div 32) % 2 /\ Bit(t, ByteBits, i + 3) = (t[j] \div 16) % 2
        /\ Bit(t, ByteBits, i + 4) = (t[j] \div 8) % 2 /\ Bit(t, ByteBits, i + 5) = (t[j] \div 4) % 2
        /\ Bit(t, ByteBits, i + 6) = (t[j] \div 2) % 2 /\ Bit(t, ByteBits, i + 7) = (t[j] \div 1) % 2
    BY <1>1, <2>2, BitsOfByte
  <2>5. i + 0 = i /\ s[j] \in 0 .. 255 /\ t[j] \in 0 .. 255
    BY <1>1, <2>2
  <2> HIDE DEF i
  <2>6. /\ Bit(s, ByteBits, i + 0) = Bit(t, ByteBits, i + 0) /\ Bit(s, ByteBits, i + 1) = Bit(t, ByteBits, i + 1)
        /\ Bit(s, ByteBits, i + 2) = Bit(t, ByteBits, i + 2) /\ Bit(s, ByteBits, i + 3) = Bit(t, ByteBits, i + 3)
        /\ Bit(s, ByteBits, i + 4) = Bit(t, ByteBits, i + 4) /\ Bit(s, ByteBits, i + 5) = Bit(t, ByteBits, i + 5)
        /\ Bit(s, ByteBits, i + 6) = Bit(t, ByteBits, i + 6) /\ Bit(s, ByteBits, i + 7) = Bit(t, ByteBits, i + 7)
    BY <2>1
  <2>7. /\ (s[j] \div 128) % 2 = (t[j] \div 128) % 2 /\ (s[j] \div 64) % 2 = (t[j] \div 64) % 2
        /\ (s[j] \div 32) % 2 = (t[j] \div 32) % 2 /\ (s[j] \div 16) % 2 = (t[j] \div 16) % 2
        /\ (s[j] \div 8) % 2 = (t[j] \div 8) % 2 /\ (s[j] \div 4) % 2 = (t[j] \div 4) % 2
        /\ (s[j] \div 2) % 2 = (t[j] \div 2) % 2 /\ (s[j] \div 1) % 2 = (t[j] \div 1) % 2
    BY <2>3, <2>4, <2>5, <2>6
  <2> QED BY <2>5, <2>7, EightBitsMake
<1> QED BY <1>2, SameSeq

\* Regrouped, the bits are the same.
LEMMA RegroupChars ==
  ASSUME NEW data \in Seq(Nat), NEW from \in {ByteBits, CharBits}, NEW n \in Nat
  PROVE  LET r == Regroup(data, from, CharBits, n)
         IN  /\ r \in Seq(0 .. 31) /\ Len(r) = n
             /\ \A i \in 0 .. 5 * n - 1 : Bit(r, CharBits, i) = Bit(data, from, i)
<1> DEFINE r == Regroup(data, from, CharBits, n)
           num(i) == NumberAt(data, from, CharBits, i)
<1>1. ASSUME NEW i \in Nat
      PROVE  /\ num(i) \in 0 .. 31
             /\ (num(i) \div 16) % 2 = Bit(data, from, i) /\ (num(i) \div 8) % 2 = Bit(data, from, i + 1)
             /\ (num(i) \div 4) % 2 = Bit(data, from, i + 2) /\ (num(i) \div 2) % 2 = Bit(data, from, i + 3)
             /\ (num(i) \div 1) % 2 = Bit(data, from, i + 4)
  <2>1. /\ Bit(data, from, i) \in {0, 1} /\ Bit(data, from, i + 1) \in {0, 1} /\ Bit(data, from, i + 2) \in {0, 1}
        /\ Bit(data, from, i + 3) \in {0, 1} /\ Bit(data, from, i + 4) \in {0, 1}
    <3>1. i + 1 \in Nat /\ i + 2 \in Nat /\ i + 3 \in Nat /\ i + 4 \in Nat
      OBVIOUS
    <3> QED BY <3>1, BitType DEF IsBit
  <2> DEFINE a == Bit(data, from, i)
             b == Bit(data, from, i + 1)
             c == Bit(data, from, i + 2)
             d == Bit(data, from, i + 3)
             e == Bit(data, from, i + 4)
             m == num(i)
  <2>2. m = 16 * a + 8 * b + 4 * c + 2 * d + e
    BY FiveBits
  <2>3. a \in {0, 1} /\ b \in {0, 1} /\ c \in {0, 1} /\ d \in {0, 1} /\ e \in {0, 1}
    BY <2>1
  <2> HIDE DEF a, b, c, d, e, m
  <2>4. /\ m \in 0 .. 31
        /\ (m \div 16) % 2 = a
        /\ (m \div 8) % 2 = b
        /\ (m \div 4) % 2 = c
        /\ (m \div 2) % 2 = d
        /\ (m \div 1) % 2 = e
    BY <2>2, <2>3, FiveBitNumber
  <2> QED BY <2>4 DEF a, b, c, d, e, m
<1>2. r = [j \in 1 .. n |-> num((j - 1) * 5)]
  BY DEF Regroup, CharBits
<1>3. \A j \in 1 .. n : (j - 1) * 5 \in Nat
  OBVIOUS
<1> HIDE DEF r, num
<1>4. r \in Seq(0 .. 31) /\ Len(r) = n
  <2>1. r \in [1 .. n -> 0 .. 31]
    BY <1>1, <1>2, <1>3
  <2> QED BY <2>1, FunIsSeq
<1>5. ASSUME NEW i \in 0 .. 5 * n - 1 PROVE Bit(r, CharBits, i) = Bit(data, from, i)
  <2> DEFINE j == i \div 5 + 1
             b == (j - 1) * 5
  <2>1. j \in 1 .. n /\ i \in {b + 0, b + 1, b + 2, b + 3, b + 4} /\ b \in Nat /\ b + 0 = b
    OBVIOUS
  <2>2. r \in Seq(Nat) /\ j \in 1 .. Len(r)
    <3>1. 31 \in Nat
      OBVIOUS
    <3> QED BY <1>4, <2>1, <3>1, OfNumbers
  <2>3. r[j] = num(b)
    BY <1>2, <2>1
  <2> HIDE DEF j
  <2>4. /\ Bit(r, CharBits, b) = (r[j] \div 16) % 2 /\ Bit(r, CharBits, b + 1) = (r[j] \div 8) % 2
        /\ Bit(r, CharBits, b + 2) = (r[j] \div 4) % 2 /\ Bit(r, CharBits, b + 3) = (r[j] \div 2) % 2
        /\ Bit(r, CharBits, b + 4) = (r[j] \div 1) % 2
    BY <2>2, BitsOfChar
  <2> HIDE DEF b
  <2>5. /\ Bit(r, CharBits, b) = Bit(data, from, b) /\ Bit(r, CharBits, b + 1) = Bit(data, from, b + 1)
        /\ Bit(r, CharBits, b + 2) = Bit(data, from, b + 2) /\ Bit(r, CharBits, b + 3) = Bit(data, from, b + 3)
        /\ Bit(r, CharBits, b + 4) = Bit(data, from, b + 4)
    BY <1>1, <2>1, <2>3, <2>4
  <2> QED BY <2>1, <2>5
<1> QED BY <1>4, <1>5 DEF r

\* Regrouping to bytes keeps the bits.
LEMMA RegroupBytes ==
  ASSUME NEW data \in Seq(Nat), NEW from \in {ByteBits, CharBits}, NEW n \in Nat
  PROVE  LET r == Regroup(data, from, ByteBits, n)
         IN  /\ r \in Seq(0 .. 255) /\ Len(r) = n
             /\ \A i \in 0 .. 8 * n - 1 : Bit(r, ByteBits, i) = Bit(data, from, i)
<1> DEFINE r == Regroup(data, from, ByteBits, n)
           num(i) == NumberAt(data, from, ByteBits, i)
<1>1. ASSUME NEW i \in Nat
      PROVE  /\ num(i) \in 0 .. 255
             /\ (num(i) \div 128) % 2 = Bit(data, from, i) /\ (num(i) \div 64) % 2 = Bit(data, from, i + 1)
             /\ (num(i) \div 32) % 2 = Bit(data, from, i + 2) /\ (num(i) \div 16) % 2 = Bit(data, from, i + 3)
             /\ (num(i) \div 8) % 2 = Bit(data, from, i + 4) /\ (num(i) \div 4) % 2 = Bit(data, from, i + 5)
             /\ (num(i) \div 2) % 2 = Bit(data, from, i + 6) /\ (num(i) \div 1) % 2 = Bit(data, from, i + 7)
  <2>1. /\ Bit(data, from, i) \in {0, 1} /\ Bit(data, from, i + 1) \in {0, 1} /\ Bit(data, from, i + 2) \in {0, 1}
        /\ Bit(data, from, i + 3) \in {0, 1} /\ Bit(data, from, i + 4) \in {0, 1}
        /\ Bit(data, from, i + 5) \in {0, 1} /\ Bit(data, from, i + 6) \in {0, 1} /\ Bit(data, from, i + 7) \in {0, 1}
    <3>1. /\ i + 1 \in Nat /\ i + 2 \in Nat /\ i + 3 \in Nat /\ i + 4 \in Nat
          /\ i + 5 \in Nat /\ i + 6 \in Nat /\ i + 7 \in Nat
      OBVIOUS
    <3> QED BY <3>1, BitType DEF IsBit
  <2> DEFINE a == Bit(data, from, i)
             b == Bit(data, from, i + 1)
             c == Bit(data, from, i + 2)
             d == Bit(data, from, i + 3)
             e == Bit(data, from, i + 4)
             f == Bit(data, from, i + 5)
             g == Bit(data, from, i + 6)
             h == Bit(data, from, i + 7)
             m == num(i)
  <2>2. m = 128 * a + 64 * b + 32 * c + 16 * d + 8 * e + 4 * f + 2 * g + h
    BY EightBits
  <2>3. a \in {0, 1} /\ b \in {0, 1} /\ c \in {0, 1} /\ d \in {0, 1} /\ e \in {0, 1} /\ f \in {0, 1} /\ g \in {0, 1} /\ h \in {0, 1}
    BY <2>1
  <2> HIDE DEF a, b, c, d, e, f, g, h, m
  <2>4. /\ m \in 0 .. 255
        /\ (m \div 128) % 2 = a
        /\ (m \div 64) % 2 = b
        /\ (m \div 32) % 2 = c
        /\ (m \div 16) % 2 = d
        /\ (m \div 8) % 2 = e
        /\ (m \div 4) % 2 = f
        /\ (m \div 2) % 2 = g
        /\ (m \div 1) % 2 = h
    BY <2>2, <2>3, EightBitNumber
  <2> QED BY <2>4 DEF a, b, c, d, e, f, g, h, m
<1>2. r = [j \in 1 .. n |-> num((j - 1) * 8)]
  BY DEF Regroup, ByteBits
<1>3. \A j \in 1 .. n : (j - 1) * 8 \in Nat
  OBVIOUS
<1> HIDE DEF r, num
<1>4. r \in Seq(0 .. 255) /\ Len(r) = n
  <2>1. r \in [1 .. n -> 0 .. 255]
    BY <1>1, <1>2, <1>3
  <2> QED BY <2>1, FunIsSeq
<1>5. ASSUME NEW i \in 0 .. 8 * n - 1 PROVE Bit(r, ByteBits, i) = Bit(data, from, i)
  <2> DEFINE j == i \div 8 + 1
             b == (j - 1) * 8
  <2>1. /\ j \in 1 .. n /\ b \in Nat /\ b + 0 = b
        /\ i \in {b + 0, b + 1, b + 2, b + 3, b + 4, b + 5, b + 6, b + 7}
    OBVIOUS
  <2>2. r \in Seq(Nat) /\ j \in 1 .. Len(r)
    <3>1. 255 \in Nat
      OBVIOUS
    <3> QED BY <1>4, <2>1, <3>1, OfNumbers
  <2>3. r[j] = num(b)
    BY <1>2, <2>1
  <2> HIDE DEF j
  <2>4. /\ Bit(r, ByteBits, b) = (r[j] \div 128) % 2 /\ Bit(r, ByteBits, b + 1) = (r[j] \div 64) % 2
        /\ Bit(r, ByteBits, b + 2) = (r[j] \div 32) % 2 /\ Bit(r, ByteBits, b + 3) = (r[j] \div 16) % 2
        /\ Bit(r, ByteBits, b + 4) = (r[j] \div 8) % 2 /\ Bit(r, ByteBits, b + 5) = (r[j] \div 4) % 2
        /\ Bit(r, ByteBits, b + 6) = (r[j] \div 2) % 2 /\ Bit(r, ByteBits, b + 7) = (r[j] \div 1) % 2
    BY <2>2, BitsOfByte
  <2> HIDE DEF b
  <2>5. /\ Bit(r, ByteBits, b) = Bit(data, from, b) /\ Bit(r, ByteBits, b + 1) = Bit(data, from, b + 1)
        /\ Bit(r, ByteBits, b + 2) = Bit(data, from, b + 2) /\ Bit(r, ByteBits, b + 3) = Bit(data, from, b + 3)
        /\ Bit(r, ByteBits, b + 4) = Bit(data, from, b + 4) /\ Bit(r, ByteBits, b + 5) = Bit(data, from, b + 5)
        /\ Bit(r, ByteBits, b + 6) = Bit(data, from, b + 6) /\ Bit(r, ByteBits, b + 7) = Bit(data, from, b + 7)
    BY <1>1, <2>1, <2>3, <2>4
  <2> QED BY <2>1, <2>5
<1> QED BY <1>4, <1>5 DEF r

-----------------------------------------------------------------------------
(* Base32 and hex. *)

\* Bytes are numbers.
LEMMA SeqOfBytes ==
  ASSUME NEW s \in Seq(0 .. 255)
  PROVE  s \in Seq(Nat) /\ \A j \in 1 .. Len(s) : s[j] \in 0 .. 255
<1> DEFINE m == 255
<1>1. m \in Nat /\ s \in Seq(0 .. m)
  OBVIOUS
<1> HIDE DEF m
<1>2. s \in Seq(Nat) /\ \A j \in 1 .. Len(s) : s[j] \in 0 .. m
  BY <1>1, OfNumbers
<1> QED BY <1>2 DEF m

\* So are the values of characters.
LEMMA SeqOfChars ==
  ASSUME NEW s \in Seq(0 .. 31)
  PROVE  s \in Seq(Nat) /\ \A j \in 1 .. Len(s) : s[j] \in 0 .. 31
<1> DEFINE m == 31
<1>1. m \in Nat /\ s \in Seq(0 .. m)
  OBVIOUS
<1> HIDE DEF m
<1>2. s \in Seq(Nat) /\ \A j \in 1 .. Len(s) : s[j] \in 0 .. m
  BY <1>1, OfNumbers
<1> QED BY <1>2 DEF m

\* The two digits of a byte.
LEMMA Halves ==
  \A v \in 0 .. 255 : v \div 16 \in 0 .. 15 /\ v % 16 \in 0 .. 15 /\ 16 * (v \div 16) + (v % 16) = v
OBVIOUS

\* Lengths of bytes and of the characters that hold them.
LEMMA Lengths ==
  /\ \A n \in Nat : LET c == (n * ByteBits + CharBits - 1) \div CharBits
                    IN  /\ c \in Nat /\ ValidLength(c) /\ (c * CharBits) \div ByteBits = n
                        /\ 8 * n <= 5 * c /\ (n >= 1 => c >= 1)
  /\ \A c \in Nat : ValidLength(c) =>
                    LET n == (c * CharBits) \div ByteBits
                    IN  /\ n \in Nat /\ (n * ByteBits + CharBits - 1) \div CharBits = c
                        /\ 8 * n <= 5 * c /\ (c >= 1 => n >= 1)
BY DEF ByteBits, CharBits, ValidLength

\* Behind the bytes every bit is 0.
LEMMA BehindTheEnd ==
  ASSUME NEW octets \in Seq(Nat), NEW i \in Nat, i >= 8 * Len(octets)
  PROVE  Bit(octets, ByteBits, i) = 0
BY DEF Bit, ByteBits

\* What base32_encode makes, base32_decode accepts and makes the bytes of.
LEMMA DecodesEncoded ==
  ASSUME NEW data \in Seq(0 .. 255)
  PROVE  LET chars == Regroup(data, ByteBits, CharBits, base32_encoded_len(Len(data)) - 1)
         IN  /\ chars \in Seq(0 .. 31) /\ Len(chars) = (8 * Len(data) + 4) \div 5
             /\ ValidLength(Len(chars)) /\ TrailingZero(chars)
             /\ (Len(chars) * CharBits) \div ByteBits = Len(data)
             /\ Regroup(chars, CharBits, ByteBits, Len(data)) = data
<1> DEFINE n == Len(data)
           c == base32_encoded_len(n) - 1
           chars == Regroup(data, ByteBits, CharBits, c)
           back == Regroup(chars, CharBits, ByteBits, n)
<1>1. n \in Nat /\ data \in Seq(Nat)
  <2>1. data \in Seq(Nat)
    BY SeqOfBytes
  <2> QED BY <2>1
<1>2. /\ c \in Nat /\ c = (8 * n + 4) \div 5 /\ ValidLength(c) /\ (c * CharBits) \div ByteBits = n /\ 8 * n <= 5 * c
  <2>1. (n * ByteBits + CharBits - 1) \div CharBits \in Nat
    BY <1>1, Lengths
  <2>2. c = (n * ByteBits + CharBits - 1) \div CharBits
    BY <2>1 DEF base32_encoded_len
  <2>3. (n * ByteBits + CharBits - 1) \div CharBits = (8 * n + 4) \div 5
    <3>1. n * ByteBits + CharBits - 1 = 8 * n + 4
      BY <1>1 DEF ByteBits, CharBits
    <3> QED BY <3>1 DEF CharBits
  <2> QED BY <1>1, <2>2, <2>3, Lengths
<1> HIDE DEF c
<1>3. /\ chars \in Seq(0 .. 31) /\ Len(chars) = c
      /\ \A i \in 0 .. 5 * c - 1 : Bit(chars, CharBits, i) = Bit(data, ByteBits, i)
  BY <1>1, <1>2, RegroupChars
<1> HIDE DEF chars
<1>4. chars \in Seq(Nat)
  BY <1>3, SeqOfChars
<1>5. /\ back \in Seq(0 .. 255) /\ Len(back) = n
      /\ \A i \in 0 .. 8 * n - 1 : Bit(back, ByteBits, i) = Bit(chars, CharBits, i)
  BY <1>1, <1>4, RegroupBytes
<1> HIDE DEF back
<1>6. back = data
  <2>1. \A i \in 0 .. 8 * n - 1 : i \in 0 .. 5 * c - 1
    BY <1>1, <1>2
  <2>2. \A i \in 0 .. 8 * n - 1 : Bit(back, ByteBits, i) = Bit(data, ByteBits, i)
    BY <1>3, <1>5, <2>1
  <2> QED BY <1>5, <2>2, SameBytes
<1>7. TrailingZero(chars)
  <2>1. \A i \in n * ByteBits .. c * CharBits - 1 :
          i \in Nat /\ i \in 0 .. 5 * c - 1 /\ i >= 8 * n
    BY <1>1, <1>2 DEF ByteBits, CharBits
  <2>2. \A i \in n * ByteBits .. c * CharBits - 1 : Bit(chars, CharBits, i) = 0
    BY <1>1, <1>3, <2>1, BehindTheEnd
  <2> QED BY <1>2, <1>3, <2>2 DEF TrailingZero
<1> QED BY <1>2, <1>3, <1>6, <1>7 DEF chars, back, c

\* What base32_decode accepts, base32_encode makes of the bytes again.
LEMMA EncodesDecoded ==
  ASSUME NEW chars \in Seq(0 .. 31), ValidLength(Len(chars)), TrailingZero(chars)
  PROVE  LET octets == Regroup(chars, CharBits, ByteBits, (Len(chars) * CharBits) \div ByteBits)
         IN  /\ octets \in Seq(0 .. 255) /\ Len(octets) = (Len(chars) * CharBits) \div ByteBits
             /\ Regroup(octets, ByteBits, CharBits, base32_encoded_len(Len(octets)) - 1) = chars
<1> DEFINE c == Len(chars)
           n == (c * CharBits) \div ByteBits
           octets == Regroup(chars, CharBits, ByteBits, n)
           again == Regroup(octets, ByteBits, CharBits, c)
<1>1. c \in Nat /\ chars \in Seq(Nat)
  <2>1. chars \in Seq(Nat)
    BY SeqOfChars
  <2> QED BY <2>1
<1>2. n \in Nat /\ base32_encoded_len(n) - 1 = c /\ 8 * n <= 5 * c
  <2>1. n \in Nat /\ (n * ByteBits + CharBits - 1) \div CharBits = c /\ 8 * n <= 5 * c
    BY <1>1, Lengths
  <2> QED BY <1>1, <2>1 DEF base32_encoded_len
<1>3. \A i \in n * ByteBits .. c * CharBits - 1 : Bit(chars, CharBits, i) = 0
  BY DEF TrailingZero
<1> HIDE DEF n
<1>4. /\ octets \in Seq(0 .. 255) /\ Len(octets) = n
      /\ \A i \in 0 .. 8 * n - 1 : Bit(octets, ByteBits, i) = Bit(chars, CharBits, i)
  BY <1>1, <1>2, RegroupBytes
<1> HIDE DEF octets
<1>5. octets \in Seq(Nat)
  BY <1>4, SeqOfBytes
<1>6. /\ again \in Seq(0 .. 31) /\ Len(again) = c
      /\ \A i \in 0 .. 5 * c - 1 : Bit(again, CharBits, i) = Bit(octets, ByteBits, i)
  BY <1>1, <1>5, RegroupChars
<1> HIDE DEF again
<1>7. ASSUME NEW i \in 0 .. 5 * c - 1 PROVE Bit(again, CharBits, i) = Bit(chars, CharBits, i)
  <2>1. CASE i < 8 * n
    <3>1. i \in 0 .. 8 * n - 1
      BY <1>1, <1>2, <2>1
    <3> QED BY <1>4, <1>6, <3>1
  <2>2. CASE ~(i < 8 * n)
    <3>1. i \in Nat /\ i >= 8 * Len(octets) /\ i \in n * ByteBits .. c * CharBits - 1
      BY <1>1, <1>2, <1>4, <2>2 DEF ByteBits, CharBits
    <3> QED BY <1>3, <1>5, <1>6, <3>1, BehindTheEnd
  <2> QED BY <2>1, <2>2
<1>8. again = chars
  BY <1>6, <1>7, SameChars
<1> QED BY <1>2, <1>4, <1>8 DEF n, octets, again

\* Hex digits of bytes.
LEMMA HexOfBytes ==
  ASSUME NEW data \in Seq(0 .. 255), NEW room \in Nat, Len(data) <= room
  PROVE  /\ bytes_to_hex(data) \in Seq(0 .. 15) /\ Len(bytes_to_hex(data)) = 2 * Len(data)
         /\ hex_to_bytes(bytes_to_hex(data), room) = data
<1> DEFINE hex == bytes_to_hex(data)
           n == Len(data)
           octets == [i \in 1 .. Len(hex) \div 2 |-> HexByte(hex[2 * i - 1], hex[2 * i])]
<1>1. n \in Nat /\ \A j \in 1 .. n : data[j] \in 0 .. 255
  <2>1. \A j \in 1 .. n : data[j] \in 0 .. 255
    BY SeqOfBytes
  <2> QED BY <2>1
<1>2. hex = [i \in 1 .. 2 * n |-> IF i % 2 = 1 THEN data[(i + 1) \div 2] \div 16 ELSE data[i \div 2] % 16]
  BY DEF bytes_to_hex
<1>3. \A i \in 1 .. 2 * n : hex[i] \in 0 .. 15
  <2> SUFFICES ASSUME NEW i \in 1 .. 2 * n PROVE hex[i] \in 0 .. 15
    OBVIOUS
  <2>1. CASE i % 2 = 1
    <3>1. (i + 1) \div 2 \in 1 .. n
      BY <1>1, <2>1
    <3>2. data[(i + 1) \div 2] \in 0 .. 255
      BY <1>1, <3>1
    <3>3. hex[i] = data[(i + 1) \div 2] \div 16
      BY <1>2, <2>1
    <3> DEFINE v == data[(i + 1) \div 2]
               h == hex[i]
    <3>4. v \in 0 .. 255 /\ h = v \div 16
      BY <3>2, <3>3
    <3> HIDE DEF v, h
    <3>5. h \in 0 .. 15
      BY <3>4
    <3> QED BY <3>5 DEF h
  <2>2. CASE i % 2 # 1
    <3>1. i \div 2 \in 1 .. n
      BY <1>1, <2>2
    <3>2. data[i \div 2] \in 0 .. 255
      BY <1>1, <3>1
    <3>3. hex[i] = data[i \div 2] % 16
      BY <1>2, <2>2
    <3> DEFINE v == data[i \div 2]
               h == hex[i]
    <3>4. v \in 0 .. 255 /\ h = v % 16
      BY <3>2, <3>3
    <3> HIDE DEF v, h
    <3>5. h \in 0 .. 15
      BY <3>4
    <3> QED BY <3>5 DEF h
  <2> QED BY <2>1, <2>2
<1>4. hex \in [1 .. 2 * n -> 0 .. 15]
  BY <1>2, <1>3
<1> HIDE DEF hex
<1>5. hex \in Seq(0 .. 15) /\ Len(hex) = 2 * n
  <2> DEFINE m == 2 * n
             T == 0 .. 15
  <2>1. m \in Nat /\ hex \in [1 .. m -> T]
    BY <1>1, <1>4
  <2> HIDE DEF m, T
  <2>2. hex \in Seq(T) /\ Len(hex) = m
    BY <2>1, FunIsSeq
  <2> QED BY <2>2 DEF m, T
<1>6. Len(hex) % 2 = 0 /\ Len(hex) \div 2 = n
  BY <1>1, <1>5
<1>7. ASSUME NEW j \in 1 .. n PROVE octets[j] = data[j] /\ octets[j] # NoChar
  <2>1. /\ 2 * j - 1 \in 1 .. 2 * n /\ (2 * j - 1) % 2 = 1 /\ ((2 * j - 1) + 1) \div 2 = j
        /\ 2 * j \in 1 .. 2 * n /\ (2 * j) % 2 # 1 /\ (2 * j) \div 2 = j
    OBVIOUS
  <2>2. hex[2 * j - 1] = data[j] \div 16 /\ hex[2 * j] = data[j] % 16
    BY <1>2, <2>1
  <2>3. data[j] \in 0 .. 255
    BY <1>1
  <2>4. data[j] \div 16 \in 0 .. 15 /\ data[j] % 16 \in 0 .. 15 /\ 16 * (data[j] \div 16) + (data[j] % 16) = data[j]
    BY <2>3, Halves
  <2>5. octets[j] = HexByte(hex[2 * j - 1], hex[2 * j])
    BY <1>6
  <2> DEFINE hi == data[j] \div 16
             lo == data[j] % 16
  <2>6. hi \in 0 .. 15 /\ lo \in 0 .. 15 /\ 16 * hi + lo = data[j] /\ octets[j] = HexByte(hi, lo)
    BY <2>2, <2>4, <2>5
  <2> HIDE DEF hi, lo, octets
  <2> QED BY <2>3, <2>6 DEF HexByte, NoChar
<1>8. octets = data
  <2>1. data = [j \in 1 .. n |-> data[j]]
    OBVIOUS
  <2>2. octets = [j \in 1 .. n |-> octets[j]]
    BY <1>6
  <2> HIDE DEF octets
  <2>3. \A j \in 1 .. n : octets[j] = data[j]
    BY <1>7
  <2>4. [j \in 1 .. n |-> octets[j]] = [j \in 1 .. n |-> data[j]]
    BY <2>3
  <2> QED BY <2>1, <2>2, <2>4
<1>9. hex_to_bytes(hex, room) = octets
  <2>1. ~(\E i \in DOMAIN octets : octets[i] = NoChar)
    BY <1>6, <1>7
  <2>2. ~(Len(hex) % 2 # 0) /\ ~(Len(hex) \div 2 > room)
    BY <1>1, <1>6
  <2>3. hex_to_bytes(hex, room)
          = IF \/ Len(hex) % 2 # 0 \/ Len(hex) \div 2 > room
               \/ \E i \in DOMAIN octets : octets[i] = NoChar
            THEN Error ELSE octets
    BY DEF hex_to_bytes
  <2> HIDE DEF octets
  <2> QED BY <2>1, <2>2, <2>3
<1> QED BY <1>5, <1>8, <1>9 DEF hex

-----------------------------------------------------------------------------
(* Shares and their codes. *)

\* What the functions return in place of Error is not it.
LEMMA NoError ==
  /\ \A s \in Seq(Int) : s # Error
  /\ \A t \in Nat : \A s \in Seq(0 .. t) : s # Error
  /\ \A t \in ShareTexts : t # Error
<1>1. ASSUME NEW t \in Nat, NEW s \in Seq(0 .. t) PROVE s \in Seq(Int)
  <2>1. 0 .. t \subseteq Int
    OBVIOUS
  <2> QED BY <2>1, SeqMonotonic
<1> QED BY <1>1, ErrorAssumption, TextErrorAssumption

\* Bytes are no Error.
LEMMA BytesAreNoError == \A s \in Seq(0 .. 255) : s # Error /\ s \in Seq(Int)
<1> TAKE s \in Seq(0 .. 255)
<1>1. s \in Seq(Nat)
  BY SeqOfBytes
<1>2. s \in Seq(Int)
  <2>1. Nat \subseteq Int
    OBVIOUS
  <2> QED BY <1>1, <2>1, SeqMonotonic
<1> QED BY <1>2, NoError

\* A share is a text, and no Error.
LEMMA HexIsText ==
  ASSUME NEW x \in Prefix, NEW data \in Seq(0 .. 255)
  PROVE  /\ Text(x, "hex", bytes_to_hex(data)) \in ShareTexts
         /\ Text(x, "hex", bytes_to_hex(data)) # Error
<1>1. bytes_to_hex(data) \in Seq(0 .. 15)
  <2>1. Len(data) \in Nat /\ Len(data) <= Len(data)
    OBVIOUS
  <2> QED BY <2>1, HexOfBytes
<1>2. 0 .. 15 \subseteq Int
  OBVIOUS
<1>3. bytes_to_hex(data) \in Seq(Int)
  BY <1>1, <1>2, SeqMonotonic
<1> QED BY <1>3, NoError DEF ShareTexts, Text

\* What an encoder's caller gets, if anything.
LEMMA CodeOfShare ==
  ASSUME NEW x \in Prefix, NEW data \in Seq(0 .. 255),
         wasm_share_to_base32(Text(x, "hex", bytes_to_hex(data))) # Error
  PROVE  LET chars == Regroup(data, ByteBits, CharBits, base32_encoded_len(Len(data)) - 1)
         IN  /\ wasm_share_to_base32(Text(x, "hex", bytes_to_hex(data))) = Text(x, "base32", chars)
             /\ ValidPrefix(x) /\ Len(data) \in 1 .. SSS_MAX_SECRET_LEN
             /\ x.chars + 1 + Len(chars) < SHARE_B32_BUF_SIZE + 4
<1> DEFINE hex == bytes_to_hex(data)
           S == SSS_MAX_SECRET_LEN
           chars == Regroup(data, ByteBits, CharBits, base32_encoded_len(Len(data)) - 1)
           text == Text(x, "hex", hex)
           printed == Text(x, "base32", chars)
<1>1. S \in Nat \ {0} /\ Len(data) \in Nat
  BY ShareTextAssumption
<1>2. Len(hex) = 2 * Len(data)
  BY <1>1, HexOfBytes
<1>3. text.x = x /\ text.chars = hex
  BY DEF Text
<1>4. printed.x = x /\ printed.chars = chars
  BY DEF Text
<1> HIDE DEF hex
<1>5. Len(data) <= S
  <2> SUFFICES ASSUME Len(data) > S PROVE FALSE
    BY <1>1
  <2>1. Len(hex) \div 2 > S
    BY <1>1, <1>2
  <2>2. hex_to_bytes(hex, S) = Error
    BY <2>1 DEF hex_to_bytes
  <2>3. share_to_base32(text, SHARE_B32_BUF_SIZE + 4) = Error
    BY <1>3, <2>2 DEF share_to_base32
  <2> QED BY <2>3 DEF wasm_share_to_base32, hex
<1>6. hex_to_bytes(hex, S) = data
  BY <1>1, <1>5, HexOfBytes DEF hex
<1>7. data # Error
  BY BytesAreNoError
<1>8. base32_encode(data, SHARE_B32_BUF_SIZE) = chars
  <2>1. base32_encoded_len(Len(data)) <= SHARE_B32_BUF_SIZE
    BY <1>1, <1>5 DEF base32_encoded_len, SHARE_B32_BUF_SIZE, ByteBits, CharBits
  <2>2. base32_encoded_len(Len(data)) \in Int /\ SHARE_B32_BUF_SIZE \in Int
    BY <1>1 DEF base32_encoded_len, SHARE_B32_BUF_SIZE, ByteBits, CharBits
  <2> QED BY <2>1, <2>2 DEF base32_encode
<1> HIDE DEF chars
<1>9. wasm_share_to_base32(text)
        = IF ~ValidPrefix(x) \/ data = <<>> THEN Error ELSE Printed(printed, SHARE_B32_BUF_SIZE + 4)
  BY <1>3, <1>6, <1>7, <1>8 DEF wasm_share_to_base32, share_to_base32
<1>10. wasm_share_to_base32(text) # Error
  BY DEF hex
<1> HIDE DEF text, printed
<1>11. ValidPrefix(x) /\ data # <<>> /\ Printed(printed, SHARE_B32_BUF_SIZE + 4) # Error
  BY <1>9, <1>10
<1>12. ~(x.chars + 1 + Len(chars) >= SHARE_B32_BUF_SIZE + 4)
  BY <1>4, <1>11 DEF Printed
<1>13. Printed(printed, SHARE_B32_BUF_SIZE + 4) = printed
  BY <1>4, <1>12 DEF Printed
<1>14. x.chars + 1 + Len(chars) \in Int /\ SHARE_B32_BUF_SIZE + 4 \in Int
  <2>1. Len(chars) \in Nat
    <3>1. Len(chars) = (8 * Len(data) + 4) \div 5
      BY DecodesEncoded DEF chars
    <3> QED BY <1>1, <3>1
  <2>2. x.chars \in Nat
    BY DEF Prefix
  <2> QED BY <1>1, <2>1, <2>2 DEF SHARE_B32_BUF_SIZE
<1> QED BY <1>1, <1>5, <1>9, <1>11, <1>12, <1>13, <1>14, EmptySeq DEF chars, text, printed, hex

\* What is written for a character of the alphabet, in either case.
Written == 0 .. 57

\* Elements of a sequence.
LEMMA SeqIsFun ==
  ASSUME NEW S, NEW s \in Seq(S)
  PROVE  /\ Len(s) \in Nat /\ DOMAIN s = 1 .. Len(s)
         /\ s \in [1 .. Len(s) -> S] /\ \A i \in 1 .. Len(s) : s[i] \in S
OBVIOUS

\* The values of a written code: those of the capitals are themselves.
LEMMA ValuesOf ==
  ASSUME NEW chars \in Seq(Written)
  PROVE  /\ Values(chars) \in Seq(0 .. 31) /\ Len(Values(chars)) = Len(chars)
         /\ \A i \in DOMAIN Values(chars) : Values(chars)[i] # NoChar
         /\ PageValues(chars) = Values(chars)
         /\ chars \in Seq(0 .. 31) => Values(chars) = chars
<1> DEFINE n == Len(chars)
<1>1. n \in Nat /\ DOMAIN chars = 1 .. n /\ \A i \in 1 .. n : chars[i] \in Written
  BY SeqIsFun
<1>2. \A c \in Written : /\ base32_char_to_value(c) \in 0 .. 31 /\ base32_char_to_value(c) # NoChar
                         /\ PageValue(c) = base32_char_to_value(c)
                         /\ c \in 0 .. 31 => base32_char_to_value(c) = c
  BY DEF Written, base32_char_to_value, PageValue, NoChar, DotlessI, LongS
<1>3. Values(chars) = [i \in 1 .. n |-> base32_char_to_value(chars[i])]
  BY <1>1 DEF Values
<1>4. Values(chars) \in [1 .. n -> 0 .. 31]
  <2>1. \A i \in 1 .. n : base32_char_to_value(chars[i]) \in 0 .. 31
    BY <1>1, <1>2
  <2> DEFINE T == 0 .. 31
  <2>2. \A i \in 1 .. n : base32_char_to_value(chars[i]) \in T
    BY <2>1
  <2> HIDE DEF T
  <2>3. [i \in 1 .. n |-> base32_char_to_value(chars[i])] \in [1 .. n -> T]
    BY <2>2
  <2> QED BY <1>3, <2>3 DEF T
<1>5. Values(chars) \in Seq(0 .. 31) /\ Len(Values(chars)) = n
  <2> DEFINE f == Values(chars)
             T == 0 .. 31
  <2>1. f \in [1 .. n -> T] /\ n \in Nat
    BY <1>1, <1>4
  <2> HIDE DEF f, T, n
  <2>2. f \in Seq(T) /\ Len(f) = n
    BY <2>1, FunIsSeq
  <2> QED BY <2>2 DEF f, T
<1>6. \A i \in DOMAIN Values(chars) : Values(chars)[i] # NoChar
  BY <1>1, <1>2, <1>3
<1>7. PageValues(chars) = Values(chars)
  BY <1>1, <1>2 DEF PageValues, Values
<1>8. ASSUME chars \in Seq(0 .. 31) PROVE Values(chars) = chars
  <2>1. \A i \in 1 .. n : chars[i] \in 0 .. 31
    BY <1>8, SeqOfChars
  <2>2. chars = [i \in 1 .. n |-> chars[i]]
    BY <1>1
  <2>3. \A i \in 1 .. n : base32_char_to_value(chars[i]) = chars[i]
    BY <1>1, <1>2, <2>1
  <2>4. [i \in 1 .. n |-> base32_char_to_value(chars[i])] = [i \in 1 .. n |-> chars[i]]
    BY <2>3
  <2> QED BY <1>3, <2>2, <2>4
<1> QED BY <1>5, <1>6, <1>7, <1>8

\* Capitals are written characters, and these are characters of a code.
LEMMA WrittenChars ==
  /\ \A chars \in Seq(0 .. 31) : chars \in Seq(Written)
  /\ \A chars \in Seq(Written) : chars \in Seq(CodeChar)
<1>1. 0 .. 31 \subseteq Written /\ Written \subseteq CodeChar
  BY DEF Written, CodeChar, White, LongS
<1>2. ASSUME NEW S, NEW T, S \subseteq T, NEW s \in Seq(S) PROVE s \in Seq(T)
  BY <1>2, SeqMonotonic
<1> QED BY <1>1, <1>2

\* What the page leaves of a text, and where it ends.
InkedIn(chars) == {i \in DOMAIN chars : chars[i] # White}
LastInked(chars) == Max({0} \cup InkedIn(chars))

LEMMA Inked ==
  ASSUME NEW x, NEW a, NEW S, NEW chars \in Seq(S)
  PROVE  /\ Trimmed(Text(x, a, chars)) = Text(Unblanked(x), a, SubSeq(chars, 1, LastInked(chars)))
         /\ LastInked(chars) \in 0 .. Len(chars)
         /\ \A i \in InkedIn(chars) : i <= LastInked(chars)
<1> DEFINE inked == {i \in DOMAIN chars : chars[i] # White}
           n == Len(chars)
           T == {0} \cup inked
<1>1. n \in Nat /\ DOMAIN chars = 1 .. n
  BY SeqIsFun
<1>2. T \in SUBSET (0 .. n) /\ T # {}
  BY <1>1
<1>3. Text(x, a, chars).x = x /\ Text(x, a, chars).alphabet = a /\ Text(x, a, chars).chars = chars
  BY DEF Text
<1>4. Trimmed(Text(x, a, chars)) = Text(Unblanked(x), a, SubSeq(chars, 1, Max(T)))
  BY <1>3 DEF Trimmed
<1>5. inked \subseteq T
  OBVIOUS
<1> HIDE DEF T, n, inked
<1>6. Max(T) \in T /\ \A i \in T : i <= Max(T)
  BY <1>1, <1>2, GreatestIsMax
<1>7. Max(T) \in 0 .. n /\ \A i \in inked : i <= Max(T)
  BY <1>2, <1>5, <1>6
<1> QED BY <1>4, <1>7 DEF T, n, inked, InkedIn, LastInked

\* A written code has no end to trim.
LEMMA NothingTrimmed ==
  ASSUME NEW x, NEW a, NEW chars \in Seq(Written)
  PROVE  Trimmed(Text(x, a, chars)) = Text(Unblanked(x), a, chars)
<1> DEFINE last == LastInked(chars)
           n == Len(chars)
<1>1. n \in Nat /\ DOMAIN chars = 1 .. n /\ \A i \in 1 .. n : chars[i] \in Written
  BY SeqIsFun
<1>2. /\ Trimmed(Text(x, a, chars)) = Text(Unblanked(x), a, SubSeq(chars, 1, last))
      /\ last \in 0 .. n /\ \A i \in InkedIn(chars) : i <= last
  BY Inked
<1>3. \A c \in Written : c # White
  BY DEF Written, White
<1>4. \A i \in 1 .. n : i \in InkedIn(chars)
  BY <1>1, <1>3 DEF InkedIn
<1> HIDE DEF last, n
<1>5. last = n
  <2>1. CASE n = 0
    BY <1>2, <2>1
  <2>2. CASE n # 0
    <3>1. n \in 1 .. n
      BY <1>1, <2>2
    <3> QED BY <1>1, <1>2, <1>4, <3>1
  <2> QED BY <2>1, <2>2
<1>6. SubSeq(chars, 1, n) = chars
  BY SubSeqFull DEF n
<1> QED BY <1>2, <1>5, <1>6

\* What a valid code's decoder makes of it, but for the size of the buffer.
LEMMA DecodesCode ==
  ASSUME NEW x \in Prefix, NEW chars \in Seq(Written), NEW size \in Nat,
         ValidPrefix(x), ValidLength(Len(chars)), TrailingZero(Values(chars)),
         (Len(chars) * CharBits) \div ByteBits <= SSS_MAX_SECRET_LEN
  PROVE  LET data == Regroup(Values(chars), CharBits, ByteBits, (Len(chars) * CharBits) \div ByteBits)
             hex  == Text(x, "hex", bytes_to_hex(data))
         IN  /\ share_from_base32(Text(x, "base32", chars), size)
                  = IF x.chars + 1 + 2 * Len(data) >= size THEN Error ELSE hex
             /\ shareFromBase32(Trimmed(Text(x, "base32", chars)))
                  = Text(Unblanked(x), "hex", bytes_to_hex(data))
<1> DEFINE values == Values(chars)
           data == Regroup(values, CharBits, ByteBits, (Len(chars) * CharBits) \div ByteBits)
           hex == Text(x, "hex", bytes_to_hex(data))
           qr == Text(x, "base32", chars)
           qr1 == Text(Unblanked(x), "base32", chars)
<1>1. qr.x = x /\ qr.chars = chars /\ qr1.x = Unblanked(x) /\ qr1.chars = chars
  BY DEF Text
<1>2. /\ values \in Seq(0 .. 31) /\ Len(values) = Len(chars) /\ PageValues(chars) = values
      /\ \A i \in DOMAIN values : values[i] # NoChar
  BY ValuesOf
<1> HIDE DEF values
<1>3. data \in Seq(0 .. 255) /\ data # Error
  BY <1>2, EncodesDecoded, BytesAreNoError DEF values
<1>4. base32_decode(chars, SSS_MAX_SECRET_LEN) = data
  BY <1>2 DEF base32_decode, values
<1>5. shareFromBase32(qr1) = Text(Unblanked(x), "hex", bytes_to_hex(data))
  BY <1>1, <1>2 DEF shareFromBase32, values
<1>6. Len(bytes_to_hex(data)) = 2 * Len(data)
  <2>1. Len(data) \in Nat /\ Len(data) <= Len(data)
    BY <1>3
  <2> QED BY <1>3, <2>1, HexOfBytes
<1>7. hex.x = x /\ hex.chars = bytes_to_hex(data)
  BY DEF Text
<1>8. Trimmed(qr) = qr1
  BY NothingTrimmed
<1> HIDE DEF data, qr, qr1, hex
<1>9. share_from_base32(qr, size) = Printed(hex, size)
  BY <1>1, <1>3, <1>4 DEF share_from_base32, hex
<1>10. Printed(hex, size) = IF x.chars + 1 + 2 * Len(data) >= size THEN Error ELSE hex
  BY <1>6, <1>7 DEF Printed
<1> QED BY <1>5, <1>8, <1>9, <1>10 DEF data, qr, hex, values

\* What the device takes is valid.
LEMMA TakenIsValid ==
  ASSUME NEW x \in Prefix, NEW chars \in Seq(CodeChar),
         ReadBy("device", Text(x, "base32", chars)) # Error
  PROVE  /\ ValidPrefix(x) /\ chars \in Seq(Written)
         /\ ValidLength(Len(chars)) /\ TrailingZero(Values(chars))
         /\ (Len(chars) * CharBits) \div ByteBits <= SSS_MAX_SECRET_LEN
<1> DEFINE qr == Text(x, "base32", chars)
           values == Values(chars)
<1>1. qr.x = x /\ qr.chars = chars
  BY DEF Text
<1>2. share_from_base32(qr, QR_DECODE_MAX_PAYLOAD) # Error
  BY DEF ReadBy
<1> HIDE DEF qr
<1>3. ValidPrefix(x) /\ base32_decode(chars, SSS_MAX_SECRET_LEN) # Error
  BY <1>1, <1>2 DEF share_from_base32
<1>4. /\ ValidLength(Len(chars)) /\ TrailingZero(values)
      /\ (Len(chars) * CharBits) \div ByteBits <= SSS_MAX_SECRET_LEN
      /\ \A i \in DOMAIN values : values[i] # NoChar
  BY <1>3 DEF base32_decode
<1>5. chars \in Seq(Written)
  <2>1. /\ chars \in [1 .. Len(chars) -> CodeChar] /\ Len(chars) \in Nat
        /\ DOMAIN chars = 1 .. Len(chars)
    BY SeqIsFun
  <2>2. \A c : base32_char_to_value(c) # NoChar => c \in Written
    BY DEF base32_char_to_value, Written
  <2>3. \A i \in 1 .. Len(chars) : base32_char_to_value(chars[i]) # NoChar
    BY <1>4, <2>1 DEF Values
  <2>4. \A i \in 1 .. Len(chars) : chars[i] \in Written
    BY <2>2, <2>3
  <2>5. chars \in [1 .. Len(chars) -> Written]
    BY <2>1, <2>4
  <2> QED BY <2>1, <2>5, FunIsSeq
<1> QED BY <1>3, <1>4, <1>5

\* An encoder's code is read as the share it was made of, by every reader.
LEMMA CodeIsRead ==
  ASSUME NEW x \in Prefix, NEW data \in Seq(0 .. 255), NEW reader \in Reader,
         wasm_share_to_base32(Text(x, "hex", bytes_to_hex(data))) # Error
  PROVE  ReadBy(reader, wasm_share_to_base32(Text(x, "hex", bytes_to_hex(data))))
           = AsRead(reader, Text(x, "hex", bytes_to_hex(data)))
<1> DEFINE S == SSS_MAX_SECRET_LEN
           chars == Regroup(data, ByteBits, CharBits, base32_encoded_len(Len(data)) - 1)
           qr == Text(x, "base32", chars)
           share0 == Text(x, "hex", bytes_to_hex(data))
           share1 == Text(Unblanked(x), "hex", bytes_to_hex(data))
           n == Len(data)
<1>1. S \in Nat \ {0} /\ 2 * S + 8 < QR_DECODE_MAX_PAYLOAD
  BY ShareTextAssumption, CodecsAssumption
<1>2. /\ wasm_share_to_base32(share0) = qr
      /\ ValidPrefix(x) /\ n \in 1 .. S
      /\ x.chars + 1 + Len(chars) < SHARE_B32_BUF_SIZE + 4
  BY CodeOfShare
<1>3. /\ chars \in Seq(0 .. 31) /\ Len(chars) = (8 * n + 4) \div 5
      /\ ValidLength(Len(chars)) /\ TrailingZero(chars)
      /\ (Len(chars) * CharBits) \div ByteBits = n
      /\ Regroup(chars, CharBits, ByteBits, (Len(chars) * CharBits) \div ByteBits) = data
  BY DecodesEncoded
<1> HIDE DEF chars, n
<1>4. \A size \in Nat :
        /\ share_from_base32(qr, size) = IF x.chars + 1 + 2 * n >= size THEN Error ELSE share0
        /\ shareFromBase32(Trimmed(qr)) = share1
  <2>1. (Len(chars) * CharBits) \div ByteBits <= S
    BY <1>1, <1>2, <1>3
  <2>2. chars \in Seq(Written)
    BY <1>3, WrittenChars
  <2>3. Values(chars) = chars
    BY <1>3, <2>2, ValuesOf
  <2> QED BY <1>2, <1>3, <2>1, <2>2, <2>3, DecodesCode DEF n
<1>5. x.chars \in 1 .. 7
  BY <1>2 DEF ValidPrefix
<1>6. x.chars + 1 + 2 * n < QR_DECODE_MAX_PAYLOAD /\ x.chars + 1 + 2 * n < 2 * S + 5
  <2> DEFINE k == x.chars
             c == (8 * n + 4) \div 5
             b == (S * 8 + 4) \div 5
  <2>1. k + 1 + c < b + 1 + 4
    BY <1>2, <1>3 DEF SHARE_B32_BUF_SIZE
  <2>2. k \in 1 .. 7 /\ n \in 1 .. S /\ QR_DECODE_MAX_PAYLOAD \in Nat
    BY <1>2, <1>5 DEF QR_DECODE_MAX_PAYLOAD
  <2> HIDE DEF k, S
  <2>3. k + 1 + 2 * n < 2 * S + 5
    BY <1>1, <2>1, <2>2
  <2>4. k + 1 + 2 * n < QR_DECODE_MAX_PAYLOAD
    BY <1>1, <2>2
  <2> QED BY <2>3, <2>4 DEF k, S
<1>7. /\ share_from_base32(qr, QR_DECODE_MAX_PAYLOAD) = share0
      /\ share_from_base32(qr, 2 * S + 5) = share0
      /\ shareFromBase32(Trimmed(qr)) = share1
  <2>1. QR_DECODE_MAX_PAYLOAD \in Nat /\ 2 * S + 5 \in Nat
    BY <1>1 DEF QR_DECODE_MAX_PAYLOAD
  <2>2. x.chars + 1 + 2 * n \in Int
    BY <1>1, <1>2, <1>5
  <2>3. ~(x.chars + 1 + 2 * n >= QR_DECODE_MAX_PAYLOAD) /\ ~(x.chars + 1 + 2 * n >= 2 * S + 5)
    BY <1>6, <2>1, <2>2
  <2> HIDE DEF qr, share0, share1
  <2> QED BY <1>4, <2>1, <2>3
<1>8. AsRead(reader, share0) = IF reader = "jsqr" THEN share1 ELSE share0
  BY DEF AsRead, Text
<1> HIDE DEF qr, share0, share1
<1>9. ReadBy(reader, qr) = AsRead(reader, share0)
  BY <1>7, <1>8 DEF ReadBy, Reader, wasm_share_from_base32
<1> QED BY <1>2, <1>9 DEF share0

\* A code the device takes: the page reads the same share but for blanks, and so
\* does the demo if its buffer holds it; the share is encoded to the same code, in
\* capitals, if the encoder's buffer holds it.
LEMMA TakenCode ==
  ASSUME NEW x \in Prefix, NEW chars \in Seq(CodeChar),
         ReadBy("device", Text(x, "base32", chars)) # Error
  PROVE  LET code0 == Text(x, "base32", chars)
             dev == ReadBy("device", code0)
         IN  /\ ReadBy("jsqr", code0) = AsRead("jsqr", dev)
             /\ ReadBy("demo", code0) = dev \/ (x.chars > 3 /\ ReadBy("demo", code0) = Error)
             /\ chars # <<>> =>
                  \/ wasm_share_to_base32(dev) = Capitals(code0)
                  \/ x.chars > 3 /\ wasm_share_to_base32(dev) = Error
<1> DEFINE S == SSS_MAX_SECRET_LEN
           code0 == Text(x, "base32", chars)
           c == Len(chars)
           n == (c * CharBits) \div ByteBits
           values == Values(chars)
           caps == Capitals(code0)
           data == Regroup(values, CharBits, ByteBits, n)
           dev1 == Text(Unblanked(x), "hex", bytes_to_hex(data))
           dev == Text(x, "hex", bytes_to_hex(data))
<1>1. S \in Nat \ {0} /\ QR_DECODE_MAX_PAYLOAD \in Nat
  BY ShareTextAssumption DEF QR_DECODE_MAX_PAYLOAD
<1>2. ValidPrefix(x) /\ chars \in Seq(Written) /\ ValidLength(c) /\ TrailingZero(values) /\ n <= S
  BY TakenIsValid
<1>3. c \in Nat /\ n \in Nat /\ (c >= 1 => n >= 1) /\ (n * ByteBits + CharBits - 1) \div CharBits = c
  <2>1. c \in Nat
    OBVIOUS
  <2> HIDE DEF c
  <2> QED BY <1>2, <2>1, Lengths
<1>4. /\ data \in Seq(0 .. 255) /\ Len(data) = n
      /\ Regroup(data, ByteBits, CharBits, base32_encoded_len(Len(data)) - 1) = values
  <2>1. values \in Seq(0 .. 31) /\ Len(values) = c
    BY <1>2, ValuesOf
  <2> HIDE DEF values
  <2> QED BY <1>2, <2>1, EncodesDecoded
<1>5. x.chars \in 1 .. 7
  BY <1>2 DEF ValidPrefix
<1>6. \A size \in Nat :
        /\ share_from_base32(code0, size) = IF x.chars + 1 + 2 * n >= size THEN Error ELSE dev
        /\ shareFromBase32(Trimmed(code0)) = dev1
  BY <1>2, <1>4, DecodesCode
<1>7. ReadBy("device", code0) = dev /\ ReadBy("jsqr", code0) = AsRead("jsqr", dev)
  <2>1. AsRead("jsqr", dev) = dev1
    BY DEF AsRead, Text
  <2>2. x.chars + 1 + 2 * n < QR_DECODE_MAX_PAYLOAD
    <3> HIDE DEF n
    <3> QED BY <1>2, <1>3, <1>5, CodecsAssumption, <1>1
  <2>3. ReadBy("device", code0) = share_from_base32(code0, QR_DECODE_MAX_PAYLOAD)
    BY DEF ReadBy
  <2>4. ReadBy("jsqr", code0) = shareFromBase32(Trimmed(code0))
    BY DEF ReadBy
  <2>5. ReadBy("device", code0) # Error
    OBVIOUS
  <2> HIDE DEF dev, dev1, n, code0
  <2> QED BY <1>1, <1>6, <2>1, <2>3, <2>4, <2>5
<1>8. ReadBy("demo", code0) = dev \/ (x.chars > 3 /\ ReadBy("demo", code0) = Error)
  <2> DEFINE k == x.chars
  <2>1. ReadBy("demo", code0) = share_from_base32(code0, 2 * S + 5) /\ 2 * S + 5 \in Nat
    BY <1>1 DEF ReadBy, wasm_share_from_base32
  <2>2. k + 1 + 2 * n >= 2 * S + 5 => k > 3
    <3> HIDE DEF n, k
    <3> QED BY <1>1, <1>2, <1>3, <1>5 DEF k
  <2> HIDE DEF n, dev, dev1, code0
  <2> QED BY <1>6, <2>1, <2>2
<1>9. ASSUME chars # <<>>
      PROVE  wasm_share_to_base32(dev) = caps \/ (x.chars > 3 /\ wasm_share_to_base32(dev) = Error)
  <2>1. c >= 1 /\ n >= 1
    BY <1>3, <1>9, EmptySeq
  <2>2. hex_to_bytes(bytes_to_hex(data), S) = data
    BY <1>1, <1>2, <1>4, HexOfBytes
  <2>3. data # Error /\ data # <<>>
    BY <1>4, <2>1, BytesAreNoError, EmptySeq
  <2>4. base32_encode(data, SHARE_B32_BUF_SIZE) = values
    <3>1. base32_encoded_len(Len(data)) <= SHARE_B32_BUF_SIZE
      <4> HIDE DEF n, c, data
      <4> QED BY <1>1, <1>2, <1>3, <1>4 DEF base32_encoded_len, SHARE_B32_BUF_SIZE, ByteBits, CharBits
    <3>2. base32_encoded_len(Len(data)) \in Int /\ SHARE_B32_BUF_SIZE \in Int
      <4> HIDE DEF n, c, data
      <4> QED BY <1>1, <1>3, <1>4 DEF base32_encoded_len, SHARE_B32_BUF_SIZE, ByteBits, CharBits
    <3> HIDE DEF n, data
    <3> HIDE DEF values
    <3> QED BY <1>4, <3>1, <3>2 DEF base32_encode
  <2>5. /\ dev.x = x /\ dev.chars = bytes_to_hex(data)
        /\ caps = Text(x, "base32", values) /\ caps.x = x /\ caps.chars = values
    BY DEF Text, Capitals
  <2> HIDE DEF caps
  <2>6. wasm_share_to_base32(dev) = Printed(caps, SHARE_B32_BUF_SIZE + 4)
    <3> HIDE DEF data, dev, values
    <3> QED BY <1>2, <2>2, <2>3, <2>4, <2>5 DEF wasm_share_to_base32, share_to_base32
  <2>7. x.chars + 1 + c >= SHARE_B32_BUF_SIZE + 4 => x.chars > 3
    <3> DEFINE k == x.chars
    <3>1. c <= (S * 8 + 4) \div 5
      <4> HIDE DEF n, c
      <4> QED BY <1>1, <1>2, <1>3 DEF ByteBits, CharBits
    <3>2. k \in 1 .. 7
      BY <1>5
    <3>3. SHARE_B32_BUF_SIZE = (S * 8 + 4) \div 5 + 1
      BY DEF SHARE_B32_BUF_SIZE
    <3> HIDE DEF c, k
    <3>4. k + 1 + c >= SHARE_B32_BUF_SIZE + 4 => k > 3
      BY <1>1, <1>3, <3>1, <3>2, <3>3
    <3> QED BY <3>4 DEF k
  <2>8. Len(values) = c
    BY <1>2, ValuesOf
  <2> HIDE DEF dev, code0, values
  <2> QED BY <2>5, <2>6, <2>7, <2>8 DEF Printed
<1> HIDE DEF dev, code0
<1> QED BY <1>7, <1>8, <1>9 DEF code0

-----------------------------------------------------------------------------
(* Words in a text. *)

Char == 1 .. 255

\* A part of a text.
LEMMA PartOf ==
  ASSUME NEW S, NEW t \in Seq(S), NEW m \in 1 .. Len(t) + 1, NEW n \in m - 1 .. Len(t)
  PROVE  /\ SubSeq(t, m, n) \in Seq(S) /\ Len(SubSeq(t, m, n)) = n - m + 1
         /\ \A i \in 1 .. n - m + 1 : SubSeq(t, m, n)[i] = t[m + i - 1] /\ t[m + i - 1] \in S
<1>1. m \in Int /\ n \in Int /\ \A i \in m .. n : t[i] \in S
  OBVIOUS
<1>2. /\ SubSeq(t, m, n) \in Seq(S) /\ Len(SubSeq(t, m, n)) = IF m <= n THEN n - m + 1 ELSE 0
      /\ \A i \in 1 .. n - m + 1 : SubSeq(t, m, n)[i] = t[m + i - 1]
  BY <1>1, SubSeqProperties
<1>3. \A i \in 1 .. n - m + 1 : m + i - 1 \in m .. n
  BY <1>1
<1> QED BY <1>1, <1>2, <1>3

\* As many as an increasing sequence counts.
LEMMA CountFirst ==
  ASSUME NEW k \in Nat, NEW f \in [1 .. k -> Nat], \A m, n \in 1 .. k : m < n => f[m] < f[n],
         NEW n \in 0 .. k
  PROVE  Cardinality({f[m] : m \in 1 .. n}) = n
<1> DEFINE T == {f[m] : m \in 1 .. n}
           g == [m \in 1 .. n |-> f[m]]
<1>1. g \in Bijection(1 .. n, T)
  <2>1. g \in [1 .. n -> T]
    OBVIOUS
  <2>2. ASSUME NEW i \in 1 .. n, NEW j \in 1 .. n, g[i] = g[j] PROVE i = j
    <3>1. i \in 1 .. k /\ j \in 1 .. k /\ f[i] = f[j] /\ f[i] \in Nat /\ f[j] \in Nat
      BY <2>2
    <3>2. ~(i < j) /\ ~(j < i)
      BY <3>1
    <3> QED BY <3>1, <3>2
  <2>3. \A t \in T : \E i \in 1 .. n : g[i] = t
    OBVIOUS
  <2> QED BY <2>1, <2>2, <2>3 DEF Bijection, Injection, Surjection, IsInjective
<1>2. ExistsBijection(1 .. n, T)
  BY <1>1 DEF ExistsBijection
<1>3. n \in Nat
  OBVIOUS
<1> HIDE DEF T
<1>4. Cardinality(T) = n
  BY <1>2, <1>3, FS_CountingElements
<1> QED BY <1>4 DEF T

\* The words ws stand in the text at f[n] .. e[n], with spaces between.
SpelledAt(text, ws, f, e) ==
  /\ f \in [1 .. Len(ws) -> Nat] /\ e \in [1 .. Len(ws) -> Nat]
  /\ \A n \in 1 .. Len(ws) :
       /\ f[n] \in 1 .. Len(text) /\ e[n] \in f[n] .. Len(text)
       /\ SubSeq(text, f[n], e[n]) = ws[n]
       /\ \A i \in f[n] .. e[n] : text[i] # Space
       /\ e[n] = Len(text) \/ text[e[n] + 1] = Space
       /\ f[n] = 1 \/ text[f[n] - 1] = Space
  /\ \A m, n \in 1 .. Len(ws) : m < n => f[m] < f[n]
  /\ \A i \in 1 .. Len(text) : text[i] # Space => \E n \in 1 .. Len(ws) : i \in f[n] .. e[n]

Spelled(text, ws) == \E f, e : SpelledAt(text, ws, f, e)

\* These words are the tokens of the text.
LEMMA WordsOfSpelled ==
  ASSUME NEW S, NEW text \in Seq(S), NEW ws \in Seq(Seq(S)), Spelled(text, ws)
  PROVE  Tokens(text) = ws
<1>1. PICK f, e : SpelledAt(text, ws, f, e)
  BY DEF Spelled
<1> DEFINE k == Len(ws)
           starts == WordStarts(text)
<1>2. /\ k \in Nat /\ Len(text) \in Nat /\ DOMAIN text = 1 .. Len(text)
      /\ f \in [1 .. k -> Nat] /\ e \in [1 .. k -> Nat]
      /\ ws = [n \in 1 .. k |-> ws[n]]
  BY <1>1 DEF SpelledAt
<1>3. starts = {f[m] : m \in 1 .. k}
  <2>1. ASSUME NEW m \in 1 .. k PROVE f[m] \in starts
    <3>1. f[m] \in 1 .. Len(text) /\ f[m] \in f[m] .. e[m]
      BY <1>1 DEF SpelledAt
    <3>2. text[f[m]] # Space /\ (f[m] = 1 \/ text[f[m] - 1] = Space)
      BY <1>1, <3>1 DEF SpelledAt
    <3> QED BY <1>2, <3>1, <3>2 DEF WordStarts
  <2>2. ASSUME NEW i \in starts PROVE \E m \in 1 .. k : f[m] = i
    <3>1. i \in 1 .. Len(text) /\ text[i] # Space /\ (i = 1 \/ text[i - 1] = Space)
      BY <1>2 DEF WordStarts
    <3>2. PICK m \in 1 .. k : i \in f[m] .. e[m]
      BY <1>1, <3>1 DEF SpelledAt
    <3>3. f[m] \in 1 .. Len(text) /\ e[m] \in 1 .. Len(text) /\ \A j \in f[m] .. e[m] : text[j] # Space
      BY <1>1, <1>2 DEF SpelledAt
    <3>4. ~(f[m] < i)
      <4> SUFFICES ASSUME f[m] < i PROVE FALSE
        OBVIOUS
      <4>1. i - 1 \in f[m] .. e[m] /\ i # 1
        BY <3>1, <3>2, <3>3
      <4> QED BY <3>1, <3>3, <4>1
    <3> QED BY <3>1, <3>2, <3>3, <3>4
  <2> HIDE DEF starts
  <2> QED BY <2>1, <2>2
<1>4. Cardinality(starts) = k
  <2>1. k \in 0 .. k
    BY <1>2
  <2> HIDE DEF k, starts
  <2> QED BY <1>1, <1>2, <1>3, <2>1, CountFirst DEF SpelledAt, k
<1>5. ASSUME NEW m \in 1 .. k PROVE Cardinality({j \in starts : j < f[m]}) = m - 1
  <2>1. {j \in starts : j < f[m]} = {f[l] : l \in 1 .. m - 1}
    <3>1. \A l \in 1 .. k : f[l] < f[m] <=> l \in 1 .. m - 1
      <4> TAKE l \in 1 .. k
      <4>1. l < m => f[l] < f[m]
        BY <1>1 DEF SpelledAt
      <4>2. m < l => f[m] < f[l]
        BY <1>1 DEF SpelledAt
      <4>3. f[l] \in Nat /\ f[m] \in Nat
        BY <1>2
      <4> QED BY <4>1, <4>2, <4>3
    <3>2. 1 .. m - 1 \subseteq 1 .. k
      BY <1>2
    <3> HIDE DEF starts
    <3> QED BY <1>3, <3>1, <3>2
  <2>2. m - 1 \in 0 .. k
    BY <1>2
  <2>3. Cardinality({f[l] : l \in 1 .. m - 1}) = m - 1
    <3> DEFINE n == m - 1
    <3> HIDE DEF k, n
    <3> QED BY <1>1, <1>2, <2>2, CountFirst DEF SpelledAt, k, n
  <2> QED BY <2>1, <2>3
<1>6. ASSUME NEW n \in 1 .. k
      PROVE  (CHOOSE i \in starts : Cardinality({j \in starts : j < i}) = n - 1) = f[n]
  <2>1. f[n] \in starts /\ Cardinality({j \in starts : j < f[n]}) = n - 1
    BY <1>3, <1>5
  <2>2. ASSUME NEW i \in starts, Cardinality({j \in starts : j < i}) = n - 1 PROVE i = f[n]
    <3>1. PICK m \in 1 .. k : i = f[m]
      BY <1>3
    <3>2. m - 1 = n - 1
      BY <1>5, <2>2, <3>1
    <3>3. m \in Int /\ n \in Int
      OBVIOUS
    <3>4. m = n
      BY <3>2, <3>3
    <3> QED BY <3>1, <3>4
  <2> HIDE DEF starts, k
  <2> QED BY <2>1, <2>2
<1>7. ASSUME NEW n \in 1 .. k PROVE WordFrom(text, f[n]) = ws[n]
  <2> DEFINE Ends(j) == /\ j = Len(text) \/ text[j + 1] = Space
                        /\ \A i \in f[n] .. j : text[i] # Space
  <2>1. e[n] \in f[n] .. Len(text) /\ Ends(e[n]) /\ f[n] \in Nat /\ e[n] \in Nat
    BY <1>1, <1>2 DEF SpelledAt
  <2>2. ASSUME NEW j \in f[n] .. Len(text), Ends(j) PROVE j = e[n]
    <3>1. ~(j < e[n])
      <4> SUFFICES ASSUME j < e[n] PROVE FALSE
        OBVIOUS
      <4>1. j + 1 \in f[n] .. e[n] /\ j # Len(text)
        BY <1>2, <2>1
      <4> QED BY <2>1, <2>2, <4>1
    <3>2. ~(e[n] < j)
      <4> SUFFICES ASSUME e[n] < j PROVE FALSE
        OBVIOUS
      <4>1. e[n] + 1 \in f[n] .. j /\ e[n] # Len(text)
        BY <1>2, <2>1
      <4> QED BY <2>1, <2>2, <4>1
    <3> QED BY <1>2, <2>1, <3>1, <3>2
  <2>3. (CHOOSE j \in f[n] .. Len(text) : Ends(j)) = e[n]
    <3> HIDE DEF Ends
    <3> QED BY <2>1, <2>2
  <2>4. WordFrom(text, f[n]) = SubSeq(text, f[n], CHOOSE j \in f[n] .. Len(text) : Ends(j))
    BY DEF WordFrom
  <2>5. SubSeq(text, f[n], e[n]) = ws[n]
    BY <1>1 DEF SpelledAt
  <2> HIDE DEF Ends
  <2> QED BY <2>3, <2>4, <2>5
<1>8. Tokens(text) = [n \in 1 .. k |-> WordFrom(text, CHOOSE i \in starts : Cardinality({j \in starts : j < i}) = n - 1)]
  BY <1>4 DEF Tokens
<1> HIDE DEF starts, k
<1>9. Tokens(text) = [n \in 1 .. k |-> ws[n]]
  BY <1>6, <1>7, <1>8
<1> QED BY <1>2, <1>9

\* The same part of a text and of a longer one.
LEMMA SamePart ==
  ASSUME NEW S, NEW t \in Seq(S), NEW u \in Seq(S), NEW d \in Nat,
         NEW m \in 1 .. Len(t) + 1, NEW n \in m - 1 .. Len(t), n + d <= Len(u),
         \A i \in m .. n : u[i + d] = t[i]
  PROVE  SubSeq(u, m + d, n + d) = SubSeq(t, m, n)
<1>1. Len(t) \in Nat /\ Len(u) \in Nat /\ m \in Nat /\ n \in Int
  OBVIOUS
<1>2. m + d \in 1 .. Len(u) + 1 /\ n + d \in (m + d) - 1 .. Len(u)
  BY <1>1
<1> DEFINE a == SubSeq(t, m, n)
           b == SubSeq(u, m + d, n + d)
           h == m + d
           l == n + d
<1>3. a \in Seq(S) /\ Len(a) = n - m + 1 /\ \A i \in 1 .. n - m + 1 : a[i] = t[m + i - 1]
  BY PartOf
<1>4. SubSeq(u, h, l) \in Seq(S) /\ Len(SubSeq(u, h, l)) = l - h + 1
      /\ \A i \in 1 .. l - h + 1 : SubSeq(u, h, l)[i] = u[h + i - 1]
  <2>1. h \in 1 .. Len(u) + 1 /\ l \in h - 1 .. Len(u)
    BY <1>2
  <2> HIDE DEF h, l
  <2> QED BY <2>1, PartOf
<1>5. l - h + 1 = n - m + 1 /\ \A i \in 1 .. n - m + 1 : h + i - 1 = (m + i - 1) + d /\ m + i - 1 \in m .. n
  BY <1>1
<1> HIDE DEF a, h, l
<1>6. \A i \in 1 .. n - m + 1 : SubSeq(u, h, l)[i] = a[i]
  BY <1>3, <1>4, <1>5
<1>7. SubSeq(u, h, l) = a
  BY <1>3, <1>4, <1>5, <1>6, SameSeq
<1> QED BY <1>7 DEF a, h, l

\* The bounds of a part.
LEMMA Within ==
  ASSUME NEW L \in Nat, NEW a \in 1 .. L, NEW b \in a .. L, NEW M \in Nat, L <= M
  PROVE  /\ a \in Nat /\ b \in Nat
         /\ \A i \in a .. b : i \in 1 .. L
         /\ b # L => b + 1 \in 1 .. L
         /\ a # 1 => a - 1 \in 1 .. L
         /\ a \in 1 .. M /\ b \in a .. M
         /\ a \in 1 .. L + 1 /\ b \in a - 1 .. L /\ b + 0 <= M /\ a + 0 = a /\ b + 0 = b
OBVIOUS

\* A word alone.
LEMMA SpelledFirst ==
  ASSUME NEW S, NEW w \in Seq(S), Len(w) >= 1, \A i \in 1 .. Len(w) : w[i] # Space
  PROVE  Spelled(w, <<w>>)
<1> DEFINE f == [n \in 1 .. 1 |-> 1]
           e == [n \in 1 .. 1 |-> Len(w)]
<1>1. Len(w) \in Nat /\ Len(<<w>>) = 1 /\ <<w>>[1] = w
  OBVIOUS
<1>2. SubSeq(w, 1, Len(w)) = w
  BY SubSeqFull
<1>3. \A n \in 1 .. 1 : n = 1 /\ f[n] = 1 /\ e[n] = Len(w)
  OBVIOUS
<1>4. f \in [1 .. 1 -> Nat] /\ e \in [1 .. 1 -> Nat]
  BY <1>1
<1> HIDE DEF f, e
<1>5. SpelledAt(w, <<w>>, f, e)
  BY <1>1, <1>2, <1>3, <1>4 DEF SpelledAt
<1> QED BY <1>5 DEF Spelled

\* A space and another word.
LEMMA SpelledMore ==
  ASSUME NEW S, NEW text \in Seq(S), NEW ws \in Seq(Seq(S)), Spelled(text, ws), Len(text) >= 1,
         NEW w \in Seq(S), Len(w) >= 1, \A i \in 1 .. Len(w) : w[i] # Space,
         NEW more \in Seq(S), Len(more) = Len(text) + 1 + Len(w),
         \A i \in 1 .. Len(text) : more[i] = text[i],
         more[Len(text) + 1] = Space,
         \A i \in 1 .. Len(w) : more[i + (Len(text) + 1)] = w[i],
         NEW ws2 \in Seq(Seq(S)), Len(ws2) = Len(ws) + 1,
         \A n \in 1 .. Len(ws) : ws2[n] = ws[n], ws2[Len(ws) + 1] = w
  PROVE  Spelled(more, ws2)
<1>1. PICK f, e : SpelledAt(text, ws, f, e)
  BY DEF Spelled
<1> DEFINE k == Len(ws)
           L == Len(text)
           M == Len(more)
           f2 == [n \in 1 .. k + 1 |-> IF n <= k THEN f[n] ELSE L + 2]
           e2 == [n \in 1 .. k + 1 |-> IF n <= k THEN e[n] ELSE M]
<1>2. k \in Nat /\ L \in Nat /\ Len(w) \in Nat /\ M = L + 1 + Len(w) /\ M \in Nat
  <2>1. k \in Nat /\ L \in Nat /\ Len(w) \in Nat /\ M \in Nat
    BY LenProperties
  <2> QED BY <2>1
<1>3. f \in [1 .. k -> Nat] /\ e \in [1 .. k -> Nat]
  BY <1>1 DEF SpelledAt
<1>4. f2 \in [1 .. k + 1 -> Nat] /\ e2 \in [1 .. k + 1 -> Nat]
  BY <1>2, <1>3
<1>5. f2[k + 1] = L + 2 /\ e2[k + 1] = M /\ \A n \in 1 .. k : f2[n] = f[n] /\ e2[n] = e[n]
  BY <1>2
<1> HIDE DEF f2, e2, k
<1>6. ASSUME NEW n \in 1 .. k
      PROVE  /\ f[n] \in 1 .. L /\ e[n] \in f[n] .. L /\ f[n] \in Nat /\ e[n] \in Nat
             /\ SubSeq(more, f[n], e[n]) = ws[n]
             /\ \A i \in f[n] .. e[n] : more[i] # Space
             /\ more[e[n] + 1] = Space
             /\ f[n] = 1 \/ more[f[n] - 1] = Space
  <2>1. /\ f[n] \in 1 .. L /\ e[n] \in f[n] .. L /\ f[n] \in Nat /\ e[n] \in Nat
        /\ SubSeq(text, f[n], e[n]) = ws[n]
        /\ \A i \in f[n] .. e[n] : text[i] # Space
        /\ e[n] = L \/ text[e[n] + 1] = Space
        /\ f[n] = 1 \/ text[f[n] - 1] = Space
    BY <1>1, <1>3 DEF SpelledAt, k
  <2>9. /\ \A i \in f[n] .. e[n] : i \in 1 .. L
        /\ e[n] # L => e[n] + 1 \in 1 .. L
        /\ f[n] # 1 => f[n] - 1 \in 1 .. L
        /\ f[n] \in 1 .. M /\ e[n] \in f[n] .. M
        /\ f[n] \in 1 .. L + 1 /\ e[n] \in f[n] - 1 .. L /\ e[n] + 0 <= M /\ f[n] + 0 = f[n] /\ e[n] + 0 = e[n]
    <3> DEFINE a == f[n]
               b == e[n]
    <3>1. L \in Nat /\ M \in Nat /\ L <= M /\ a \in 1 .. L /\ b \in a .. L
      BY <1>2, <2>1
    <3> HIDE DEF L, M, a, b
    <3>2. /\ \A i \in a .. b : i \in 1 .. L
          /\ b # L => b + 1 \in 1 .. L
          /\ a # 1 => a - 1 \in 1 .. L
          /\ a \in 1 .. M /\ b \in a .. M
          /\ a \in 1 .. L + 1 /\ b \in a - 1 .. L /\ b + 0 <= M /\ a + 0 = a /\ b + 0 = b
      BY <3>1, Within
    <3> QED BY <3>2 DEF a, b
  <2>2. \A i \in f[n] .. e[n] : i \in 1 .. L /\ more[i] = text[i]
    BY <2>9
  <2>3. SubSeq(more, f[n], e[n]) = SubSeq(text, f[n], e[n])
    <3> DEFINE m == f[n]
               q == e[n]
    <3>1. m \in 1 .. Len(text) + 1 /\ q \in m - 1 .. Len(text) /\ q + 0 <= Len(more) /\ m + 0 = m /\ q + 0 = q
      BY <2>9
    <3>2. \A i \in m .. q : i + 0 = i /\ more[i] = text[i]
      <4>1. \A i \in 1 .. L : i + 0 = i
        OBVIOUS
      <4> QED BY <2>2, <4>1
    <3> HIDE DEF m, q
    <3>3. SubSeq(more, m + 0, q + 0) = SubSeq(text, m, q)
      <4> DEFINE z == 0
      <4>1. z \in Nat /\ q + z <= Len(more) /\ \A i \in m .. q : more[i + z] = text[i]
        BY <3>1, <3>2
      <4> HIDE DEF z
      <4>2. SubSeq(more, m + z, q + z) = SubSeq(text, m, q)
        BY <3>1, <4>1, SamePart
      <4> QED BY <4>2 DEF z
    <3> QED BY <3>1, <3>3 DEF m, q
  <2>4. more[e[n] + 1] = Space
    BY <2>1, <2>9
  <2>5. f[n] # 1 => f[n] - 1 \in 1 .. L
    BY <2>9
  <2> QED BY <2>1, <2>2, <2>3, <2>4, <2>5
<1>7. /\ L + 2 \in 1 .. M /\ M \in L + 2 .. M
      /\ SubSeq(more, L + 2, M) = w
      /\ \A i \in L + 2 .. M : more[i] # Space
      /\ more[(L + 2) - 1] = Space
  <2>1. (L + 2) - 1 = L + 1 /\ 1 + (L + 1) = L + 2 /\ Len(w) + (L + 1) = M
    BY <1>2
  <2>2. \A i \in L + 2 .. M : i - (L + 1) \in 1 .. Len(w) /\ (i - (L + 1)) + (L + 1) = i
    BY <1>2
  <2>3. SubSeq(more, L + 2, M) = SubSeq(w, 1, Len(w))
    <3> DEFINE d == L + 1
    <3>1. d \in Nat /\ 1 \in 1 .. Len(w) + 1 /\ Len(w) \in 1 - 1 .. Len(w) /\ Len(w) + d <= Len(more)
      BY <1>2
    <3>2. \A i \in 1 .. Len(w) : more[i + d] = w[i]
      OBVIOUS
    <3> HIDE DEF d
    <3>3. SubSeq(more, 1 + d, Len(w) + d) = SubSeq(w, 1, Len(w))
      BY <3>1, <3>2, SamePart
    <3> QED BY <2>1, <3>3 DEF d
  <2>4. SubSeq(w, 1, Len(w)) = w
    BY SubSeqFull
  <2>5. \A i \in L + 2 .. M : more[i] # Space
    <3> TAKE i \in L + 2 .. M
    <3> DEFINE j == i - (L + 1)
    <3>1. j \in 1 .. Len(w) /\ j + (L + 1) = i
      BY <2>2
    <3> HIDE DEF j
    <3>2. more[j + (L + 1)] = w[j] /\ w[j] # Space
      BY <3>1
    <3> QED BY <3>1, <3>2
  <2>6. L + 2 \in 1 .. M /\ M \in L + 2 .. M
    BY <1>2
  <2> QED BY <2>1, <2>3, <2>4, <2>5, <2>6
<1>8. \A n \in 1 .. k + 1 : n \in 1 .. k \/ n = k + 1
  BY <1>2
<1>9. ASSUME NEW n \in 1 .. k + 1
      PROVE  /\ f2[n] \in 1 .. M /\ e2[n] \in f2[n] .. M
             /\ SubSeq(more, f2[n], e2[n]) = ws2[n]
             /\ \A i \in f2[n] .. e2[n] : more[i] # Space
             /\ e2[n] = M \/ more[e2[n] + 1] = Space
             /\ f2[n] = 1 \/ more[f2[n] - 1] = Space
  <2>1. CASE n \in 1 .. k
    <3>1. f[n] \in 1 .. M /\ e[n] \in f[n] .. M
      BY <1>2, <1>6, <2>1
    <3>2. ws2[n] = ws[n]
      BY <2>1 DEF k
    <3> QED BY <1>5, <1>6, <2>1, <3>1, <3>2
  <2>2. CASE n = k + 1
    BY <1>5, <1>7, <2>2 DEF k
  <2> QED BY <1>8, <2>1, <2>2
<1>10. ASSUME NEW m \in 1 .. k + 1, NEW n \in 1 .. k + 1, m < n PROVE f2[m] < f2[n]
  <2>1. m \in 1 .. k
    BY <1>2, <1>10
  <2>2. CASE n \in 1 .. k
    <3>1. f[m] < f[n]
      BY <1>1, <1>10, <2>1, <2>2 DEF SpelledAt, k
    <3> QED BY <1>5, <2>1, <2>2, <3>1
  <2>3. CASE n = k + 1
    <3>1. f[m] \in 1 .. L
      BY <1>6, <2>1
    <3>2. f[m] < L + 2
      BY <1>2, <3>1
    <3> QED BY <1>5, <2>1, <2>3, <3>2
  <2> QED BY <1>8, <2>2, <2>3
<1>11. ASSUME NEW i \in 1 .. M, more[i] # Space PROVE \E n \in 1 .. k + 1 : i \in f2[n] .. e2[n]
  <2>1. CASE i \in 1 .. L
    <3>1. PICK n \in 1 .. k : i \in f[n] .. e[n]
      BY <1>1, <1>11, <2>1 DEF SpelledAt, k
    <3>2. n \in 1 .. k + 1
      BY <1>2
    <3> QED BY <1>5, <3>1, <3>2
  <2>2. CASE i \notin 1 .. L
    <3>1. i # L + 1
      BY <1>11
    <3>2. i \in L + 2 .. M
      BY <1>2, <2>2, <3>1
    <3>3. k + 1 \in 1 .. k + 1
      BY <1>2
    <3> QED BY <1>5, <3>2, <3>3
  <2> QED BY <2>1, <2>2
<1>12. SpelledAt(more, ws2, f2, e2)
  <2>1. Len(ws2) = k + 1
    BY DEF k
  <2> QED BY <1>4, <1>9, <1>10, <1>11, <2>1 DEF SpelledAt
<1> QED BY <1>12 DEF Spelled

\* A space and nothing behind it.
LEMMA SpelledTail ==
  ASSUME NEW S, NEW text \in Seq(S), NEW ws \in Seq(Seq(S)), Spelled(text, ws),
         NEW more \in Seq(S), Len(more) = Len(text) + 1,
         \A i \in 1 .. Len(text) : more[i] = text[i],
         more[Len(text) + 1] = Space
  PROVE  Spelled(more, ws)
<1>1. PICK f, e : SpelledAt(text, ws, f, e)
  BY DEF Spelled
<1> DEFINE k == Len(ws)
           L == Len(text)
           M == Len(more)
<1>2. k \in Nat /\ L \in Nat /\ M = L + 1 /\ M \in Nat
  OBVIOUS
<1>3. f \in [1 .. k -> Nat] /\ e \in [1 .. k -> Nat]
  BY <1>1 DEF SpelledAt
<1>4. ASSUME NEW n \in 1 .. k
      PROVE  /\ f[n] \in 1 .. M /\ e[n] \in f[n] .. M
             /\ SubSeq(more, f[n], e[n]) = ws[n]
             /\ \A i \in f[n] .. e[n] : more[i] # Space
             /\ e[n] = M \/ more[e[n] + 1] = Space
             /\ f[n] = 1 \/ more[f[n] - 1] = Space
  <2>1. /\ f[n] \in 1 .. L /\ e[n] \in f[n] .. L /\ f[n] \in Nat /\ e[n] \in Nat
        /\ SubSeq(text, f[n], e[n]) = ws[n]
        /\ \A i \in f[n] .. e[n] : text[i] # Space
        /\ e[n] = L \/ text[e[n] + 1] = Space
        /\ f[n] = 1 \/ text[f[n] - 1] = Space
    BY <1>1, <1>3 DEF SpelledAt
  <2>9. /\ \A i \in f[n] .. e[n] : i \in 1 .. L
        /\ e[n] # L => e[n] + 1 \in 1 .. L
        /\ f[n] # 1 => f[n] - 1 \in 1 .. L
        /\ f[n] \in 1 .. M /\ e[n] \in f[n] .. M
        /\ f[n] \in 1 .. L + 1 /\ e[n] \in f[n] - 1 .. L /\ e[n] + 0 <= M /\ f[n] + 0 = f[n] /\ e[n] + 0 = e[n]
    <3> DEFINE a == f[n]
               b == e[n]
    <3>1. L \in Nat /\ M \in Nat /\ L <= M /\ a \in 1 .. L /\ b \in a .. L
      BY <1>2, <2>1
    <3> HIDE DEF L, M, a, b
    <3>2. /\ \A i \in a .. b : i \in 1 .. L
          /\ b # L => b + 1 \in 1 .. L
          /\ a # 1 => a - 1 \in 1 .. L
          /\ a \in 1 .. M /\ b \in a .. M
          /\ a \in 1 .. L + 1 /\ b \in a - 1 .. L /\ b + 0 <= M /\ a + 0 = a /\ b + 0 = b
      BY <3>1, Within
    <3> QED BY <3>2 DEF a, b
  <2>2. \A i \in f[n] .. e[n] : i \in 1 .. L /\ more[i] = text[i]
    BY <2>9
  <2>3. SubSeq(more, f[n], e[n]) = SubSeq(text, f[n], e[n])
    <3> DEFINE m == f[n]
               q == e[n]
    <3>1. m \in 1 .. Len(text) + 1 /\ q \in m - 1 .. Len(text) /\ q + 0 <= Len(more) /\ m + 0 = m /\ q + 0 = q
      BY <2>9
    <3>2. \A i \in m .. q : i + 0 = i /\ more[i] = text[i]
      <4>1. \A i \in 1 .. L : i + 0 = i
        OBVIOUS
      <4> QED BY <2>2, <4>1
    <3> HIDE DEF m, q
    <3>3. SubSeq(more, m + 0, q + 0) = SubSeq(text, m, q)
      <4> DEFINE z == 0
      <4>1. z \in Nat /\ q + z <= Len(more) /\ \A i \in m .. q : more[i + z] = text[i]
        BY <3>1, <3>2
      <4> HIDE DEF z
      <4>2. SubSeq(more, m + z, q + z) = SubSeq(text, m, q)
        BY <3>1, <4>1, SamePart
      <4> QED BY <4>2 DEF z
    <3> QED BY <3>1, <3>3 DEF m, q
  <2>4. more[e[n] + 1] = Space
    BY <2>1, <2>9
  <2>5. f[n] # 1 => f[n] - 1 \in 1 .. L
    BY <2>9
  <2>6. f[n] \in 1 .. M /\ e[n] \in f[n] .. M
    BY <1>2, <2>1
  <2> QED BY <2>1, <2>2, <2>3, <2>4, <2>5, <2>6
<1>5. ASSUME NEW i \in 1 .. M, more[i] # Space PROVE \E n \in 1 .. k : i \in f[n] .. e[n]
  <2>1. i \in 1 .. L
    BY <1>2, <1>5
  <2> QED BY <1>1, <1>5, <2>1 DEF SpelledAt
<1>6. \A m, n \in 1 .. k : m < n => f[m] < f[n]
  BY <1>1 DEF SpelledAt
<1>7. SpelledAt(more, ws, f, e)
  BY <1>3, <1>4, <1>5, <1>6 DEF SpelledAt
<1> QED BY <1>7 DEF Spelled

\* The words of a list.
LEMMA WordFacts ==
  ASSUME NEW list \in List, NEW i \in 1 .. Len(Words(list))
  PROVE  /\ Words(list)[i] \in Seq(Char) /\ Len(Words(list)[i]) \in 1 .. MaxWordLen
         /\ \A j \in 1 .. Len(Words(list)[i]) : Words(list)[i][j] \notin {Space, Tab, Separator}
<1> DEFINE W == Words(list)
           w == W[i]
<1>1. W \in Seq(Seq(Char))
  BY WordListAssumption DEF Char
<1>2. W \in [1 .. Len(W) -> Seq(Char)] /\ DOMAIN W = 1 .. Len(W)
  <2> HIDE DEF W
  <2> QED BY <1>1, LenProperties
<1>3. w \in Seq(Char) /\ w \in ToSet(W)
  <2>1. i \in 1 .. Len(W)
    OBVIOUS
  <2> HIDE DEF W
  <2> QED BY <1>2, <2>1 DEF ToSet
<1>4. Len(w) \in 1 .. MaxWordLen /\ {Space, Tab, Separator} \cap ToSet(w) = {}
  BY <1>3, WordListAssumption
<1>5. DOMAIN w = 1 .. Len(w)
  BY <1>3
<1> HIDE DEF w
<1>6. \A j \in 1 .. Len(w) : w[j] \notin {Space, Tab, Separator}
  BY <1>4, <1>5 DEF ToSet
<1> QED BY <1>3, <1>4, <1>6 DEF w

\* The recursion of FlattenSeq.
LEMMA FlattenSteps ==
  ASSUME NEW S, NEW seqs \in Seq(Seq(S)), Len(seqs) >= 1
  PROVE  \E g \in [1 .. Len(seqs) -> Seq(S)] :
           /\ g[1] = seqs[1]
           /\ \A i \in 2 .. Len(seqs) : g[i] = g[i - 1] \o seqs[i]
           /\ FlattenSeq(seqs) = g[Len(seqs)]
<1> DEFINE N == Len(seqs)
           D == 1 .. N
           V == Seq(S)
           rank == [b \in D |-> b]
           E(g, i) == IF i = 1 THEN seqs[i] ELSE g[i - 1] \o seqs[i]
           Body == [g \in [D -> V] |-> [i \in D |-> E(g, i)]]
           flatten == CHOOSE g : g = [i \in 1 .. Len(seqs) |-> E(g, i)]
<1>1. N \in Nat /\ N >= 1 /\ \A i \in D : seqs[i] \in V
  OBVIOUS
<1> HIDE DEF N
<1>2. ASSUME NEW g \in [D -> V], NEW i \in D PROVE E(g, i) \in V
  <2>1. CASE i = 1
    BY <1>1, <2>1
  <2>2. CASE i # 1
    <3>1. i - 1 \in D
      BY <1>1, <2>2
    <3>2. g[i - 1] \in V /\ seqs[i] \in V
      BY <1>1, <3>1
    <3> QED BY <2>2, <3>2, ConcatProperties
  <2> QED BY <2>1, <2>2
<1>3. Body \in [[D -> V] -> [D -> V]]
  BY <1>2
<1>4. ASSUME NEW g \in [D -> V], NEW h \in [D -> V], NEW b \in D,
             \A c \in D : rank[c] < rank[b] => g[c] = h[c]
      PROVE  Body[g][b] = Body[h][b]
  <2>1. CASE b = 1
    BY <2>1
  <2>2. CASE b # 1
    <3>1. b - 1 \in D /\ rank[b - 1] < rank[b]
      BY <1>1, <2>2
    <3>2. g[b - 1] = h[b - 1]
      BY <1>4, <3>1
    <3>3. E(g, b) = E(h, b)
      BY <3>2
    <3> QED BY <3>3
  <2> QED BY <2>1, <2>2
<1>5. \E g \in [D -> V] : g = Body[g]
  <2>1. rank \in [D -> Nat]
    BY <1>1
  <2>2. V # {}
    BY <1>1
  <2>3. Descends(D, V, rank, Body)
    <3> HIDE DEF D, rank, Body, V
    <3> QED BY <1>3, <1>4, <2>1, <2>2 DEF Descends
  <2> HIDE DEF D, rank, Body, V
  <2> QED BY <2>3, Solution
<1>6. flatten = [i \in 1 .. Len(seqs) |-> E(flatten, i)]
  <2>1. \E g : g = [i \in 1 .. Len(seqs) |-> E(g, i)]
    BY <1>5 DEF N
  <2> QED BY <2>1
<1>7. FlattenSeq(seqs) = flatten[Len(seqs)]
  BY <1>1 DEF FlattenSeq, N
<1> HIDE DEF flatten
<1>8. \A i \in D : flatten[i] \in V
  <2> DEFINE T == {b \in Nat : b + 1 \in D => flatten[b + 1] \in V}
  <2>1. 0 \in T
    <3>1. 0 + 1 \in D => flatten[0 + 1] = seqs[0 + 1]
      BY <1>6 DEF N
    <3> QED BY <1>1, <3>1
  <2>2. ASSUME NEW b \in Nat, b \in T PROVE b + 1 \in T
    <3> SUFFICES ASSUME b + 1 + 1 \in D PROVE flatten[b + 1 + 1] \in V
      OBVIOUS
    <3> DEFINE i == b + 1 + 1
    <3>1. i - 1 \in D /\ i - 1 = b + 1 /\ i \in D /\ i # 1
      BY <1>1
    <3>2. flatten[i - 1] \in V /\ seqs[i] \in V
      BY <1>1, <2>2, <3>1
    <3>3. flatten[i] = flatten[i - 1] \o seqs[i]
      <4> HIDE DEF i
      <4> QED BY <1>6, <3>1 DEF N
    <3> HIDE DEF i
    <3>4. flatten[i] \in V
      BY <3>2, <3>3, ConcatProperties
    <3> QED BY <3>4 DEF i
  <2> HIDE DEF T
  <2>3. Nat \subseteq T
    BY <2>1, <2>2, NatInduct
  <2>4. ASSUME NEW i \in D PROVE flatten[i] \in V
    <3>1. i - 1 \in Nat /\ (i - 1) + 1 = i
      BY <1>1
    <3>2. i - 1 \in T
      BY <2>3, <3>1
    <3> QED BY <3>1, <3>2 DEF T
  <2> QED BY <2>4
<1>9. flatten \in [1 .. N -> V]
  BY <1>6, <1>8 DEF N
<1>10. flatten[1] = seqs[1]
  BY <1>1, <1>6 DEF N
<1>11. \A i \in 2 .. N : flatten[i] = flatten[i - 1] \o seqs[i]
  <2> TAKE i \in 2 .. N
  <2>1. i \in 1 .. Len(seqs) /\ i # 1
    BY <1>1 DEF N
  <2> QED BY <1>6, <2>1
<1> QED BY <1>7, <1>9, <1>10, <1>11 DEF N

\* A text, a space and a word.
LEMMA SpaceAndWord ==
  ASSUME NEW S, NEW text \in Seq(S), Space \in S, NEW u \in Seq(S),
         Len(text) >= 1, Len(u) >= 1
  PROVE  LET more == text \o (<<Space>> \o u)
         IN  /\ Len(text) \in Nat /\ Len(u) \in Nat
             /\ more \in Seq(S) /\ Len(more) = Len(text) + 1 + Len(u)
             /\ \A i \in 1 .. Len(text) : more[i] = text[i]
             /\ more[Len(text) + 1] = Space
             /\ \A i \in 1 .. Len(u) : more[i + (Len(text) + 1)] = u[i]
<1> DEFINE v == <<Space>> \o u
           more == text \o v
           L == Len(text)
           M == Len(u)
<1>1. <<Space>> \in Seq(S) /\ Len(<<Space>>) = 1 /\ <<Space>>[1] = Space /\ L \in Nat /\ M \in Nat
  OBVIOUS
<1>2. v \in Seq(S) /\ Len(v) = 1 + M
      /\ \A i \in 1 .. 1 + M : v[i] = IF i <= 1 THEN <<Space>>[i] ELSE u[i - 1]
  BY <1>1, ConcatProperties
<1>3. v[1] = Space /\ \A i \in 1 .. M : v[i + 1] = u[i]
  <2>1. 1 \in 1 .. 1 + M /\ \A i \in 1 .. M : i + 1 \in 1 .. 1 + M /\ ~(i + 1 <= 1) /\ (i + 1) - 1 = i
    BY <1>1
  <2> HIDE DEF v, M
  <2> QED BY <1>1, <1>2, <2>1
<1> HIDE DEF v
<1>4. more \in Seq(S) /\ Len(more) = L + Len(v)
      /\ \A i \in 1 .. L + Len(v) : more[i] = IF i <= L THEN text[i] ELSE v[i - L]
  <2>1. v \in Seq(S)
    BY <1>2
  <2> QED BY <2>1, ConcatProperties
<1> HIDE DEF more, L, M
<1>5. Len(more) = L + 1 + M /\ \A i \in 1 .. L : more[i] = text[i]
  BY <1>1, <1>2, <1>4
<1>6. more[L + 1] = Space
  <2>1. L + 1 \in 1 .. L + Len(v) /\ ~(L + 1 <= L) /\ (L + 1) - L = 1
    BY <1>1, <1>2
  <2> QED BY <1>3, <1>4, <2>1
<1>7. ASSUME NEW i \in 1 .. M PROVE more[i + (L + 1)] = u[i]
  <2>1. i + (L + 1) \in 1 .. L + Len(v) /\ ~(i + (L + 1) <= L) /\ (i + (L + 1)) - L = i + 1
    BY <1>1, <1>2
  <2> QED BY <1>3, <1>4, <2>1
<1> QED BY <1>1, <1>4, <1>5, <1>6, <1>7 DEF more, L, M, v

\* What joining n words gives.
Joined(text, ws, n) ==
  /\ Len(text) \in 1 .. n * (MaxWordLen + 1) - 1
  /\ text[1] # Space /\ text[Len(text)] # Space
  /\ \A i \in 1 .. Len(text) : text[i] \notin {Tab, Separator}
  /\ Spelled(text, ws)

\* A text of indices holds their words, with one space between two.
LEMMA JoinSpells ==
  ASSUME NEW list \in List, NEW idx \in Seq(Nat), Len(idx) >= 1,
         \A n \in 1 .. Len(idx) : idx[n] < Len(Words(list))
  PROVE  /\ Join(list, idx) \in Seq(Char)
         /\ Joined(Join(list, idx), [n \in 1 .. Len(idx) |-> Words(list)[idx[n] + 1]], Len(idx))
<1> DEFINE N == Len(idx)
           w(n) == Words(list)[idx[n] + 1]
           ws == [n \in 1 .. N |-> w(n)]
           seqs == [n \in DOMAIN idx |-> (IF n = 1 THEN <<>> ELSE <<Space>>) \o Words(list)[idx[n] + 1]]
           B == MaxWordLen
<1>1. N \in Nat /\ N >= 1 /\ DOMAIN idx = 1 .. N /\ B \in Nat /\ Space \in Char
  BY WordListAssumption DEF Char
<1>2. ASSUME NEW n \in 1 .. N
      PROVE  /\ w(n) \in Seq(Char) /\ Len(w(n)) \in 1 .. B
             /\ \A j \in 1 .. Len(w(n)) : w(n)[j] \notin {Space, Tab, Separator}
  <2>1. idx[n] \in Nat /\ Len(Words(list)) \in Nat
    BY WordListAssumption
  <2>2. idx[n] + 1 \in 1 .. Len(Words(list))
    BY <2>1
  <2> QED BY <2>2, WordFacts
<1> HIDE DEF w, N, B
<1>3. ASSUME NEW n \in 1 .. N
      PROVE  seqs[n] = (IF n = 1 THEN <<>> ELSE <<Space>>) \o w(n)
  BY <1>1, <1>3 DEF w
<1>4. ASSUME NEW n \in 2 .. N PROVE seqs[n] \in Seq(Char) /\ seqs[n] = <<Space>> \o w(n)
  <2>1. n \in 1 .. N /\ n # 1
    BY <1>1
  <2>2. seqs[n] = <<Space>> \o w(n)
    BY <1>3, <2>1
  <2>3. <<Space>> \in Seq(Char) /\ w(n) \in Seq(Char)
    BY <1>1, <1>2, <2>1
  <2>4. <<Space>> \o w(n) \in Seq(Char)
    BY <2>3, ConcatProperties
  <2> HIDE DEF seqs
  <2> QED BY <2>2, <2>4
<1>5. 1 \in 1 .. N /\ seqs[1] = w(1)
  <2>1. 1 \in 1 .. N
    BY <1>1
  <2>2. seqs[1] = <<>> \o w(1)
    BY <1>3, <2>1
  <2> QED BY <1>2, <2>1, <2>2, ConcatEmptySeq
<1>6. seqs \in Seq(Seq(Char)) /\ Len(seqs) = N
  <2>1. \A n \in 1 .. N : seqs[n] \in Seq(Char)
    <3>1. \A n \in 1 .. N : n = 1 \/ n \in 2 .. N
      BY <1>1
    <3> HIDE DEF seqs
    <3> QED BY <1>2, <1>4, <1>5, <3>1
  <2>2. seqs = [n \in 1 .. N |-> seqs[n]]
    BY <1>1
  <2> HIDE DEF seqs
  <2>3. seqs \in [1 .. N -> Seq(Char)]
    BY <2>1, <2>2
  <2> QED BY <1>1, <2>3, FunIsSeq
<1>7. Join(list, idx) = FlattenSeq(seqs)
  BY DEF Join
<1> HIDE DEF seqs
<1>8. PICK g \in [1 .. N -> Seq(Char)] :
        /\ g[1] = seqs[1]
        /\ \A i \in 2 .. N : g[i] = g[i - 1] \o seqs[i]
        /\ FlattenSeq(seqs) = g[N]
  BY <1>1, <1>6, FlattenSteps
<1> DEFINE head(n) == [m \in 1 .. n |-> w(m)]
           Good(n) == Joined(g[n], head(n), n)
<1>9. ASSUME NEW n \in 1 .. N PROVE head(n) \in Seq(Seq(Char)) /\ Len(head(n)) = n
  <2>1. n \in Nat /\ \A m \in 1 .. n : m \in 1 .. N
    BY <1>1
  <2>2. head(n) \in [1 .. n -> Seq(Char)]
    BY <1>2, <2>1
  <2> HIDE DEF head
  <2> QED BY <2>1, <2>2, FunIsSeq
<1>10. Good(1)
  <2>1. g[1] = w(1)
    BY <1>5, <1>8
  <2>2. /\ w(1) \in Seq(Char) /\ Len(w(1)) \in 1 .. B
        /\ \A j \in 1 .. Len(w(1)) : w(1)[j] \notin {Space, Tab, Separator}
    BY <1>2, <1>5
  <2>3. head(1) = <<w(1)>>
    <3>1. \A m \in 1 .. 1 : m = 1
      OBVIOUS
    <3>2. head(1) = [m \in 1 .. 1 |-> w(1)]
      BY <3>1
    <3> QED BY <3>2
  <2>4. Len(w(1)) >= 1 /\ 1 \in 1 .. Len(w(1)) /\ Len(w(1)) \in 1 .. Len(w(1)) /\ Len(w(1)) \in 1 .. 1 * (B + 1) - 1
    <3> DEFINE l == Len(w(1))
    <3>1. l \in 1 .. B
      BY <2>2
    <3> HIDE DEF l
    <3>2. l >= 1 /\ 1 \in 1 .. l /\ l \in 1 .. l /\ l \in 1 .. 1 * (B + 1) - 1
      BY <1>1, <3>1
    <3> QED BY <3>2 DEF l
  <2>5. Spelled(w(1), <<w(1)>>)
    <3> DEFINE u == w(1)
    <3>1. u \in Seq(Char) /\ Len(u) >= 1 /\ \A j \in 1 .. Len(u) : u[j] # Space
      BY <2>2, <2>4
    <3> HIDE DEF u
    <3>2. Spelled(u, <<u>>)
      BY <3>1, SpelledFirst
    <3> QED BY <3>2 DEF u
  <2> HIDE DEF head
  <2> QED BY <2>1, <2>2, <2>3, <2>4, <2>5 DEF Joined, B
<1>11. ASSUME NEW n \in 1 .. N, Good(n), n + 1 \in 1 .. N PROVE Good(n + 1)
  <2> DEFINE text == g[n]
             more == g[n + 1]
             u == w(n + 1)
             L == Len(text)
  <2>1. text \in Seq(Char) /\ more \in Seq(Char)
    BY <1>11
  <2>2. /\ u \in Seq(Char) /\ Len(u) \in 1 .. B
        /\ \A j \in 1 .. Len(u) : u[j] \notin {Space, Tab, Separator}
    BY <1>2, <1>11
  <2>3. more = text \o (<<Space>> \o u)
    <3>1. n + 1 \in 2 .. N /\ (n + 1) - 1 = n
      BY <1>11
    <3> QED BY <1>4, <1>8, <3>1
  <2>4. /\ L \in 1 .. n * (B + 1) - 1
        /\ text[1] # Space /\ text[L] # Space
        /\ \A i \in 1 .. L : text[i] \notin {Tab, Separator}
        /\ Spelled(text, head(n))
    BY <1>11 DEF Joined, B
  <2>5. head(n + 1) \in Seq(Seq(Char)) /\ Len(head(n + 1)) = n + 1 /\ head(n) \in Seq(Seq(Char)) /\ Len(head(n)) = n
    BY <1>9, <1>11
  <2>6. (\A m \in 1 .. n : head(n + 1)[m] = head(n)[m]) /\ head(n + 1)[n + 1] = u
    BY <1>11
  <2> HIDE DEF head, text, more, u
  <2>7. /\ L \in Nat /\ Len(u) \in Nat /\ Len(u) >= 1 /\ L >= 1
        /\ Len(more) = L + 1 + Len(u)
        /\ \A i \in 1 .. L : more[i] = text[i]
        /\ more[L + 1] = Space
        /\ \A i \in 1 .. Len(u) : more[i + (L + 1)] = u[i]
    <3>1. Len(u) >= 1
      <4> DEFINE l == Len(u)
      <4>1. l \in 1 .. B
        BY <2>2
      <4> HIDE DEF l
      <4>2. l >= 1
        BY <1>1, <4>1
      <4> QED BY <4>2 DEF l
    <3>2. Len(text) >= 1
      <4> DEFINE b == n * (B + 1) - 1
      <4>1. L \in 1 .. b /\ b \in Int
        BY <1>1, <2>4
      <4> HIDE DEF b, L
      <4>2. L >= 1
        BY <4>1
      <4> QED BY <4>2 DEF L
    <3> QED BY <1>1, <2>1, <2>2, <2>3, <3>1, <3>2, SpaceAndWord
  <2>8. Spelled(more, head(n + 1))
    <3> DEFINE p == head(n)
               q == head(n + 1)
    <3>1. /\ p \in Seq(Seq(Char)) /\ q \in Seq(Seq(Char)) /\ Len(q) = Len(p) + 1
          /\ \A m \in 1 .. Len(p) : q[m] = p[m]
          /\ q[Len(p) + 1] = u /\ Spelled(text, p)
      BY <2>4, <2>5, <2>6
    <3>2. /\ \A i \in 1 .. Len(text) : more[i] = text[i]
          /\ more[Len(text) + 1] = Space
          /\ \A i \in 1 .. Len(u) : more[i + (Len(text) + 1)] = u[i]
          /\ Len(more) = Len(text) + 1 + Len(u)
          /\ Len(text) >= 1 /\ Len(u) >= 1
      BY <2>7
    <3>3. \A j \in 1 .. Len(u) : u[j] # Space
      BY <2>2
    <3> HIDE DEF p, q
    <3>4. Spelled(more, q)
      BY <2>1, <2>2, <3>1, <3>2, <3>3, SpelledMore
    <3> QED BY <3>4 DEF q
  <2>9. Len(more) \in 1 .. (n + 1) * (B + 1) - 1
    <3> DEFINE b == n * (B + 1)
               lu == Len(u)
    <3>1. (n + 1) * (B + 1) = b + (B + 1) /\ b \in Int /\ n \in Nat
      BY <1>1
    <3>2. Len(more) = L + 1 + lu /\ L \in 1 .. b - 1 /\ lu \in 1 .. B
      BY <2>2, <2>4, <2>7
    <3> DEFINE c == (n + 1) * (B + 1)
    <3>3. c = b + (B + 1)
      BY <3>1
    <3> HIDE DEF b, c, L, lu
    <3>4. L + 1 + lu \in 1 .. c - 1
      BY <1>1, <3>1, <3>2, <3>3
    <3>5. Len(more) \in 1 .. c - 1
      BY <3>2, <3>4
    <3> QED BY <3>5 DEF c
  <2>10. more[1] # Space /\ more[Len(more)] # Space
    <3>1. 1 \in 1 .. L
      BY <2>7
    <3>2. Len(u) \in 1 .. Len(u) /\ Len(u) + (L + 1) = Len(more)
      BY <2>7
    <3>3. u[Len(u)] # Space
      BY <2>2, <3>2
    <3>4. more[Len(more)] = u[Len(u)]
      BY <2>7, <3>2
    <3> QED BY <2>4, <2>7, <3>1, <3>3, <3>4
  <2>11. ASSUME NEW i \in 1 .. Len(more) PROVE more[i] \notin {Tab, Separator}
    <3>1. CASE i \in 1 .. L
      BY <2>4, <2>7, <3>1
    <3>2. CASE i = L + 1
      BY <2>7, <3>2, WordListAssumption
    <3>3. CASE i \notin 1 .. L /\ i # L + 1
      <4> DEFINE j == i - (L + 1)
      <4>1. j \in 1 .. Len(u) /\ j + (L + 1) = i
        <5> HIDE DEF L
        <5> QED BY <2>7, <3>3
      <4> HIDE DEF j
      <4>2. more[j + (L + 1)] = u[j] /\ u[j] \notin {Tab, Separator}
        BY <2>2, <2>7, <4>1
      <4> QED BY <4>1, <4>2
    <3> QED BY <3>1, <3>2, <3>3
  <2>12. Joined(more, head(n + 1), n + 1)
    BY <2>8, <2>9, <2>10, <2>11 DEF Joined, B
  <2> QED BY <2>12 DEF more
<1>12. \A n \in 1 .. N : Good(n)
  <2> DEFINE T == {b \in Nat : b + 1 \in 1 .. N => Good(b + 1)}
  <2> HIDE DEF Good
  <2>1. 0 \in T
    <3>1. 0 + 1 = 1
      OBVIOUS
    <3> QED BY <1>10, <3>1
  <2>2. ASSUME NEW b \in Nat, b \in T PROVE b + 1 \in T
    <3> SUFFICES ASSUME b + 1 + 1 \in 1 .. N PROVE Good(b + 1 + 1)
      OBVIOUS
    <3>1. b + 1 \in 1 .. N
      BY <1>1
    <3>2. Good(b + 1)
      BY <2>2, <3>1
    <3> QED BY <1>11, <3>1, <3>2
  <2> HIDE DEF T
  <2>3. Nat \subseteq T
    BY <2>1, <2>2, NatInduct
  <2>4. ASSUME NEW n \in 1 .. N PROVE Good(n)
    <3>1. n - 1 \in Nat /\ (n - 1) + 1 = n
      BY <1>1
    <3>2. n - 1 \in T
      BY <2>3, <3>1
    <3> QED BY <3>1, <3>2 DEF T
  <2> QED BY <2>4
<1>13. N \in 1 .. N /\ g[N] \in Seq(Char)
  BY <1>1
<1>14. ws = head(N)
  OBVIOUS
<1>15. Joined(g[N], ws, N)
  BY <1>12, <1>13, <1>14
<1> QED BY <1>7, <1>8, <1>13, <1>15 DEF N, w

-----------------------------------------------------------------------------
(* Phrases, their words and indices. *)

\* What a C string shows.
LEMMA UpToNulText ==
  ASSUME NEW t \in Seq(0 .. 255)
  PROVE  /\ UpToNul(t) \in Seq(Char) /\ Len(UpToNul(t)) <= Len(t)
         /\ (\A i \in 1 .. Len(t) : t[i] # 0) => UpToNul(t) = t
<1> DEFINE nuls == {i \in DOMAIN t : t[i] = 0}
           n == Min(nuls)
<1>1. DOMAIN t = 1 .. Len(t) /\ Len(t) \in Nat
  OBVIOUS
<1>2. \A i \in 1 .. Len(t) : t[i] # 0 => t[i] \in Char
  <2>1. \A v \in 0 .. 255 : v # 0 => v \in 1 .. 255
    OBVIOUS
  <2>2. \A i \in 1 .. Len(t) : t[i] \in 0 .. 255
    <3> DEFINE T == 0 .. 255
    <3>1. t \in Seq(T)
      OBVIOUS
    <3> HIDE DEF T
    <3>2. \A i \in 1 .. Len(t) : t[i] \in T
      BY <3>1
    <3> QED BY <3>2 DEF T
  <2> QED BY <2>1, <2>2 DEF Char
<1>3. CASE nuls = {}
  <2>1. \A i \in 1 .. Len(t) : t[i] \in Char
    BY <1>1, <1>2, <1>3
  <2>2. t \in [1 .. Len(t) -> Char]
    BY <1>1, <2>1
  <2>3. t \in Seq(Char)
    BY <1>1, <2>2, FunIsSeq
  <2>4. UpToNul(t) = t
    BY <1>3 DEF UpToNul
  <2> QED BY <1>1, <2>3, <2>4
<1>4. CASE nuls # {} /\ t # Error
  <2>1. nuls \subseteq Nat
    BY <1>1
  <2>2. n \in nuls /\ \A i \in nuls : n <= i
    <3> HIDE DEF nuls
    <3> QED BY <1>4, <2>1, LeastIsMin
  <2>3. n \in 1 .. Len(t) /\ t[n] = 0
    BY <1>1, <2>2
  <2> HIDE DEF n
  <2>4. \A i \in 1 .. n - 1 : i \in 1 .. Len(t) /\ t[i] \in Char
    <3> TAKE i \in 1 .. n - 1
    <3>1. i \in 1 .. Len(t) /\ ~(n <= i)
      BY <1>1, <2>3
    <3>2. t[i] # 0
      BY <1>1, <2>2, <3>1
    <3> QED BY <1>2, <3>1, <3>2
  <2>5. 1 \in Int /\ n - 1 \in Int /\ n - 1 \in Nat /\ n - 1 <= Len(t)
    BY <1>1, <2>3
  <2>6. SubSeq(t, 1, n - 1) \in Seq(Char) /\ Len(SubSeq(t, 1, n - 1)) = IF 1 <= n - 1 THEN (n - 1) - 1 + 1 ELSE 0
    <3> DEFINE m == n - 1
    <3>1. m \in Int /\ \A i \in 1 .. m : t[i] \in Char
      BY <2>4, <2>5
    <3> HIDE DEF m
    <3>2. SubSeq(t, 1, m) \in Seq(Char) /\ Len(SubSeq(t, 1, m)) = IF 1 <= m THEN m - 1 + 1 ELSE 0
      BY <3>1, SubSeqProperties
    <3> QED BY <3>2 DEF m
  <2>7. Len(SubSeq(t, 1, n - 1)) <= Len(t)
    BY <1>1, <2>3, <2>5, <2>6
  <2>8. UpToNul(t) = SubSeq(t, 1, n - 1)
    BY <1>4 DEF UpToNul, n
  <2>9. ~(\A i \in 1 .. Len(t) : t[i] # 0)
    BY <2>3
  <2> QED BY <2>6, <2>7, <2>8, <2>9
<1>5. t # Error
  <2>1. 0 .. 255 \subseteq Int
    OBVIOUS
  <2>2. t \in Seq(Int)
    BY <2>1, SeqMonotonic
  <2> QED BY <2>2, ErrorAssumption
<1> QED BY <1>3, <1>4, <1>5

\* The loop over a list finds a word of it where it stands.
LEMMA IndexOfWord ==
  ASSUME NEW list \in List, NEW word, Known(list, word)
  PROVE  /\ IndexOf(list, word) \in 0 .. Len(Words(list)) - 1
         /\ Words(list)[IndexOf(list, word) + 1] = word
<1> DEFINE W == Words(list)
           I == {i \in 1 .. Len(W) : W[i] = word}
<1>1. W \in Seq(Seq(1 .. 255)) /\ DOMAIN W = 1 .. Len(W) /\ Len(W) \in Nat
  <2>1. W \in Seq(Seq(1 .. 255))
    BY WordListAssumption
  <2> QED BY <2>1
<1>2. I # {} /\ I \subseteq Nat
  <2>1. word \in ToSet(W)
    BY DEF Known
  <2> HIDE DEF W
  <2> QED BY <1>1, <2>1 DEF ToSet
<1>3. IndexOf(list, word) = Min(I) - 1
  <2>1. SelectInSeq(W, LAMBDA w : w = word) = IF I # {} THEN Min(I) ELSE 0
    BY DEF SelectInSeq
  <2> HIDE DEF I
  <2> QED BY <1>2, <2>1 DEF IndexOf
<1>4. Min(I) \in I
  <2> HIDE DEF I
  <2> QED BY <1>2, LeastIsMin
<1> DEFINE m == Min(I)
<1>5. m \in 1 .. Len(W) /\ W[m] = word
  BY <1>4
<1> HIDE DEF m, W
<1>6. m - 1 \in 0 .. Len(W) - 1 /\ (m - 1) + 1 = m
  BY <1>1, <1>5
<1> QED BY <1>3, <1>5, <1>6 DEF m, W

\* And a word is found at its own index.
LEMMA IndexOfIndexed ==
  ASSUME NEW list \in List, NEW i \in Nat, i < Len(Words(list))
  PROVE  Known(list, Words(list)[i + 1]) /\ IndexOf(list, Words(list)[i + 1]) = i
<1> DEFINE W == Words(list)
<1>1. W \in Seq(Seq(1 .. 255)) /\ DOMAIN W = 1 .. Len(W) /\ Len(W) \in Nat
      /\ \A j, k \in DOMAIN W : W[j] = W[k] => j = k
  <2>1. W \in Seq(Seq(1 .. 255)) /\ \A j, k \in DOMAIN W : W[j] = W[k] => j = k
    BY WordListAssumption
  <2> QED BY <2>1
<1>2. i + 1 \in 1 .. Len(W)
  BY <1>1
<1>3. Known(list, W[i + 1])
  BY <1>1, <1>2 DEF Known, ToSet
<1> DEFINE m == IndexOf(list, W[i + 1])
<1>4. m \in 0 .. Len(W) - 1 /\ W[m + 1] = W[i + 1]
  BY <1>3, IndexOfWord
<1> HIDE DEF m, W
<1>5. m + 1 \in 1 .. Len(W) /\ m \in Int
  BY <1>1, <1>4
<1>6. m + 1 = i + 1
  BY <1>1, <1>2, <1>4, <1>5
<1>7. m = i
  BY <1>5, <1>6
<1> QED BY <1>3, <1>7 DEF m, W

\* How many words a text has.
LEMMA TokensAre ==
  ASSUME NEW S, NEW text \in Seq(S)
  PROVE  /\ Cardinality(WordStarts(text)) \in Nat
         /\ DOMAIN Tokens(text) = 1 .. Len(Tokens(text))
         /\ Len(Tokens(text)) = Cardinality(WordStarts(text))
         /\ Tokens(text) = [n \in 1 .. Len(Tokens(text)) |-> Tokens(text)[n]]
<1> DEFINE c == Cardinality(WordStarts(text))
           T(n) == WordFrom(text, CHOOSE i \in WordStarts(text) :
                                    Cardinality({j \in WordStarts(text) : j < i}) = n - 1)
<1>1. WordStarts(text) \subseteq 1 .. Len(text) /\ Len(text) \in Nat
  BY DEF WordStarts
<1>2. c \in Nat
  <2>1. IsFiniteSet(1 .. Len(text))
    BY <1>1, FS_Interval
  <2>2. IsFiniteSet(WordStarts(text))
    BY <1>1, <2>1, FS_Subset
  <2> QED BY <2>2, FS_CardinalityType
<1>3. Tokens(text) = [n \in 1 .. c |-> T(n)]
  BY DEF Tokens
<1> HIDE DEF c, T
<1>4. Len(Tokens(text)) = c
  <2> DEFINE U == {T(n) : n \in 1 .. c}
  <2>1. [n \in 1 .. c |-> T(n)] \in [1 .. c -> U]
    OBVIOUS
  <2> HIDE DEF U
  <2> QED BY <1>2, <1>3, <2>1, FunIsSeq
<1> QED BY <1>2, <1>3, <1>4 DEF c

\* What the indices of a phrase say of it.
LEMMA ParsedWords ==
  ASSUME NEW list \in List, NEW S, NEW text \in Seq(S),
         wl_codec_parse_words(list, text) # Error
  PROVE  LET idx == wl_codec_parse_words(list, text)
         IN  /\ idx \in Seq(Nat) /\ Len(idx) <= MaxWords[list]
             /\ \A n \in 1 .. Len(idx) : idx[n] < Len(Words(list))
             /\ Tokens(text) = [n \in 1 .. Len(idx) |-> Words(list)[idx[n] + 1]]
<1> DEFINE words == Tokens(text)
           k == Len(words)
           idx == wl_codec_parse_words(list, text)
<1>1. k \in Nat /\ DOMAIN words = 1 .. k /\ words = [n \in 1 .. k |-> words[n]]
  BY TokensAre
<1>2. /\ k <= MaxWords[list] /\ \A n \in DOMAIN words : Known(list, words[n])
      /\ idx = [n \in DOMAIN words |-> IndexOf(list, words[n])]
  BY DEF wl_codec_parse_words
<1>3. Len(Words(list)) \in Nat
  BY WordListAssumption
<1> HIDE DEF idx, words, k
<1>4. ASSUME NEW n \in 1 .. k
      PROVE idx[n] \in Nat /\ idx[n] < Len(Words(list)) /\ Words(list)[idx[n] + 1] = words[n]
  <2>1. Known(list, words[n]) /\ idx[n] = IndexOf(list, words[n])
    BY <1>1, <1>2
  <2>2. idx[n] \in 0 .. Len(Words(list)) - 1 /\ Words(list)[idx[n] + 1] = words[n]
    BY <2>1, IndexOfWord
  <2> DEFINE i == idx[n]
  <2>3. i \in 0 .. Len(Words(list)) - 1
    BY <2>2
  <2> HIDE DEF i
  <2>4. i \in Nat /\ i < Len(Words(list))
    BY <1>3, <2>3
  <2> QED BY <2>2, <2>4 DEF i
<1>5. idx \in [1 .. k -> Nat]
  BY <1>1, <1>2, <1>4
<1>6. idx \in Seq(Nat) /\ Len(idx) = k
  BY <1>1, <1>5, FunIsSeq
<1>7. words = [n \in 1 .. Len(idx) |-> Words(list)[idx[n] + 1]]
  BY <1>1, <1>4, <1>6
<1> QED BY <1>2, <1>4, <1>6, <1>7 DEF idx, words, k

\* A text with the words of some indices is parsed to them.
LEMMA ParsesToIndices ==
  ASSUME NEW list \in List, NEW text, NEW idx \in Seq(Nat), Len(idx) <= MaxWords[list],
         \A n \in 1 .. Len(idx) : idx[n] < Len(Words(list)),
         Tokens(text) = [n \in 1 .. Len(idx) |-> Words(list)[idx[n] + 1]]
  PROVE  wl_codec_parse_words(list, text) = idx
<1> DEFINE words == [n \in 1 .. Len(idx) |-> Words(list)[idx[n] + 1]]
           k == Len(idx)
<1>1. k \in Nat /\ DOMAIN words = 1 .. k /\ idx = [n \in 1 .. k |-> idx[n]]
  OBVIOUS
<1>2. Len(words) = k
  <2> DEFINE U == {Words(list)[idx[n] + 1] : n \in 1 .. k}
  <2>1. words \in [1 .. k -> U]
    OBVIOUS
  <2> HIDE DEF U
  <2> QED BY <1>1, <2>1, FunIsSeq
<1>3. ASSUME NEW n \in 1 .. k PROVE Known(list, words[n]) /\ IndexOf(list, words[n]) = idx[n]
  <2>1. idx[n] \in Nat /\ idx[n] < Len(Words(list)) /\ words[n] = Words(list)[idx[n] + 1]
    OBVIOUS
  <2> HIDE DEF words, k
  <2> QED BY <2>1, IndexOfIndexed
<1>4. Tokens(text) = words
  OBVIOUS
<1> HIDE DEF words, k
<1>5. wl_codec_parse_words(list, text) = [n \in DOMAIN words |-> IndexOf(list, words[n])]
  <2>1. Len(words) <= MaxWords[list]
    BY <1>2 DEF k
  <2> QED BY <1>1, <1>3, <1>4, <2>1 DEF wl_codec_parse_words
<1>6. wl_codec_parse_words(list, text) = [n \in 1 .. k |-> idx[n]]
  BY <1>1, <1>3, <1>5
<1> QED BY <1>1, <1>6

\* Division by a size that is not fixed.
LEMMA TwoHalves ==
  ASSUME NEW B \in Nat \ {0}, NEW v \in Nat, v < B * B
  PROVE  /\ v % B \in 0 .. B - 1 /\ v \div B \in 0 .. B - 1
         /\ (v % B) + B * (v \div B) = v
<1>1. v % B \in 0 .. B - 1 /\ v \div B \in Nat /\ (v % B) + B * (v \div B) = v
  OBVIOUS
<1> DEFINE q == v \div B
           r == v % B
<1> HIDE DEF q, r
<1>2. q < B
  <2> SUFFICES ASSUME q >= B PROVE FALSE
    BY <1>1 DEF q
  <2>1. q \in Nat /\ r \in 0 .. B - 1 /\ r + B * q = v
    BY <1>1 DEF q, r
  <2>2. B * q >= B * B
    BY <2>1
  <2>3. r >= 0 /\ B * q \in Int /\ B * B \in Int /\ r \in Int
    BY <2>1
  <2> QED BY <2>1, <2>2, <2>3
<1> QED BY <1>1, <1>2 DEF q

\* An index of two halves has these halves.
LEMMA HalvesTogether ==
  ASSUME NEW B \in Nat \ {0}, NEW lo \in 0 .. B - 1, NEW hi \in Nat
  PROVE  (lo + B * hi) % B = lo /\ (lo + B * hi) \div B = hi
<1> DEFINE v == lo + B * hi
           q == v \div B
           r == v % B
           p == B * q
           s == B * hi
<1>1. v \in Nat
  OBVIOUS
<1>2. r \in 0 .. B - 1 /\ q \in Nat /\ r + p = v
  <2> HIDE DEF v
  <2> QED BY <1>1
<1>3. r + p = lo + s
  BY <1>2
<1> HIDE DEF v, q, r
<1>4. p \in Nat /\ s \in Nat
  BY <1>2
<1>5. ~(q < hi)
  <2> SUFFICES ASSUME q < hi PROVE FALSE
    OBVIOUS
  <2>1. s >= p + B
    BY <1>2
  <2> HIDE DEF p, s
  <2> QED BY <1>2, <1>3, <1>4, <2>1
<1>6. ~(hi < q)
  <2> SUFFICES ASSUME hi < q PROVE FALSE
    OBVIOUS
  <2>1. p >= s + B
    BY <1>2
  <2> HIDE DEF p, s
  <2> QED BY <1>2, <1>3, <1>4, <2>1
<1>7. q = hi
  BY <1>2, <1>5, <1>6
<1>8. p = s
  BY <1>7
<1> HIDE DEF p, s
<1>9. r = lo
  BY <1>2, <1>3, <1>4, <1>8
<1> QED BY <1>7, <1>9 DEF q, r, v

\* A byte holds a half of an index.
LEMMA ByteSizeType == ByteSize \in Nat \ {0} /\ ByteSize <= 256
<1>1. ByteSize \in 2 .. 256
  BY WordListAssumption
<1> QED BY <1>1

\* Places of the two bytes of an index.
LEMMA Places ==
  ASSUME NEW k \in Nat
  PROVE  /\ \A n \in 1 .. k : /\ 2 * n - 1 \in 1 .. 2 * k /\ (2 * n - 1) % 2 = 1 /\ ((2 * n - 1) + 1) \div 2 = n
                              /\ 2 * n \in 1 .. 2 * k /\ (2 * n) % 2 # 1 /\ (2 * n) \div 2 = n
         /\ \A i \in 1 .. 2 * k :
              IF i % 2 = 1 THEN (i + 1) \div 2 \in 1 .. k /\ 2 * ((i + 1) \div 2) - 1 = i
                           ELSE i \div 2 \in 1 .. k /\ 2 * (i \div 2) = i
OBVIOUS

\* The bytes of indices give them back.
LEMMA BytesOfIndices ==
  ASSUME NEW idx \in Seq(Nat), \A n \in 1 .. Len(idx) : idx[n] < ByteSize * ByteSize
  PROVE  /\ IndexBytes(idx) \in Seq(0 .. ByteSize - 1) /\ Len(IndexBytes(idx)) = 2 * Len(idx)
         /\ IndicesOf(IndexBytes(idx)) = idx
<1> DEFINE b == IndexBytes(idx)
           k == Len(idx)
           B == ByteSize
<1>1. k \in Nat /\ B \in Nat \ {0} /\ idx = [n \in 1 .. k |-> idx[n]]
  BY ByteSizeType
<1>2. ASSUME NEW n \in 1 .. k
      PROVE  idx[n] % B \in 0 .. B - 1 /\ idx[n] \div B \in 0 .. B - 1 /\ (idx[n] % B) + B * (idx[n] \div B) = idx[n]
  <2>1. idx[n] \in Nat /\ idx[n] < B * B
    OBVIOUS
  <2> HIDE DEF B
  <2> QED BY <1>1, <2>1, TwoHalves
<1>3. b = [i \in 1 .. 2 * k |-> IF i % 2 = 1 THEN idx[(i + 1) \div 2] % B ELSE idx[i \div 2] \div B]
  BY DEF IndexBytes
<1> HIDE DEF b, k, B
<1>4. \A i \in 1 .. 2 * k : b[i] \in 0 .. B - 1
  <2> TAKE i \in 1 .. 2 * k
  <2>1. CASE i % 2 = 1
    <3>1. (i + 1) \div 2 \in 1 .. k
      BY <1>1, <2>1, Places
    <3> DEFINE n == (i + 1) \div 2
    <3>2. n \in 1 .. k /\ b[i] = idx[n] % B
      BY <1>3, <2>1, <3>1
    <3> HIDE DEF n
    <3> QED BY <1>2, <3>2
  <2>2. CASE i % 2 # 1
    <3>1. i \div 2 \in 1 .. k
      BY <1>1, <2>2, Places
    <3> DEFINE n == i \div 2
    <3>2. n \in 1 .. k /\ b[i] = idx[n] \div B
      BY <1>3, <2>2, <3>1
    <3> HIDE DEF n
    <3> QED BY <1>2, <3>2
  <2> QED BY <2>1, <2>2
<1>5. b \in Seq(0 .. B - 1) /\ Len(b) = 2 * k
  <2> DEFINE T == 0 .. B - 1
             m == 2 * k
  <2>1. b = [i \in 1 .. m |-> b[i]] /\ \A i \in 1 .. m : b[i] \in T
    BY <1>3, <1>4
  <2>2. m \in Nat
    BY <1>1
  <2> HIDE DEF T, m
  <2>3. b \in [1 .. m -> T]
    BY <2>1
  <2>4. b \in Seq(T) /\ Len(b) = m
    BY <2>2, <2>3, FunIsSeq
  <2> QED BY <2>4 DEF T, m
<1>6. Len(b) \div 2 = k
  BY <1>1, <1>5
<1>7. ASSUME NEW n \in 1 .. k PROVE b[2 * n - 1] + B * b[2 * n] = idx[n]
  <2>1. /\ 2 * n - 1 \in 1 .. 2 * k /\ (2 * n - 1) % 2 = 1 /\ ((2 * n - 1) + 1) \div 2 = n
        /\ 2 * n \in 1 .. 2 * k /\ (2 * n) % 2 # 1 /\ (2 * n) \div 2 = n
    BY <1>1, Places
  <2>2. b[2 * n - 1] = idx[n] % B /\ b[2 * n] = idx[n] \div B
    BY <1>3, <2>1
  <2> QED BY <1>2, <2>2
<1>8. IndicesOf(b) = [n \in 1 .. k |-> b[2 * n - 1] + B * b[2 * n]]
  BY <1>6 DEF IndicesOf, B
<1>9. IndicesOf(b) = idx
  BY <1>1, <1>7, <1>8
<1> QED BY <1>5, <1>9 DEF b, k, B

\* Bytes below ByteSize are the bytes of their indices.
LEMMA IndicesOfBytes ==
  ASSUME NEW b \in Seq(Nat), NEW k \in Nat, Len(b) = 2 * k
  PROVE  /\ IndicesOf(b) \in Seq(Nat) /\ Len(IndicesOf(b)) = k /\ DOMAIN IndicesOf(b) = 1 .. k
         /\ \A n \in 1 .. k : IndicesOf(b)[n] = b[2 * n - 1] + ByteSize * b[2 * n]
                              /\ b[2 * n - 1] \in Nat /\ b[2 * n] \in Nat
         /\ (\A i \in 1 .. Len(b) : b[i] < ByteSize) => IndexBytes(IndicesOf(b)) = b
<1> DEFINE B == ByteSize
           idx == IndicesOf(b)
<1>1. B \in Nat \ {0} /\ Len(b) \div 2 = k /\ b = [i \in 1 .. 2 * k |-> b[i]]
      /\ \A i \in 1 .. 2 * k : b[i] \in Nat
  <2>1. B \in Nat \ {0}
    BY ByteSizeType
  <2>2. Len(b) \div 2 = k
    OBVIOUS
  <2>3. b = [i \in 1 .. Len(b) |-> b[i]] /\ \A i \in 1 .. Len(b) : b[i] \in Nat
    OBVIOUS
  <2> QED BY <2>1, <2>2, <2>3
<1>2. idx = [n \in 1 .. k |-> b[2 * n - 1] + B * b[2 * n]]
  BY <1>1 DEF IndicesOf
<1> HIDE DEF idx, B
<1>3. ASSUME NEW n \in 1 .. k PROVE b[2 * n - 1] \in Nat /\ b[2 * n] \in Nat /\ idx[n] \in Nat
  <2>1. 2 * n - 1 \in 1 .. 2 * k /\ 2 * n \in 1 .. 2 * k
    BY Places
  <2>2. b[2 * n - 1] \in Nat /\ b[2 * n] \in Nat
    BY <1>1, <2>1
  <2> DEFINE lo == b[2 * n - 1]
             hi == b[2 * n]
  <2>3. lo \in Nat /\ hi \in Nat /\ idx[n] = lo + B * hi
    BY <1>2, <2>2
  <2> HIDE DEF lo, hi
  <2>4. lo + B * hi \in Nat
    <3>1. B * hi \in Nat
      BY <1>1, <2>3
    <3> DEFINE p == B * hi
    <3>2. p \in Nat
      BY <3>1
    <3> HIDE DEF p
    <3>3. lo + p \in Nat
      BY <2>3, <3>2
    <3> QED BY <3>3 DEF p
  <2> QED BY <2>2, <2>3, <2>4
<1>4. idx \in Seq(Nat) /\ Len(idx) = k
  <2>1. idx \in [1 .. k -> Nat]
    BY <1>2, <1>3
  <2> QED BY <2>1, FunIsSeq
<1>5. ASSUME \A i \in 1 .. Len(b) : b[i] < B PROVE IndexBytes(idx) = b
  <2>1. IndexBytes(idx) = [i \in 1 .. 2 * k |-> IF i % 2 = 1 THEN idx[(i + 1) \div 2] % B ELSE idx[i \div 2] \div B]
    BY <1>4 DEF IndexBytes, B
  <2>2. ASSUME NEW n \in 1 .. k PROVE idx[n] % B = b[2 * n - 1] /\ idx[n] \div B = b[2 * n]
    <3>1. 2 * n - 1 \in 1 .. Len(b)
      BY Places
    <3> DEFINE lo == b[2 * n - 1]
               hi == b[2 * n]
    <3>2. lo \in Nat /\ hi \in Nat /\ lo < B /\ idx[n] = lo + B * hi
      BY <1>2, <1>3, <1>5, <3>1
    <3> HIDE DEF lo, hi
    <3>3. lo \in 0 .. B - 1
      BY <1>1, <3>2
    <3>4. (lo + B * hi) % B = lo /\ (lo + B * hi) \div B = hi
      BY <1>1, <3>2, <3>3, HalvesTogether
    <3> QED BY <3>2, <3>4 DEF lo, hi
  <2>3. ASSUME NEW i \in 1 .. 2 * k
        PROVE  (IF i % 2 = 1 THEN idx[(i + 1) \div 2] % B ELSE idx[i \div 2] \div B) = b[i]
    <3>1. CASE i % 2 = 1
      <4> DEFINE n == (i + 1) \div 2
      <4>1. n \in 1 .. k /\ 2 * n - 1 = i
        BY <3>1, Places
      <4> HIDE DEF n
      <4>2. idx[n] % B = b[i]
        BY <2>2, <4>1
      <4> QED BY <3>1, <4>2 DEF n
    <3>2. CASE i % 2 # 1
      <4> DEFINE n == i \div 2
      <4>1. n \in 1 .. k /\ 2 * n = i
        BY <3>2, Places
      <4> HIDE DEF n
      <4>2. idx[n] \div B = b[i]
        BY <2>2, <4>1
      <4> QED BY <3>2, <4>2 DEF n
    <3> QED BY <3>1, <3>2
  <2> QED BY <1>1, <2>1, <2>3
<1> QED BY <1>2, <1>3, <1>4, <1>5 DEF idx, B

-----------------------------------------------------------------------------
(* Blanks and separators. *)

\* Where the ink of a text begins and ends, Trim cuts.
LEMMA TrimCuts ==
  ASSUME NEW S, NEW t \in Seq(S), NEW a \in 1 .. Len(t), NEW b \in a .. Len(t),
         t[a] \notin Blank, t[b] \notin Blank,
         \A i \in 1 .. Len(t) : i < a \/ i > b => t[i] \in Blank
  PROVE  Trim(t) = SubSeq(t, a, b)
<1> DEFINE inked == {i \in DOMAIN t : t[i] \notin Blank}
<1>1. DOMAIN t = 1 .. Len(t) /\ Len(t) \in Nat /\ a \in Nat /\ b \in Nat /\ b \in 1 .. Len(t)
  OBVIOUS
<1>2. a \in inked /\ b \in inked
  BY <1>1
<1>3. \A i \in inked : a <= i /\ b >= i /\ i \in Int
  <2> TAKE i \in inked
  <2>1. i \in 1 .. Len(t) /\ t[i] \notin Blank
    BY <1>1
  <2>2. ~(i < a) /\ ~(i > b)
    BY <2>1
  <2> QED BY <1>1, <2>1, <2>2
<1> HIDE DEF inked
<1>4. Min(inked) = a
  <2>1. \A i \in inked : (\A j \in inked : i <= j) => i = a
    BY <1>1, <1>2, <1>3
  <2> QED BY <1>2, <1>3, <2>1 DEF Min
<1>5. Max(inked) = b
  <2>1. \A i \in inked : (\A j \in inked : i >= j) => i = b
    BY <1>1, <1>2, <1>3
  <2> QED BY <1>2, <1>3, <2>1 DEF Max
<1>6. Trim(t) = IF inked = {} THEN <<>> ELSE SubSeq(t, Min(inked), Max(inked))
  BY DEF Trim, inked
<1> QED BY <1>2, <1>4, <1>5, <1>6

\* Trim leaves out blanks only, and all those around.
LEMMA TrimKeeps ==
  ASSUME NEW S, NEW t \in Seq(S)
  PROVE  /\ Wraps(t, Trim(t)) /\ Trim(t) \in Seq(S) /\ Len(Trim(t)) <= Len(t)
         /\ Trim(t) # <<>> => \E a, b \in 1 .. Len(t) : a <= b /\ Trim(t) = SubSeq(t, a, b)
<1> DEFINE inked == {i \in DOMAIN t : t[i] \notin Blank}
           n == Len(t)
<1>1. DOMAIN t = 1 .. n /\ n \in Nat
  OBVIOUS
<1>2. Trim(t) = IF inked = {} THEN <<>> ELSE SubSeq(t, Min(inked), Max(inked))
  BY DEF Trim
<1>3. CASE inked = {}
  <2>1. Trim(t) = <<>> /\ Len(Trim(t)) = 0 /\ Trim(t) \in Seq(S)
    BY <1>2, <1>3
  <2>2. SubSeq(t, 1, 1 + 0 - 1) = <<>>
    <3>1. SubSeq(t, 1, 0) = <<>>
      BY SubSeqEmpty
    <3> QED BY <3>1
  <2>3. \A j \in DOMAIN t \ (1 .. 1 + 0 - 1) : t[j] \in Blank
    BY <1>3
  <2>4. 1 \in 1 .. n - 0 + 1
    BY <1>1
  <2>5. Wraps(t, Trim(t))
    <3> DEFINE core == Trim(t)
    <3>1. core = <<>> /\ Len(core) = 0
      BY <2>1
    <3> HIDE DEF core
    <3>2. Wraps(t, core)
      BY <2>2, <2>3, <2>4, <3>1 DEF Wraps
    <3> QED BY <3>2 DEF core
  <2> QED BY <1>1, <2>1, <2>5
<1>4. CASE inked # {}
  <2> DEFINE a == Min(inked)
             b == Max(inked)
             core == SubSeq(t, a, b)
  <2>1. inked \subseteq Nat /\ inked \in SUBSET (0 .. n)
    BY <1>1
  <2>2. a \in inked /\ (\A i \in inked : a <= i) /\ b \in inked /\ (\A i \in inked : i <= b)
    <3> HIDE DEF inked, n
    <3>1. a \in inked /\ \A i \in inked : a <= i
      BY <1>4, <2>1, LeastIsMin
    <3>2. b \in inked /\ \A i \in inked : i <= b
      BY <1>1, <1>4, <2>1, GreatestIsMax
    <3> QED BY <3>1, <3>2
  <2>3. a \in 1 .. n /\ b \in 1 .. n /\ t[a] \notin Blank /\ t[b] \notin Blank /\ a <= b
    BY <1>1, <2>2
  <2>4. \A j \in 1 .. n : j \notin a .. b => t[j] \in Blank
    <3> SUFFICES ASSUME NEW j \in 1 .. n, t[j] \notin Blank PROVE j \in a .. b
      OBVIOUS
    <3>1. j \in inked
      BY <1>1
    <3>2. a <= j /\ j <= b
      BY <2>2, <3>1
    <3> HIDE DEF a, b
    <3> QED BY <2>3, <3>2
  <2> HIDE DEF a, b
  <2>5. core \in Seq(S) /\ Len(core) = b - a + 1 /\ \A i \in 1 .. b - a + 1 : core[i] = t[a + i - 1]
    <3>1. a \in 1 .. n + 1 /\ b \in a - 1 .. n
      BY <1>1, <2>3
    <3> HIDE DEF n
    <3>2. core \in Seq(S) /\ Len(core) = b - a + 1 /\ \A i \in 1 .. b - a + 1 : core[i] = t[a + i - 1]
      BY <3>1, PartOf DEF n
    <3> QED BY <3>2
  <2> HIDE DEF core, n
  <2>6. /\ Len(core) \in 1 .. n /\ core[1] = t[a] /\ core[Len(core)] = t[b]
        /\ a + Len(core) - 1 = b /\ a \in 1 .. n - Len(core) + 1
    <3>1. 1 \in 1 .. b - a + 1 /\ a + 1 - 1 = a /\ b - a + 1 \in 1 .. b - a + 1 /\ a + (b - a + 1) - 1 = b
      BY <2>3
    <3>2. b - a + 1 \in 1 .. n /\ a \in 1 .. n - (b - a + 1) + 1
      BY <1>1, <2>3
    <3> QED BY <2>5, <3>1, <3>2
  <2>7. SubSeq(t, a, a + Len(core) - 1) = core
    BY <2>6 DEF core
  <2>8. \A j \in DOMAIN t \ (a .. a + Len(core) - 1) : t[j] \in Blank
    BY <1>1, <2>4, <2>6
  <2>9. core # <<>> => core[1] \notin Blank /\ core[Len(core)] \notin Blank
    BY <2>3, <2>6
  <2>10. Wraps(t, core)
    <3>1. a \in 1 .. Len(t) - Len(core) + 1
      BY <2>6 DEF n
    <3> QED BY <2>7, <2>8, <2>9, <3>1 DEF Wraps
  <2>11. Trim(t) = core
    BY <1>2, <1>4 DEF core, a, b
  <2>12. Len(core) <= n
    BY <1>1, <2>6
  <2> QED BY <2>3, <2>5, <2>10, <2>11, <2>12 DEF core, n
<1> QED BY <1>3, <1>4

\* The first separator of a text.
LEMMA SeparatorFound ==
  ASSUME NEW S, NEW t \in Seq(S)
  PROVE  /\ FirstSeparator(t) # 0 =>
              /\ FirstSeparator(t) \in 1 .. Len(t) /\ t[FirstSeparator(t)] = Separator
              /\ \A i \in 1 .. FirstSeparator(t) - 1 : t[i] # Separator
         /\ \A n \in 1 .. Len(t) :
              t[n] = Separator /\ (\A i \in 1 .. n - 1 : t[i] # Separator) => FirstSeparator(t) = n
<1> DEFINE all == {i \in DOMAIN t : t[i] = Separator}
           f == FirstSeparator(t)
<1>1. DOMAIN t = 1 .. Len(t) /\ Len(t) \in Nat
  OBVIOUS
<1>2. f = IF all = {} THEN 0 ELSE Min(all)
  BY DEF FirstSeparator
<1> HIDE DEF f
<1>3. ASSUME f # 0
      PROVE  /\ f \in 1 .. Len(t) /\ t[f] = Separator /\ \A i \in 1 .. f - 1 : t[i] # Separator
  <2>1. all # {} /\ f = Min(all) /\ all \subseteq Nat
    BY <1>1, <1>2, <1>3
  <2>2. f \in all /\ \A i \in all : f <= i
    <3> HIDE DEF all
    <3> QED BY <2>1, LeastIsMin
  <2>3. f \in 1 .. Len(t) /\ t[f] = Separator
    BY <1>1, <2>2
  <2>4. ASSUME NEW i \in 1 .. f - 1 PROVE t[i] # Separator
    <3>1. i \in 1 .. Len(t) /\ ~(f <= i)
      BY <1>1, <2>3
    <3> QED BY <1>1, <2>2, <3>1
  <2> QED BY <2>3, <2>4
<1>4. ASSUME NEW n \in 1 .. Len(t), t[n] = Separator, \A i \in 1 .. n - 1 : t[i] # Separator
      PROVE  f = n
  <2>1. n \in all
    BY <1>1, <1>4
  <2>2. \A i \in all : n <= i /\ i \in Int
    <3> TAKE i \in all
    <3>1. i \in 1 .. Len(t) /\ t[i] = Separator
      BY <1>1
    <3>2. i \notin 1 .. n - 1
      BY <1>4, <3>1
    <3> QED BY <1>1, <3>1, <3>2
  <2> HIDE DEF all
  <2>3. Min(all) = n
    <3>1. \A i \in all : (\A j \in all : i <= j) => i = n
      BY <2>1, <2>2
    <3> QED BY <2>1, <2>2, <3>1 DEF Min
  <2> QED BY <1>2, <2>1, <2>3
<1> QED BY <1>3, <1>4 DEF f

\* The first separator, as the property says it.
Separates(t) == CHOOSE i \in DOMAIN t : t[i] = Separator /\ Separator \notin ToSet(Before(t, i))

\* It is the one FirstSeparator finds.
LEMMA SeparatorChosen ==
  ASSUME NEW S, NEW t \in Seq(S), NEW n \in 1 .. Len(t), t[n] = Separator,
         \A i \in 1 .. n - 1 : t[i] # Separator
  PROVE  /\ Separates(t) = n
         /\ Separator \in ToSet(t)
<1>1. DOMAIN t = 1 .. Len(t) /\ Len(t) \in Nat
  OBVIOUS
<1>2. ASSUME NEW i \in 1 .. Len(t)
      PROVE  Separator \in ToSet(Before(t, i)) <=> \E j \in 1 .. i - 1 : t[j] = Separator
  <2> DEFINE m == i - 1
             h == SubSeq(t, 1, m)
  <2>1. m \in 0 .. Len(t)
    BY <1>1
  <2> HIDE DEF m
  <2>2. h \in Seq(S) /\ Len(h) = m /\ \A j \in 1 .. m : h[j] = t[j]
    BY <2>1, HeadOf
  <2>3. DOMAIN h = 1 .. m
    BY <2>2
  <2> HIDE DEF h
  <2>4. Separator \in ToSet(h) <=> \E j \in 1 .. m : t[j] = Separator
    BY <2>2, <2>3 DEF ToSet
  <2> QED BY <2>4 DEF Before, h, m
<1> DEFINE P(i) == t[i] = Separator /\ Separator \notin ToSet(Before(t, i))
<1>3. P(n)
  BY <1>2
<1>4. ASSUME NEW i \in 1 .. Len(t), P(i) PROVE i = n
  <2>1. ~(i < n)
    <3> SUFFICES ASSUME i < n PROVE FALSE
      OBVIOUS
    <3>1. i \in 1 .. n - 1
      BY <1>1
    <3> QED BY <1>4, <3>1
  <2>2. ~(n < i)
    <3> SUFFICES ASSUME n < i PROVE FALSE
      OBVIOUS
    <3>1. n \in 1 .. i - 1
      BY <1>1
    <3> QED BY <1>2, <1>4, <3>1
  <2> QED BY <1>1, <2>1, <2>2
<1> HIDE DEF P
<1>5. (CHOOSE i \in DOMAIN t : P(i)) = n
  BY <1>1, <1>3, <1>4
<1> QED BY <1>1, <1>5 DEF P, ToSet, Separates

-----------------------------------------------------------------------------
(* Both sides and their buffers. *)

\* Bytes are numbers, all of them.
LEMMA BytesAreNumbers == \A s \in Seq(0 .. 255) : s \in Seq(Nat) /\ \A i \in 1 .. Len(s) : s[i] \in 0 .. 255
<1> DEFINE T == 0 .. 255
<1>1. T \subseteq Nat
  OBVIOUS
<1> HIDE DEF T
<1>2. \A s \in Seq(T) : s \in Seq(Nat) /\ \A i \in 1 .. Len(s) : s[i] \in T
  <2> TAKE s \in Seq(T)
  <2>1. s \in Seq(Nat)
    BY <1>1, SeqMonotonic
  <2>2. \A i \in 1 .. Len(s) : s[i] \in T
    OBVIOUS
  <2> QED BY <2>1, <2>2
<1> QED BY <1>2 DEF T

\* Characters are bytes, and no NUL.
LEMMA CharsAreBytes ==
  \A s \in Seq(Char) : s \in Seq(0 .. 255) /\ \A i \in 1 .. Len(s) : s[i] # 0
<1> TAKE s \in Seq(Char)
<1>1. Char \subseteq 0 .. 255 /\ 0 \notin Char
  BY DEF Char
<1>2. s \in Seq(0 .. 255)
  <2> DEFINE T == 0 .. 255
  <2>1. Char \subseteq T
    BY <1>1
  <2> HIDE DEF T
  <2>2. s \in Seq(T)
    BY <2>1, SeqMonotonic
  <2> QED BY <2>2 DEF T
<1>3. \A i \in 1 .. Len(s) : s[i] \in Char
  OBVIOUS
<1> QED BY <1>1, <1>2, <1>3

\* The buffers hold the longest phrases.
LEMMA Sizes ==
  ASSUME NEW list \in List, NEW k \in 1 .. MaxWords[list], NEW l \in 1 .. k * (MaxWordLen + 1) - 1
  PROVE  /\ l <= MaxWords[list] * MaxWordLen + MaxWords[list]
         /\ l + 1 <= PhraseSize(list) /\ l + 1 <= 2 * SSS_MAX_SECRET_LEN
         /\ \A p \in Nat : 1 + 2 * k + p <= SSS_MAX_SECRET_LEN => l + 3 + p + 1 <= 2 * SSS_MAX_SECRET_LEN
<1> DEFINE M == MaxWords[list]
           B == MaxWordLen
           S == SSS_MAX_SECRET_LEN
           a == k * (B - 1)
           c == M * (B - 1)
           d == k * (B + 1)
           e == M * B
<1>1. M \in 1 .. 255 /\ B \in Nat \ {0} /\ S \in Nat \ {0}
  BY WordListAssumption, ShareTextAssumption
<1>2. 2 * M <= S /\ c + 2 <= S
  BY CodecsAssumption
<1>3. k \in 1 .. M /\ l \in 1 .. d - 1
  OBVIOUS
<1> HIDE DEF M, B, S
<1>4. k \in Nat /\ k <= M /\ M \in Nat
  BY <1>1, <1>3
<1>5. a <= c
  BY <1>1, <1>4
<1>6. d = a + 2 * k /\ e + M = c + 2 * M
  BY <1>1, <1>4
<1>7. a \in Nat /\ c \in Nat /\ d \in Int /\ e \in Int
  BY <1>1, <1>4
<1> HIDE DEF a, c, d, e
<1>8. l \in Int /\ l <= a + 2 * k - 1
  BY <1>3, <1>6, <1>7
<1>9. l <= e + M /\ l + 1 <= e + M + 1 /\ l + 1 <= 2 * S
  BY <1>1, <1>2, <1>4, <1>5, <1>6, <1>7, <1>8
<1>10. \A p \in Nat : 1 + 2 * k + p <= S => l + 3 + p + 1 <= 2 * S
  BY <1>1, <1>2, <1>4, <1>5, <1>7, <1>8
<1> QED BY <1>9, <1>10 DEF M, B, S, e, PhraseSize

\* The bounds of a list.
LEMMA SizeTypes ==
  ASSUME NEW list \in List
  PROVE  /\ MaxWords[list] \in Nat \ {0} /\ MaxWords[list] <= 255 /\ MaxWordLen \in Nat \ {0}
         /\ SSS_MAX_SECRET_LEN \in Nat \ {0} /\ 2 * MaxWords[list] <= SSS_MAX_SECRET_LEN
         /\ Len(Words(list)) \in Nat /\ Len(Words(list)) <= ByteSize * ByteSize
<1>1. MaxWords[list] \in 1 .. 255
  BY WordListAssumption
<1>2. Words(list) \in Seq(Seq(1 .. 255)) /\ Len(Words(list)) <= ByteSize * ByteSize
  BY WordListAssumption
<1>3. MaxWordLen \in Nat \ {0}
  BY WordListAssumption
<1>4. Len(Words(list)) \in Nat
  BY <1>2
<1>5. 2 * MaxWords[list] <= SSS_MAX_SECRET_LEN
  BY CodecsAssumption
<1>6. SSS_MAX_SECRET_LEN \in Nat \ {0}
  BY ShareTextAssumption
<1>7. MaxWords[list] \in Nat \ {0} /\ MaxWords[list] <= 255
  <2> DEFINE m == MaxWords[list]
  <2>1. m \in 1 .. 255
    BY <1>1
  <2> HIDE DEF m
  <2>2. m \in Nat \ {0} /\ m <= 255
    BY <2>1
  <2> QED BY <2>2 DEF m
<1> QED BY <1>2, <1>3, <1>4, <1>5, <1>6, <1>7

\* Both sides compress alike.
LEMMA CompressesAlike ==
  ASSUME NEW list \in List, NEW side \in Side, NEW text
  PROVE  /\ CompressOn(side, list, "classic", text)
              = IF \/ Len(text) \notin 1 .. MaxWords[list] * MaxWordLen + MaxWords[list]
                   \/ wl_codec_parse_words(list, text) = Error
                THEN Error ELSE IndexBytes(wl_codec_parse_words(list, text))
         /\ CompressOn(side, list, "passphrase", text)
              = wl_codec_compress_passphrase(list, text, SSS_MAX_SECRET_LEN)
<1> DEFINE M == MaxWords[list]
           S == SSS_MAX_SECRET_LEN
<1>1. ~(S < 2 * M) /\ ~(2 * M < 2 * M)
  <2>1. M \in Nat /\ S \in Nat /\ 2 * M <= S
    BY SizeTypes
  <2> HIDE DEF M, S
  <2> QED BY <2>1
<1>2. CompressOn(side, list, "passphrase", text) = wl_codec_compress_passphrase(list, text, S)
  BY DEF CompressOn, DeviceCompress, PageCompress, Side, List,
         wasm_bip39_compress_passphrase, wasm_slip39_compress_passphrase
<1>3. CompressOn(side, list, "classic", text) \in {wl_codec_compress(list, text, S), wl_codec_compress(list, text, 2 * M)}
  BY DEF CompressOn, DeviceCompress, PageCompress, Side, List, wasm_bip39_compress, wasm_slip39_compress
<1> HIDE DEF S, M
<1>4. \A size \in {S, 2 * M} :
        wl_codec_compress(list, text, size)
          = IF \/ Len(text) \notin 1 .. MaxWords[list] * MaxWordLen + MaxWords[list]
               \/ wl_codec_parse_words(list, text) = Error
            THEN Error ELSE IndexBytes(wl_codec_parse_words(list, text))
  BY <1>1 DEF wl_codec_compress, M
<1> QED BY <1>2, <1>3, <1>4 DEF S

\* What bytes are expanded to without a passphrase.
ClassicExpansion(list, data, res) ==
  LET idx == IndicesOf(data)
  IN  IF \/ Len(data) % 2 # 0 \/ Len(data) > 2 * MaxWords[list]
         \/ \E n \in DOMAIN idx : idx[n] >= Len(Words(list))
      THEN res = Error
      ELSE /\ res = Join(list, idx) /\ res # Error /\ res \in Seq(Char)
           /\ Len(res) < 2 * SSS_MAX_SECRET_LEN
           /\ Len(res) \in 1 .. MaxWords[list] * MaxWordLen + MaxWords[list]
           /\ idx \in Seq(Nat) /\ Len(idx) >= 1 /\ Len(idx) <= MaxWords[list]
           /\ \A n \in 1 .. Len(idx) : idx[n] < Len(Words(list))
           /\ Joined(res, [n \in 1 .. Len(idx) |-> Words(list)[idx[n] + 1]], Len(idx))

\* Both sides expand alike: no buffer is too small.
LEMMA ExpandsClassic ==
  ASSUME NEW list \in List, NEW side \in Side, NEW data \in Seq(0 .. 255), data # <<>>
  PROVE  ClassicExpansion(list, data, ExpandOn(side, list, "classic", data))
<1> DEFINE idx == IndicesOf(data)
           M == MaxWords[list]
           S == SSS_MAX_SECRET_LEN
           text == Join(list, idx)
           Bad == \/ Len(data) % 2 # 0 \/ Len(data) > 2 * M
                  \/ \E n \in DOMAIN idx : idx[n] >= Len(Words(list))
           res == ExpandOn(side, list, "classic", data)
<1>1. data \in Seq(Nat) /\ Len(data) \in Nat /\ Len(data) # 0 /\ M \in Nat \ {0} /\ S \in Nat \ {0} /\ Len(Words(list)) \in Nat
  <2>1. data \in Seq(Nat)
    BY BytesAreNumbers
  <2>2. Len(data) \in Nat /\ Len(data) # 0
    BY <2>1, EmptySeq
  <2> QED BY <2>1, <2>2, SizeTypes
<1>2. res \in {UpToNul(wl_codec_decompress(list, data, size)) : size \in {2 * S, PhraseSize(list)}}
        \/ (Len(data) > 2 * M /\ res = UpToNul(Error))
  <2>1. CASE side = "device"
    BY <2>1 DEF ExpandOn, DeviceExpand
  <2>2. CASE side = "page"
    BY <2>2 DEF ExpandOn, PageExpand, List, wasm_bip39_decompress, wasm_slip39_decompress
  <2> QED BY <2>1, <2>2 DEF Side
<1>3. UpToNul(Error) = Error
  BY DEF UpToNul
<1>4. CASE Bad
  <2>1. \A size : wl_codec_decompress(list, data, size) = Error
    BY <1>4 DEF wl_codec_decompress
  <2>2. res = Error
    BY <1>2, <1>3, <2>1
  <2>3. ClassicExpansion(list, data, Error)
    BY <1>4, ZenonT(30) DEF ClassicExpansion
  <2>4. ClassicExpansion(list, data, res)
    <3> HIDE DEF res
    <3> QED BY <2>2, <2>3
  <2> QED BY <2>4
<1>5. CASE ~Bad
  <2> DEFINE k == Len(data) \div 2
  <2>1. k \in Nat /\ Len(data) = 2 * k /\ k \in 1 .. M
    <3>1. Len(data) % 2 = 0 /\ ~(Len(data) > 2 * M)
      BY <1>5
    <3> HIDE DEF M
    <3> QED BY <1>1, <3>1
  <2> HIDE DEF k
  <2>2. idx \in Seq(Nat) /\ Len(idx) = k /\ DOMAIN idx = 1 .. k
    BY <1>1, <2>1, IndicesOfBytes
  <2>3. \A n \in 1 .. k : idx[n] < Len(Words(list))
    <3> TAKE n \in 1 .. k
    <3>1. ~(idx[n] >= Len(Words(list)))
      <4>1. \A m \in DOMAIN idx : ~(idx[m] >= Len(Words(list)))
        BY <1>5
      <4> HIDE DEF idx
      <4> QED BY <2>2, <4>1
    <3> HIDE DEF idx
    <3>2. idx[n] \in Nat
      BY <2>2
    <3> QED BY <1>1, <3>1, <3>2
  <2> HIDE DEF idx
  <2>4. /\ text \in Seq(Char)
        /\ Joined(text, [n \in 1 .. Len(idx) |-> Words(list)[idx[n] + 1]], Len(idx))
    <3>1. Len(idx) >= 1
      BY <2>1, <2>2
    <3> QED BY <2>2, <2>3, <3>1, JoinSpells
  <2>5. Len(text) \in 1 .. k * (MaxWordLen + 1) - 1
    BY <2>2, <2>4 DEF Joined
  <2> DEFINE l == Len(text)
  <2>6. /\ l <= M * MaxWordLen + M
        /\ l + 1 <= PhraseSize(list) /\ l + 1 <= 2 * S
    <3> HIDE DEF l
    <3>1. l \in 1 .. k * (MaxWordLen + 1) - 1
      BY <2>5 DEF l
    <3> QED BY <2>1, <3>1, Sizes
  <2>7. PhraseSize(list) \in Int /\ l \in Nat /\ l >= 1 /\ M * MaxWordLen + M \in Int
    <3>1. MaxWordLen \in Nat
      BY SizeTypes
    <3>2. l \in Nat
      BY <2>4
    <3>3. M * MaxWordLen \in Int
      BY <1>1, <3>1
    <3>4. l >= 1
      <4> DEFINE b == k * (MaxWordLen + 1) - 1
      <4>1. l \in 1 .. b /\ b \in Int
        BY <2>1, <2>5, <3>1
      <4> HIDE DEF l, b
      <4> QED BY <4>1
    <3> QED BY <1>1, <3>2, <3>3, <3>4 DEF PhraseSize
  <2>8. ~(l + 1 > PhraseSize(list)) /\ ~(l + 1 > 2 * S) /\ l \in 1 .. M * MaxWordLen + M /\ l < 2 * S
    <3> DEFINE p == PhraseSize(list)
               b == M * MaxWordLen + M
    <3>1. l + 1 <= p /\ l <= b /\ p \in Int /\ b \in Int /\ l \in Nat /\ l >= 1 /\ l + 1 <= 2 * S /\ S \in Nat
      BY <1>1, <2>6, <2>7
    <3> HIDE DEF p, b, l, S
    <3>2. ~(l + 1 > p) /\ ~(l + 1 > 2 * S) /\ l \in 1 .. b /\ l < 2 * S
      BY <3>1
    <3> QED BY <3>2 DEF p, b
  <2>9. \A size \in {2 * S, PhraseSize(list)} : wl_codec_decompress(list, data, size) = text
    <3> TAKE size \in {2 * S, PhraseSize(list)}
    <3>1. ~(l + 1 > size)
      BY <2>8
    <3> QED BY <1>1, <1>5, <3>1 DEF wl_codec_decompress, idx
  <2>10. text \in Seq(0 .. 255) /\ \A i \in 1 .. Len(text) : text[i] # 0
    BY <2>4, CharsAreBytes
  <2>11. UpToNul(text) = text /\ text # Error
    BY <2>10, UpToNulText, BytesAreNoError
  <2>12. res = text
    BY <1>2, <1>5, <2>9, <2>11
  <2>13. Len(idx) >= 1 /\ Len(idx) <= M
    BY <1>1, <2>1, <2>2
  <2>14. ClassicExpansion(list, data, res)
    <3> HIDE DEF res, l
    <3> QED BY <1>5, <2>2, <2>3, <2>4, <2>8, <2>11, <2>12, <2>13 DEF ClassicExpansion, idx, l
  <2> QED BY <2>14
<1> QED BY <1>4, <1>5

\* A byte is a half of an index, or too large for any.
HalfOrNone(v) == v < ByteSize \/ \A list \in List : v >= Len(Words(list))

\* Bytes that give indices of words are halves of indices.
LEMMA AllHalves ==
  ASSUME NEW list \in List, NEW b \in Seq(0 .. 255), NEW k \in Nat, Len(b) = 2 * k,
         \A i \in 1 .. Len(b) : HalfOrNone(b[i]),
         \A n \in 1 .. k : IndicesOf(b)[n] < Len(Words(list))
  PROVE  IndexBytes(IndicesOf(b)) = b
<1>1. b \in Seq(Nat) /\ Len(Words(list)) \in Nat /\ ByteSize \in Nat \ {0}
  BY BytesAreNumbers, SizeTypes, ByteSizeType
<1>2. ASSUME NEW n \in 1 .. k PROVE b[2 * n - 1] < ByteSize /\ b[2 * n] < ByteSize
  <2> DEFINE lo == b[2 * n - 1]
             hi == b[2 * n]
             v == IndicesOf(b)[n]
             W == Len(Words(list))
             B == ByteSize
  <2>1. lo \in Nat /\ hi \in Nat /\ v = lo + B * hi
    BY <1>1, IndicesOfBytes
  <2>2. v < W
    OBVIOUS
  <2>3. (lo < B \/ lo >= W) /\ (hi < B \/ hi >= W)
    <3>1. 2 * n - 1 \in 1 .. Len(b) /\ 2 * n \in 1 .. Len(b)
      BY Places
    <3> QED BY <3>1 DEF HalfOrNone
  <2> DEFINE p == B * hi
  <2>4. p \in Nat /\ p >= hi
    <3>1. B \in Nat \ {0} /\ hi \in Nat
      BY <1>1, <2>1
    <3> HIDE DEF B, hi
    <3> QED BY <3>1
  <2>5. v = lo + p /\ W \in Nat /\ B \in Nat
    BY <1>1, <2>1
  <2> HIDE DEF lo, hi, v, W, B, p
  <2>6. lo < B /\ hi < B
    BY <2>1, <2>2, <2>3, <2>4, <2>5
  <2> QED BY <2>6 DEF lo, hi, B
<1>3. \A i \in 1 .. Len(b) : b[i] < ByteSize
  <2> TAKE i \in 1 .. Len(b)
  <2>1. i \in 1 .. 2 * k
    OBVIOUS
  <2>2. CASE i % 2 = 1
    <3> DEFINE n == (i + 1) \div 2
    <3>1. n \in 1 .. k /\ 2 * n - 1 = i
      BY <2>1, <2>2, Places
    <3> HIDE DEF n
    <3> QED BY <1>2, <3>1
  <2>3. CASE i % 2 # 1
    <3> DEFINE n == i \div 2
    <3>1. n \in 1 .. k /\ 2 * n = i
      BY <2>1, <2>3, Places
    <3> HIDE DEF n
    <3> QED BY <1>2, <3>1
  <2> QED BY <2>2, <2>3
<1> QED BY <1>1, <1>3, IndicesOfBytes

\* The words that indices stand for.
LEMMA WordsOfIndices ==
  ASSUME NEW list \in List, NEW idx \in Seq(Nat), \A n \in 1 .. Len(idx) : idx[n] < Len(Words(list))
  PROVE  LET ws == [n \in 1 .. Len(idx) |-> Words(list)[idx[n] + 1]]
         IN  /\ ws \in Seq(Seq(Char)) /\ Len(ws) = Len(idx)
             /\ \A text \in Seq(Char) : Spelled(text, ws) => Tokens(text) = ws
<1> DEFINE ws == [n \in 1 .. Len(idx) |-> Words(list)[idx[n] + 1]]
           k == Len(idx)
<1>1. k \in Nat /\ Len(Words(list)) \in Nat
  BY SizeTypes
<1>2. ASSUME NEW n \in 1 .. k PROVE Words(list)[idx[n] + 1] \in Seq(Char)
  <2>1. idx[n] \in Nat /\ idx[n] < Len(Words(list))
    OBVIOUS
  <2>2. idx[n] + 1 \in 1 .. Len(Words(list))
    BY <1>1, <2>1
  <2> QED BY <2>2, WordFacts
<1>3. ws \in [1 .. k -> Seq(Char)]
  BY <1>2
<1> HIDE DEF ws, k
<1>4. ws \in Seq(Seq(Char)) /\ Len(ws) = k
  BY <1>1, <1>3, FunIsSeq
<1>5. \A text \in Seq(Char) : Spelled(text, ws) => Tokens(text) = ws
  BY <1>4, WordsOfSpelled
<1> QED BY <1>4, <1>5 DEF ws, k

\* A phrase without a passphrase, compressed and expanded.
LEMMA ClassicRecovered ==
  ASSUME NEW list \in List, NEW side \in Side, NEW text \in Seq(Char),
         CompressOn(side, list, "classic", text) # Error
  PROVE  LET data == CompressOn(side, list, "classic", text)
         IN  /\ data \in Seq(0 .. 255) /\ Len(data) <= SSS_MAX_SECRET_LEN
             /\ \A i \in 1 .. Len(data) : HalfOrNone(data[i])
             /\ data # <<>> => \A s \in Side :
                  /\ ExpandOn(s, list, "classic", data) # Error
                  /\ Tokens(ExpandOn(s, list, "classic", data)) = Tokens(text)
<1> DEFINE data == CompressOn(side, list, "classic", text)
           idx == wl_codec_parse_words(list, text)
           W == Len(Words(list))
           k == Len(idx)
           M == MaxWords[list]
<1>1. idx # Error /\ data = IndexBytes(idx)
  BY CompressesAlike
<1>2. /\ idx \in Seq(Nat) /\ k <= M /\ \A n \in 1 .. k : idx[n] < W
      /\ Tokens(text) = [n \in 1 .. Len(idx) |-> Words(list)[idx[n] + 1]]
  BY <1>1, ParsedWords
<1>3. M \in Nat \ {0} /\ W \in Nat /\ W <= ByteSize * ByteSize /\ 2 * M <= SSS_MAX_SECRET_LEN
      /\ ByteSize \in Nat \ {0} /\ ByteSize <= 256 /\ SSS_MAX_SECRET_LEN \in Nat
  BY SizeTypes, ByteSizeType
<1> HIDE DEF data, idx, W, M
<1>4. \A n \in 1 .. k : idx[n] < ByteSize * ByteSize
  <2> TAKE n \in 1 .. k
  <2> DEFINE v == idx[n]
             b == ByteSize * ByteSize
  <2>1. v \in Nat /\ v < W /\ W <= b /\ b \in Nat
    BY <1>2, <1>3
  <2> HIDE DEF v, b
  <2>2. v < b
    BY <1>3, <2>1
  <2> QED BY <2>2 DEF v, b
<1>5. data \in Seq(0 .. ByteSize - 1) /\ Len(data) = 2 * k /\ IndicesOf(data) = idx /\ k \in Nat
  BY <1>1, <1>2, <1>4, BytesOfIndices
<1>6. data \in Seq(0 .. 255) /\ \A i \in 1 .. Len(data) : data[i] < ByteSize
  <2> DEFINE T == 0 .. ByteSize - 1
             U == 0 .. 255
  <2>1. T \subseteq U /\ \A v \in T : v < ByteSize
    BY <1>3
  <2>2. data \in Seq(T)
    BY <1>5
  <2> HIDE DEF T, U
  <2>3. data \in Seq(U)
    BY <2>1, <2>2, SeqMonotonic
  <2>4. \A i \in 1 .. Len(data) : data[i] \in T
    BY <2>2
  <2> QED BY <2>1, <2>3, <2>4 DEF U
<1>7. Len(data) <= SSS_MAX_SECRET_LEN
  <2>1. 2 * k <= 2 * M
    BY <1>2, <1>3, <1>5
  <2> QED BY <1>3, <1>5, <2>1
<1>8. ASSUME data # <<>>, NEW s \in Side
      PROVE  /\ ExpandOn(s, list, "classic", data) # Error
             /\ Tokens(ExpandOn(s, list, "classic", data)) = Tokens(text)
  <2>1. ~(Len(data) % 2 # 0) /\ ~(Len(data) > 2 * M)
    <3> HIDE DEF k
    <3> QED BY <1>2, <1>3, <1>5 DEF k
  <2>2. ~(\E n \in DOMAIN idx : idx[n] >= W)
    <3> SUFFICES ASSUME NEW n \in DOMAIN idx PROVE ~(idx[n] >= W)
      OBVIOUS
    <3>1. idx[n] \in Nat /\ idx[n] < W
      BY <1>2
    <3> QED BY <1>3, <3>1
  <2> DEFINE res == ExpandOn(s, list, "classic", data)
  <2>3. /\ res # Error /\ res \in Seq(Char)
        /\ Joined(res, [n \in 1 .. Len(idx) |-> Words(list)[idx[n] + 1]], Len(idx))
    <3> DEFINE jdx == IndicesOf(data)
    <3>1. jdx = idx
      BY <1>5
    <3>2. ~(\/ Len(data) % 2 # 0 \/ Len(data) > 2 * MaxWords[list]
            \/ \E n \in DOMAIN jdx : jdx[n] >= Len(Words(list)))
      BY <2>1, <2>2, <3>1 DEF M, W
    <3>3. /\ res # Error /\ res \in Seq(Char)
          /\ Joined(res, [n \in 1 .. Len(jdx) |-> Words(list)[jdx[n] + 1]], Len(jdx))
      <4>1. ClassicExpansion(list, data, res)
        BY <1>6, <1>8, ExpandsClassic DEF res
      <4> QED BY <3>2, <4>1 DEF ClassicExpansion
    <3> HIDE DEF jdx
    <3> QED BY <3>1, <3>3
  <2> HIDE DEF res
  <2>4. Spelled(res, [n \in 1 .. Len(idx) |-> Words(list)[idx[n] + 1]])
    BY <2>3 DEF Joined
  <2>5. Tokens(res) = [n \in 1 .. Len(idx) |-> Words(list)[idx[n] + 1]]
    <3>1. \A n \in 1 .. Len(idx) : idx[n] < Len(Words(list))
      BY <1>2 DEF W
    <3> QED BY <1>2, <2>3, <2>4, <3>1, WordsOfIndices
  <2> QED BY <1>2, <2>3, <2>5 DEF res
<1> QED BY <1>6, <1>7, <1>8 DEF data, HalfOrNone

\* Bytes that a phrase is shown for are the bytes of that phrase.
LEMMA ClassicStable ==
  ASSUME NEW list \in List, NEW s \in Side, NEW t \in Side, NEW data \in Seq(0 .. 255), data # <<>>,
         \A i \in 1 .. Len(data) : HalfOrNone(data[i]),
         ExpandOn(s, list, "classic", data) # Error
  PROVE  CompressOn(t, list, "classic", ExpandOn(s, list, "classic", data)) = data
<1> DEFINE idx == IndicesOf(data)
           text == ExpandOn(s, list, "classic", data)
           ws == [n \in 1 .. Len(idx) |-> Words(list)[idx[n] + 1]]
           M == MaxWords[list]
           k == Len(data) \div 2
<1>1. /\ ~(Len(data) % 2 # 0) /\ text \in Seq(Char)
      /\ Len(text) \in 1 .. M * MaxWordLen + M
      /\ idx \in Seq(Nat) /\ Len(idx) <= M
      /\ \A n \in 1 .. Len(idx) : idx[n] < Len(Words(list))
      /\ Joined(text, ws, Len(idx))
  <2> DEFINE Bad == \/ Len(data) % 2 # 0 \/ Len(data) > 2 * MaxWords[list]
                    \/ \E n \in DOMAIN idx : idx[n] >= Len(Words(list))
  <2>1. ClassicExpansion(list, data, text)
    BY ExpandsClassic
  <2>2. text # Error
    OBVIOUS
  <2> HIDE DEF text
  <2>3. ~Bad
    BY <2>1, <2>2 DEF ClassicExpansion
  <2> QED BY <2>1, <2>3 DEF ClassicExpansion
<1>2. k \in Nat /\ Len(data) = 2 * k
  <2>1. Len(data) \in Nat
    OBVIOUS
  <2> QED BY <1>1, <2>1
<1>3. Len(idx) = k
  <2>1. data \in Seq(Nat)
    BY BytesAreNumbers
  <2> HIDE DEF k
  <2> QED BY <1>2, <2>1, IndicesOfBytes
<1>4. IndexBytes(idx) = data
  <2>1. \A n \in 1 .. k : idx[n] < Len(Words(list))
    BY <1>1, <1>3
  <2> HIDE DEF k
  <2> QED BY <1>2, <2>1, AllHalves
<1> HIDE DEF idx, text, k
<1>5. Tokens(text) = ws
  <2>1. Spelled(text, ws)
    BY <1>1 DEF Joined
  <2> QED BY <1>1, <2>1, WordsOfIndices
<1>6. wl_codec_parse_words(list, text) = idx
  BY <1>1, <1>5, ParsesToIndices
<1>7. idx # Error
  <2>1. idx \in Seq(Int)
    <3>1. Nat \subseteq Int
      OBVIOUS
    <3> QED BY <1>1, <3>1, SeqMonotonic
  <2> QED BY <2>1, ErrorAssumption
<1>8. CompressOn(t, list, "classic", text) = IndexBytes(idx)
  BY <1>1, <1>6, <1>7, CompressesAlike
<1> QED BY <1>4, <1>8 DEF text

-----------------------------------------------------------------------------
(* Phrases with a passphrase. *)

\* A count, indices and a passphrase, one behind the other.
LEMMA ThreeParts ==
  ASSUME NEW T, NEW c \in T, NEW a \in Seq(T), NEW b \in Seq(T)
  PROVE  LET d == <<c>> \o a \o b
         IN  /\ d \in Seq(T) /\ Len(d) = 1 + Len(a) + Len(b) /\ d[1] = c
             /\ \A i \in 1 .. Len(a) : d[i + 1] = a[i]
             /\ SubSeq(d, 2, 1 + Len(a)) = a
             /\ SubSeq(d, 2 + Len(a), Len(d)) = b
<1> DEFINE ca == <<c>> \o a
           d == ca \o b
           A == Len(a)
           B == Len(b)
<1>1. <<c>> \in Seq(T) /\ Len(<<c>>) = 1 /\ <<c>>[1] = c /\ A \in Nat /\ B \in Nat
  OBVIOUS
<1>2. ca \in Seq(T) /\ Len(ca) = 1 + A /\ ca[1] = c /\ \A i \in 1 .. A : ca[i + 1] = a[i]
  <2>1. ca \in Seq(T) /\ Len(ca) = 1 + A
        /\ \A i \in 1 .. 1 + A : ca[i] = IF i <= 1 THEN <<c>>[i] ELSE a[i - 1]
    BY <1>1, ConcatProperties
  <2>2. 1 \in 1 .. 1 + A /\ \A i \in 1 .. A : i + 1 \in 1 .. 1 + A /\ ~(i + 1 <= 1) /\ (i + 1) - 1 = i
    BY <1>1
  <2> HIDE DEF ca, A
  <2> QED BY <1>1, <2>1, <2>2
<1> HIDE DEF ca
<1>3. d \in Seq(T) /\ Len(d) = (1 + A) + B
      /\ \A i \in 1 .. (1 + A) + B : d[i] = IF i <= 1 + A THEN ca[i] ELSE b[i - (1 + A)]
  <2>1. ca \in Seq(T)
    BY <1>2
  <2>3. Len(ca) = 1 + A
    BY <1>2
  <2>2. d \in Seq(T) /\ Len(d) = Len(ca) + B
      /\ \A i \in 1 .. Len(ca) + B : d[i] = IF i <= Len(ca) THEN ca[i] ELSE b[i - Len(ca)]
    BY <2>1, ConcatProperties
  <2> HIDE DEF d
  <2> QED BY <2>2, <2>3
<1> HIDE DEF d, A, B
<1>4. d[1] = c /\ \A i \in 1 .. A : d[i + 1] = a[i]
  <2>1. 1 \in 1 .. (1 + A) + B /\ 1 <= 1 + A
        /\ \A i \in 1 .. A : i + 1 \in 1 .. (1 + A) + B /\ i + 1 <= 1 + A
    BY <1>1
  <2> QED BY <1>2, <1>3, <2>1
<1>5. \A i \in 1 .. B : d[i + (1 + A)] = b[i]
  <2>1. \A i \in 1 .. B : i + (1 + A) \in 1 .. (1 + A) + B /\ ~(i + (1 + A) <= 1 + A) /\ (i + (1 + A)) - (1 + A) = i
    BY <1>1
  <2> QED BY <1>3, <2>1
<1>6. SubSeq(d, 2, 1 + A) = a
  <2> DEFINE e == 1
  <2>1. e \in Nat /\ 1 \in 1 .. Len(a) + 1 /\ Len(a) \in 1 - 1 .. Len(a) /\ Len(a) + e <= Len(d)
        /\ \A i \in 1 .. Len(a) : d[i + e] = a[i]
    BY <1>1, <1>3, <1>4 DEF A
  <2>2. 1 + e = 2 /\ Len(a) + e = 1 + A
    BY <1>1 DEF A
  <2> HIDE DEF e
  <2>3. SubSeq(d, 1 + e, Len(a) + e) = SubSeq(a, 1, Len(a))
    BY <1>3, <2>1, SamePart
  <2> QED BY <2>2, <2>3, SubSeqFull
<1>7. SubSeq(d, 2 + A, Len(d)) = b
  <2> DEFINE e == 1 + A
  <2>1. e \in Nat /\ 1 \in 1 .. Len(b) + 1 /\ Len(b) \in 1 - 1 .. Len(b) /\ Len(b) + e <= Len(d)
        /\ \A i \in 1 .. Len(b) : d[i + e] = b[i]
    BY <1>1, <1>3, <1>5 DEF B
  <2>2. 1 + e = 2 + A /\ Len(b) + e = Len(d)
    BY <1>1, <1>3 DEF B
  <2> HIDE DEF e
  <2>3. SubSeq(d, 1 + e, Len(b) + e) = SubSeq(b, 1, Len(b))
    BY <1>3, <2>1, SamePart
  <2> QED BY <2>2, <2>3, SubSeqFull
<1>8. Len(d) = 1 + A + B
  BY <1>1, <1>3
<1> QED BY <1>3, <1>4, <1>6, <1>7, <1>8 DEF d, A, B, ca

\* And bytes are those parts, one behind the other.
LEMMA FromThreeParts ==
  ASSUME NEW T, NEW d \in Seq(T), NEW n \in Nat, 1 + n <= Len(d)
  PROVE  <<d[1]>> \o SubSeq(d, 2, 1 + n) \o SubSeq(d, 2 + n, Len(d)) = d
<1>1. Len(d) \in Nat /\ 1 \in 1 .. Len(d) + 1 /\ 1 \in 0 .. Len(d)
  OBVIOUS
<1>2. SubSeq(d, 1, 1) = <<d[1]>>
  <2>1. SubSeq(d, 1, 1) \in Seq(T) /\ Len(SubSeq(d, 1, 1)) = 1 /\ \A i \in 1 .. 1 : SubSeq(d, 1, 1)[i] = d[i]
    <3> DEFINE m == 1
    <3>1. m \in 0 .. Len(d)
      BY <1>1
    <3> HIDE DEF m
    <3>2. SubSeq(d, 1, m) \in Seq(T) /\ Len(SubSeq(d, 1, m)) = m /\ \A i \in 1 .. m : SubSeq(d, 1, m)[i] = d[i]
      BY <3>1, HeadOf
    <3> QED BY <3>2 DEF m
  <2> DEFINE h == SubSeq(d, 1, 1)
  <2>2. h \in Seq(T) /\ Len(h) = 1 /\ h[1] = d[1]
    BY <2>1
  <2> HIDE DEF h
  <2>3. h = [i \in 1 .. 1 |-> h[i]]
    BY <2>2
  <2>4. \A i \in 1 .. 1 : i = 1
    OBVIOUS
  <2>5. h = <<h[1]>>
    BY <2>3, <2>4
  <2> QED BY <2>2, <2>5 DEF h
<1>3. SubSeq(d, 1, 1) \o SubSeq(d, 2, 1 + n) = SubSeq(d, 1, 1 + n)
  <2> DEFINE m == 1
             k == 1
             l == 1 + n
  <2>1. m \in 1 .. Len(d) + 1 /\ k \in m - 1 .. Len(d) /\ l \in k .. Len(d) /\ k + 1 = 2
    BY <1>1
  <2> HIDE DEF m, k, l
  <2>2. SubSeq(d, m, k) \o SubSeq(d, k + 1, l) = SubSeq(d, m, l)
    BY <2>1, ConcatAdjacentSubSeq
  <2> QED BY <2>1, <2>2 DEF m, k, l
<1>4. SubSeq(d, 1, 1 + n) \o SubSeq(d, 2 + n, Len(d)) = SubSeq(d, 1, Len(d))
  <2> DEFINE m == 1
             k == 1 + n
             l == Len(d)
  <2>1. m \in 1 .. Len(d) + 1 /\ k \in m - 1 .. Len(d) /\ l \in k .. Len(d) /\ k + 1 = 2 + n
    BY <1>1
  <2> HIDE DEF m, k, l
  <2>2. SubSeq(d, m, k) \o SubSeq(d, k + 1, l) = SubSeq(d, m, l)
    BY <2>1, ConcatAdjacentSubSeq
  <2> QED BY <2>1, <2>2 DEF m, k, l
<1> QED BY <1>2, <1>3, <1>4, SubSeqFull

\* The canonical text of a phrase with a passphrase.
LEMMA Canonical ==
  ASSUME NEW T, NEW j \in Seq(T), NEW p \in Seq(T), Space \in T, Separator \in T
  PROVE  LET t == j \o (<<Space, Separator, Space>> \o p)
             L == Len(j)
         IN  /\ t \in Seq(T) /\ L \in Nat /\ Len(p) \in Nat /\ Len(t) = L + 3 + Len(p)
             /\ \A i \in 1 .. L : t[i] = j[i]
             /\ t[L + 1] = Space /\ t[L + 2] = Separator /\ t[L + 3] = Space
             /\ \A i \in 1 .. Len(p) : t[i + (L + 3)] = p[i]
<1> DEFINE m == <<Space, Separator, Space>>
           v == m \o p
           t == j \o v
           L == Len(j)
           P == Len(p)
<1>1. m \in Seq(T) /\ Len(m) = 3 /\ m[1] = Space /\ m[2] = Separator /\ m[3] = Space /\ L \in Nat /\ P \in Nat
  OBVIOUS
<1> HIDE DEF m
<1>2. v \in Seq(T) /\ Len(v) = 3 + P
      /\ v[1] = Space /\ v[2] = Separator /\ v[3] = Space /\ \A i \in 1 .. P : v[i + 3] = p[i]
  <2>1. v \in Seq(T) /\ Len(v) = Len(m) + P
        /\ \A i \in 1 .. Len(m) + P : v[i] = IF i <= Len(m) THEN m[i] ELSE p[i - Len(m)]
    BY <1>1, ConcatProperties
  <2> HIDE DEF v, P
  <2>2. \A i \in 1 .. 3 + P : v[i] = IF i <= 3 THEN m[i] ELSE p[i - 3]
    BY <1>1, <2>1
  <2>3. /\ 1 \in 1 .. 3 + P /\ 2 \in 1 .. 3 + P /\ 3 \in 1 .. 3 + P
        /\ \A i \in 1 .. P : i + 3 \in 1 .. 3 + P /\ ~(i + 3 <= 3) /\ (i + 3) - 3 = i
    BY <1>1
  <2>4. v[1] = m[1] /\ v[2] = m[2] /\ v[3] = m[3]
    BY <2>2, <2>3
  <2>5. \A i \in 1 .. P : v[i + 3] = p[i]
    BY <2>2, <2>3
  <2> QED BY <1>1, <2>1, <2>4, <2>5
<1> HIDE DEF v
<1>3. t \in Seq(T) /\ Len(t) = L + (3 + P)
      /\ \A i \in 1 .. L + (3 + P) : t[i] = IF i <= L THEN j[i] ELSE v[i - L]
  <2>1. v \in Seq(T)
    BY <1>2
  <2>3. Len(v) = 3 + P
    BY <1>2
  <2>2. t \in Seq(T) /\ Len(t) = L + Len(v)
        /\ \A i \in 1 .. L + Len(v) : t[i] = IF i <= L THEN j[i] ELSE v[i - L]
    BY <2>1, ConcatProperties
  <2> HIDE DEF t
  <2> QED BY <2>2, <2>3
<1> HIDE DEF t, L, P
<1>4. \A i \in 1 .. L : t[i] = j[i]
  <2>1. \A i \in 1 .. L : i \in 1 .. L + (3 + P) /\ i <= L
    BY <1>1
  <2> QED BY <1>3, <2>1
<1>5. \A q \in 1 .. 3 + P : t[q + L] = v[q]
  <2>1. \A q \in 1 .. 3 + P : q + L \in 1 .. L + (3 + P) /\ ~(q + L <= L) /\ (q + L) - L = q
    BY <1>1
  <2> QED BY <1>3, <2>1
<1>6. t[L + 1] = Space /\ t[L + 2] = Separator /\ t[L + 3] = Space
  <2>1. 1 \in 1 .. 3 + P /\ 2 \in 1 .. 3 + P /\ 3 \in 1 .. 3 + P /\ 1 + L = L + 1 /\ 2 + L = L + 2 /\ 3 + L = L + 3
    BY <1>1
  <2>2. t[1 + L] = v[1] /\ t[2 + L] = v[2] /\ t[3 + L] = v[3]
    BY <1>5, <2>1
  <2> QED BY <1>2, <2>1, <2>2
<1>7. ASSUME NEW i \in 1 .. P PROVE t[i + (L + 3)] = p[i]
  <2>1. i + 3 \in 1 .. 3 + P /\ (i + 3) + L = i + (L + 3)
    BY <1>1
  <2> QED BY <1>2, <1>5, <2>1
<1>8. Len(t) = L + 3 + P
  BY <1>1, <1>3
<1> QED BY <1>1, <1>3, <1>4, <1>6, <1>7, <1>8 DEF t, L, P, v, m

\* Words and, behind " ; ", a passphrase.
Phrase(words, pass) ==
  words \o IF pass = <<>> THEN <<>> ELSE <<Space, Separator, Space>> \o pass

\* What bytes are expanded to with a passphrase, and of which parts they are.
Expansion(list, data, res) ==
  LET count == data[1]
      part  == SubSeq(data, 2, 1 + 2 * count)
      idx   == IndicesOf(part)
      pass  == SubSeq(data, 2 + 2 * count, Len(data))
      words == Join(list, idx)
  IN  IF \/ count \notin 1 .. MaxWords[list] \/ Len(data) < 1 + 2 * count
         \/ \E n \in DOMAIN idx : idx[n] >= Len(Words(list))
      THEN res = Error
      ELSE /\ res = UpToNul(Phrase(words, pass))
           /\ Phrase(words, pass) \in Seq(0 .. 255)
           /\ Len(Phrase(words, pass)) < 2 * SSS_MAX_SECRET_LEN
           /\ count \in 1 .. MaxWords[list] /\ 1 + 2 * count <= Len(data)
           /\ part \in Seq(0 .. 255) /\ Len(part) = 2 * count
           /\ \A i \in 1 .. 2 * count : part[i] = data[i + 1]
           /\ pass \in Seq(0 .. 255) /\ Len(data) = 1 + 2 * count + Len(pass)
           /\ words \in Seq(Char)
           /\ Joined(words, [n \in 1 .. Len(idx) |-> Words(list)[idx[n] + 1]], Len(idx))
           /\ idx \in Seq(Nat) /\ Len(idx) = count
           /\ \A n \in 1 .. Len(idx) : idx[n] < Len(Words(list))

\* The bounds of these parts.
LEMMA PartBounds ==
  ASSUME NEW M \in Nat, NEW count \in 1 .. M, NEW D \in Nat, ~(D < 1 + 2 * count)
  PROVE  /\ count \in Nat /\ count >= 1 /\ count <= M /\ 1 + 2 * count <= D
         /\ 1 + 2 * count \in 2 - 1 .. D /\ 2 \in 1 .. D + 1 /\ (1 + 2 * count) - 2 + 1 = 2 * count
         /\ \A i \in 1 .. 2 * count : 2 + i - 1 = i + 1
         /\ 2 + 2 * count \in 1 .. D + 1 /\ D \in (2 + 2 * count) - 1 .. D
         /\ 1 + 2 * count + (D - (2 + 2 * count) + 1) = D
OBVIOUS

\* Both sides expand alike, and no buffer is too small.
LEMMA ExpandsPassphrase ==
  ASSUME NEW list \in List, NEW side \in Side, NEW data \in Seq(0 .. 255), data # <<>>,
         Len(data) <= SSS_MAX_SECRET_LEN
  PROVE  Expansion(list, data, ExpandOn(side, list, "passphrase", data))
<1> DEFINE count == data[1]
           part == SubSeq(data, 2, 1 + 2 * count)
           idx == IndicesOf(part)
           pass == SubSeq(data, 2 + 2 * count, Len(data))
           words == Join(list, idx)
           text == Phrase(words, pass)
           M == MaxWords[list]
           S == SSS_MAX_SECRET_LEN
           D == Len(data)
           Bad == \/ count \notin 1 .. M \/ D < 1 + 2 * count
                  \/ \E n \in DOMAIN idx : idx[n] >= Len(Words(list))
           res == ExpandOn(side, list, "passphrase", data)
           T == 0 .. 255
<1>1. D \in Nat /\ D # 0 /\ M \in Nat \ {0} /\ S \in Nat \ {0} /\ Len(Words(list)) \in Nat /\ D <= S
  <2>1. D \in Nat /\ D # 0
    BY EmptySeq
  <2>2. D <= S
    OBVIOUS
  <2> HIDE DEF D
  <2> QED BY <2>1, <2>2, SizeTypes
<1>2. res = UpToNul(wl_codec_decompress_passphrase(list, data, 2 * S))
  <2>1. ~(D > S)
    BY <1>1
  <2>2. CASE side = "device"
    BY <2>2 DEF ExpandOn, DeviceExpand
  <2>3. CASE side = "page"
    BY <2>1, <2>3 DEF ExpandOn, PageExpand, List, wasm_bip39_decompress_passphrase, wasm_slip39_decompress_passphrase
  <2> QED BY <2>2, <2>3 DEF Side
<1>3. UpToNul(Error) = Error
  BY DEF UpToNul
<1>4. wl_codec_decompress_passphrase(list, data, 2 * S)
        = IF Bad THEN Error ELSE IF Len(text) + 1 > 2 * S THEN Error ELSE text
  BY <1>1 DEF wl_codec_decompress_passphrase, Phrase
<1>5. CASE Bad
  BY <1>2, <1>3, <1>4, <1>5 DEF Expansion
<1>6. CASE ~Bad
  <2>1. count \in 1 .. M /\ ~(D < 1 + 2 * count)
    BY <1>6
  <2>2. \A n \in DOMAIN idx : ~(idx[n] >= Len(Words(list)))
    BY <1>6
  <2>3. data \in Seq(T)
    OBVIOUS
  <2> HIDE DEF count, T, M, S
  <2>4. count \in Nat /\ count >= 1 /\ count <= M /\ 1 + 2 * count <= D
    BY <1>1, <2>1, PartBounds
  <2>5. part \in Seq(T) /\ Len(part) = 2 * count /\ \A i \in 1 .. 2 * count : part[i] = data[i + 1]
    <3> DEFINE m == 2
               n == 1 + 2 * count
    <3>1. m \in 1 .. D + 1 /\ n \in m - 1 .. D /\ n - m + 1 = 2 * count /\ \A i \in 1 .. 2 * count : m + i - 1 = i + 1
      BY <1>1, <2>1, PartBounds
    <3> HIDE DEF m, n
    <3>2. /\ SubSeq(data, m, n) \in Seq(T) /\ Len(SubSeq(data, m, n)) = n - m + 1
          /\ \A i \in 1 .. n - m + 1 : SubSeq(data, m, n)[i] = data[m + i - 1]
      BY <2>3, <3>1, PartOf
    <3>3. SubSeq(data, m, n) = part
      BY DEF m, n
    <3> HIDE DEF part
    <3> QED BY <3>1, <3>2, <3>3
  <2>6. pass \in Seq(T) /\ D = 1 + 2 * count + Len(pass)
    <3> DEFINE m == 2 + 2 * count
    <3>1. m \in 1 .. D + 1 /\ D \in m - 1 .. D /\ 1 + 2 * count + (D - m + 1) = D
      BY <1>1, <2>4
    <3> HIDE DEF m
    <3>2. SubSeq(data, m, D) \in Seq(T) /\ Len(SubSeq(data, m, D)) = D - m + 1
      <4> DEFINE n == D
      <4>1. n \in m - 1 .. Len(data) /\ m \in 1 .. Len(data) + 1
        BY <3>1
      <4> HIDE DEF n
      <4>2. SubSeq(data, m, n) \in Seq(T) /\ Len(SubSeq(data, m, n)) = n - m + 1
        BY <2>3, <4>1, PartOf
      <4> QED BY <4>2 DEF n
    <3>3. SubSeq(data, m, D) = pass
      BY DEF m
    <3> HIDE DEF pass, D
    <3> QED BY <3>1, <3>2, <3>3
  <2>7. idx \in Seq(Nat) /\ Len(idx) = count /\ DOMAIN idx = 1 .. count
    <3>1. part \in Seq(Nat)
      BY <2>5, BytesAreNumbers DEF T
    <3> HIDE DEF part
    <3> QED BY <2>4, <2>5, <3>1, IndicesOfBytes
  <2>8. \A n \in 1 .. Len(idx) : idx[n] < Len(Words(list))
    <3> HIDE DEF idx
    <3> TAKE n \in 1 .. Len(idx)
    <3>1. n \in DOMAIN idx
      BY <2>7
    <3>2. ~(idx[n] >= Len(Words(list))) /\ idx[n] \in Nat
      BY <2>2, <2>7, <3>1
    <3> QED BY <1>1, <3>2
  <2> HIDE DEF idx, part, pass
  <2>9. words \in Seq(Char) /\ Joined(words, [n \in 1 .. Len(idx) |-> Words(list)[idx[n] + 1]], Len(idx))
    BY <2>4, <2>7, <2>8, JoinSpells
  <2>10. Len(words) \in 1 .. count * (MaxWordLen + 1) - 1 /\ Len(words) \in Nat
    BY <2>7, <2>9 DEF Joined
  <2>11. words \in Seq(T)
    BY <2>9, CharsAreBytes DEF T
  <2>12. /\ Len(words) + 1 <= 2 * S
         /\ Len(words) + 3 + Len(pass) + 1 <= 2 * S
    <3> DEFINE l == Len(words)
               p == Len(pass)
    <3>1. l \in 1 .. count * (MaxWordLen + 1) - 1 /\ p \in Nat /\ 1 + 2 * count + p <= S /\ count \in 1 .. MaxWords[list]
      <4>1. p \in Nat
        BY <2>6
      <4>2. 1 + 2 * count + p = D
        BY <2>6
      <4> QED BY <1>1, <2>1, <2>10, <4>1, <4>2 DEF M
    <3> HIDE DEF l, p
    <3>2. l + 1 <= 2 * SSS_MAX_SECRET_LEN
      BY <3>1, Sizes
    <3>3. l + 3 + p + 1 <= 2 * SSS_MAX_SECRET_LEN
      BY <3>1, Sizes DEF S
    <3> QED BY <3>2, <3>3 DEF l, p, S
  <2> HIDE DEF words
  <2>13. text \in Seq(T) /\ Len(text) + 1 <= 2 * S /\ Len(text) \in Nat
    <3>1. CASE pass = <<>>
      <4>1. text = words \o <<>>
        BY <3>1 DEF Phrase
      <4>2. words \o <<>> = words
        BY <2>11, ConcatEmptySeq
      <4>3. text = words
        BY <4>1, <4>2
      <4> HIDE DEF text
      <4> QED BY <2>10, <2>11, <2>12, <4>3
    <3>2. CASE pass # <<>>
      <4>1. Space \in T /\ Separator \in T
        BY WordListAssumption DEF T
      <4>2. text = words \o (<<Space, Separator, Space>> \o pass)
        BY <3>2 DEF Phrase
      <4>3. /\ words \o (<<Space, Separator, Space>> \o pass) \in Seq(T)
            /\ Len(words \o (<<Space, Separator, Space>> \o pass)) = Len(words) + 3 + Len(pass)
        BY <2>6, <2>11, <4>1, Canonical
      <4>4. text \in Seq(T) /\ Len(text) = Len(words) + 3 + Len(pass)
        BY <4>2, <4>3
      <4> HIDE DEF text
      <4>5. Len(text) \in Nat
        BY <4>4, LenProperties
      <4>6. Len(text) + 1 <= 2 * S
        BY <2>12, <4>4
      <4> QED BY <4>4, <4>5, <4>6
    <3> QED BY <3>1, <3>2
  <2> HIDE DEF text
  <2>14. ~(Len(text) + 1 > 2 * S) /\ Len(text) < 2 * S
    BY <1>1, <2>13
  <2>15. res = UpToNul(text)
    BY <1>2, <1>4, <1>6, <2>14
  <2>16. count \in 1 .. M
    BY <2>1
  <2> QED BY <1>6, <2>4, <2>5, <2>6, <2>7, <2>8, <2>9, <2>13, <2>14, <2>15, <2>16
          DEF Expansion, count, part, idx, pass, words, text, T, M, S
<1> QED BY <1>5, <1>6

\* The parts of a canonical text.
LEMMA CanonicalParts ==
  ASSUME NEW words \in Seq(Char), NEW pass \in Seq(Char), Len(words) >= 1, Len(pass) >= 1,
         words[1] \notin Blank, words[Len(words)] \notin Blank,
         \A i \in 1 .. Len(words) : words[i] # Separator,
         pass[1] \notin Blank, pass[Len(pass)] \notin Blank
  PROVE  LET t == words \o (<<Space, Separator, Space>> \o pass)
         IN  /\ t \in Seq(Char) /\ FirstSeparator(t) = Len(words) + 2
             /\ SeedPart(t) = words /\ Passphrase(t) = pass
<1> DEFINE t == words \o (<<Space, Separator, Space>> \o pass)
           L == Len(words)
           P == Len(pass)
           h == SubSeq(t, 1, L + 1)
           q == SubSeq(t, L + 3, Len(t))
<1>1. Space \in Char /\ Separator \in Char /\ Space \in Blank /\ Separator \notin Blank /\ Space # Separator
  BY WordListAssumption DEF Char, Blank
<1>2. /\ t \in Seq(Char) /\ L \in Nat /\ P \in Nat /\ Len(t) = L + 3 + P
      /\ \A i \in 1 .. L : t[i] = words[i]
      /\ t[L + 1] = Space /\ t[L + 2] = Separator /\ t[L + 3] = Space
      /\ \A i \in 1 .. P : t[i + (L + 3)] = pass[i]
  BY <1>1, Canonical
<1>3. L >= 1 /\ P >= 1
  OBVIOUS
<1> HIDE DEF t
<1>4. FirstSeparator(t) = L + 2
  <2> HIDE DEF L, P
  <2>1. L + 2 \in 1 .. Len(t)
    BY <1>2
  <2>2. \A i \in 1 .. (L + 2) - 1 : t[i] # Separator
    <3> TAKE i \in 1 .. (L + 2) - 1
    <3>1. i \in 1 .. L \/ i = L + 1
      BY <1>2
    <3>2. i \in 1 .. L => words[i] # Separator
      BY DEF L
    <3> QED BY <1>1, <1>2, <3>1, <3>2
  <2> QED BY <1>2, <2>1, <2>2, SeparatorFound
<1>5. h \in Seq(Char) /\ Len(h) = L + 1 /\ (\A i \in 1 .. L : h[i] = words[i]) /\ h[L + 1] = Space
  <2> HIDE DEF L, P
  <2> DEFINE m == 1
             n == L + 1
  <2>1. /\ m \in 1 .. Len(t) + 1 /\ n \in m - 1 .. Len(t) /\ n - m + 1 = L + 1
        /\ L + 1 \in 1 .. L + 1 /\ m + (L + 1) - 1 = L + 1
        /\ \A i \in 1 .. L : i \in 1 .. L + 1 /\ m + i - 1 = i
    <3>1. L \in Nat /\ P \in Nat /\ Len(t) = L + 3 + P
      BY <1>2
    <3> QED BY <3>1
  <2>2. h = SubSeq(t, m, n)
    OBVIOUS
  <2> HIDE DEF m, n, h
  <2>3. h \in Seq(Char) /\ Len(h) = n - m + 1 /\ \A i \in 1 .. n - m + 1 : h[i] = t[m + i - 1]
    BY <1>2, <2>1, <2>2, PartOf
  <2> QED BY <1>2, <2>1, <2>3
<1>6. q \in Seq(Char) /\ Len(q) = P + 1 /\ q[1] = Space /\ \A i \in 1 .. P : q[i + 1] = pass[i]
  <2> HIDE DEF L, P
  <2> DEFINE m == L + 3
             n == Len(t)
  <2>1. /\ m \in 1 .. Len(t) + 1 /\ n \in m - 1 .. Len(t) /\ n - m + 1 = P + 1
        /\ 1 \in 1 .. P + 1 /\ m + 1 - 1 = L + 3
        /\ \A i \in 1 .. P : i + 1 \in 1 .. P + 1 /\ m + (i + 1) - 1 = i + (L + 3)
    <3>1. L \in Nat /\ P \in Nat /\ Len(t) = L + 3 + P
      BY <1>2
    <3> QED BY <3>1
  <2>2. q = SubSeq(t, m, n)
    OBVIOUS
  <2> HIDE DEF m, n, q
  <2>3. q \in Seq(Char) /\ Len(q) = n - m + 1 /\ \A i \in 1 .. n - m + 1 : q[i] = t[m + i - 1]
    BY <1>2, <2>1, <2>2, PartOf
  <2> QED BY <1>2, <2>1, <2>3
<1>7. SeedPart(t) = Trim(h) /\ Passphrase(t) = Trim(q)
  <2>1. (L + 2) - 1 = L + 1 /\ (L + 2) + 1 = L + 3
    BY <1>2
  <2> QED BY <1>4, <2>1 DEF SeedPart, Passphrase
<1> HIDE DEF h, q
<1>8. Trim(h) = words
  <2> DEFINE a == 1
             b == L
  <2>1. h[a] \notin Blank /\ h[b] \notin Blank
    <3>1. 1 \in 1 .. L /\ L \in 1 .. L
      BY <1>2, <1>3
    <3>2. h[1] = words[1] /\ h[L] = words[L]
      BY <1>5, <3>1
    <3> QED BY <3>2
  <2>2. a \in 1 .. Len(h) /\ b \in a .. Len(h)
    BY <1>2, <1>3, <1>5
  <2>3. \A i \in 1 .. Len(h) : i < a \/ i > b => h[i] \in Blank
    <3> HIDE DEF L
    <3> TAKE i \in 1 .. Len(h)
    <3> HAVE i < a \/ i > b
    <3>1. i = L + 1
      BY <1>2, <1>5
    <3> QED BY <1>1, <1>5, <3>1
  <2> HIDE DEF a, b
  <2>4. Trim(h) = SubSeq(h, a, b)
    BY <1>5, <2>1, <2>2, <2>3, TrimCuts
  <2>5. SubSeq(h, a, b) = SubSeq(words, 1, L)
    <3> DEFINE d == 0
    <3>1. d \in Nat /\ a \in 1 .. Len(words) + 1 /\ b \in a - 1 .. Len(words) /\ b + d <= Len(h)
          /\ a + d = a /\ b + d = b /\ \A i \in a .. b : h[i + d] = words[i]
      BY <1>2, <1>3, <1>5 DEF a, b
    <3> HIDE DEF d
    <3>2. SubSeq(h, a + d, b + d) = SubSeq(words, a, b)
      BY <1>5, <3>1, SamePart
    <3> QED BY <3>1, <3>2 DEF a, b
  <2> QED BY <2>4, <2>5, SubSeqFull
<1>9. Trim(q) = pass
  <2> DEFINE a == 2
             b == P + 1
  <2>1. q[a] \notin Blank /\ q[b] \notin Blank
    <3>1. 1 \in 1 .. P /\ 1 + 1 = 2 /\ P \in 1 .. P
      BY <1>2, <1>3
    <3>2. q[1 + 1] = pass[1] /\ q[P + 1] = pass[P]
      BY <1>6, <3>1
    <3> QED BY <3>1, <3>2
  <2>2. a \in 1 .. Len(q) /\ b \in a .. Len(q)
    BY <1>2, <1>3, <1>6
  <2>3. \A i \in 1 .. Len(q) : i < a \/ i > b => q[i] \in Blank
    <3> HIDE DEF P
    <3> TAKE i \in 1 .. Len(q)
    <3> HAVE i < a \/ i > b
    <3>1. i = 1
      BY <1>2, <1>6
    <3> QED BY <1>1, <1>6, <3>1
  <2> HIDE DEF a, b
  <2>4. Trim(q) = SubSeq(q, a, b)
    BY <1>6, <2>1, <2>2, <2>3, TrimCuts
  <2>5. SubSeq(q, a, b) = SubSeq(pass, 1, P)
    <3> DEFINE d == 1
               c == 1
               e == P
    <3>1. d \in Nat /\ c \in 1 .. Len(pass) + 1 /\ e \in c - 1 .. Len(pass) /\ e + d <= Len(q)
          /\ c + d = a /\ e + d = b /\ \A i \in c .. e : q[i + d] = pass[i]
      BY <1>2, <1>3, <1>6 DEF a, b
    <3> HIDE DEF d, c, e
    <3>2. SubSeq(q, c + d, e + d) = SubSeq(pass, c, e)
      BY <1>6, <3>1, SamePart
    <3> QED BY <3>1, <3>2 DEF c, e
  <2> QED BY <2>4, <2>5, SubSeqFull
<1> QED BY <1>2, <1>4, <1>7, <1>8, <1>9 DEF t

\* A canonical text is compressed to its count, indices and passphrase.
LEMMA CompressesCanonical ==
  ASSUME NEW list \in List, NEW idx \in Seq(Nat), Len(idx) >= 1, Len(idx) <= MaxWords[list],
         \A n \in 1 .. Len(idx) : idx[n] < Len(Words(list)),
         NEW words \in Seq(Char),
         Joined(words, [n \in 1 .. Len(idx) |-> Words(list)[idx[n] + 1]], Len(idx)),
         NEW pass \in Seq(Char), pass # <<>>, pass[1] \notin Blank, pass[Len(pass)] \notin Blank,
         1 + 2 * Len(idx) + Len(pass) <= SSS_MAX_SECRET_LEN
  PROVE  wl_codec_compress_passphrase(list, Phrase(words, pass), SSS_MAX_SECRET_LEN)
           = <<Len(idx)>> \o IndexBytes(idx) \o pass
<1> DEFINE t == words \o (<<Space, Separator, Space>> \o pass)
<1>1. Len(words) >= 1 /\ Len(words) \in Nat
  BY DEF Joined
<1>2. Len(pass) >= 1 /\ Len(pass) \in Nat
  <2>1. Len(pass) # 0 /\ Len(pass) \in Nat
    BY EmptySeq
  <2> QED BY <2>1
<1>3. words[1] \notin Blank /\ words[Len(words)] \notin Blank /\ \A i \in 1 .. Len(words) : words[i] # Separator
  <2>1. 1 \in 1 .. Len(words) /\ Len(words) \in 1 .. Len(words)
    BY <1>1
  <2> QED BY <2>1 DEF Joined, Blank
<1>4. /\ FirstSeparator(t) = Len(words) + 2 /\ SeedPart(t) = words /\ Passphrase(t) = pass
  BY <1>1, <1>2, <1>3, CanonicalParts
<1>5. Phrase(words, pass) = t
  BY DEF Phrase
<1> HIDE DEF t
<1>6. wl_codec_parse_words(list, SeedPart(t)) = idx
  <2>1. Tokens(words) = [n \in 1 .. Len(idx) |-> Words(list)[idx[n] + 1]]
    BY WordsOfIndices DEF Joined
  <2> QED BY <1>4, <2>1, ParsesToIndices
<1>7. idx # Error /\ idx # <<>>
  <2>1. idx \in Seq(Int)
    <3>1. Nat \subseteq Int
      OBVIOUS
    <3> QED BY <3>1, SeqMonotonic
  <2>2. idx # <<>>
    OBVIOUS
  <2> QED BY <2>1, <2>2, ErrorAssumption
<1>8. FirstSeparator(t) # 0
  BY <1>1, <1>4
<1>9. ~(Total(idx, Passphrase(t)) > SSS_MAX_SECRET_LEN)
  <2> DEFINE v == 1 + 2 * Len(idx) + Len(pass)
  <2>1. Total(idx, Passphrase(t)) = v /\ v <= SSS_MAX_SECRET_LEN /\ v \in Nat /\ SSS_MAX_SECRET_LEN \in Nat
    BY <1>2, <1>4, SizeTypes DEF Total
  <2> HIDE DEF v
  <2> QED BY <2>1
<1>10. wl_codec_compress_passphrase(list, t, SSS_MAX_SECRET_LEN)
         = <<Len(idx)>> \o IndexBytes(idx) \o Passphrase(t)
  BY <1>6, <1>7, <1>8, <1>9 DEF wl_codec_compress_passphrase
<1> QED BY <1>4, <1>5, <1>10

\* Bytes that a phrase is shown for, with a passphrase a user may type, are the
\* bytes of that phrase.
LEMMA PassphraseStable ==
  ASSUME NEW list \in List, NEW s \in Side, NEW t \in Side, NEW data \in Seq(0 .. 255), data # <<>>,
         Len(data) <= SSS_MAX_SECRET_LEN,
         \A i \in 1 .. Len(data) : i \in 2 .. 1 + 2 * data[1] => HalfOrNone(data[i]),
         Retypable(data, "passphrase"),
         ExpandOn(s, list, "passphrase", data) # Error
  PROVE  CompressOn(t, list, "passphrase", ExpandOn(s, list, "passphrase", data)) = data
<1> DEFINE count == data[1]
           part == SubSeq(data, 2, 1 + 2 * count)
           idx == IndicesOf(part)
           pass == SubSeq(data, 2 + 2 * count, Len(data))
           words == Join(list, idx)
           ws == [n \in 1 .. Len(idx) |-> Words(list)[idx[n] + 1]]
           text == Phrase(words, pass)
           res == ExpandOn(s, list, "passphrase", data)
           T == 0 .. 255
           S == SSS_MAX_SECRET_LEN
           M == MaxWords[list]
           k == 2 * count
<1>1. /\ res = UpToNul(text) /\ text \in Seq(T)
      /\ count \in 1 .. M /\ 1 + k <= Len(data)
      /\ part \in Seq(T) /\ Len(part) = k
      /\ \A i \in 1 .. k : part[i] = data[i + 1]
      /\ pass \in Seq(T) /\ Len(data) = 1 + k + Len(pass)
      /\ words \in Seq(Char) /\ Joined(words, ws, Len(idx))
      /\ idx \in Seq(Nat) /\ Len(idx) = count
      /\ \A n \in 1 .. Len(idx) : idx[n] < Len(Words(list))
  <2> DEFINE Bad == \/ count \notin 1 .. MaxWords[list] \/ Len(data) < 1 + 2 * count
                    \/ \E n \in DOMAIN idx : idx[n] >= Len(Words(list))
  <2>1. IF Bad THEN res = Error
        ELSE /\ res = UpToNul(text) /\ text \in Seq(T)
             /\ Len(text) < 2 * SSS_MAX_SECRET_LEN
             /\ count \in 1 .. MaxWords[list] /\ 1 + 2 * count <= Len(data)
             /\ part \in Seq(T) /\ Len(part) = 2 * count
             /\ \A i \in 1 .. 2 * count : part[i] = data[i + 1]
             /\ pass \in Seq(T) /\ Len(data) = 1 + 2 * count + Len(pass)
             /\ words \in Seq(Char) /\ Joined(words, [n \in 1 .. Len(idx) |-> Words(list)[idx[n] + 1]], Len(idx))
             /\ idx \in Seq(Nat) /\ Len(idx) = count
             /\ \A n \in 1 .. Len(idx) : idx[n] < Len(Words(list))
    <3>1. Expansion(list, data, res)
      BY ExpandsPassphrase
    <3> HIDE DEF res
    <3> QED BY <3>1 DEF Expansion
  <2>2. res # Error
    OBVIOUS
  <2> HIDE DEF Bad, res, text, count, part, pass, words, idx, T
  <2> QED BY <2>1, <2>2
<1>2. pass # <<>> /\ 0 \notin ToSet(pass) /\ pass[1] \notin Blank /\ pass[Len(pass)] \notin Blank
  BY DEF Retypable, Last
<1>3. M \in Nat /\ S \in Nat /\ count \in Nat /\ count >= 1 /\ count <= M /\ k \in Nat /\ Len(data) \in Nat /\ Len(data) <= S
  <2>1. M \in Nat /\ S \in Nat
    BY SizeTypes
  <2>2. Len(data) \in Nat
    OBVIOUS
  <2> HIDE DEF count, M, S
  <2> QED BY <1>1, <2>1, <2>2 DEF S
<1>4. <<count>> \o part \o pass = data
  <2>1. 1 + k <= Len(data) /\ data \in Seq(T) /\ k \in Nat
    BY <1>1, <1>3
  <2>2. <<data[1]>> \o SubSeq(data, 2, 1 + k) \o SubSeq(data, 2 + k, Len(data)) = data
    <3> HIDE DEF k, T
    <3> QED BY <2>1, FromThreeParts
  <2> QED BY <2>2
<1>5. \A i \in 1 .. k : HalfOrNone(part[i])
  <2> TAKE i \in 1 .. k
  <2>1. i + 1 \in 1 .. Len(data) /\ i + 1 \in 2 .. 1 + k
    <3> HIDE DEF k, count
    <3> QED BY <1>1, <1>3
  <2>2. part[i] = data[i + 1]
    BY <1>1
  <2>3. HalfOrNone(data[i + 1])
    BY <2>1
  <2> QED BY <2>2, <2>3
<1> HIDE DEF count, part, idx, pass, words, text, res, k
<1>6. IndexBytes(idx) = part
  <2>1. /\ count \in Nat /\ Len(part) = 2 * count /\ \A i \in 1 .. Len(part) : HalfOrNone(part[i])
        /\ part \in Seq(0 .. 255)
    BY <1>1, <1>3, <1>5 DEF k
  <2>2. \A n \in 1 .. count : IndicesOf(part)[n] < Len(Words(list))
    BY <1>1 DEF idx
  <2>3. IndexBytes(IndicesOf(part)) = part
    BY <2>1, <2>2, AllHalves
  <2> QED BY <2>3 DEF idx
<1>7. pass \in Seq(Char) /\ Len(pass) \in Nat /\ Len(pass) >= 1
  <2>1. Len(pass) \in Nat /\ Len(pass) # 0 /\ DOMAIN pass = 1 .. Len(pass)
    BY <1>1, <1>2, EmptySeq
  <2>2. \A i \in 1 .. Len(pass) : pass[i] \in Char
    <3> TAKE i \in 1 .. Len(pass)
    <3>1. pass[i] \in ToSet(pass)
      BY <2>1 DEF ToSet
    <3>2. pass[i] \in T
      <4> HIDE DEF T
      <4>1. pass \in Seq(T)
        BY <1>1
      <4> QED BY <4>1, <2>1
    <3> QED BY <1>2, <3>1, <3>2 DEF Char
  <2>3. pass = [i \in 1 .. Len(pass) |-> pass[i]]
    BY <1>1, <2>1
  <2>4. pass \in Seq(Char)
    <3> DEFINE g == [i \in 1 .. Len(pass) |-> pass[i]]
               m == Len(pass)
    <3>1. m \in Nat /\ g \in [1 .. m -> Char]
      BY <2>1, <2>2
    <3> HIDE DEF g, m
    <3>2. g \in Seq(Char)
      BY <3>1, FunIsSeq
    <3> QED BY <2>3, <3>2 DEF g, m
  <2> QED BY <2>1, <2>4
<1>8. res = text
  <2>1. Len(words) >= 1 /\ Len(words) \in Nat
    BY <1>1 DEF Joined
  <2>2. words[1] \notin Blank /\ words[Len(words)] \notin Blank /\ \A i \in 1 .. Len(words) : words[i] # Separator
    <3>1. 1 \in 1 .. Len(words) /\ Len(words) \in 1 .. Len(words)
      BY <2>1
    <3> QED BY <1>1, <3>1 DEF Joined, Blank
  <2>3. words \o (<<Space, Separator, Space>> \o pass) \in Seq(Char)
    BY <1>1, <1>2, <1>7, <2>1, <2>2, CanonicalParts
  <2>4. text \in Seq(Char)
    BY <1>2, <2>3 DEF text, Phrase
  <2>5. text \in Seq(0 .. 255) /\ \A i \in 1 .. Len(text) : text[i] # 0
    BY <2>4, CharsAreBytes
  <2> QED BY <1>1, <2>5, UpToNulText
<1>9. wl_codec_compress_passphrase(list, text, SSS_MAX_SECRET_LEN) = <<Len(idx)>> \o IndexBytes(idx) \o pass
  <2>1. Len(idx) >= 1 /\ Len(idx) <= MaxWords[list]
    BY <1>1, <1>3
  <2>2. 1 + 2 * Len(idx) + Len(pass) <= SSS_MAX_SECRET_LEN
    BY <1>1, <1>3 DEF k
  <2>3. Joined(words, [n \in 1 .. Len(idx) |-> Words(list)[idx[n] + 1]], Len(idx)) /\ words \in Seq(Char)
    BY <1>1
  <2> HIDE DEF ws, S, M, T
  <2> QED BY <1>1, <1>2, <1>7, <2>1, <2>2, <2>3, CompressesCanonical DEF text
<1>10. <<Len(idx)>> \o IndexBytes(idx) \o pass = data
  BY <1>1, <1>4, <1>6
<1>11. CompressOn(t, list, "passphrase", text) = wl_codec_compress_passphrase(list, text, SSS_MAX_SECRET_LEN)
  BY CompressesAlike
<1> QED BY <1>8, <1>9, <1>10, <1>11 DEF res

\* What is ahead of the separator and behind it.
LEMMA AheadAndBehind ==
  ASSUME NEW text \in Seq(Char), FirstSeparator(text) # 0
  PROVE  LET f == FirstSeparator(text)
         IN  /\ f \in 1 .. Len(text)
             /\ SeedPart(text) = Trim(Before(text, f)) /\ Passphrase(text) = Trim(Behind(text, f))
             /\ Before(text, f) \in Seq(Char) /\ Len(Before(text, f)) = f - 1
             /\ \A i \in 1 .. f - 1 : Before(text, f)[i] = text[i]
             /\ Behind(text, f) \in Seq(Char)
             /\ SeedPart(text) \in Seq(Char) /\ Passphrase(text) \in Seq(Char)
<1> DEFINE f == FirstSeparator(text)
<1>1. f \in 1 .. Len(text) /\ Len(text) \in Nat
  BY SeparatorFound
<1> HIDE DEF f
<1>2. Before(text, f) \in Seq(Char) /\ Len(Before(text, f)) = f - 1 /\ \A i \in 1 .. f - 1 : Before(text, f)[i] = text[i]
  <2> DEFINE n == f - 1
  <2>1. n \in 0 .. Len(text)
    BY <1>1
  <2>2. Before(text, f) = SubSeq(text, 1, n)
    BY DEF Before
  <2> HIDE DEF n
  <2>3. Before(text, f) \in Seq(Char) /\ Len(Before(text, f)) = n /\ \A i \in 1 .. n : Before(text, f)[i] = text[i]
    BY <2>1, <2>2, HeadOf
  <2> QED BY <2>3 DEF n
<1>3. Behind(text, f) \in Seq(Char)
  <2> DEFINE m == f + 1
             n == Len(text)
  <2>1. m \in 1 .. Len(text) + 1 /\ n \in m - 1 .. Len(text)
    BY <1>1
  <2>2. Behind(text, f) = SubSeq(text, m, n)
    BY DEF Behind
  <2> HIDE DEF m, n
  <2> QED BY <2>1, <2>2, PartOf
<1>4. SeedPart(text) = Trim(Before(text, f)) /\ Passphrase(text) = Trim(Behind(text, f))
  BY DEF SeedPart, Passphrase, Before, Behind, f
<1>5. SeedPart(text) \in Seq(Char) /\ Passphrase(text) \in Seq(Char)
  BY <1>2, <1>3, <1>4, TrimKeeps
<1> QED BY <1>1, <1>2, <1>3, <1>4, <1>5 DEF f

\* A text without words is empty of tokens.
LEMMA NoTokens ==
  ASSUME NEW S, NEW t \in Seq(S), Len(Tokens(t)) # 0
  PROVE  t # <<>>
<1> SUFFICES ASSUME t = <<>> PROVE FALSE
  OBVIOUS
<1>1. WordStarts(t) = {}
  BY DEF WordStarts
<1>2. Len(Tokens(t)) = 0
  BY <1>1, TokensAre, FS_EmptySet
<1> QED BY <1>2

\* The parts of the bytes of a phrase with a passphrase.
LEMMA CompressedParts ==
  ASSUME NEW list \in List, NEW text \in Seq(Char),
         wl_codec_compress_passphrase(list, text, SSS_MAX_SECRET_LEN) # Error
  PROVE  LET data == wl_codec_compress_passphrase(list, text, SSS_MAX_SECRET_LEN)
             idx  == wl_codec_parse_words(list, SeedPart(text))
             k    == Len(idx)
             pass == Passphrase(text)
         IN  /\ FirstSeparator(text) # 0 /\ idx \in Seq(Nat) /\ k \in 1 .. MaxWords[list]
             /\ \A n \in 1 .. Len(idx) : idx[n] < Len(Words(list))
             /\ Tokens(SeedPart(text)) = [n \in 1 .. Len(idx) |-> Words(list)[idx[n] + 1]]
             /\ data \in Seq(0 .. 255) /\ data # <<>> /\ data[1] = k
             /\ Len(data) = 1 + 2 * k + Len(pass) /\ Len(data) <= SSS_MAX_SECRET_LEN
             /\ IndicesOf(SubSeq(data, 2, 1 + 2 * k)) = idx
             /\ SubSeq(data, 2 + 2 * k, Len(data)) = pass
             /\ \A i \in 2 .. 1 + 2 * k : HalfOrNone(data[i])
<1> DEFINE data == wl_codec_compress_passphrase(list, text, SSS_MAX_SECRET_LEN)
           idx == wl_codec_parse_words(list, SeedPart(text))
           k == Len(idx)
           pass == Passphrase(text)
           bs == IndexBytes(idx)
           M == MaxWords[list]
           W == Len(Words(list))
           T == 0 .. 255
<1>1. /\ FirstSeparator(text) # 0 /\ idx # Error /\ idx # <<>>
      /\ ~(Total(idx, pass) > SSS_MAX_SECRET_LEN)
      /\ data = <<k>> \o bs \o pass
  BY DEF wl_codec_compress_passphrase
<1>2. SeedPart(text) \in Seq(Char) /\ pass \in Seq(Char)
  BY <1>1, AheadAndBehind
<1>3. /\ idx \in Seq(Nat) /\ k <= M /\ \A n \in 1 .. k : idx[n] < W
      /\ Tokens(SeedPart(text)) = [n \in 1 .. Len(idx) |-> Words(list)[idx[n] + 1]]
  BY <1>1, <1>2, ParsedWords
<1>4. M \in Nat /\ M <= 255 /\ W \in Nat /\ W <= ByteSize * ByteSize /\ SSS_MAX_SECRET_LEN \in Nat
      /\ ByteSize \in Nat \ {0} /\ ByteSize <= 256
  BY SizeTypes, ByteSizeType
<1> HIDE DEF data, idx, pass, M, W
<1>5. k \in Nat /\ k >= 1 /\ k \in T /\ k \in 1 .. M
  <2>1. k \in Nat /\ k # 0
    BY <1>1, <1>3, EmptySeq
  <2> HIDE DEF k
  <2> QED BY <1>3, <1>4, <2>1
<1>6. \A n \in 1 .. k : idx[n] < ByteSize * ByteSize
  <2> TAKE n \in 1 .. k
  <2> DEFINE v == idx[n]
             b == ByteSize * ByteSize
  <2>1. v \in Nat /\ v < W /\ W <= b /\ b \in Nat
    BY <1>3, <1>4
  <2> HIDE DEF v, b
  <2>2. v < b
    BY <1>4, <2>1
  <2> QED BY <2>2 DEF v, b
<1>7. bs \in Seq(0 .. ByteSize - 1) /\ Len(bs) = 2 * k /\ IndicesOf(bs) = idx
  BY <1>3, <1>6, BytesOfIndices
<1> HIDE DEF bs
<1>8. bs \in Seq(T) /\ \A i \in 1 .. 2 * k : bs[i] < ByteSize
  <2> DEFINE R == 0 .. ByteSize - 1
  <2>1. R \subseteq T /\ \A v \in R : v < ByteSize
    BY <1>4
  <2>2. bs \in Seq(R)
    BY <1>7
  <2> HIDE DEF R, T
  <2>3. bs \in Seq(T)
    BY <2>1, <2>2, SeqMonotonic
  <2>4. \A i \in 1 .. Len(bs) : bs[i] \in R
    BY <2>2
  <2> QED BY <1>7, <2>1, <2>3, <2>4
<1>9. pass \in Seq(T) /\ Len(pass) \in Nat
  <2>1. Len(pass) \in Nat
    BY <1>2
  <2> QED BY <1>2, <2>1, CharsAreBytes
<1>10. /\ data \in Seq(T) /\ Len(data) = 1 + Len(bs) + Len(pass) /\ data[1] = k
       /\ \A i \in 1 .. Len(bs) : data[i + 1] = bs[i]
       /\ SubSeq(data, 2, 1 + Len(bs)) = bs
       /\ SubSeq(data, 2 + Len(bs), Len(data)) = pass
  <2> HIDE DEF T, k
  <2> QED BY <1>1, <1>5, <1>8, <1>9, ThreeParts
<1>11. SubSeq(data, 2, 1 + 2 * k) = bs /\ SubSeq(data, 2 + 2 * k, Len(data)) = pass
  BY <1>7, <1>10
<1>12. Len(data) = 1 + 2 * k + Len(pass)
  BY <1>7, <1>10
<1>13. Len(data) <= SSS_MAX_SECRET_LEN
  <2> DEFINE v == 1 + 2 * k + Len(pass)
  <2>1. v \in Nat /\ ~(v > SSS_MAX_SECRET_LEN)
    BY <1>1, <1>5, <1>9 DEF Total
  <2> HIDE DEF v
  <2>2. v <= SSS_MAX_SECRET_LEN
    BY <1>4, <2>1
  <2> QED BY <1>12, <2>2 DEF v
<1>14. data # <<>>
  <2> DEFINE v == 1 + 2 * k + Len(pass)
  <2>1. v # 0
    BY <1>5, <1>9
  <2> HIDE DEF v
  <2>2. Len(data) = v
    BY <1>12 DEF v
  <2> QED BY <2>1, <2>2
<1>15. ASSUME NEW i \in 2 .. 1 + 2 * k PROVE HalfOrNone(data[i])
  <2> DEFINE j == i - 1
  <2>1. j \in 1 .. Len(bs) /\ j \in 1 .. 2 * k /\ j + 1 = i
    <3> HIDE DEF k
    <3> QED BY <1>5, <1>7
  <2> HIDE DEF j
  <2>2. data[i] = bs[j]
    BY <1>10, <2>1
  <2> QED BY <1>8, <2>1, <2>2 DEF HalfOrNone
<1> HIDE DEF k
<1>16. IndicesOf(SubSeq(data, 2, 1 + 2 * k)) = idx
  BY <1>7, <1>11
<1> QED BY <1>1, <1>3, <1>5, <1>10, <1>11, <1>12, <1>13, <1>14, <1>15, <1>16 DEF data, idx, pass, M, W, T, k

\* What PhraseRecovered says of a text with a passphrase and of what it is
\* expanded to.
Recovered(text, res) ==
  LET in    == Separates(text)
      empty == Separator \notin ToSet(res)
      out   == IF empty THEN Len(res) + 1 ELSE Separates(res)
  IN  /\ \E i, j \in 1 .. in - 1 :
           LET core == SubSeq(text, i, j)
           IN  Wraps(Before(text, in), core) /\ Tokens(Before(res, out)) = Tokens(core)
      /\ Wraps(Behind(text, in), IF empty THEN <<>> ELSE Behind(res, out + 1))

\* The same of characters.
CanonicalText(words, pass, x) ==
  /\ x \in Seq(Char) /\ Len(words) \in Nat /\ Len(pass) \in Nat /\ Len(x) = Len(words) + 3 + Len(pass)
  /\ \A i \in 1 .. Len(words) : x[i] = words[i]
  /\ x[Len(words) + 1] = Space /\ x[Len(words) + 2] = Separator /\ x[Len(words) + 3] = Space
  /\ \A i \in 1 .. Len(pass) : x[i + (Len(words) + 3)] = pass[i]

\* It is what Phrase writes.
LEMMA CanonicalOf ==
  ASSUME NEW words \in Seq(Char), NEW pass \in Seq(Char), pass # <<>>
  PROVE  CanonicalText(words, pass, Phrase(words, pass))
<1>1. Space \in Char /\ Separator \in Char
  BY WordListAssumption DEF Char
<1>2. Phrase(words, pass) = words \o (<<Space, Separator, Space>> \o pass)
  BY DEF Phrase
<1>3. CanonicalText(words, pass, words \o (<<Space, Separator, Space>> \o pass))
  BY <1>1, Canonical DEF CanonicalText
<1> QED BY <1>2, <1>3

\* The words of a text, and its passphrase, are those of its canonical form.
LEMMA TextRecovered ==
  ASSUME NEW text \in Seq(Char), FirstSeparator(text) # 0,
         NEW ws \in Seq(Seq(Char)), Len(ws) >= 1, Tokens(SeedPart(text)) = ws,
         NEW words \in Seq(Char), Len(words) >= 1, Spelled(words, ws),
         \A i \in 1 .. Len(words) : words[i] # Separator,
         NEW res, res = Phrase(words, Passphrase(text))
  PROVE  res \in Seq(Char) /\ Recovered(text, res)
<1> DEFINE f == FirstSeparator(text)
           seed == SeedPart(text)
           pass == Passphrase(text)
           L == Len(words)
           in == Separates(text)
           empty == Separator \notin ToSet(res)
           out == IF empty THEN Len(res) + 1 ELSE Separates(res)
<1>1. /\ f \in 1 .. Len(text)
      /\ seed = Trim(Before(text, f)) /\ pass = Trim(Behind(text, f))
      /\ Before(text, f) \in Seq(Char) /\ Len(Before(text, f)) = f - 1
      /\ \A i \in 1 .. f - 1 : Before(text, f)[i] = text[i]
      /\ Behind(text, f) \in Seq(Char)
      /\ seed \in Seq(Char) /\ pass \in Seq(Char)
  BY AheadAndBehind
<1>2. in = f
  <2> HIDE DEF f
  <2>1. text[f] = Separator /\ \A i \in 1 .. f - 1 : text[i] # Separator
    BY SeparatorFound DEF f
  <2> QED BY <1>1, <2>1, SeparatorChosen
<1> HIDE DEF f, seed, pass
<1>3. seed # <<>>
  <2>1. Len(Tokens(seed)) # 0
    BY DEF seed
  <2> QED BY <1>1, <2>1, NoTokens
<1>4. PICK a, b \in 1 .. f - 1 : seed = SubSeq(text, a, b) /\ Wraps(Before(text, f), seed)
  <2> DEFINE h == Before(text, f)
  <2>1. h \in Seq(Char) /\ Len(h) = f - 1 /\ seed = Trim(h) /\ \A i \in 1 .. f - 1 : h[i] = text[i]
    BY <1>1
  <2> HIDE DEF h
  <2>2. Wraps(h, seed)
    BY <2>1, TrimKeeps
  <2>3. PICK a, b \in 1 .. Len(h) : a <= b /\ seed = SubSeq(h, a, b)
    BY <1>3, <2>1, TrimKeeps
  <2>4. SubSeq(text, a, b) = SubSeq(h, a, b)
    <3> DEFINE d == 0
    <3>1. d \in Nat /\ a \in 1 .. Len(h) + 1 /\ b \in a - 1 .. Len(h) /\ b + d <= Len(text)
          /\ a + d = a /\ b + d = b /\ \A i \in a .. b : i \in 1 .. f - 1
      BY <1>1, <2>1, <2>3
    <3>2. \A i \in a .. b : text[i + d] = h[i]
      BY <1>1, <2>1, <3>1
    <3> HIDE DEF d
    <3>3. SubSeq(text, a + d, b + d) = SubSeq(h, a, b)
      BY <2>1, <3>1, <3>2, SamePart
    <3> QED BY <3>1, <3>3
  <2> QED BY <2>1, <2>2, <2>3, <2>4 DEF h
<1>5. Tokens(words) = ws
  BY WordsOfSpelled
<1>6. CASE pass = <<>>
  <2>1. res = words
    <3>1. res = words \o <<>>
      BY <1>6 DEF Phrase, pass
    <3>2. words \o <<>> = words
      BY ConcatEmptySeq
    <3> QED BY <3>1, <3>2
  <2>2. empty
    BY <2>1 DEF ToSet
  <2>3. Before(res, out) = words
    <3>1. out = Len(words) + 1
      BY <2>1, <2>2
    <3>2. (Len(words) + 1) - 1 = Len(words)
      OBVIOUS
    <3>3. Before(res, out) = SubSeq(words, 1, Len(words))
      BY <2>1, <3>1, <3>2 DEF Before
    <3> QED BY <3>3, SubSeqFull
  <2>4. Wraps(Behind(text, f), <<>>)
    BY <1>1, <1>6, TrimKeeps
  <2>5. Tokens(Before(res, out)) = Tokens(seed)
    BY <1>5, <2>3 DEF seed
  <2> HIDE DEF in, empty, out
  <2>6. \E i, j \in 1 .. in - 1 :
          Wraps(Before(text, in), SubSeq(text, i, j)) /\ Tokens(Before(res, out)) = Tokens(SubSeq(text, i, j))
    BY <1>2, <1>4, <2>5
  <2>7. Wraps(Behind(text, in), IF empty THEN <<>> ELSE Behind(res, out + 1))
    BY <1>2, <2>2, <2>4
  <2> QED BY <2>1, <2>6, <2>7 DEF Recovered, in, empty, out
<1>7. CASE pass # <<>>
  <2> DEFINE P == Len(pass)
             q == SubSeq(res, 1, L + 1)
  <2>1. Space \in Char /\ Separator \in Char /\ Space # Separator
    BY WordListAssumption DEF Char
  <2>3. /\ res \in Seq(Char) /\ L \in Nat /\ P \in Nat /\ Len(res) = L + 3 + P
        /\ \A i \in 1 .. L : res[i] = words[i]
        /\ res[L + 1] = Space /\ res[L + 2] = Separator /\ res[L + 3] = Space
        /\ \A i \in 1 .. P : res[i + (L + 3)] = pass[i]
    <3>1. CanonicalText(words, pass, Phrase(words, pass))
      BY <1>1, <1>7, CanonicalOf
    <3>2. CanonicalText(words, pass, res)
      BY <3>1 DEF pass
    <3> QED BY <3>2 DEF CanonicalText
  <2>4. L + 2 \in 1 .. Len(res) /\ \A i \in 1 .. (L + 2) - 1 : res[i] # Separator
    <3> HIDE DEF L, P
    <3>1. \A i \in 1 .. (L + 2) - 1 : i \in 1 .. L \/ i = L + 1
      BY <2>3
    <3>2. \A i \in 1 .. L : words[i] # Separator
      BY DEF L
    <3>3. L + 2 \in 1 .. Len(res)
      BY <2>3
    <3> QED BY <2>1, <2>3, <3>1, <3>2, <3>3
  <2>5. Separates(res) = L + 2 /\ Separator \in ToSet(res)
    <3> HIDE DEF L
    <3> QED BY <2>3, <2>4, SeparatorChosen
  <2>6. ~empty /\ out = L + 2
    BY <2>5
  <2> HIDE DEF empty, out, in
  <2>7. q \in Seq(Char) /\ Len(q) = L + 1 /\ (\A i \in 1 .. L : q[i] = words[i]) /\ q[L + 1] = Space
    <3> HIDE DEF L, P
    <3> DEFINE n == L + 1
    <3>1. n \in 0 .. Len(res) /\ n \in 1 .. n /\ \A i \in 1 .. L : i \in 1 .. n
      <4>1. L \in Nat /\ P \in Nat /\ Len(res) = L + 3 + P
        BY <2>3
      <4> QED BY <4>1
    <3>2. q = SubSeq(res, 1, n)
      OBVIOUS
    <3> HIDE DEF n, q
    <3>3. q \in Seq(Char) /\ Len(q) = n /\ \A i \in 1 .. n : q[i] = res[i]
      BY <2>3, <3>1, <3>2, HeadOf
    <3>4. q[n] = Space
      BY <2>3, <3>1, <3>3 DEF n
    <3> QED BY <2>3, <3>1, <3>3, <3>4 DEF n
  <2>8. Before(res, out) = q
    <3>1. (L + 2) - 1 = L + 1
      BY <2>3
    <3> QED BY <2>6, <3>1 DEF Before
  <2> HIDE DEF q
  <2>9. Tokens(q) = ws
    <3>1. Spelled(q, ws)
      BY <2>7, SpelledTail
    <3> QED BY <2>7, <3>1, WordsOfSpelled
  <2>10. Behind(res, out + 1) = pass
    <3> DEFINE d == L + 3
               c == 1
               e == Len(pass)
    <3>1. d \in Nat /\ c \in 1 .. Len(pass) + 1 /\ e \in c - 1 .. Len(pass) /\ e + d <= Len(res)
          /\ c + d = L + 4 /\ e + d = Len(res) /\ \A i \in c .. e : res[i + d] = pass[i]
      BY <2>3
    <3> HIDE DEF d, c, e
    <3>2. SubSeq(res, c + d, e + d) = SubSeq(pass, c, e)
      <4>1. pass \in Seq(Char) /\ res \in Seq(Char)
        BY <1>1, <2>3
      <4> QED BY <3>1, <4>1, SamePart
    <3>3. SubSeq(res, L + 4, Len(res)) = SubSeq(pass, 1, Len(pass))
      BY <3>1, <3>2 DEF c, e
    <3>4. out + 1 + 1 = L + 4
      BY <2>3, <2>6
    <3> QED BY <1>1, <3>3, <3>4, SubSeqFull DEF Behind
  <2>11. Wraps(Behind(text, f), pass)
    BY <1>1, TrimKeeps
  <2>12. \E i, j \in 1 .. in - 1 :
          Wraps(Before(text, in), SubSeq(text, i, j)) /\ Tokens(Before(res, out)) = Tokens(SubSeq(text, i, j))
    BY <1>2, <1>4, <2>8, <2>9 DEF seed
  <2>13. Wraps(Behind(text, in), IF empty THEN <<>> ELSE Behind(res, out + 1))
    BY <1>2, <2>6, <2>10, <2>11
  <2> QED BY <2>3, <2>12, <2>13 DEF Recovered, in, empty, out
<1> QED BY <1>6, <1>7

\* A phrase with a passphrase, compressed and expanded.
LEMMA PassphraseRecovered ==
  ASSUME NEW list \in List, NEW text \in Seq(Char),
         wl_codec_compress_passphrase(list, text, SSS_MAX_SECRET_LEN) # Error
  PROVE  LET data == wl_codec_compress_passphrase(list, text, SSS_MAX_SECRET_LEN)
         IN  \A s \in Side :
               /\ ExpandOn(s, list, "passphrase", data) # Error
               /\ Recovered(text, ExpandOn(s, list, "passphrase", data))
<1> DEFINE data == wl_codec_compress_passphrase(list, text, SSS_MAX_SECRET_LEN)
           idx0 == wl_codec_parse_words(list, SeedPart(text))
           ws == [n \in 1 .. Len(idx0) |-> Words(list)[idx0[n] + 1]]
           T == 0 .. 255
<1>1. /\ FirstSeparator(text) # 0 /\ idx0 \in Seq(Nat) /\ Len(idx0) \in 1 .. MaxWords[list]
      /\ \A n \in 1 .. Len(idx0) : idx0[n] < Len(Words(list))
      /\ Tokens(SeedPart(text)) = ws
      /\ data \in Seq(T) /\ data # <<>> /\ data[1] = Len(idx0)
      /\ Len(data) = 1 + 2 * Len(idx0) + Len(Passphrase(text)) /\ Len(data) <= SSS_MAX_SECRET_LEN
      /\ IndicesOf(SubSeq(data, 2, 1 + 2 * Len(idx0))) = idx0
      /\ SubSeq(data, 2 + 2 * Len(idx0), Len(data)) = Passphrase(text)
  BY CompressedParts
<1> HIDE DEF data
<1> SUFFICES ASSUME NEW s \in Side
             PROVE  /\ ExpandOn(s, list, "passphrase", data) # Error
                    /\ Recovered(text, ExpandOn(s, list, "passphrase", data))
  BY DEF data
<1> DEFINE count == data[1]
           part == SubSeq(data, 2, 1 + 2 * count)
           idx == IndicesOf(part)
           pass == SubSeq(data, 2 + 2 * count, Len(data))
           words == Join(list, idx)
           res == ExpandOn(s, list, "passphrase", data)
           Bad == \/ count \notin 1 .. MaxWords[list] \/ Len(data) < 1 + 2 * count
                  \/ \E n \in DOMAIN idx : idx[n] >= Len(Words(list))
<1>2. IF Bad THEN res = Error
      ELSE /\ res = UpToNul(Phrase(words, pass)) /\ Phrase(words, pass) \in Seq(T)
           /\ Len(Phrase(words, pass)) < 2 * SSS_MAX_SECRET_LEN
           /\ count \in 1 .. MaxWords[list] /\ 1 + 2 * count <= Len(data)
           /\ part \in Seq(T) /\ Len(part) = 2 * count
           /\ \A i \in 1 .. 2 * count : part[i] = data[i + 1]
           /\ pass \in Seq(T) /\ Len(data) = 1 + 2 * count + Len(pass)
           /\ words \in Seq(Char)
           /\ Joined(words, [n \in 1 .. Len(idx) |-> Words(list)[idx[n] + 1]], Len(idx))
           /\ idx \in Seq(Nat) /\ Len(idx) = count
           /\ \A n \in 1 .. Len(idx) : idx[n] < Len(Words(list))
  <2>1. Expansion(list, data, res)
    BY <1>1, ExpandsPassphrase
  <2> HIDE DEF res
  <2> QED BY <2>1 DEF Expansion
<1>3. count = Len(idx0) /\ idx = idx0 /\ pass = Passphrase(text)
  BY <1>1
<1> HIDE DEF res, count, part, idx, pass, words, idx0
<1>4. ~Bad
  <2>1. count \in Nat /\ Len(Words(list)) \in Nat /\ Len(Passphrase(text)) \in Nat
    <3>1. Passphrase(text) \in Seq(Char)
      BY <1>1, AheadAndBehind
    <3>2. MaxWords[list] \in Nat /\ Len(Words(list)) \in Nat
      BY SizeTypes
    <3> QED BY <1>1, <1>3, <3>1, <3>2, LenProperties
  <2>2. count \in 1 .. MaxWords[list]
    BY <1>1, <1>3
  <2>3. ~(Len(data) < 1 + 2 * count)
    <3> DEFINE p == Len(Passphrase(text))
               D == Len(data)
    <3>1. D = 1 + 2 * count + p /\ p \in Nat
      BY <1>1, <1>3, <2>1
    <3> HIDE DEF p, D
    <3>2. ~(D < 1 + 2 * count)
      BY <2>1, <3>1
    <3> QED BY <3>2 DEF D
  <2>4. \A n \in DOMAIN idx : ~(idx[n] >= Len(Words(list)))
    <3> TAKE n \in DOMAIN idx
    <3>1. idx[n] \in Nat /\ idx[n] < Len(Words(list))
      BY <1>1, <1>3
    <3> QED BY <2>1, <3>1
  <2> QED BY <2>2, <2>3, <2>4
<1> HIDE DEF Bad
<1>5. /\ words \in Seq(Char) /\ Len(words) >= 1 /\ Spelled(words, ws) /\ ws \in Seq(Seq(Char)) /\ Len(ws) >= 1
      /\ \A i \in 1 .. Len(words) : words[i] # Separator
  <2>1. words \in Seq(Char) /\ Joined(words, ws, Len(idx0))
    BY <1>2, <1>3, <1>4
  <2>2. ws \in Seq(Seq(Char)) /\ Len(ws) = Len(idx0)
    BY <1>1, WordsOfIndices
  <2>3. Len(idx0) >= 1
    BY <1>1
  <2> HIDE DEF ws
  <2> QED BY <2>1, <2>2, <2>3 DEF Joined
<1> HIDE DEF ws
<1> DEFINE t == Phrase(words, pass)
<1>6. t \in Seq(Char) /\ Recovered(text, t)
  <2>1. t = Phrase(words, Passphrase(text))
    BY <1>3
  <2> HIDE DEF t
  <2> QED BY <1>1, <1>5, <2>1, TextRecovered
<1>7. res = t
  <2>1. t \in Seq(0 .. 255) /\ \A i \in 1 .. Len(t) : t[i] # 0
    BY <1>6, CharsAreBytes
  <2>2. res = UpToNul(t)
    BY <1>2, <1>4
  <2> HIDE DEF t
  <2> QED BY <2>1, <2>2, UpToNulText
<1>8. t # Error
  BY <1>6, CharsAreBytes, BytesAreNoError
<1> QED BY <1>6, <1>7, <1>8 DEF res

-----------------------------------------------------------------------------
(* The invariant: by which calls each value came. *)

Shares == {Text(x, "hex", bytes_to_hex(data)) : x \in Prefixes1, data \in Payloads}
Foreigns == {Text(x, "base32", chars) : x \in Prefixes1, chars \in StrayCodes}

\* The bytes are those of the phrase, whichever side compressed it, or stray
\* ones beside no phrase.
PhraseWay ==
  IF step \in {"compressed", "expanded"}
  THEN \E list \in List, mode \in Mode :
         \/ \E side \in Side, text \in Texts :
              /\ phrase = [list |-> list, mode |-> mode, text |-> text]
              /\ bytes = CompressOn(side, list, mode, text)
         \/ /\ phrase = [list |-> list, mode |-> mode, text |-> <<>>]
            /\ bytes \in StrayBytes
  ELSE bytes = Error

\* Each side shows what it expands these bytes to.
ShownWay ==
  IF step = "expanded"
  THEN /\ bytes \notin {Error, <<>>}
       /\ shown = [s \in Side |-> ExpandOn(s, phrase.list, phrase.mode, bytes)]
  ELSE shown = [s \in Side |-> Error]

\* The code is the one of the share that was dealt, or a foreign one.
CodeWay ==
  \/ step \in {"start", "compressed", "expanded"} /\ share = Error /\ code = Error
  \/ step = "dealt" /\ share \in Shares /\ code = Error
  \/ /\ step \in {"encoded", "read"}
     /\ \/ share \in Shares /\ code = wasm_share_to_base32(share)
        \/ share = Error /\ code \in Foreigns

\* Each reader makes of it what it does.
ReadWay ==
  IF step = "read" THEN code # Error /\ read = [r \in Reader |-> ReadBy(r, code)]
                   ELSE read = [r \in Reader |-> Error]

CodecsInv == PhraseWay /\ ShownWay /\ CodeWay /\ ReadWay

\* The indices are made of halves.
HalvesIn(data, mode) ==
  \A i \in 1 .. Len(data) : (mode = "classic" \/ i \in 2 .. 1 + 2 * data[1]) => HalfOrNone(data[i])

\* What a phrase is compressed to, and that its indices are made of halves.
LEMMA CompressedType ==
  ASSUME NEW list \in List, NEW mode \in Mode, NEW side \in Side, NEW text \in Seq(Char),
         CompressOn(side, list, mode, text) # Error
  PROVE  LET data == CompressOn(side, list, mode, text)
         IN  data \in Seq(0 .. 255) /\ Len(data) <= SSS_MAX_SECRET_LEN /\ HalvesIn(data, mode)
<1>1. CASE mode = "classic"
  BY <1>1, ClassicRecovered DEF HalvesIn
<1>2. CASE mode = "passphrase"
  <2> DEFINE data == CompressOn(side, list, mode, text)
             pass == wl_codec_compress_passphrase(list, text, SSS_MAX_SECRET_LEN)
  <2>1. data = pass
    BY <1>2, CompressesAlike
  <2>2. data[1] = Len(wl_codec_parse_words(list, SeedPart(text)))
    BY <2>1, CompressedParts
  <2>3. data \in Seq(0 .. 255) /\ Len(data) <= SSS_MAX_SECRET_LEN
    BY <2>1, CompressedParts
  <2>4. \A i \in 2 .. 1 + 2 * data[1] : HalfOrNone(data[i])
    <3> DEFINE k == Len(wl_codec_parse_words(list, SeedPart(text)))
    <3>1. \A i \in 2 .. 1 + 2 * k : HalfOrNone(pass[i])
      BY <2>1, CompressedParts
    <3>2. k = data[1]
      BY <2>2
    <3> HIDE DEF k, data, pass
    <3> QED BY <2>1, <3>1, <3>2
  <2> HIDE DEF data
  <2>5. HalvesIn(data, mode)
    BY <1>2, <2>4 DEF HalvesIn
  <2> QED BY <2>3, <2>5 DEF data
<1> QED BY <1>1, <1>2 DEF Mode

\* What bytes are expanded to fits in the buffers.
LEMMA ExpandedType ==
  ASSUME NEW list \in List, NEW mode \in Mode, NEW side \in Side, NEW data \in Seq(0 .. 255),
         data # <<>>, Len(data) <= SSS_MAX_SECRET_LEN,
         ExpandOn(side, list, mode, data) # Error
  PROVE  /\ ExpandOn(side, list, mode, data) \in Seq(1 .. 255)
         /\ Len(ExpandOn(side, list, mode, data)) < 2 * SSS_MAX_SECRET_LEN
<1> DEFINE res == ExpandOn(side, list, mode, data)
<1>1. CASE mode = "classic"
  <2>1. ClassicExpansion(list, data, res)
    BY <1>1, ExpandsClassic
  <2>2. res # Error
    OBVIOUS
  <2> HIDE DEF res
  <2>3. res \in Seq(Char) /\ Len(res) < 2 * SSS_MAX_SECRET_LEN
    BY <2>1, <2>2 DEF ClassicExpansion
  <2> QED BY <2>3 DEF res, Char
<1>2. CASE mode = "passphrase"
  <2> DEFINE text == Phrase(Join(list, IndicesOf(SubSeq(data, 2, 1 + 2 * data[1]))),
                            SubSeq(data, 2 + 2 * data[1], Len(data)))
  <2>1. Expansion(list, data, res)
    BY <1>2, ExpandsPassphrase
  <2>2. res # Error
    OBVIOUS
  <2> HIDE DEF res
  <2>3. res = UpToNul(text) /\ text \in Seq(0 .. 255) /\ Len(text) < 2 * SSS_MAX_SECRET_LEN
    BY <2>1, <2>2 DEF Expansion
  <2> HIDE DEF text
  <2>4. res \in Seq(Char) /\ Len(res) <= Len(text)
    BY <2>3, UpToNulText
  <2>5. Len(res) < 2 * SSS_MAX_SECRET_LEN
    <3> DEFINE l == Len(res)
               m == Len(text)
    <3>1. l \in Nat /\ m \in Nat
      BY <2>3, <2>4, LenProperties
    <3> HIDE DEF l, m
    <3>2. l <= m /\ m < 2 * SSS_MAX_SECRET_LEN
      BY <2>3, <2>4 DEF l, m
    <3>3. SSS_MAX_SECRET_LEN \in Nat
      BY SizeTypes
    <3>4. l < 2 * SSS_MAX_SECRET_LEN
      BY <3>1, <3>2, <3>3
    <3> QED BY <3>4 DEF l
  <2> QED BY <2>4, <2>5 DEF res, Char
<1> QED BY <1>1, <1>2 DEF Mode

\* Digits are characters.
LEMMA DigitsOfBytes ==
  ASSUME NEW data \in Seq(0 .. 255)
  PROVE  bytes_to_hex(data) \in Seq(CodeChar)
<1> DEFINE T == 0 .. 15
           U == CodeChar
<1>1. bytes_to_hex(data) \in Seq(T)
  <2>1. Len(data) \in Nat /\ Len(data) <= Len(data)
    BY LenProperties
  <2> QED BY <2>1, HexOfBytes
<1>2. T \subseteq U
  BY DEF CodeChar, White, LongS
<1> HIDE DEF T, U
<1>3. bytes_to_hex(data) \in Seq(U)
  BY <1>1, <1>2, SeqMonotonic
<1> QED BY <1>3 DEF U

\* Values of the alphabet only.
LEMMA NoStrayChar ==
  ASSUME NEW chars \in Seq(CodeChar)
  PROVE  /\ (\A i \in DOMAIN Values(chars) : Values(chars)[i] # NoChar)
              => Values(chars) \in Seq(0 .. 31)
         /\ (\A i \in DOMAIN PageValues(chars) : PageValues(chars)[i] # NoChar)
              => PageValues(chars) \in Seq(0 .. 31)
         /\ Len(Values(chars)) = Len(chars) /\ Len(PageValues(chars)) = Len(chars)
<1> DEFINE n == Len(chars)
           T == 0 .. 31
<1>1. n \in Nat /\ DOMAIN chars = 1 .. n
  BY SeqIsFun
<1>2. \A c \in CodeChar : /\ base32_char_to_value(c) # NoChar => base32_char_to_value(c) \in T
                          /\ PageValue(c) # NoChar => PageValue(c) \in T
  BY DEF CodeChar, White, LongS, DotlessI, base32_char_to_value, PageValue
<1>3. \A i \in 1 .. n : chars[i] \in CodeChar
  BY SeqIsFun
<1>4. Values(chars) = [i \in 1 .. n |-> base32_char_to_value(chars[i])]
  BY <1>1 DEF Values
<1>5. PageValues(chars) = [i \in 1 .. n |-> PageValue(chars[i])]
  BY <1>1 DEF PageValues
<1> HIDE DEF n, T
<1>6. ASSUME \A i \in DOMAIN Values(chars) : Values(chars)[i] # NoChar
      PROVE  Values(chars) \in Seq(T)
  <2>1. \A i \in 1 .. n : base32_char_to_value(chars[i]) \in T
    BY <1>2, <1>3, <1>4, <1>6
  <2>2. Values(chars) \in [1 .. n -> T]
    BY <1>4, <2>1
  <2> QED BY <1>1, <2>2, FunIsSeq
<1>7. ASSUME \A i \in DOMAIN PageValues(chars) : PageValues(chars)[i] # NoChar
      PROVE  PageValues(chars) \in Seq(T)
  <2>1. \A i \in 1 .. n : PageValue(chars[i]) \in T
    BY <1>2, <1>3, <1>5, <1>7
  <2>2. PageValues(chars) \in [1 .. n -> T]
    BY <1>5, <2>1
  <2> QED BY <1>1, <2>2, FunIsSeq
<1>8. Len(Values(chars)) = n /\ Len(PageValues(chars)) = n
  BY <1>1, <1>4, <1>5
<1> QED BY <1>6, <1>7, <1>8 DEF T, n

\* The hex text of the bytes of some values.
LEMMA HexOfValues ==
  ASSUME NEW x, NEW values \in Seq(0 .. 31), NEW n \in Nat
  PROVE  Text(x, "hex", bytes_to_hex(Regroup(values, CharBits, ByteBits, n))).chars \in Seq(CodeChar)
<1> DEFINE data == Regroup(values, CharBits, ByteBits, n)
<1>1. values \in Seq(Nat) /\ CharBits \in {ByteBits, CharBits}
  BY SeqOfChars
<1>2. data \in Seq(0 .. 255)
  BY <1>1, RegroupBytes
<1> HIDE DEF data
<1>3. bytes_to_hex(data) \in Seq(CodeChar)
  BY <1>2, DigitsOfBytes
<1>4. Text(x, "hex", bytes_to_hex(data)).chars = bytes_to_hex(data)
  BY DEF Text
<1> QED BY <1>3, <1>4 DEF data

\* What a reader makes of a code.
LEMMA ReadType ==
  ASSUME NEW x \in Prefix, NEW chars \in Seq(CodeChar), NEW reader \in Reader,
         ReadBy(reader, Text(x, "base32", chars)) # Error
  PROVE  ReadBy(reader, Text(x, "base32", chars)).chars \in Seq(CodeChar)
<1> DEFINE qr == Text(x, "base32", chars)
<1>1. qr.x = x /\ qr.chars = chars
  BY DEF Text
<1>2. \A k \in Nat : (k * CharBits) \div ByteBits \in Nat
  BY DEF CharBits, ByteBits
<1> HIDE DEF qr
<1>3. ASSUME NEW size, share_from_base32(qr, size) # Error
      PROVE  share_from_base32(qr, size).chars \in Seq(CodeChar)
  <2> DEFINE data == base32_decode(chars, SSS_MAX_SECRET_LEN)
             whole == (Len(chars) * CharBits) \div ByteBits
  <2>1. data # Error /\ share_from_base32(qr, size) = Text(x, "hex", bytes_to_hex(data))
    BY <1>1, <1>3 DEF share_from_base32, Printed
  <2>2. /\ data = Regroup(Values(chars), CharBits, ByteBits, whole)
        /\ \A i \in DOMAIN Values(chars) : Values(chars)[i] # NoChar
    BY <2>1 DEF base32_decode
  <2>3. Values(chars) \in Seq(0 .. 31)
    BY <2>2, NoStrayChar
  <2>4. whole \in Nat
    BY <1>2, SeqIsFun
  <2> HIDE DEF data, whole
  <2> QED BY <2>1, <2>2, <2>3, <2>4, HexOfValues
<1>4. shareFromBase32(Trimmed(qr)).chars \in Seq(CodeChar)
  <2> DEFINE last == LastInked(chars)
             kept == SubSeq(chars, 1, last)
             text == Text(Unblanked(x), "base32", kept)
  <2>1. Trimmed(qr) = text /\ last \in 0 .. Len(chars)
    BY Inked DEF qr
  <2>2. kept \in Seq(CodeChar)
    BY <2>1, HeadOf
  <2>3. text.x = Unblanked(x) /\ text.chars = kept
    BY DEF Text
  <2> HIDE DEF last, kept, text
  <2> DEFINE values == PageValues(kept)
             whole == (Len(values) * CharBits) \div ByteBits
  <2>4. \/ /\ shareFromBase32(text)
                = Text(Unblanked(x), "hex", bytes_to_hex(Regroup(values, CharBits, ByteBits, whole)))
           /\ \A i \in DOMAIN values : values[i] # NoChar
        \/ shareFromBase32(text) = text
    BY <2>3 DEF shareFromBase32
  <2>5. CASE \A i \in DOMAIN values : values[i] # NoChar
    <3>1. values \in Seq(0 .. 31)
      BY <2>2, <2>5, NoStrayChar
    <3> HIDE DEF values
    <3>2. whole \in Nat
      BY <1>2, <3>1, SeqIsFun
    <3> HIDE DEF whole
    <3> QED BY <2>1, <2>2, <2>3, <2>4, <3>1, <3>2, HexOfValues
  <2>6. CASE ~(\A i \in DOMAIN values : values[i] # NoChar)
    BY <2>1, <2>2, <2>3, <2>4, <2>6
  <2> QED BY <2>5, <2>6
<1>5. CASE reader = "device"
  BY <1>3, <1>5 DEF ReadBy, qr
<1>6. CASE reader = "demo"
  BY <1>3, <1>6 DEF ReadBy, wasm_share_from_base32, qr
<1>7. CASE reader = "jsqr"
  BY <1>4, <1>7 DEF ReadBy, qr
<1> QED BY <1>5, <1>6, <1>7 DEF Reader

\* What the invariant says of the bytes.
LEMMA BytesHeld ==
  ASSUME CodecsInv, step \in {"compressed", "expanded"}, bytes # Error
  PROVE  /\ phrase.list \in List /\ phrase.mode \in Mode
         /\ bytes \in Seq(0 .. 255) /\ Len(bytes) <= SSS_MAX_SECRET_LEN
         /\ HalvesIn(bytes, phrase.mode)
<1>1. PICK list \in List, mode \in Mode :
        \/ \E side \in Side, text \in Texts :
             /\ phrase = [list |-> list, mode |-> mode, text |-> text]
             /\ bytes = CompressOn(side, list, mode, text)
        \/ /\ phrase = [list |-> list, mode |-> mode, text |-> <<>>]
           /\ bytes \in StrayBytes
  BY DEF CodecsInv, PhraseWay
<1>2. phrase.list = list /\ phrase.mode = mode
  BY <1>1
<1>3. ASSUME NEW side \in Side, NEW text \in Texts, bytes = CompressOn(side, list, mode, text)
      PROVE  bytes \in Seq(0 .. 255) /\ Len(bytes) <= SSS_MAX_SECRET_LEN /\ HalvesIn(bytes, mode)
  <2>1. text \in Seq(Char)
    BY CodecsAssumption DEF Char
  <2>2. CompressOn(side, list, mode, text) # Error
    BY <1>3
  <2> QED BY <1>3, <2>1, <2>2, CompressedType
<1>4. ASSUME bytes \in StrayBytes
      PROVE  bytes \in Seq(0 .. 255) /\ Len(bytes) <= SSS_MAX_SECRET_LEN /\ HalvesIn(bytes, mode)
  <2>1. bytes \in Seq(0 .. 255) /\ Len(bytes) <= SSS_MAX_SECRET_LEN
    BY <1>4, CodecsAssumption
  <2>2. \A i \in DOMAIN bytes : bytes[i] < ByteSize \/ \A l \in List : bytes[i] >= Len(Words(l))
    BY <1>4, CodecsAssumption
  <2>3. DOMAIN bytes = 1 .. Len(bytes)
    BY <2>1
  <2> QED BY <2>1, <2>2, <2>3 DEF HalvesIn, HalfOrNone
<1> QED BY <1>1, <1>2, <1>3, <1>4

\* Where the program starts.
LEMMA InitWay == Init => CodecsInv
BY DEF Init, CodecsInv, PhraseWay, ShownWay, CodeWay, ReadWay

\* A phrase, or stray bytes.
LEMMA CompressKeeps ==
  ASSUME CodecsInv, NEW list \in List, NEW mode \in Mode,
         \/ \E side \in Side, text \in Texts : Compress(side, list, mode, text)
         \/ \E data \in StrayBytes : Stray(list, mode, data)
  PROVE  CodecsInv'
<1>1. step = "start" /\ step' = "compressed" /\ UNCHANGED <<shown, share, code, read>>
  BY DEF Compress, Stray
<1>2. PhraseWay'
  <2>1. CASE \E side \in Side, text \in Texts : Compress(side, list, mode, text)
    <3>1. PICK side \in Side, text \in Texts : Compress(side, list, mode, text)
      BY <2>1
    <3>2. /\ phrase' = [list |-> list, mode |-> mode, text |-> text]
          /\ bytes' = CompressOn(side, list, mode, text)
      BY <3>1 DEF Compress
    <3> QED BY <1>1, <3>2 DEF PhraseWay
  <2>2. CASE \E data \in StrayBytes : Stray(list, mode, data)
    <3>1. /\ phrase' = [list |-> list, mode |-> mode, text |-> <<>>]
          /\ bytes' \in StrayBytes
      BY <2>2 DEF Stray
    <3> QED BY <1>1, <3>1 DEF PhraseWay
  <2> QED BY <2>1, <2>2
<1>3. ShownWay' /\ CodeWay' /\ ReadWay'
  BY <1>1 DEF CodecsInv, ShownWay, CodeWay, ReadWay
<1> QED BY <1>2, <1>3 DEF CodecsInv

\* Its expansion.
LEMMA ExpandKeeps ==
  ASSUME CodecsInv, Expand
  PROVE  CodecsInv'
<1>1. /\ step = "compressed" /\ step' = "expanded" /\ UNCHANGED <<phrase, bytes, share, code, read>>
      /\ bytes \notin {Error, <<>>}
      /\ shown' = [s \in Side |-> ExpandOn(s, phrase.list, phrase.mode, bytes)]
  BY DEF Expand
<1>2. PhraseWay'
  BY <1>1 DEF CodecsInv, PhraseWay
<1>3. ShownWay'
  BY <1>1 DEF ShownWay
<1>4. CodeWay' /\ ReadWay'
  BY <1>1 DEF CodecsInv, CodeWay, ReadWay
<1> QED BY <1>2, <1>3, <1>4 DEF CodecsInv

\* A share that is dealt, or a foreign code.
LEMMA DealKeeps ==
  ASSUME CodecsInv, NEW x \in Prefixes1,
         \/ \E data \in Payloads : Deal(x, data)
         \/ \E chars \in StrayCodes : Foreign(x, chars)
  PROVE  CodecsInv'
<1>1. step = "start" /\ step' \in {"dealt", "encoded"} /\ UNCHANGED <<phrase, bytes, shown, read>>
  BY DEF Deal, Foreign
<1>2. CodeWay'
  <2>1. share = Error /\ code = Error
    BY <1>1 DEF CodecsInv, CodeWay
  <2>2. CASE \E data \in Payloads : Deal(x, data)
    <3>1. step' = "dealt" /\ share' \in Shares /\ code' = code
      BY <2>2 DEF Deal, Shares
    <3> QED BY <2>1, <3>1 DEF CodeWay
  <2>3. CASE \E chars \in StrayCodes : Foreign(x, chars)
    <3>1. step' = "encoded" /\ code' \in Foreigns /\ share' = share
      BY <2>3 DEF Foreign, Foreigns
    <3> QED BY <2>1, <3>1 DEF CodeWay
  <2> QED BY <2>2, <2>3
<1>3. PhraseWay' /\ ShownWay' /\ ReadWay'
  BY <1>1 DEF CodecsInv, PhraseWay, ShownWay, ReadWay
<1> QED BY <1>2, <1>3 DEF CodecsInv

\* Its code, and what is read of it.
LEMMA EncodeKeeps ==
  ASSUME CodecsInv, Encode
  PROVE  CodecsInv'
<1>1. /\ step = "dealt" /\ step' = "encoded" /\ UNCHANGED <<phrase, bytes, shown, share, read>>
      /\ code' = wasm_share_to_base32(share)
  BY DEF Encode
<1>2. CodeWay'
  <2>1. share \in Shares
    BY <1>1 DEF CodecsInv, CodeWay
  <2> QED BY <1>1, <2>1 DEF CodeWay
<1>3. PhraseWay' /\ ShownWay' /\ ReadWay'
  BY <1>1 DEF CodecsInv, PhraseWay, ShownWay, ReadWay
<1> QED BY <1>2, <1>3 DEF CodecsInv

\* A scan keeps the ways of what is scanned.
LEMMA ScanKeeps ==
  ASSUME CodecsInv, Scan
  PROVE  CodecsInv'
<1>1. /\ step = "encoded" /\ step' = "read" /\ UNCHANGED <<phrase, bytes, shown, share, code>>
      /\ code # Error /\ read' = [r \in Reader |-> ReadBy(r, code)]
  BY DEF Scan
<1>2. PhraseWay' /\ ShownWay' /\ CodeWay'
  BY <1>1 DEF CodecsInv, PhraseWay, ShownWay, CodeWay
<1>3. ReadWay'
  BY <1>1 DEF ReadWay
<1> QED BY <1>2, <1>3 DEF CodecsInv

\* So no step leaves them.
LEMMA StepWay == CodecsInv /\ [Next]_vars => CodecsInv'
<1> SUFFICES ASSUME CodecsInv, [Next]_vars PROVE CodecsInv'
  OBVIOUS
<1>1. ASSUME NEW list \in List, NEW mode \in Mode,
             \/ \E side \in Side, text \in Texts : Compress(side, list, mode, text)
             \/ \E data \in StrayBytes : Stray(list, mode, data)
      PROVE  CodecsInv'
  BY <1>1, CompressKeeps
<1>2. CASE Expand
  BY <1>2, ExpandKeeps
<1>3. ASSUME NEW x \in Prefixes1,
             \/ \E data \in Payloads : Deal(x, data)
             \/ \E chars \in StrayCodes : Foreign(x, chars)
      PROVE  CodecsInv'
  BY <1>3, DealKeeps
<1>4. CASE Encode
  BY <1>4, EncodeKeeps
<1>5. CASE Scan
  BY <1>5, ScanKeeps
<1>6. CASE UNCHANGED vars
  BY <1>6 DEF vars, CodecsInv, PhraseWay, ShownWay, CodeWay, ReadWay
<1> QED BY <1>1, <1>2, <1>3, <1>4, <1>5, <1>6 DEF Next

\* The invariant holds.
LEMMA Invariance == Spec => []CodecsInv
BY InitWay, StepWay, PTL DEF Spec

\* What the invariant says of the code.
LEMMA CodeHeld ==
  ASSUME CodecsInv, step = "read"
  PROVE  /\ code # Error /\ \A r \in Reader : read[r] = ReadBy(r, code)
         /\ \E x \in Prefix :
              \/ \E data \in Seq(0 .. 255) :
                   /\ share = Text(x, "hex", bytes_to_hex(data))
                   /\ code = wasm_share_to_base32(share)
              \/ /\ share = Error
                 /\ \E chars \in Seq(CodeChar) : code = Text(x, "base32", chars)
<1>1. code # Error /\ \A r \in Reader : read[r] = ReadBy(r, code)
  BY DEF CodecsInv, ReadWay
<1>2. \/ share \in Shares /\ code = wasm_share_to_base32(share)
      \/ share = Error /\ code \in Foreigns
  BY DEF CodecsInv, CodeWay
<1>3. Prefixes1 \subseteq Prefix /\ Payloads \subseteq Seq(0 .. 255) /\ StrayCodes \subseteq Seq(CodeChar)
  BY CodecsAssumption
<1>4. CASE share \in Shares /\ code = wasm_share_to_base32(share)
  <2>1. PICK x \in Prefixes1, data \in Payloads : share = Text(x, "hex", bytes_to_hex(data))
    BY <1>4 DEF Shares
  <2> QED BY <1>1, <1>3, <1>4, <2>1
<1>5. CASE share = Error /\ code \in Foreigns
  <2>1. PICK x \in Prefixes1, chars \in StrayCodes : code = Text(x, "base32", chars)
    BY <1>5 DEF Foreigns
  <2> QED BY <1>1, <1>3, <1>5, <2>1
<1> QED BY <1>2, <1>4, <1>5

\* Every code is of characters, also before it is read.
LEMMA CodeType ==
  ASSUME CodecsInv, code # Error
  PROVE  code.chars \in Seq(CodeChar)
<1>1. \/ share \in Shares /\ code = wasm_share_to_base32(share)
      \/ share = Error /\ code \in Foreigns
  BY DEF CodecsInv, CodeWay
<1>2. CASE share \in Shares /\ code = wasm_share_to_base32(share)
  <2>1. PICK x \in Prefixes1, data \in Payloads : share = Text(x, "hex", bytes_to_hex(data))
    BY <1>2 DEF Shares
  <2>2. x \in Prefix /\ data \in Seq(0 .. 255)
    BY CodecsAssumption
  <2> DEFINE chars == Regroup(data, ByteBits, CharBits, base32_encoded_len(Len(data)) - 1)
  <2>3. code = Text(x, "base32", chars)
    BY <1>2, <2>1, <2>2, CodeOfShare
  <2>4. chars \in Seq(0 .. 31)
    <3>1. data \in Seq(Nat) /\ ByteBits \in {ByteBits, CharBits}
      BY <2>2, SeqOfBytes
    <3>2. base32_encoded_len(Len(data)) - 1 \in Nat
      <4>1. Len(data) \in Nat
        BY <2>2, LenProperties
      <4> QED BY <4>1 DEF base32_encoded_len, ByteBits, CharBits
    <3> QED BY <3>1, <3>2, RegroupChars
  <2> HIDE DEF chars
  <2>5. code.chars = chars
    BY <2>3 DEF Text
  <2> QED BY <2>4, <2>5, WrittenChars
<1>3. CASE share = Error /\ code \in Foreigns
  <2>1. PICK x \in Prefixes1, chars \in StrayCodes : code = Text(x, "base32", chars)
    BY <1>3 DEF Foreigns
  <2>2. code.chars = chars /\ chars \in Seq(CodeChar)
    BY <2>1, CodecsAssumption DEF Text
  <2> QED BY <2>2
<1> QED BY <1>1, <1>2, <1>3

\* Types: what the codecs of wl_codec.c, share_base32.c and their wrappers
\* return is in its alphabet and within its buffer.
THEOREM TypeCorrect == Spec => []TypeOK
<1>1. CodecsInv => TypeOK
  <2> SUFFICES ASSUME CodecsInv PROVE TypeOK
    OBVIOUS
  <2>1. step \in {"start", "compressed", "expanded", "dealt", "encoded", "read"}
    BY DEF CodecsInv, CodeWay
  <2>2. bytes # Error => bytes \in Seq(0 .. 255) /\ Len(bytes) <= SSS_MAX_SECRET_LEN
    <3>1. bytes # Error => step \in {"compressed", "expanded"}
      BY DEF CodecsInv, PhraseWay
    <3> QED BY <3>1, BytesHeld
  <2>3. ASSUME NEW s \in Side, shown[s] # Error
        PROVE  shown[s] \in Seq(1 .. 255) /\ Len(shown[s]) < 2 * SSS_MAX_SECRET_LEN
    <3>1. step = "expanded" /\ bytes \notin {Error, <<>>} /\ shown[s] = ExpandOn(s, phrase.list, phrase.mode, bytes)
      BY <2>3 DEF CodecsInv, ShownWay
    <3>2. /\ phrase.list \in List /\ phrase.mode \in Mode
          /\ bytes \in Seq(0 .. 255) /\ Len(bytes) <= SSS_MAX_SECRET_LEN
      BY <3>1, BytesHeld
    <3>3. bytes # <<>> /\ ExpandOn(s, phrase.list, phrase.mode, bytes) # Error
      BY <2>3, <3>1
    <3> QED BY <3>1, <3>2, <3>3, ExpandedType
  <2>4. code # Error => code.chars \in Seq(CodeChar)
    BY CodeType
  <2>5. ASSUME NEW r \in Reader, read[r] # Error PROVE read[r].chars \in Seq(CodeChar)
    <3>1. step = "read"
      BY <2>5 DEF CodecsInv, ReadWay
    <3>2. code # Error /\ read[r] = ReadBy(r, code)
      BY <3>1, CodeHeld
    <3>3. PICK x \in Prefix :
            \/ \E data \in Seq(0 .. 255) :
                 /\ share = Text(x, "hex", bytes_to_hex(data))
                 /\ code = wasm_share_to_base32(share)
            \/ /\ share = Error
               /\ \E chars \in Seq(CodeChar) : code = Text(x, "base32", chars)
      BY <3>1, CodeHeld
    <3>4. ASSUME NEW data \in Seq(0 .. 255), share = Text(x, "hex", bytes_to_hex(data)),
                 code = wasm_share_to_base32(share)
          PROVE  read[r].chars \in Seq(CodeChar)
      <4>1. read[r] = AsRead(r, Text(x, "hex", bytes_to_hex(data)))
        BY <3>2, <3>4, CodeIsRead
      <4>2. read[r].chars = bytes_to_hex(data)
        BY <4>1 DEF AsRead, Text
      <4> QED BY <4>2, DigitsOfBytes
    <3>5. ASSUME NEW chars \in Seq(CodeChar), code = Text(x, "base32", chars)
          PROVE  read[r].chars \in Seq(CodeChar)
      BY <2>5, <3>2, <3>5, ReadType
    <3> QED BY <3>3, <3>4, <3>5
  <2> QED BY <2>1, <2>2, <2>3, <2>4, <2>5 DEF TypeOK
<1> QED BY <1>1, Invariance, PTL

\* Whoever compresses a phrase, handler_divide or the page, both sides expand
\* it to its words in their order and to its passphrase.
THEOREM PhrasesComeBack == Spec => []PhraseRecovered
<1>1. CodecsInv => PhraseRecovered
  <2> SUFFICES ASSUME CodecsInv, step = "expanded", phrase.text # <<>>, NEW s \in Side
               PROVE  /\ shown[s] # Error
                      /\ IF phrase.mode = "classic" THEN Tokens(shown[s]) = Tokens(phrase.text)
                                                    ELSE Recovered(phrase.text, shown[s])
    BY DEF PhraseRecovered, Recovered, Separates
  <2>1. bytes \notin {Error, <<>>} /\ shown[s] = ExpandOn(s, phrase.list, phrase.mode, bytes)
    BY DEF CodecsInv, ShownWay
  <2>2. PICK list \in List, mode \in Mode, side \in Side, text \in Texts :
          /\ phrase = [list |-> list, mode |-> mode, text |-> text]
          /\ bytes = CompressOn(side, list, mode, text)
    BY DEF CodecsInv, PhraseWay
  <2>3. phrase.list = list /\ phrase.mode = mode /\ phrase.text = text
    BY <2>2
  <2>4. text \in Seq(Char)
    BY CodecsAssumption DEF Char
  <2>5. CompressOn(side, list, mode, text) # Error /\ bytes # <<>>
    BY <2>1, <2>2
  <2>6. CASE mode = "classic"
    <3>1. ExpandOn(s, list, mode, bytes) # Error /\ Tokens(ExpandOn(s, list, mode, bytes)) = Tokens(text)
      BY <2>2, <2>4, <2>5, <2>6, ClassicRecovered
    <3> QED BY <2>1, <2>3, <2>6, <3>1
  <2>7. CASE mode = "passphrase"
    <3>1. bytes = wl_codec_compress_passphrase(list, text, SSS_MAX_SECRET_LEN)
      BY <2>2, <2>7, CompressesAlike
    <3>2. ExpandOn(s, list, mode, bytes) # Error /\ Recovered(text, ExpandOn(s, list, mode, bytes))
      BY <2>1, <2>4, <2>7, <3>1, PassphraseRecovered
    <3> QED BY <2>1, <2>3, <2>7, <3>2
  <2> QED BY <2>6, <2>7 DEF Mode
<1> QED BY <1>1, Invariance, PTL

\* A phrase that is shown stands for one byte string only, also when no phrase
\* was compressed to it: wl_codec_compress undoes wl_codec_decompress.
THEOREM PhrasesStandForBytes == Spec => []PhraseStable
<1>1. CodecsInv => PhraseStable
  <2> SUFFICES ASSUME CodecsInv, step = "expanded", Retypable(bytes, phrase.mode),
                      NEW s \in Side, NEW t \in Side, shown[s] # Error
               PROVE  CompressOn(t, phrase.list, phrase.mode, shown[s]) = bytes
    BY DEF PhraseStable
  <2>1. bytes \notin {Error, <<>>} /\ shown[s] = ExpandOn(s, phrase.list, phrase.mode, bytes)
    BY DEF CodecsInv, ShownWay
  <2>2. /\ phrase.list \in List /\ phrase.mode \in Mode
        /\ bytes \in Seq(0 .. 255) /\ Len(bytes) <= SSS_MAX_SECRET_LEN
        /\ HalvesIn(bytes, phrase.mode)
    BY <2>1, BytesHeld
  <2>3. CASE phrase.mode = "classic"
    <3>1. \A i \in 1 .. Len(bytes) : HalfOrNone(bytes[i])
      BY <2>2, <2>3 DEF HalvesIn
    <3> QED BY <2>1, <2>2, <2>3, <3>1, ClassicStable
  <2>4. CASE phrase.mode = "passphrase"
    <3>1. \A i \in 1 .. Len(bytes) : i \in 2 .. 1 + 2 * bytes[1] => HalfOrNone(bytes[i])
      BY <2>2, <2>4 DEF HalvesIn
    <3> QED BY <2>1, <2>2, <2>4, <3>1, PassphraseStable
  <2> QED BY <2>2, <2>3, <2>4 DEF Mode
<1> QED BY <1>1, Invariance, PTL

\* Every reader makes the share that was dealt of its code, and of a foreign
\* one what share_from_base32 makes of it on the device, but for the blanks that
\* decodeWithJsQR trims.
THEOREM ReadersAgree == Spec => []ScansAgree
<1>1. CodecsInv => ScansAgree
  <2> SUFFICES ASSUME CodecsInv, step = "read" PROVE ScansAgree
    BY DEF ScansAgree
  <2>1. code # Error /\ \A r \in Reader : read[r] = ReadBy(r, code)
    BY CodeHeld
  <2>2. PICK x \in Prefix :
          \/ \E data \in Seq(0 .. 255) :
               /\ share = Text(x, "hex", bytes_to_hex(data))
               /\ code = wasm_share_to_base32(share)
          \/ /\ share = Error
             /\ \E chars \in Seq(CodeChar) : code = Text(x, "base32", chars)
    BY CodeHeld
  <2>3. ASSUME NEW data \in Seq(0 .. 255), share = Text(x, "hex", bytes_to_hex(data)),
               code = wasm_share_to_base32(share)
        PROVE  ScansAgree
    <3>1. \A r \in Reader : read[r] = AsRead(r, share)
      BY <2>1, <2>3, CodeIsRead
    <3>2. "device" \in Reader /\ AsRead("device", share) = share
      BY DEF Reader, AsRead
    <3> QED BY <3>1, <3>2 DEF ScansAgree
  <2>4. ASSUME share = Error, NEW chars \in Seq(CodeChar), code = Text(x, "base32", chars)
        PROVE  ScansAgree
    <3>1. x.chars \in Nat /\ code.x = x
      BY <2>4 DEF Prefix, Text
    <3>2. x.chars > 3 => ~PlainNumber
      BY <3>1 DEF PlainNumber
    <3>3. ASSUME read["device"] # Error, NEW r \in Reader
          PROVE  read[r] = AsRead(r, read["device"]) \/ (r = "demo" /\ ~PlainNumber /\ read[r] = Error)
      <4>1. "device" \in Reader /\ "demo" \in Reader /\ "jsqr" \in Reader
        BY DEF Reader
      <4>2. /\ read["device"] = ReadBy("device", code) /\ read["demo"] = ReadBy("demo", code)
            /\ read["jsqr"] = ReadBy("jsqr", code)
        BY <2>1, <4>1
      <4>3. /\ read["jsqr"] = AsRead("jsqr", read["device"])
            /\ read["demo"] = read["device"] \/ (x.chars > 3 /\ read["demo"] = Error)
        BY <2>4, <3>3, <4>2, TakenCode
      <4>4. r # "jsqr" => AsRead(r, read["device"]) = read["device"]
        BY DEF AsRead
      <4> QED BY <3>2, <4>3, <4>4 DEF Reader
    <3> QED BY <2>4, <3>3 DEF ScansAgree
  <2> QED BY <2>2, <2>3, <2>4
<1> QED BY <1>1, Invariance, PTL

\* But for the case of its letters, one code stands for one share: what
\* share_from_base32 takes is, in capitals, what share_to_base32 makes of its
\* result.
THEOREM OneCodePerShare == Spec => []CodesCanonical
<1>1. CodecsInv => CodesCanonical
  <2> SUFFICES ASSUME CodecsInv, step = "read", read["device"] # Error, code.chars # <<>>
               PROVE  \/ wasm_share_to_base32(read["device"]) = Capitals(code)
                      \/ ~PlainNumber /\ wasm_share_to_base32(read["device"]) = Error
    BY DEF CodesCanonical
  <2>1. "device" \in Reader
    BY DEF Reader
  <2>2. code # Error /\ read["device"] = ReadBy("device", code)
    BY <2>1, CodeHeld
  <2>3. PICK x \in Prefix :
          \/ \E data \in Seq(0 .. 255) :
               /\ share = Text(x, "hex", bytes_to_hex(data))
               /\ code = wasm_share_to_base32(share)
          \/ /\ share = Error
             /\ \E chars \in Seq(CodeChar) : code = Text(x, "base32", chars)
    BY CodeHeld
  <2>4. ASSUME NEW data \in Seq(0 .. 255), share = Text(x, "hex", bytes_to_hex(data)),
               code = wasm_share_to_base32(share)
        PROVE  wasm_share_to_base32(read["device"]) = Capitals(code)
    <3>1. read["device"] = share
      <4>1. read["device"] = AsRead("device", share)
        BY <2>1, <2>2, <2>4, CodeIsRead
      <4> QED BY <4>1 DEF AsRead
    <3> DEFINE chars == Regroup(data, ByteBits, CharBits, base32_encoded_len(Len(data)) - 1)
    <3>2. code = Text(x, "base32", chars)
      BY <2>2, <2>4, CodeOfShare
    <3>3. chars \in Seq(0 .. 31)
      BY DecodesEncoded
    <3> HIDE DEF chars
    <3>4. Values(chars) = chars
      BY <3>3, WrittenChars, ValuesOf
    <3>5. Capitals(code) = code
      BY <3>2, <3>4 DEF Capitals, Text
    <3> QED BY <2>4, <3>1, <3>5
  <2>5. ASSUME NEW chars \in Seq(CodeChar), code = Text(x, "base32", chars)
        PROVE  \/ wasm_share_to_base32(read["device"]) = Capitals(code)
               \/ ~PlainNumber /\ wasm_share_to_base32(read["device"]) = Error
    <3>1. x.chars \in Nat /\ code.x = x /\ code.chars = chars
      BY <2>5 DEF Prefix, Text
    <3>2. x.chars > 3 => ~PlainNumber
      BY <3>1 DEF PlainNumber
    <3>3. \/ wasm_share_to_base32(read["device"]) = Capitals(code)
          \/ x.chars > 3 /\ wasm_share_to_base32(read["device"]) = Error
      BY <2>2, <2>5, <3>1, TakenCode
    <3> QED BY <3>2, <3>3
  <2> QED BY <2>3, <2>4, <2>5
<1> QED BY <1>1, Invariance, PTL

=============================================================================
