------------------------- MODULE SecretSharing_proofs -------------------------
(***************************************************************************)
(* The invariants of SecretSharing, for every field, every dealing and any *)
(* number of gathered shares.                                              *)
(***************************************************************************)
EXTENDS SecretSharing, Shamir_proofs

\* Before a dealing there is nothing; after it the shares are those of one
\* call of sss_split that accepted its arguments.
DealtBySplit ==
  IF dealt = <<>>
  THEN secret = <<>> /\ threshold = 0 /\ collected = <<>> /\ damage = {} /\ recovered = <<>>
  ELSE /\ SplitAccepts(Len(secret), Len(dealt), threshold)
       /\ \E draws \in Draws(Len(secret), threshold) :
            dealt = sss_split(secret, draws, Len(dealt))

\* A gathered share is one of the shares dealt, except for the damaged byte.
CollectedFromDealt ==
  \A i \in DOMAIN collected :
    /\ collected[i].x \in DOMAIN dealt
    /\ \A b \in DOMAIN secret :
         <<i, b>> \in damage <=> collected[i].data[b] # dealt[collected[i].x].data[b]

OneDamage == \A p, q \in damage : p = q

RecoveredByCombine ==
  recovered # <<>> => recovered = sss_combine(collected, Len(secret))

SharingInv ==
  TypeOK /\ DealtBySplit /\ CollectedFromDealt /\ OneDamage /\ RecoveredByCombine

\* What an accepted dealing means for the shares dealt.
LEMMA Dealt ==
  ASSUME TypeOK, DealtBySplit, dealt # <<>>
  PROVE  /\ Len(secret) \in 1 .. SSS_MAX_SECRET_LEN /\ threshold \in Nat /\ threshold >= 2
         /\ Len(dealt) \in Nat /\ threshold <= Len(dealt) /\ DOMAIN dealt = 1 .. Len(dealt)
         /\ DOMAIN secret = 1 .. Len(secret)
         /\ \A i \in DOMAIN dealt :
              i \in Elem \ {0} /\ dealt[i] \in Share /\ dealt[i].x = i /\ dealt[i].len = Len(secret)
         /\ \E draws \in Draws(Len(secret), threshold) :
              /\ dealt = sss_split(secret, draws, Len(dealt))
              /\ \A b \in DOMAIN secret :
                   /\ draws[b] \in [1 .. threshold - 1 -> Elem] /\ secret[b] \in Elem
                   /\ b \in 1 .. SSS_MAX_SECRET_LEN
                   /\ \A i \in DOMAIN dealt :
                        dealt[i].data[b] = gf_poly_eval(Coefficients(secret[b], draws[b]), i)
<1>1. secret \in Seq(Elem) /\ threshold \in Nat /\ Len(dealt) \in Nat
      /\ DOMAIN dealt = 1 .. Len(dealt) /\ DOMAIN secret = 1 .. Len(secret)
  BY DEF TypeOK
<1>2. SplitAccepts(Len(secret), Len(dealt), threshold)
  BY DEF DealtBySplit
<1>3. PICK draws \in Draws(Len(secret), threshold) : dealt = sss_split(secret, draws, Len(dealt))
  BY DEF DealtBySplit
<1>4. Len(secret) \in 1 .. SSS_MAX_SECRET_LEN /\ threshold >= 2 /\ threshold <= Len(dealt)
  BY <1>1, <1>2 DEF SplitAccepts
<1> DEFINE n == Len(dealt)
<1> HIDE DEF n
<1>5. ASSUME NEW i \in 1 .. n
      PROVE  LET s == sss_split(secret, draws, n)
             IN  /\ i \in Elem \ {0}
                 /\ s[i] \in Share /\ s[i].x = i /\ s[i].len = Len(secret)
                 /\ \A b \in 1 .. Len(secret) :
                      /\ secret[b] \in Elem /\ draws[b] \in [1 .. threshold - 1 -> Elem]
                      /\ b \in 1 .. SSS_MAX_SECRET_LEN
                      /\ s[i].data[b] = gf_poly_eval(Coefficients(secret[b], draws[b]), i)
  BY <1>1, <1>2, SplitType DEF n
<1>6. dealt = sss_split(secret, draws, n) /\ DOMAIN dealt = 1 .. n
  BY <1>1, <1>3 DEF n
<1>7. \A i \in DOMAIN dealt :
        i \in Elem \ {0} /\ dealt[i] \in Share /\ dealt[i].x = i /\ dealt[i].len = Len(secret)
  BY <1>5, <1>6
<1>8. ASSUME NEW b \in DOMAIN secret
      PROVE  /\ draws[b] \in [1 .. threshold - 1 -> Elem] /\ secret[b] \in Elem
             /\ b \in 1 .. SSS_MAX_SECRET_LEN
             /\ \A i \in DOMAIN dealt :
                  dealt[i].data[b] = gf_poly_eval(Coefficients(secret[b], draws[b]), i)
  <2>1. 1 \in 1 .. n /\ b \in 1 .. Len(secret)
    BY <1>1, <1>4 DEF n
  <2>2. \A i \in DOMAIN dealt :
          dealt[i].data[b] = gf_poly_eval(Coefficients(secret[b], draws[b]), i)
    BY <1>5, <1>6, <2>1
  <2> QED BY <1>5, <2>1, <2>2
<1> QED BY <1>1, <1>3, <1>4, <1>7, <1>8

-----------------------------------------------------------------------------
(* The invariant is inductive. *)

LEMMA InitSharing == Init => SharingInv
<1> SUFFICES ASSUME Init PROVE SharingInv
  OBVIOUS
<1>1. TypeOK
  BY DEF Init, TypeOK
<1> QED BY <1>1 DEF Init, SharingInv, DealtBySplit, CollectedFromDealt, OneDamage, RecoveredByCombine

LEMMA SplitKeeps ==
  ASSUME SharingInv, NEW d \in Dealings, Split(d[1], d[2], d[3])
  PROVE  SharingInv'
<1> DEFINE s == d[1]
           n == d[2]
           k == d[3]
<1>1. s \in Seq(Elem) /\ n \in Nat /\ k \in Nat
  BY SharingAssumption
<1> HIDE DEF s, n, k
<1>2. Split(s, n, k)
  BY DEF s, n, k
<1>3. PICK draws \in Draws(Len(s), k) : dealt' = sss_split(s, draws, n)
  BY <1>2 DEF Split
<1>4. SplitAccepts(Len(s), n, k) /\ secret' = s /\ threshold' = k /\ dealt = <<>>
      /\ collected' = <<>> /\ damage' = {} /\ recovered' = <<>>
  BY <1>2 DEF Split, SharingInv, DealtBySplit
<1>5. \A i \in 1 .. n : sss_split(s, draws, n)[i] \in Share
  BY <1>1, <1>4, SplitType
<1>6. dealt' \in [1 .. n -> Share] /\ n >= 2
  <2>1. DOMAIN sss_split(s, draws, n) = 1 .. n
        /\ sss_split(s, draws, n) = [i \in 1 .. n |-> sss_split(s, draws, n)[i]]
    BY DEF sss_split
  <2>2. n >= 2
    BY <1>1, <1>4 DEF SplitAccepts
  <2> QED BY <1>3, <1>5, <2>1, <2>2
<1>7. dealt' \in Seq(Share) /\ Len(dealt') = n /\ dealt' # <<>>
  <2>1. Len(dealt') = n /\ dealt' \in Seq(Share)
    BY <1>1, <1>6
  <2> QED BY <1>1, <1>6, <2>1
<1>8. TypeOK'
  BY <1>1, <1>4, <1>7 DEF TypeOK
<1>9. DealtBySplit'
  BY <1>3, <1>4, <1>7 DEF DealtBySplit
<1>10. CollectedFromDealt' /\ OneDamage' /\ RecoveredByCombine'
  BY <1>4 DEF CollectedFromDealt, OneDamage, RecoveredByCombine
<1> QED BY <1>8, <1>9, <1>10 DEF SharingInv

LEMMA CollectKeeps ==
  ASSUME SharingInv, NEW n \in DOMAIN dealt, Collect(n)
  PROVE  SharingInv'
<1>0. TypeOK /\ DealtBySplit /\ dealt # <<>>
  BY DEF SharingInv
<1>1. dealt[n] \in Share /\ dealt[n].x = n
  BY <1>0, Dealt
<1>2. collected \in Seq(Share) /\ collected' = Append(collected, dealt[n]) /\ recovered = <<>>
      /\ recovered' = <<>> /\ secret' = secret /\ threshold' = threshold /\ dealt' = dealt
      /\ damage' = damage /\ damage \subseteq (DOMAIN collected) \X (DOMAIN secret)
  BY DEF SharingInv, TypeOK, Collect
<1>3. PICK c \in Share : c = dealt[n]
  BY <1>1
<1>4. /\ collected' \in Seq(Share) /\ Len(collected') = Len(collected) + 1 /\ Len(collected) \in Nat
      /\ DOMAIN collected = 1 .. Len(collected) /\ DOMAIN collected' = 1 .. Len(collected) + 1
      /\ \A i \in DOMAIN collected : collected'[i] = collected[i] /\ i # Len(collected) + 1
      /\ collected'[Len(collected) + 1] = c
  <2>1. collected' = Append(collected, c)
    BY <1>2, <1>3
  <2> QED BY <1>2, <2>1
<1>5. DOMAIN collected \subseteq DOMAIN collected'
  BY <1>4
<1>6. TypeOK'
  <2>1. damage' \subseteq (DOMAIN collected') \X (DOMAIN secret')
    BY <1>2, <1>5
  <2> QED BY <1>2, <1>4, <2>1 DEF SharingInv, TypeOK
<1>7. DealtBySplit'
  BY <1>0, <1>2 DEF DealtBySplit
<1>8. CollectedFromDealt'
  <2> SUFFICES ASSUME NEW i \in DOMAIN collected'
               PROVE  /\ collected'[i].x \in DOMAIN dealt
                      /\ \A b \in DOMAIN secret :
                           <<i, b>> \in damage <=> collected'[i].data[b] # dealt[collected'[i].x].data[b]
    BY <1>2 DEF CollectedFromDealt
  <2>1. CASE i \in DOMAIN collected
    <3>1. collected'[i] = collected[i]
      BY <1>4, <2>1
    <3> QED BY <2>1, <3>1 DEF SharingInv, CollectedFromDealt
  <2>2. CASE i \notin DOMAIN collected
    <3>1. i = Len(collected) + 1
      BY <1>4, <2>2
    <3>2. collected'[i] = dealt[n]
      BY <1>3, <1>4, <3>1
    <3>3. \A b : <<i, b>> \notin damage
      BY <1>2, <2>2
    <3> QED BY <1>1, <3>2, <3>3
  <2> QED BY <2>1, <2>2
<1>9. OneDamage' /\ RecoveredByCombine'
  BY <1>2 DEF SharingInv, OneDamage, RecoveredByCombine
<1> QED BY <1>6, <1>7, <1>8, <1>9 DEF SharingInv

LEMMA Replaced ==
  ASSUME NEW S, NEW s \in Seq(S), NEW n \in DOMAIN s, NEW e \in S, NEW t, t = [s EXCEPT ![n] = e]
  PROVE  /\ t \in Seq(S) /\ DOMAIN t = DOMAIN s
         /\ t[n] = e /\ \A i \in DOMAIN s : i # n => t[i] = s[i]
<1>1. Len(s) \in Nat /\ DOMAIN s = 1 .. Len(s) /\ \A i \in DOMAIN s : s[i] \in S
  OBVIOUS
<1>2. t \in [1 .. Len(s) -> S]
  BY <1>1
<1>3. t \in Seq(S)
  BY <1>1, <1>2
<1> QED BY <1>1, <1>3

LEMMA DamageKeeps ==
  ASSUME SharingInv, NEW n \in DOMAIN collected, NEW b \in DOMAIN secret, NEW mask \in Noise,
         Damage(n, b, mask)
  PROVE  SharingInv'
<1>0. /\ TypeOK /\ DealtBySplit /\ damage = {} /\ damage' = {<<n, b>>}
      /\ recovered = <<>> /\ recovered' = <<>> /\ secret' = secret /\ threshold' = threshold
      /\ dealt' = dealt /\ collected \in Seq(Share)
      /\ collected' = [collected EXCEPT ![n].data[b] = gf_add(@, mask)]
  BY DEF SharingInv, TypeOK, Damage
<1>1. dealt # <<>>
  BY <1>0 DEF DealtBySplit
<1>2. b \in 1 .. SSS_MAX_SECRET_LEN
  BY <1>0, <1>1, Dealt
<1>3. PICK c \in Share : c = collected[n]
  BY <1>0
<1>4. PICK v \in Elem : v = c.data[b]
  BY <1>2 DEF Share
<1>5. gf_add(v, mask) \in Elem /\ gf_add(v, mask) # v
  <2>1. mask \in Elem /\ mask # 0
    BY SharingAssumption
  <2>2. v \in Nat /\ mask \in Nat
    BY <2>1, Sizes
  <2>3. gf_add(v, mask) = Xor(v, mask) /\ gf_add(v, mask) \in Elem
    BY <2>1, AddType
  <2>4. Xor(v, Xor(v, mask)) = mask
    <3>1. Xor(v, v) = 0 /\ Xor(0, mask) = mask
      BY <2>2, XorSelf, XorZero
    <3> QED BY <2>2, <3>1, XorAssociates
  <2>5. Xor(v, v) = 0
    BY <2>2, XorSelf
  <2> QED BY <2>1, <2>3, <2>4, <2>5
<1> DEFINE e == [c EXCEPT !.data[b] = gf_add(v, mask)]
<1>6. /\ e \in Share /\ e.x = c.x
      /\ e.data[b] = gf_add(v, mask)
      /\ \A a \in 1 .. SSS_MAX_SECRET_LEN : a # b => e.data[a] = c.data[a]
  BY <1>2, <1>5 DEF Share
<1> HIDE DEF e
<1>7. collected' = [collected EXCEPT ![n] = e]
  BY <1>0, <1>3, <1>4 DEF e
<1>8. /\ collected' \in Seq(Share) /\ DOMAIN collected' = DOMAIN collected
      /\ collected'[n] = e /\ \A i \in DOMAIN collected : i # n => collected'[i] = collected[i]
  <2>1. collected \in Seq(Share) /\ e \in Share /\ collected' = [collected EXCEPT ![n] = e]
    BY <1>0, <1>6, <1>7
  <2> QED BY ONLY <2>1, n \in DOMAIN collected, Replaced
<1>9. TypeOK'
  BY <1>0, <1>8 DEF TypeOK
<1>10. DealtBySplit'
  BY <1>0, <1>1 DEF DealtBySplit
<1>11. CollectedFromDealt'
  <2> SUFFICES ASSUME NEW i \in DOMAIN collected
               PROVE  /\ collected'[i].x \in DOMAIN dealt
                      /\ \A a \in DOMAIN secret :
                           <<i, a>> \in damage' <=> collected'[i].data[a] # dealt[collected'[i].x].data[a]
    BY <1>0, <1>8 DEF CollectedFromDealt
  <2>1. collected[i].x \in DOMAIN dealt
        /\ \A a \in DOMAIN secret : collected[i].data[a] = dealt[collected[i].x].data[a]
    BY <1>0 DEF SharingInv, CollectedFromDealt
  <2>2. CASE i # n
    BY <1>0, <1>8, <2>1, <2>2
  <2>3. CASE i = n
    <3>1. \A a \in DOMAIN secret : a \in 1 .. SSS_MAX_SECRET_LEN
      BY <1>0, <1>1, Dealt
    <3>2. c = collected[i] /\ collected'[i] = e
      BY <1>3, <1>8, <2>3
    <3>3. ASSUME NEW a \in DOMAIN secret
          PROVE  <<i, a>> \in damage' <=> e.data[a] # c.data[a]
      <4>1. CASE a = b
        BY <1>0, <1>4, <1>5, <1>6, <2>3, <4>1
      <4>2. CASE a # b
        BY <1>0, <1>6, <3>1, <4>2
      <4> QED BY <4>1, <4>2
    <3> QED BY <1>6, <2>1, <3>2, <3>3
  <2> QED BY <2>2, <2>3
<1>12. OneDamage' /\ RecoveredByCombine'
  BY <1>0 DEF OneDamage, RecoveredByCombine
<1> QED BY <1>9, <1>10, <1>11, <1>12 DEF SharingInv

LEMMA CombineKeeps ==
  ASSUME SharingInv, Combine
  PROVE  SharingInv'
<1>0. /\ TypeOK /\ DealtBySplit /\ recovered' = sss_combine(collected, Len(secret))
      /\ secret' = secret /\ threshold' = threshold /\ dealt' = dealt
      /\ collected' = collected /\ damage' = damage /\ collected \in Seq(Share)
      /\ Len(secret) \in 1 .. SSS_MAX_SECRET_LEN
  BY DEF SharingInv, TypeOK, Combine, CombineAccepts
<1>1. dealt # <<>>
  BY <1>0 DEF DealtBySplit
<1>2. recovered' \in Seq(Elem)
  <2>1. PICK m \in Nat : m = Len(collected)
    BY <1>0
  <2>2. collected \in [1 .. m -> Share]
    BY <1>0, <2>1
  <2>3. Len(secret) \in Nat /\ Len(secret) <= SSS_MAX_SECRET_LEN
    BY <1>0, LengthAssumption
  <2>4. recovered' \in [1 .. Len(secret) -> Elem]
    BY <1>0, <2>2, <2>3, CombineType
  <2> QED BY <2>3, <2>4
<1> QED BY <1>0, <1>1, <1>2
         DEF SharingInv, TypeOK, DealtBySplit, CollectedFromDealt, OneDamage, RecoveredByCombine

LEMMA SharingStep == SharingInv /\ [Next]_vars => SharingInv'
<1> SUFFICES ASSUME SharingInv, [Next]_vars PROVE SharingInv'
  OBVIOUS
<1>1. ASSUME NEW d \in Dealings, Split(d[1], d[2], d[3]) PROVE SharingInv'
  BY <1>1, SplitKeeps
<1>2. ASSUME NEW n \in DOMAIN dealt, Collect(n) PROVE SharingInv'
  BY <1>2, CollectKeeps
<1>3. ASSUME NEW n \in DOMAIN collected, NEW b \in DOMAIN secret, NEW mask \in Noise,
             Damage(n, b, mask)
      PROVE  SharingInv'
  BY <1>3, DamageKeeps
<1>4. CASE Combine
  BY <1>4, CombineKeeps
<1>5. CASE UNCHANGED vars
  BY <1>5 DEF vars, SharingInv, TypeOK, DealtBySplit, CollectedFromDealt, OneDamage,
              RecoveredByCombine
<1> QED BY <1>1, <1>2, <1>3, <1>4, <1>5 DEF Next

LEMMA SharingInvariant == Spec => []SharingInv
<1>1. Init => SharingInv
  BY InitSharing
<1>2. SharingInv /\ [Next]_vars => SharingInv'
  BY SharingStep
<1> QED BY <1>1, <1>2, PTL DEF Spec

\* Every byte of a dealing and of a recovery is a field element.
THEOREM TypeCorrect == Spec => []TypeOK
<1>1. SharingInv => TypeOK
  BY DEF SharingInv
<1> QED BY <1>1, SharingInvariant, PTL

-----------------------------------------------------------------------------
(* What a quorum recovers. *)

LEMMA Recovered ==
  ASSUME SharingInv, recovered # <<>>
  PROVE  /\ dealt # <<>> /\ TypeOK /\ DealtBySplit
         /\ recovered = sss_combine(collected, Len(secret))
         /\ recovered \in [1 .. Len(secret) -> Elem] /\ secret \in [1 .. Len(secret) -> Elem]
         /\ Len(collected) \in Nat /\ collected \in [1 .. Len(collected) -> Share]
<1>1. /\ TypeOK /\ DealtBySplit /\ recovered = sss_combine(collected, Len(secret))
      /\ collected \in Seq(Share) /\ secret \in Seq(Elem)
  BY DEF SharingInv, RecoveredByCombine, TypeOK
<1>2. dealt # <<>>
  BY <1>1 DEF DealtBySplit
<1>3. Len(secret) \in Nat /\ Len(secret) <= SSS_MAX_SECRET_LEN
  BY <1>1, <1>2, Dealt, LengthAssumption
<1>4. Len(collected) \in Nat /\ collected \in [1 .. Len(collected) -> Share]
  BY <1>1
<1>5. sss_combine(collected, Len(secret)) \in [1 .. Len(secret) -> Elem]
  BY <1>3, <1>4, CombineType
<1>6. secret \in [1 .. Len(secret) -> Elem]
  BY <1>1
<1> QED BY <1>1, <1>2, <1>4, <1>5, <1>6

\* With a quorum, a byte comes back right exactly when no share is damaged
\* in it.
LEMMA RecoveredByte ==
  ASSUME SharingInv, recovered # <<>>, Quorum, NEW b \in DOMAIN secret
  PROVE  (recovered[b] # secret[b]) <=> (\E i \in DOMAIN collected : <<i, b>> \in damage)
<1> DEFINE m == Len(collected)
<1>1. /\ dealt # <<>> /\ TypeOK /\ DealtBySplit /\ m \in Nat /\ collected \in [1 .. m -> Share]
      /\ recovered = sss_combine(collected, Len(secret)) /\ DOMAIN collected = 1 .. m
      /\ m >= threshold
  BY Recovered DEF Quorum
<1> HIDE DEF m
<1>2. /\ Len(secret) \in Nat /\ Len(secret) <= SSS_MAX_SECRET_LEN /\ b \in 1 .. Len(secret)
      /\ threshold \in Nat /\ threshold >= 2
      /\ \A i \in DOMAIN dealt : dealt[i].x = i /\ i # 0
  BY <1>1, Dealt, LengthAssumption
<1>3. PICK draws \in Draws(Len(secret), threshold) :
        /\ draws[b] \in [1 .. threshold - 1 -> Elem] /\ secret[b] \in Elem
        /\ \A i \in DOMAIN dealt :
             dealt[i].data[b] = gf_poly_eval(Coefficients(secret[b], draws[b]), i)
  BY <1>1, Dealt
<1> DEFINE coeff == Coefficients(secret[b], draws[b])
<1>4. coeff \in [1 .. threshold -> Elem] /\ coeff[1] = secret[b]
  <2>1. PICK k \in Nat : k = threshold /\ k >= 1
    BY <1>2
  <2>2. draws[b] \in [1 .. k - 1 -> Elem] /\ secret[b] \in Elem
    BY <1>3, <2>1
  <2> QED BY <2>1, <2>2, CoefficientsType
<1> HIDE DEF coeff
<1>5. \A i \in 1 .. m :
        /\ collected[i].x \in DOMAIN dealt
        /\ collected[i].data[b] = gf_poly_eval(coeff, collected[i].x) <=> <<i, b>> \notin damage
  <2> SUFFICES ASSUME NEW i \in 1 .. m
               PROVE  /\ collected[i].x \in DOMAIN dealt
                      /\ collected[i].data[b] = gf_poly_eval(coeff, collected[i].x)
                           <=> <<i, b>> \notin damage
    OBVIOUS
  <2>1. /\ collected[i].x \in DOMAIN dealt
        /\ <<i, b>> \in damage <=> collected[i].data[b] # dealt[collected[i].x].data[b]
    BY <1>1 DEF SharingInv, CollectedFromDealt
  <2>2. dealt[collected[i].x].data[b] = gf_poly_eval(coeff, collected[i].x)
    BY <1>3, <2>1 DEF coeff
  <2> QED BY <2>1, <2>2
<1>6. Quota(collected, m)
  <2>1. \A i \in 1 .. m : collected[i].x # 0
    BY <1>2, <1>5
  <2>2. \A i, j \in 1 .. m : collected[i].x = collected[j].x => i = j
    BY <1>1 DEF Quorum
  <2> QED BY <2>1, <2>2 DEF Quota
<1>7. /\ OnPolynomial(collected, m, b, coeff) => recovered[b] = coeff[1]
      /\ \A w \in 1 .. m : OffPolynomialAt(collected, m, b, coeff, w) => recovered[b] # coeff[1]
  BY <1>1, <1>2, <1>4, <1>6, CombineByte
<1>8. CASE \E i \in DOMAIN collected : <<i, b>> \in damage
  <2>1. PICK w \in 1 .. m : <<w, b>> \in damage
    BY <1>1, <1>8
  <2>2. \A i \in 1 .. m : i # w => <<i, b>> \notin damage
    BY <2>1 DEF SharingInv, OneDamage
  <2>3. OffPolynomialAt(collected, m, b, coeff, w)
    BY <1>5, <2>1, <2>2 DEF OffPolynomialAt
  <2> QED BY <1>4, <1>7, <1>8, <2>3
<1>9. CASE \A i \in DOMAIN collected : <<i, b>> \notin damage
  <2>1. OnPolynomial(collected, m, b, coeff)
    BY <1>1, <1>5, <1>9 DEF OnPolynomial
  <2> QED BY <1>4, <1>7, <1>9, <2>1
<1> QED BY <1>8, <1>9

\* Any quorum of undamaged shares gives exactly the secret back, for every
\* field, threshold, order of the shares and outcome of the generator.
THEOREM AnyQuorumRecovers == Spec => []QuorumRecovers
<1>1. ASSUME SharingInv, recovered # <<>>, Quorum, damage = {}
      PROVE  recovered = secret
  <2>1. recovered \in [1 .. Len(secret) -> Elem] /\ secret \in [1 .. Len(secret) -> Elem]
    BY <1>1, Recovered
  <2>2. \A b \in DOMAIN secret : recovered[b] = secret[b]
    BY <1>1, RecoveredByte
  <2> QED BY <2>1, <2>2
<1>2. SharingInv => QuorumRecovers
  BY <1>1 DEF QuorumRecovers
<1> QED BY <1>2, SharingInvariant, PTL

\* One altered byte in one share of a quorum makes that byte of the secret
\* wrong, always, and no other one.
THEOREM DamageIsContained == Spec => []DamageStaysInItsByte
<1>1. SharingInv => DamageStaysInItsByte
  BY RecoveredByte DEF DamageStaysInItsByte
<1> QED BY <1>1, SharingInvariant, PTL

-----------------------------------------------------------------------------
(* What fewer shares than the threshold say. *)

\* threshold - 1 of the shares, by their abscissas.
LEMMA Abscissas ==
  ASSUME TypeOK, DealtBySplit, dealt # <<>>, NEW few \in kSubset(threshold - 1, ToSet(dealt))
  PROVE  \E X \in SUBSET (Elem \ {0}) :
           /\ X \subseteq DOMAIN dealt /\ Cardinality(X) = threshold - 1
           /\ few = {dealt[i] : i \in X}
<1> DEFINE X == {i \in DOMAIN dealt : dealt[i] \in few}
           f == [i \in X |-> dealt[i]]
<1>1. few \subseteq {dealt[i] : i \in DOMAIN dealt} /\ Cardinality(few) = threshold - 1
  BY DEF kSubset, ToSet
<1>2. Len(dealt) \in Nat /\ DOMAIN dealt = 1 .. Len(dealt)
      /\ \A i \in DOMAIN dealt : i \in Elem \ {0} /\ dealt[i].x = i
  BY Dealt
<1>3. IsFiniteSet(X)
  <2>1. X \in SUBSET (1 .. Len(dealt)) /\ IsFiniteSet(1 .. Len(dealt))
    BY <1>2, FS_Interval
  <2> QED BY <2>1, FS_Subset
<1>4. few = {dealt[i] : i \in X}
  BY <1>1
<1>5. f \in Injection(X, few) /\ f \in Surjection(X, few)
  <2>1. f \in [X -> few] /\ \A v \in few : \E i \in X : f[i] = v
    BY <1>4
  <2>2. \A i, j \in X : f[i] = f[j] => i = j
    BY <1>2
  <2> QED BY <2>1, <2>2 DEF Injection, Surjection, IsInjective
<1>6. Cardinality(X) = Cardinality(few)
  BY <1>3, <1>5, FS_Surjection
<1>7. X \in SUBSET (Elem \ {0}) /\ X \subseteq DOMAIN dealt
  BY <1>2
<1> QED BY <1>1, <1>4, <1>6, <1>7

LEMMA FewSharesFitEveryByte ==
  ASSUME TypeOK, DealtBySplit, dealt # <<>>, NEW b \in DOMAIN secret,
         NEW few \in kSubset(threshold - 1, ToSet(dealt)), NEW byte \in Elem
  PROVE  Cardinality({random \in [1 .. threshold - 1 -> Elem] :
                        \A sh \in few :
                          gf_poly_eval(Coefficients(byte, random), sh.x) = sh.data[b]}) = 1
<1>1. PICK X \in SUBSET (Elem \ {0}) :
        /\ X \subseteq DOMAIN dealt /\ Cardinality(X) = threshold - 1
        /\ few = {dealt[i] : i \in X}
  BY Abscissas
<1> DEFINE y == [v \in X |-> dealt[v].data[b]]
           R == {random \in [1 .. threshold - 1 -> Elem] :
                   \A sh \in few : gf_poly_eval(Coefficients(byte, random), sh.x) = sh.data[b]}
<1>2. threshold \in Nat /\ threshold >= 1 /\ b \in 1 .. SSS_MAX_SECRET_LEN
      /\ \A i \in X : dealt[i] \in Share /\ dealt[i].x = i
  BY <1>1, Dealt
<1>3. Elems(y, X)
  <2> SUFFICES ASSUME NEW v \in X PROVE y[v] \in Elem
    BY DEF Elems
  <2>1. PICK c \in Share : c = dealt[v]
    BY <1>2
  <2>2. c.data[b] \in Elem
    BY <1>2 DEF Share
  <2> QED BY <2>1, <2>2
<1>4. ASSUME NEW r
      PROVE  (\A sh \in few : gf_poly_eval(Coefficients(byte, r), sh.x) = sh.data[b])
                <=> Explains(r, byte, X, y)
  BY <1>1, <1>2 DEF Explains
<1> HIDE DEF y
<1>5. PICK r \in [1 .. threshold - 1 -> Elem] :
        /\ Explains(r, byte, X, y)
        /\ \A other \in [1 .. threshold - 1 -> Elem] : Explains(other, byte, X, y) => other = r
  BY <1>1, <1>2, <1>3, OneExplanation
<1>6. R = {r}
  BY <1>4, <1>5
<1> QED BY <1>6, FS_Singleton

\* threshold - 1 shares fit every value of every byte, each by one choice of
\* the random coefficients: an eavesdropper with so many learns nothing.
THEOREM FewSharesAreBlind == Spec => []FewerSharesRevealNothing
<1>1. SharingInv => FewerSharesRevealNothing
  <2> SUFFICES ASSUME SharingInv, dealt # <<>> 
               PROVE  \A b \in DOMAIN secret :
                        \A few \in kSubset(threshold - 1, ToSet(dealt)) :
                          \A byte \in Elem :
                            Cardinality({random \in [1 .. threshold - 1 -> Elem] :
                                           \A sh \in few :
                                             gf_poly_eval(Coefficients(byte, random), sh.x)
                                               = sh.data[b]}) = 1
    BY DEF FewerSharesRevealNothing
  <2>1. TypeOK /\ DealtBySplit
    BY DEF SharingInv
  <2> QED BY <2>1, FewSharesFitEveryByte
<1> QED BY <1>1, SharingInvariant, PTL

LEMMA IntervalSize ==
  ASSUME NEW e \in Nat
  PROVE  IsFiniteSet(1 .. e) /\ Cardinality(1 .. e) = e
BY FS_Interval

\* Some draw makes a share show any value.
LEMMA AnyValueShown ==
  ASSUME NEW k \in Nat, k >= 2, k <= FieldSize - 1, NEW i \in Elem \ {0},
         NEW byte \in Elem, NEW value \in Elem
  PROVE  \E r \in [1 .. k - 1 -> Elem] : gf_poly_eval(Coefficients(byte, r), i) = value
<1> DEFINE X == IF i <= k - 1 THEN 1 .. k - 1 ELSE (1 .. k - 2) \cup {i}
           y == [v \in X |-> value]
<1>0. i \in Nat /\ i >= 1 /\ FieldSize \in Nat /\ Elem = 0 .. FieldSize - 1
  BY Sizes DEF Elem
<1>1. X \in SUBSET (Elem \ {0}) /\ i \in X
  BY <1>0
<1>2. Cardinality(X) = k - 1
  <2>1. CASE i <= k - 1
    <3>1. Cardinality(1 .. k - 1) = k - 1
      BY <1>0, IntervalSize
    <3> QED BY <2>1, <3>1
  <2>2. CASE ~(i <= k - 1)
    <3>1. k - 2 \in Nat /\ i \notin 1 .. k - 2
      BY <1>0, <2>2
    <3>2. IsFiniteSet(1 .. k - 2) /\ Cardinality(1 .. k - 2) = k - 2
      <4>1. PICK e \in Nat : e = k - 2
        BY <3>1
      <4>2. IsFiniteSet(1 .. e) /\ Cardinality(1 .. e) = e
        BY IntervalSize
      <4> QED BY <4>1, <4>2
    <3>3. Cardinality((1 .. k - 2) \cup {i}) = (k - 2) + 1
      BY <3>1, <3>2, FS_AddElement
    <3> QED BY <2>2, <3>1, <3>3
  <2> QED BY <2>1, <2>2
<1>3. Elems(y, X)
  BY DEF Elems
<1> HIDE DEF X
<1>4. PICK r \in [1 .. k - 1 -> Elem] : Explains(r, byte, X, y)
  BY <1>1, <1>2, <1>3, OneExplanation
<1> QED BY <1>1, <1>4 DEF Explains

LEMMA ByteShownFreely ==
  ASSUME TypeOK, DealtBySplit, dealt # <<>>, NEW i \in DOMAIN dealt, NEW b \in DOMAIN secret,
         NEW value \in Elem
  PROVE  \E draws \in Draws(Len(secret), threshold) :
           LET other == sss_split(secret, draws, Len(dealt))[i]
           IN  /\ other.data[b] = value
               /\ \A c \in DOMAIN secret \ {b} : other.data[c] = dealt[i].data[c]
<1>1. /\ SplitAccepts(Len(secret), Len(dealt), threshold)
      /\ secret \in Seq(Elem) /\ Len(dealt) \in Nat /\ threshold \in Nat
      /\ threshold >= 2 /\ threshold <= Len(dealt) /\ DOMAIN secret = 1 .. Len(secret)
      /\ i \in 1 .. Len(dealt) /\ i \in Elem \ {0} /\ DOMAIN secret = 1 .. Len(secret)
  BY Dealt DEF TypeOK, DealtBySplit
<1>2. threshold <= FieldSize - 1
  BY <1>1, Sizes DEF SplitAccepts
<1>3. PICK draws \in Draws(Len(secret), threshold) :
        \A c \in DOMAIN secret :
           /\ secret[c] \in Elem
           /\ dealt[i].data[c] = gf_poly_eval(Coefficients(secret[c], draws[c]), i)
  BY Dealt
<1>4. PICK r \in [1 .. threshold - 1 -> Elem] :
        gf_poly_eval(Coefficients(secret[b], r), i) = value
  BY <1>1, <1>2, <1>3, AnyValueShown
<1> DEFINE redrawn == [draws EXCEPT ![b] = r]
<1>5. /\ redrawn \in Draws(Len(secret), threshold) /\ redrawn[b] = r
      /\ \A c \in DOMAIN secret \ {b} : redrawn[c] = draws[c]
  BY <1>1 DEF Draws
<1> HIDE DEF redrawn
<1>6. \A c \in 1 .. Len(secret) :
        sss_split(secret, redrawn, Len(dealt))[i].data[c]
          = gf_poly_eval(Coefficients(secret[c], redrawn[c]), i)
  <2>1. PICK n \in Nat : n = Len(dealt)
    BY <1>1
  <2>2. PICK k \in Nat : k = threshold
    BY <1>1
  <2>3. PICK w \in Draws(Len(secret), k) : w = redrawn
    BY <1>5, <2>2
  <2>4. SplitAccepts(Len(secret), n, k) /\ i \in 1 .. n /\ secret \in Seq(Elem)
    BY <1>1, <2>1, <2>2
  <2>5. \A c \in 1 .. Len(secret) :
          sss_split(secret, w, n)[i].data[c] = gf_poly_eval(Coefficients(secret[c], w[c]), i)
    BY <2>4, SplitType
  <2> QED BY <2>1, <2>3, <2>5
<1>7. sss_split(secret, redrawn, Len(dealt))[i].data[b] = value
  BY <1>1, <1>4, <1>5, <1>6
<1>8. \A c \in DOMAIN secret \ {b} :
        sss_split(secret, redrawn, Len(dealt))[i].data[c] = dealt[i].data[c]
  BY <1>1, <1>3, <1>5, <1>6
<1> QED BY <1>5, <1>7, <1>8

\* Whatever a share shows for the other bytes, some draw of the generator
\* makes it show any value for this one: the bytes are shared independently.
THEOREM BytesAreIndependent == Spec => []BytesSharedIndependently
<1>1. SharingInv => BytesSharedIndependently
  <2>1. SharingInv => TypeOK /\ DealtBySplit
    BY DEF SharingInv
  <2> QED BY <2>1, ByteShownFreely DEF BytesSharedIndependently
<1> QED BY <1>1, SharingInvariant, PTL

=============================================================================
