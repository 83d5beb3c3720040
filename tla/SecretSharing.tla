---------------------------- MODULE SecretSharing ----------------------------
(***************************************************************************)
(* A dealing and its recovery through the API of src/src/sss/sss.h: a      *)
(* dealer calls sss_split once, a collector gathers shares one by one, in  *)
(* any order, possibly the same one twice and possibly one that was        *)
(* damaged on the way (a misread QR code, a typing error), and calls       *)
(* sss_combine when he likes.                                              *)
(***************************************************************************)
EXTENDS Shamir

CONSTANTS
  Dealings,       \* what the dealer may ask for: <<secret, n, k>>; the device
                  \* uses n = 5 and k = 3
  Noise,          \* what a damaged byte may differ by (bit masks)
  MaxCollected    \* bound: shares the collector gathers

ASSUME SharingAssumption ==
  /\ Dealings \subseteq Seq(Elem) \X Nat \X Nat
  /\ Noise \subseteq Elem \ {0}
  /\ MaxCollected \in Nat

VARIABLES
  secret,      \* what was split; <<>> before
  threshold,   \* the k of the dealing
  dealt,       \* shares_out of sss_split
  collected,   \* the shares gathered so far, as the collector holds them
  damage,      \* {} or the one <<position, byte>> of collected that was altered
  recovered    \* what sss_combine wrote; <<>> before

vars == <<secret, threshold, dealt, collected, damage, recovered>>

-----------------------------------------------------------------------------

Init ==
  /\ secret = <<>>
  /\ threshold = 0
  /\ dealt = <<>>
  /\ collected = <<>>
  /\ damage = {}
  /\ recovered = <<>>

\* sss_split with every outcome of the random generator.
Split(s, n, k) ==
  /\ dealt = <<>>
  /\ SplitAccepts(Len(s), n, k)
  /\ \E draws \in Draws(Len(s), k) : dealt' = sss_split(s, draws, n)
  /\ secret' = s
  /\ threshold' = k
  /\ UNCHANGED <<collected, damage, recovered>>

\* The collector obtains share i.
Collect(i) ==
  /\ Len(collected) < MaxCollected
  /\ recovered = <<>>
  /\ collected' = Append(collected, dealt[i])
  /\ UNCHANGED <<secret, threshold, dealt, damage, recovered>>

\* One byte of one gathered share is altered.
Damage(i, b, mask) ==
  /\ damage = {}
  /\ recovered = <<>>
  /\ collected' = [collected EXCEPT ![i].data[b] = gf_add(@, mask)]
  /\ damage' = {<<i, b>>}
  /\ UNCHANGED <<secret, threshold, dealt, recovered>>

\* sss_combine on what was gathered; it refuses fewer than two shares.
Combine ==
  /\ recovered = <<>>
  /\ CombineAccepts(Len(collected), Len(secret))
  /\ recovered' = sss_combine(collected, Len(secret))
  /\ UNCHANGED <<secret, threshold, dealt, collected, damage>>

Next ==
  \/ \E d \in Dealings : Split(d[1], d[2], d[3])
  \/ \E i \in DOMAIN dealt : Collect(i)
  \/ \E i \in DOMAIN collected, b \in DOMAIN secret, m \in Noise : Damage(i, b, m)
  \/ Combine

Spec == Init /\ [][Next]_vars

-----------------------------------------------------------------------------

\* The gathered shares are a quorum: different abscissas, and enough of them.
Quorum ==
  /\ \A i, j \in DOMAIN collected : i # j => collected[i].x # collected[j].x
  /\ Len(collected) >= threshold

\* Types: every byte of a dealing and of a recovery is a field element.
TypeOK ==
  /\ secret \in Seq(Elem)
  /\ threshold \in Nat
  /\ dealt \in Seq(Share)
  /\ collected \in Seq(Share)
  /\ damage \subseteq (DOMAIN collected) \X (DOMAIN secret)
  /\ recovered \in Seq(Elem)

\* Any quorum of undamaged shares, in whatever order and however many of them
\* beyond the threshold, makes sss_combine write exactly the secret that
\* sss_split was given, for every outcome of the random generator.
QuorumRecovers ==
  (recovered # <<>> /\ Quorum /\ damage = {}) => recovered = secret

\* A damaged byte in one share of a quorum always shows, and only there: the
\* recovered secret is wrong in that byte and right in every other one.
DamageStaysInItsByte ==
  (recovered # <<>> /\ Quorum) =>
     \A b \in DOMAIN secret :
        (recovered[b] # secret[b]) <=> (\E i \in DOMAIN collected : <<i, b>> \in damage)

\* threshold - 1 shares say nothing about any byte of the secret: each value
\* the byte could have explains them by exactly one choice of coefficients.
FewerSharesRevealNothing ==
  (dealt # <<>> /\ collected = <<>>) =>
     \A b \in DOMAIN secret :
        \A few \in kSubset(threshold - 1, ToSet(dealt)) :
           \A byte \in Elem :
              Cardinality({random \in [1 .. threshold - 1 -> Elem] :
                             \A sh \in few :
                               gf_poly_eval(Coefficients(byte, random), sh.x)
                                 = sh.data[b]}) = 1

\* Two bytes of a secret are shared independently: whatever a share shows for
\* the other bytes, it can show any value for this one, by some draw of the
\* generator.  sss_split has to draw anew for every byte.
BytesSharedIndependently ==
  (dealt # <<>> /\ collected = <<>>) =>
     \A i \in DOMAIN dealt : \A b \in DOMAIN secret : \A value \in Elem :
        \E draws \in Draws(Len(secret), threshold) :
           LET other == sss_split(secret, draws, Len(dealt))[i]
           IN  /\ other.data[b] = value
               /\ \A c \in DOMAIN secret \ {b} : other.data[c] = dealt[i].data[c]

=============================================================================
