------------------------------- MODULE Shamir -------------------------------
(***************************************************************************)
(* The secret sharing of src/src/sss/sss.c as operators: what sss_split    *)
(* stores for a secret and a choice of random coefficients, and what       *)
(* sss_combine computes from an array of shares.  SecretSharing checks     *)
(* them on their own; Portal calls them from the HTTP handlers.            *)
(***************************************************************************)
EXTENDS GaloisField

CONSTANT SSS_MAX_SECRET_LEN    \* longest secret in bytes: 256 in the code

ASSUME LengthAssumption == SSS_MAX_SECRET_LEN \in Nat \ {0}

\* struct sss_share: an abscissa, a length and a fixed array of data bytes.
Share == [x : Elem, len : 0 .. SSS_MAX_SECRET_LEN,
          data : [1 .. SSS_MAX_SECRET_LEN -> Elem]]

\* The random bytes one call of sss_split draws: k - 1 for each secret byte.
Draws(secret_len, k) == [1 .. secret_len -> [1 .. k - 1 -> Elem]]

\* The check without the bound on the length.
SplitAcceptsAnyLength(secret_len, n, k) ==
  /\ secret_len > 0
  /\ n >= k
  /\ k >= 2
  /\ n <= FieldSize - 1

\* The argument check of sss_split; n = 255 is the last abscissa of a byte.
SplitAccepts(secret_len, n, k) ==
  /\ secret_len \in 1 .. SSS_MAX_SECRET_LEN
  /\ n >= k
  /\ k >= 2
  /\ n <= FieldSize - 1

\* The polynomial of one secret byte: the byte, then its random coefficients.
Coefficients(byte, random) == <<byte>> \o random

\* Evaluation from abscissa 0: share 1 would be the secret itself.
SplitFromZero(secret, draws, n) ==
  [i \in 1 .. n |->
     [x    |-> i - 1,
      len  |-> Len(secret),
      data |-> [b \in 1 .. SSS_MAX_SECRET_LEN |->
                  IF b <= Len(secret)
                  THEN gf_poly_eval(Coefficients(secret[b], draws[b]), i - 1)
                  ELSE 0]]]

\* The random coefficients drawn once and used for every byte.
SplitOneDraw(secret, draws, n) ==
  [i \in 1 .. n |->
     [x    |-> i,
      len  |-> Len(secret),
      data |-> [b \in 1 .. SSS_MAX_SECRET_LEN |->
                  IF b <= Len(secret)
                  THEN gf_poly_eval(Coefficients(secret[b], draws[1]), i)
                  ELSE 0]]]

\* sss_split into fresh shares: byte b of share i is the polynomial of secret
\* byte b at i.  The array beyond the secret is never read by the caller.
sss_split(secret, draws, n) ==
  [i \in 1 .. n |->
     [x    |-> i,
      len  |-> Len(secret),
      data |-> [b \in 1 .. SSS_MAX_SECRET_LEN |->
                  IF b <= Len(secret)
                  THEN gf_poly_eval(Coefficients(secret[b], draws[b]), i)
                  ELSE 0]]]

\* A basis without the denominator.
BasisNumeratorOnly(x_vals, i) ==
  FoldFunctionOnSet(gf_mul, 1, x_vals, DOMAIN x_vals \ {i})

\* The Lagrange basis polynomial of x_vals[i] at 0: the product of the other
\* abscissas over the product of their differences to x_vals[i].
lagrange_basis_0(x_vals, i) ==
  LET others == DOMAIN x_vals \ {i}
  IN  gf_div(FoldFunctionOnSet(gf_mul, 1, x_vals, others),
             FoldFunctionOnSet(gf_mul, 1,
                               [j \in others |-> gf_sub(x_vals[j], x_vals[i])],
                               others))

\* The argument check of sss_combine.
CombineAccepts(k, secret_len) == k >= 2 /\ secret_len \in 1 .. SSS_MAX_SECRET_LEN

\* An accumulator that is not cleared between bytes.
CombineCarriesOver(shares, secret_len) ==
  LET k     == Len(shares)
      x_val == [i \in 1 .. k |-> shares[i].x]
      basis == [i \in 1 .. k |-> lagrange_basis_0(x_val, i)]
  IN  [b \in 1 .. secret_len |->
         FoldFunction(gf_add, 0,
                      [p \in (1 .. k) \X (1 .. b) |->
                         gf_mul(basis[p[1]], shares[p[1]].data[p[2]])])]

\* The bytes sss_combine writes: all shares given take part, whatever the
\* threshold was; nothing compares lengths or looks for a repeated abscissa.
sss_combine(shares, secret_len) ==
  LET k     == Len(shares)
      x_val == [i \in 1 .. k |-> shares[i].x]
      basis == [i \in 1 .. k |-> lagrange_basis_0(x_val, i)]
  IN  [b \in 1 .. secret_len |->
         FoldFunction(gf_add, 0,
                      [i \in 1 .. k |-> gf_mul(basis[i], shares[i].data[b])])]

=============================================================================
