---------------------------- MODULE Portal_proofs ----------------------------
(***************************************************************************)
(* The four invariants of module Portal, for every field, every size of    *)
(* the buffers, every threshold and number of shares, every codec whose    *)
(* bytes can be expanded again, every room for the query, and every        *)
(* sequence of requests.                                                   *)
(*                                                                         *)
(* The invariants speak of the last reply, which depends on the shares     *)
(* that were given out; so the inductive invariant PortalInv adds to them  *)
(* that every dealing holds the shares of one accepted call of sss_split   *)
(* on the bytes of its message.  What handler_reconstruct keeps from one   *)
(* request to the next needs no more than its type: the proof that a       *)
(* quorum is answered shows, for whatever shares and secret hold, that the *)
(* entries overwrite all of them that is read.                             *)
(***************************************************************************)
EXTENDS Portal, Shamir_proofs, SequenceTheorems

-----------------------------------------------------------------------------
(* Strings. *)

LEMMA SmallerOfTwo ==
  ASSUME NEW a \in Nat, NEW b \in Nat
  PROVE  Min({a, b}) = IF a <= b THEN a ELSE b
<1> DEFINE m == IF a <= b THEN a ELSE b
<1>1. m \in {a, b} /\ m <= a /\ m <= b
  OBVIOUS
<1>2. \A k \in {a, b} : (\A j \in {a, b} : k <= j) => k = m
  OBVIOUS
<1> HIDE DEF m
<1>3. Min({a, b}) = m
  BY <1>1, <1>2 DEF Min
<1> QED BY <1>3 DEF m

LEMMA LeastIsMin ==
  ASSUME NEW T, T \subseteq Nat, T # {}
  PROVE  Min(T) \in T /\ \A n \in T : Min(T) <= n
<1>1. \E m \in T : \A n \in T : m <= n
  BY LeastElement
<1> QED BY <1>1 DEF Min

LEMMA GreatestIsMax ==
  ASSUME NEW m \in Nat, NEW T \in SUBSET (0 .. m), T # {}
  PROVE  Max(T) \in T /\ \A n \in T : n <= Max(T)
<1> DEFINE U == {m - n : n \in T}
<1>1. U \subseteq Nat /\ U # {}
  <2>1. \A n \in T : n \in Int /\ m - n \in Nat
    OBVIOUS
  <2> QED BY <2>1
<1>2. PICK u \in U : \A v \in U : u <= v
  BY <1>1, LeastElement
<1>3. PICK n \in T : u = m - n
  OBVIOUS
<1>4. \A k \in T : k <= n
  <2> SUFFICES ASSUME NEW k \in T PROVE k <= n
    OBVIOUS
  <2>1. m - k \in U /\ k \in Int /\ n \in Int
    OBVIOUS
  <2>2. m - n <= m - k
    BY <1>2, <1>3, <2>1
  <2> QED BY <2>1, <2>2
<1> QED BY <1>4 DEF Max

\* A C string ends before the first 0, or nowhere in the array.
LEMMA CStringIs ==
  ASSUME NEW bytes \in Seq(Elem)
  PROVE  \E z \in 0 .. Len(bytes) :
           /\ CString(bytes) = SubSeq(bytes, 1, z)
           /\ \A i \in 1 .. z : bytes[i] # 0
           /\ z < Len(bytes) => bytes[z + 1] = 0
<1> DEFINE zeros == {i \in DOMAIN bytes : bytes[i] = 0}
<1>1. Len(bytes) \in Nat /\ DOMAIN bytes = 1 .. Len(bytes)
  OBVIOUS
<1>2. CASE zeros = {}
  <2>0. SubSeq(bytes, 1, Len(bytes)) = bytes
    BY SubSeqFull
  <2>1. CString(bytes) = SubSeq(bytes, 1, Len(bytes))
    BY <1>2, <2>0 DEF CString
  <2>2. \A i \in 1 .. Len(bytes) : bytes[i] # 0
    BY <1>1, <1>2
  <2>3. Len(bytes) \in 0 .. Len(bytes) /\ ~(Len(bytes) < Len(bytes))
    BY <1>1
  <2> QED BY <2>1, <2>2, <2>3
<1>3. CASE zeros # {}
  <2>1. Min(zeros) \in zeros /\ \A n \in zeros : Min(zeros) <= n
    <3>1. zeros \subseteq Nat
      BY <1>1
    <3> HIDE DEF zeros
    <3> QED BY <1>3, <3>1, LeastIsMin
  <2>2. CString(bytes) = SubSeq(bytes, 1, Min(zeros) - 1)
    BY <1>3 DEF CString
  <2>3. PICK z \in 0 .. Len(bytes) : z = Min(zeros) - 1 /\ z + 1 = Min(zeros) /\ z < Len(bytes)
    <3>1. PICK k \in 1 .. Len(bytes) : k = Min(zeros)
      BY <1>1, <2>1
    <3>2. k - 1 \in 0 .. Len(bytes) /\ (k - 1) + 1 = k /\ k - 1 < Len(bytes)
      BY <1>1
    <3> QED BY <3>1, <3>2
  <2>4. \A i \in 1 .. z : bytes[i] # 0
    <3> SUFFICES ASSUME NEW i \in 1 .. z, bytes[i] = 0 PROVE FALSE
      OBVIOUS
    <3>1. i \in zeros
      BY <1>1
    <3> HIDE DEF zeros
    <3> QED BY <2>1, <2>3, <3>1
  <2>5. bytes[z + 1] = 0
    BY <2>1, <2>3
  <2> QED BY <2>2, <2>3, <2>4, <2>5
<1> QED BY <1>2, <1>3

LEMMA CStringType ==
  ASSUME NEW bytes \in Seq(Elem)
  PROVE  CString(bytes) \in Text /\ Len(CString(bytes)) <= Len(bytes)
<1>1. PICK z \in 0 .. Len(bytes) :
        CString(bytes) = SubSeq(bytes, 1, z) /\ \A i \in 1 .. z : bytes[i] # 0
  BY CStringIs
<1>2. Len(bytes) \in Nat /\ z \in Int /\ 1 \in Int
  OBVIOUS
<1>3. \A i \in 1 .. z : bytes[i] \in Elem \ {0}
  BY <1>1
<1>4. SubSeq(bytes, 1, z) \in Seq(Elem \ {0})
      /\ Len(SubSeq(bytes, 1, z)) = IF 1 <= z THEN z - 1 + 1 ELSE 0
  BY <1>2, <1>3, SubSeqProperties
<1> QED BY <1>1, <1>2, <1>4 DEF Text

\* The text at the head of an array, if a 0 follows it or it fills the array.
LEMMA CStringEnds ==
  ASSUME NEW bytes \in Seq(Elem), NEW n \in 0 .. Len(bytes), \A i \in 1 .. n : bytes[i] # 0
  PROVE  /\ Len(CString(bytes)) >= n
         /\ \A i \in 1 .. n : CString(bytes)[i] = bytes[i]
         /\ (n < Len(bytes) => bytes[n + 1] = 0) => CString(bytes) = SubSeq(bytes, 1, n)
<1>1. PICK z \in 0 .. Len(bytes) :
        /\ CString(bytes) = SubSeq(bytes, 1, z) /\ \A i \in 1 .. z : bytes[i] # 0
        /\ z < Len(bytes) => bytes[z + 1] = 0
  BY CStringIs
<1>2. Len(bytes) \in Nat /\ z \in Nat /\ n \in Nat
  OBVIOUS
<1>3. n <= z
  BY <1>1, <1>2
<1>4. /\ Len(SubSeq(bytes, 1, z)) = IF 1 <= z THEN z - 1 + 1 ELSE 0
      /\ \A i \in 1 .. z - 1 + 1 : SubSeq(bytes, 1, z)[i] = bytes[1 + i - 1]
  <2>1. \A i \in 1 .. z : bytes[i] \in Elem
    BY <1>2
  <2>2. z \in Int /\ 1 \in Int
    BY <1>2
  <2> QED BY <2>1, <2>2, SubSeqProperties
<1>5. Len(CString(bytes)) = z /\ \A i \in 1 .. n : CString(bytes)[i] = bytes[i]
  BY <1>1, <1>2, <1>3, <1>4
<1>6. (n < Len(bytes) => bytes[n + 1] = 0) => n = z
  BY <1>1, <1>2, <1>3
<1> QED BY <1>1, <1>2, <1>3, <1>5, <1>6

Message == Seq(Elem \X {1, 3})

LEMMA BytesType ==
  ASSUME NEW msg \in Message
  PROVE  /\ Bytes(msg) \in Seq(Elem) /\ Len(Bytes(msg)) = Len(msg)
         /\ \A i \in 1 .. Len(msg) : Bytes(msg)[i] = msg[i][1]
<1>1. Len(msg) \in Nat /\ DOMAIN msg = 1 .. Len(msg) /\ \A i \in DOMAIN msg : msg[i] \in Elem \X {1, 3}
  BY DEF Message
<1>2. Bytes(msg) \in [1 .. Len(msg) -> Elem]
  BY <1>1 DEF Bytes
<1>3. \A i \in 1 .. Len(msg) : Bytes(msg)[i] = msg[i][1]
  BY <1>1 DEF Bytes
<1>4. Bytes(msg) \in Seq(Elem) /\ Len(Bytes(msg)) = Len(msg)
  BY <1>1, <1>2
<1> QED BY <1>3, <1>4

\* A unit takes one character more or three.
LEMMA WidthStep ==
  ASSUME NEW msg \in Message, NEW n \in Nat
  PROVE  /\ UrlWidth(msg, 0) = 0 /\ UrlWidth(msg, n) \in Nat
         /\ UrlWidth(msg, n + 1) = UrlWidth(msg, n) + IF msg[n + 1][2] = 3 THEN 3 ELSE 1
<1> DEFINE E(k) == {i \in 1 .. k : msg[i][2] = 3}
<1>1. \A k \in Nat : IsFiniteSet(E(k)) /\ Cardinality(E(k)) \in Nat
  <2> SUFFICES ASSUME NEW k \in Nat PROVE IsFiniteSet(E(k)) /\ Cardinality(E(k)) \in Nat
    OBVIOUS
  <2>1. IsFiniteSet(1 .. k)
    BY FS_Interval
  <2>2. IsFiniteSet(E(k))
    BY <2>1, FS_Subset
  <2> QED BY <2>2, FS_CardinalityType
<1>2. UrlWidth(msg, 0) = 0
  <2>1. E(0) = {}
    OBVIOUS
  <2>2. Cardinality(E(0)) = 0
    BY <2>1, FS_EmptySet
  <2> QED BY <2>2 DEF UrlWidth
<1>3. UrlWidth(msg, n) = n + 2 * Cardinality(E(n)) /\ UrlWidth(msg, n + 1) = n + 1 + 2 * Cardinality(E(n + 1))
  BY DEF UrlWidth
<1>4. CASE msg[n + 1][2] = 3
  <2>1. E(n + 1) = E(n) \cup {n + 1} /\ n + 1 \notin E(n)
    BY <1>4
  <2>2. Cardinality(E(n + 1)) = Cardinality(E(n)) + 1
    <3> HIDE DEF E
    <3> QED BY <1>1, <2>1, FS_AddElement
  <2> HIDE DEF E
  <2> QED BY <1>1, <1>2, <1>3, <1>4, <2>2
<1>5. CASE msg[n + 1][2] # 3
  <2>1. E(n + 1) = E(n)
    BY <1>5
  <2> HIDE DEF E
  <2> QED BY <1>1, <1>2, <1>3, <1>5, <2>1
<1> QED BY <1>4, <1>5

\* What is received of a message is a text; of one that fits, it is what was
\* typed.
LEMMA ReceivedType ==
  ASSUME NEW msg \in Message
  PROVE  /\ Received(msg) \in Text
         /\ EncodedLength(msg) <= 2 * SSS_MAX_SECRET_LEN => Received(msg) = Typed(msg)
<1> DEFINE limit == 2 * SSS_MAX_SECRET_LEN
           T == {n \in 0 .. Len(msg) : UrlWidth(msg, n) <= limit}
           whole == Max(T)
           rest == IF whole = Len(msg) THEN 0 ELSE limit - UrlWidth(msg, whole)
           cut == SubSeq(<<Percent, HexDigit>>, 1, rest)
<1>0. /\ limit \in Nat /\ Len(msg) \in Nat /\ DOMAIN msg = 1 .. Len(msg)
      /\ \A i \in DOMAIN msg : msg[i] \in Elem \X {1, 3}
  BY LengthAssumption DEF Message
<1>1. Received(msg) = CString(Bytes(SubSeq(msg, 1, whole)) \o cut)
  BY DEF Received
<1>2. T \in SUBSET (0 .. Len(msg)) /\ T # {}
  <2>1. UrlWidth(msg, 0) <= limit /\ 0 \in 0 .. Len(msg)
    BY <1>0, WidthStep
  <2>2. 0 \in T
    BY <2>1
  <2> QED BY <2>2
<1> HIDE DEF T
<1>3. whole \in T /\ \A n \in T : n <= whole
  BY <1>0, <1>2, GreatestIsMax
<1> HIDE DEF whole
<1>4. whole \in Nat /\ whole <= Len(msg) /\ UrlWidth(msg, whole) <= limit /\ UrlWidth(msg, whole) \in Nat
  BY <1>0, <1>3, WidthStep DEF T
<1>. PICK L \in Nat : L = Len(msg)
  BY <1>0
<1>. PICK w \in Nat : w = whole /\ w <= L
  BY <1>4
<1>5. rest \in 0 .. 2
  <2>1. CASE whole = Len(msg)
    <3>1. rest = 0
      BY <2>1
    <3> QED BY <3>1
  <2>2. CASE whole # Len(msg)
    <3>0. \A n \in T : n <= whole
      BY <1>3
    <3>1. whole + 1 \in 0 .. Len(msg) /\ whole + 1 \notin T
      <4>0. w # L
        BY <2>2
      <4>1. w + 1 \in 0 .. L /\ ~(w + 1 <= w)
        BY ONLY <4>0, w \in Nat, L \in Nat, w <= L
      <4> QED BY <3>0, <4>1
    <3>2. ~(UrlWidth(msg, whole + 1) <= limit)
      BY <3>1 DEF T
    <3>3. UrlWidth(msg, whole + 1) \in Nat /\ UrlWidth(msg, whole + 1) <= UrlWidth(msg, whole) + 3
      <4>1. UrlWidth(msg, whole + 1) = UrlWidth(msg, whole) + IF msg[whole + 1][2] = 3 THEN 3 ELSE 1
        BY <1>4, WidthStep
      <4> QED BY <1>4, <4>1
    <3>4. rest = limit - UrlWidth(msg, whole)
      BY <2>2
    <3> HIDE DEF rest, limit
    <3> QED BY <1>0, <1>4, <3>2, <3>3, <3>4
  <2> QED BY <2>1, <2>2
<1> HIDE DEF rest, limit
<1>6. <<Percent, HexDigit>> \in Seq(Elem) /\ cut \in Seq(Elem)
  <2>1. Percent \in Elem /\ HexDigit \in Elem
    BY PortalAssumption
  <2>2. <<Percent, HexDigit>> \in [1 .. 2 -> Elem]
    BY <2>1
  <2>3. rest \in Int /\ 1 \in Int /\ \A i \in 1 .. rest : <<Percent, HexDigit>>[i] \in Elem
    BY <1>5, <2>1
  <2> QED BY <2>1, <2>3, SubSeqProperties
<1>7. SubSeq(msg, 1, whole) \in Message
  <2>1. \A i \in 1 .. whole : msg[i] \in Elem \X {1, 3}
    BY <1>0, <1>4
  <2>2. whole \in Int /\ 1 \in Int
    BY <1>4
  <2> QED BY <2>1, <2>2, SubSeqProperties DEF Message
<1>8. Received(msg) \in Text
  <2>1. Bytes(SubSeq(msg, 1, whole)) \in Seq(Elem)
    BY <1>7, BytesType
  <2>2. Bytes(SubSeq(msg, 1, whole)) \o cut \in Seq(Elem)
    BY <1>6, <2>1, ConcatProperties
  <2> QED BY <1>1, <2>2, CStringType
<1>9. ASSUME UrlWidth(msg, Len(msg)) <= limit
      PROVE  Received(msg) = Typed(msg)
  <2>1. Len(msg) \in T
    BY <1>0, <1>9 DEF T
  <2>2. whole = Len(msg)
    <3>1. Len(msg) <= whole
      BY <1>3, <2>1
    <3>2. L <= w
      BY <3>1
    <3> QED BY <3>2
  <2>3. rest = 0
    BY <2>2 DEF rest
  <2>4. cut = <<>>
    BY <2>3, SubSeqEmpty
  <2>5. SubSeq(msg, 1, whole) = msg
    BY <2>2, SubSeqFull DEF Message
  <2>6. Bytes(msg) \o <<>> = Bytes(msg)
    BY BytesType, ConcatEmptySeq
  <2> HIDE DEF cut
  <2>7. Bytes(SubSeq(msg, 1, whole)) \o cut = Bytes(msg)
    BY <2>4, <2>5, <2>6
  <2> QED BY <1>1, <2>7 DEF Typed
<1> QED BY <1>8, <1>9 DEF EncodedLength, limit

LEMMA TypedType ==
  ASSUME NEW msg \in Message
  PROVE  Typed(msg) \in Text
BY BytesType, CStringType DEF Typed

-----------------------------------------------------------------------------
(* Entries and the static buffers. *)

Buffer == [1 .. SSS_MAX_SECRET_LEN -> Elem]

LEMMA BufferIsSeq ==
  ASSUME NEW buf \in Buffer
  PROVE  /\ buf \in Seq(Elem) /\ Len(buf) = SSS_MAX_SECRET_LEN /\ SSS_MAX_SECRET_LEN \in Nat
         /\ SSS_MAX_SECRET_LEN >= 1 /\ DOMAIN buf = 1 .. SSS_MAX_SECRET_LEN
<1>1. SSS_MAX_SECRET_LEN \in Nat /\ SSS_MAX_SECRET_LEN >= 1
  BY LengthAssumption
<1> QED BY <1>1 DEF Buffer

LEMMA OverwriteType ==
  ASSUME NEW buf \in Buffer, NEW bytes \in Seq(Elem)
  PROVE  /\ Overwrite(buf, bytes) \in Buffer
         /\ \A j \in 1 .. SSS_MAX_SECRET_LEN :
              Overwrite(buf, bytes)[j] = IF j <= Len(bytes) THEN bytes[j] ELSE buf[j]
<1>1. SSS_MAX_SECRET_LEN \in Nat /\ DOMAIN buf = 1 .. SSS_MAX_SECRET_LEN /\ Len(bytes) \in Nat
  BY LengthAssumption DEF Buffer
<1>2. \A j \in 1 .. SSS_MAX_SECRET_LEN :
        Overwrite(buf, bytes)[j] = IF j <= Len(bytes) THEN bytes[j] ELSE buf[j]
  BY <1>1 DEF Overwrite
<1>3. ASSUME NEW j \in 1 .. SSS_MAX_SECRET_LEN PROVE Overwrite(buf, bytes)[j] \in Elem
  <2>1. CASE j <= Len(bytes)
    <3>1. j \in 1 .. Len(bytes)
      BY <1>1, <2>1
    <3>2. bytes[j] \in Elem
      BY <3>1
    <3> QED BY <1>2, <2>1, <3>2
  <2>2. CASE ~(j <= Len(bytes))
    BY <1>2, <2>2 DEF Buffer
  <2> QED BY <2>1, <2>2
<1>4. Overwrite(buf, bytes) = [j \in 1 .. SSS_MAX_SECRET_LEN |-> Overwrite(buf, bytes)[j]]
  BY <1>1 DEF Overwrite
<1> QED BY <1>2, <1>3, <1>4 DEF Buffer

LEMMA EntryFields ==
  ASSUME NEW e \in Entry
  PROVE  e.x \in Elem /\ e.bytes \in Seq(Elem)
BY DEF Entry

LEMMA ShareFields ==
  ASSUME NEW s \in Share
  PROVE  s.x \in Elem /\ s.len \in 0 .. SSS_MAX_SECRET_LEN /\ s.data \in Buffer
BY DEF Share, Buffer

LEMMA ShareBuilt ==
  ASSUME NEW x \in Elem, NEW len \in 0 .. SSS_MAX_SECRET_LEN, NEW data \in Buffer
  PROVE  [x |-> x, len |-> len, data |-> data] \in Share
BY DEF Share, Buffer

\* An entry after get_token: its bytes fit in a share.
TokenEntry == {e \in Entry : Len(e.bytes) <= SSS_MAX_SECRET_LEN}

LEMMA TokenFields ==
  ASSUME NEW e \in TokenEntry
  PROVE  e \in Entry /\ e.x \in Elem /\ e.bytes \in Seq(Elem) /\ Len(e.bytes) \in 0 .. SSS_MAX_SECRET_LEN
<1>1. e \in Entry /\ Len(e.bytes) <= SSS_MAX_SECRET_LEN
  BY DEF TokenEntry
<1> QED BY <1>1, EntryFields, LengthAssumption

LEMMA DigitsIs ==
  ASSUME NEW e \in Entry
  PROVE  /\ Digits(e) \in Int
         /\ Digits(e) = 2 * Len(e.bytes) \/ Digits(e) = 2 * Len(e.bytes) - 1
         /\ e.hex = "ok" => Digits(e) = 2 * Len(e.bytes)
<1>1. Len(e.bytes) \in Nat /\ e.hex \in {"ok", "odd", "digit"}
  BY EntryFields DEF Entry
<1>2. PICK k \in Nat : k = Len(e.bytes)
  BY <1>1
<1>3. CASE e.hex = "odd"
  <2>1. Digits(e) = 2 * k - 1
    BY <1>2, <1>3 DEF Digits
  <2> QED BY <1>2, <1>3, <2>1
<1>4. CASE e.hex # "odd"
  <2>1. Digits(e) = 2 * k - 0
    BY <1>2, <1>4 DEF Digits
  <2> QED BY <1>2, <1>4, <2>1
<1> QED BY <1>3, <1>4

\* An entry that has lost digits is an entry.
LEMMA KeptType ==
  ASSUME NEW e \in Entry, NEW n \in Nat, n < Digits(e)
  PROVE  DigitsKept(e, n) \in Entry /\ Len(DigitsKept(e, n).bytes) = (n + 1) \div 2
<1> DEFINE m == (n + 1) \div 2
<1>1. e.bytes \in Seq(Elem) /\ Len(e.bytes) \in Nat
  BY EntryFields
<1>2. m \in Nat /\ m <= Len(e.bytes)
  <2>1. PICK D \in Int : D = Digits(e) /\ (D = 2 * Len(e.bytes) \/ D = 2 * Len(e.bytes) - 1)
    BY DigitsIs
  <2>2. n + 1 <= 2 * Len(e.bytes)
    BY <1>1, <2>1
  <2> QED BY <1>1, <2>2
<1> HIDE DEF m
<1>3. \A i \in 1 .. m : e.bytes[i] \in Elem
  BY <1>1, <1>2
<1>4. SubSeq(e.bytes, 1, m) \in Seq(Elem) /\ Len(SubSeq(e.bytes, 1, m)) = m
  <2>1. m \in Int /\ 1 \in Int
    BY <1>2
  <2>2. /\ SubSeq(e.bytes, 1, m) \in Seq(Elem)
        /\ Len(SubSeq(e.bytes, 1, m)) = IF 1 <= m THEN m - 1 + 1 ELSE 0
    BY <1>3, <2>1, SubSeqProperties
  <2> QED BY <1>2, <2>2
<1>5. PICK bytes \in Seq(Elem) : bytes = SubSeq(e.bytes, 1, m)
  BY <1>4
<1>6. PICK hex \in {"ok", "odd"} : hex = IF n % 2 = 1 THEN "odd" ELSE "ok"
  OBVIOUS
<1>7. DigitsKept(e, n) = [e EXCEPT !.bytes = bytes, !.hex = hex]
  BY <1>5, <1>6 DEF DigitsKept, m
<1>8. [e EXCEPT !.bytes = bytes, !.hex = hex] \in Entry
      /\ [e EXCEPT !.bytes = bytes, !.hex = hex].bytes = bytes
  BY DEF Entry
<1> QED BY <1>4, <1>5, <1>7, <1>8 DEF m

LEMMA XCutType ==
  ASSUME NEW e \in Entry, NEW n
  PROVE  XCut(e, n) \in Entry
<1>1. e.x \in Elem
  BY EntryFields
<1>2. e.x \div 10 \in Elem /\ e.x \div 100 \in Elem /\ 0 \in Elem
  BY <1>1, Sizes DEF Elem
<1>3. PICK x \in Elem : x = IF n = 1 THEN e.x \div 10 ELSE IF n = 2 THEN e.x \div 100 ELSE 0
  BY <1>2
<1>4. XCut(e, n) = [e EXCEPT !.x = x]
  BY <1>3 DEF XCut
<1> QED BY <1>4 DEF Entry

LEMMA TokenType ==
  ASSUME NEW e \in Entry
  PROVE  /\ Token(e) \in TokenEntry
         /\ e.hex = "ok" /\ Len(e.bytes) <= SSS_MAX_SECRET_LEN => Token(e) = e
<1>1. e.bytes \in Seq(Elem) /\ Len(e.bytes) \in Nat /\ SSS_MAX_SECRET_LEN \in Nat
  BY EntryFields, LengthAssumption
<1>2. CASE Digits(e) <= 2 * SSS_MAX_SECRET_LEN
  <2>1. Token(e) = e
    BY <1>2 DEF Token
  <2>2. Len(e.bytes) <= SSS_MAX_SECRET_LEN
    BY <1>1, <1>2 DEF Digits
  <2> QED BY <2>1, <2>2 DEF TokenEntry
<1>3. CASE ~(Digits(e) <= 2 * SSS_MAX_SECRET_LEN)
  <2>1. Token(e) = DigitsKept(e, 2 * SSS_MAX_SECRET_LEN)
    BY <1>3 DEF Token
  <2>2. 2 * SSS_MAX_SECRET_LEN \in Nat /\ 2 * SSS_MAX_SECRET_LEN < Digits(e)
    BY <1>1, <1>3, DigitsIs
  <2>3. Token(e) \in Entry /\ Len(Token(e).bytes) = (2 * SSS_MAX_SECRET_LEN + 1) \div 2
    BY <2>1, <2>2, KeptType
  <2>4. Len(Token(e).bytes) <= SSS_MAX_SECRET_LEN
    BY <1>1, <2>3
  <2>5. ~(e.hex = "ok" /\ Len(e.bytes) <= SSS_MAX_SECRET_LEN)
    BY <1>1, <2>2, DigitsIs
  <2> QED BY <2>3, <2>4, <2>5 DEF TokenEntry
<1> QED BY <1>2, <1>3

\* What arrives of a query: nothing that is parsed, or one token for each entry;
\* and of a query that fits, every entry and the list.
LEMMA ArrivedType ==
  ASSUME NEW n \in 2 .. SSS_N, NEW entries \in [1 .. n -> Entry], NEW mode, NEW order
  PROVE  LET got == Arrived(entries, mode, order)
         IN  /\ got.entries = <<>> \/ got.entries \in [1 .. n -> TokenEntry]
             /\ Fits(entries, mode) => got.entries = [i \in 1 .. n |-> Token(entries[i])]
                                       /\ got.mode = mode
<1> DEFINE lost == Excess(QueryWidth(entries, mode), QUERY_ROOM)
           cut == lost - ModeWidth(mode)
           tail == Last(entries)
           Got(list, left) == [entries |-> [i \in DOMAIN list |-> Token(list[i])], mode |-> left]
           Instead(e) == [entries EXCEPT ![Len(entries)] = e]
           got == Arrived(entries, mode, order)
<1>1. n \in Nat /\ n >= 2 /\ DOMAIN entries = 1 .. n /\ Len(entries) = n
  BY PortalAssumption
<1>2. tail = entries[n] /\ tail \in Entry
  BY <1>1 DEF Last
<1>3. \A e \in Entry : Instead(e) \in [1 .. n -> Entry]
  BY <1>1
<1>4. ASSUME NEW list \in [1 .. n -> Entry], NEW left
      PROVE  Got(list, left).entries \in [1 .. n -> TokenEntry]
  BY TokenType
<1>5. got = IF lost <= ModeWidth(mode) THEN Got(entries, ModeLeft(mode, lost))
            ELSE IF order = "dx" /\ cut \in 1 .. XWidth(tail.x)
            THEN Got(Instead(XCut(tail, cut)), "plain")
            ELSE IF order = "xd" /\ cut \in 1 .. Digits(tail)
            THEN Got(Instead(DigitsKept(tail, Digits(tail) - cut)), "plain")
            ELSE Got(<<>>, "plain")
  BY DEF Arrived
<1>6. ASSUME NEW k \in 1 .. Digits(tail) PROVE DigitsKept(tail, Digits(tail) - k) \in Entry
  <2>1. Digits(tail) \in Int
    BY <1>2, EntryFields DEF Digits
  <2>2. Digits(tail) - k \in Nat /\ Digits(tail) - k < Digits(tail)
    BY <2>1
  <2> HIDE DEF tail
  <2> QED BY <1>2, <2>2, KeptType
<1>7. XCut(tail, cut) \in Entry
  BY <1>2, XCutType
<1>8. Got(<<>>, "plain").entries = <<>>
  OBVIOUS
<1>9. Fits(entries, mode) => lost = 0 /\ lost <= ModeWidth(mode) /\ ModeLeft(mode, lost) = mode
  <2>1. 0 <= ModeWidth(mode)
    BY PortalAssumption DEF ModeWidth
  <2>2. Fits(entries, mode) => lost = 0
    BY DEF Fits, Excess
  <2>3. ModeLeft(mode, 0) = mode
    BY DEF ModeLeft
  <2> HIDE DEF lost
  <2> QED BY <2>1, <2>2, <2>3
<1>10. ASSUME NEW left PROVE /\ Got(entries, left).entries = [i \in 1 .. n |-> Token(entries[i])]
                             /\ Got(entries, left).mode = left
  BY <1>1
<1>11. got.entries = <<>> \/ got.entries \in [1 .. n -> TokenEntry]
  <2> HIDE DEF got, Got, Instead, tail, cut, lost
  <2>1. CASE lost <= ModeWidth(mode)
    BY <1>4, <1>5, <2>1
  <2>2. CASE ~(lost <= ModeWidth(mode)) /\ order = "dx" /\ cut \in 1 .. XWidth(tail.x)
    BY <1>3, <1>4, <1>5, <1>7, <2>2
  <2>3. CASE /\ ~(lost <= ModeWidth(mode)) /\ ~(order = "dx" /\ cut \in 1 .. XWidth(tail.x))
             /\ order = "xd" /\ cut \in 1 .. Digits(tail)
    BY <1>3, <1>4, <1>5, <1>6, <2>3
  <2>4. CASE /\ ~(lost <= ModeWidth(mode)) /\ ~(order = "dx" /\ cut \in 1 .. XWidth(tail.x))
             /\ ~(order = "xd" /\ cut \in 1 .. Digits(tail))
    BY <1>5, <1>8, <2>4
  <2> QED BY <2>1, <2>2, <2>3, <2>4
<1>12. Fits(entries, mode) => got.entries = [i \in 1 .. n |-> Token(entries[i])] /\ got.mode = mode
  <2> HIDE DEF got, Got, Instead, tail, cut, lost
  <2> QED BY <1>5, <1>9, <1>10
<1> QED BY <1>11, <1>12 DEF got

\* One turn of the parser leaves a share, and if the entry is in order the
\* share of the entry.
LEMMA WriteType ==
  ASSUME NEW old \in Share, NEW e \in TokenEntry
  PROVE  LET new == WriteEntry(old, e)
             t   == e.bytes
         IN  /\ new \in Share
             /\ EntryOk(e) => /\ new.x = e.x /\ new.len = Len(t)
                              /\ \A j \in 1 .. Len(t) : new.data[j] = t[j]
<1> DEFINE t == e.bytes
           u == IF e.hex = "ok" THEN t ELSE Front(t)
           new == WriteEntry(old, e)
<1>1. t \in Seq(Elem) /\ Len(t) \in 0 .. SSS_MAX_SECRET_LEN
  BY TokenFields
<1>2. u \in Seq(Elem)
  <2>0. Len(t) \in Nat
    BY <1>1
  <2>1. \A i \in 1 .. Len(t) - 1 : t[i] \in Elem
    BY <1>1, <2>0
  <2>2. Front(t) \in Seq(Elem)
    <3>1. Len(t) - 1 \in Int /\ 1 \in Int
      BY <2>0
    <3> QED BY <2>1, <3>1, SubSeqProperties DEF Front
  <2> QED BY <1>1, <2>2
<1>3. /\ Overwrite(old.data, u) \in Buffer
      /\ \A j \in 1 .. SSS_MAX_SECRET_LEN :
           Overwrite(old.data, u)[j] = IF j <= Len(u) THEN u[j] ELSE old.data[j]
  <2>1. old.data \in Buffer
    BY ShareFields
  <2> HIDE DEF u
  <2> QED BY <1>2, <2>1, OverwriteType
<1> DEFINE whole == [x |-> e.x, len |-> Len(t), data |-> Overwrite(old.data, u)]
<1>4. whole \in Share
  <2>1. e.x \in Elem
    BY TokenFields
  <2> HIDE DEF t, u
  <2> QED BY <1>1, <1>3, <2>1, ShareBuilt
<1>5. [old EXCEPT !.x = e.x] \in Share
  <2>1. PICK x \in Elem : x = e.x
    BY TokenFields
  <2>2. [old EXCEPT !.x = x] \in Share
    BY DEF Share
  <2> QED BY <2>1, <2>2
<1>6. new = IF e.x = 0 THEN old
            ELSE IF e.hex = "odd" \/ e.bytes = <<>> THEN [old EXCEPT !.x = e.x] ELSE whole
  BY DEF WriteEntry
<1>7. new \in Share
  <2> HIDE DEF whole, new
  <2> QED BY <1>4, <1>5, <1>6
<1>8. ASSUME EntryOk(e)
      PROVE  new.x = e.x /\ new.len = Len(t) /\ \A j \in 1 .. Len(t) : new.data[j] = t[j]
  <2>1. new = whole /\ u = t
    BY <1>6, <1>8 DEF EntryOk
  <2>2. whole.x = e.x /\ whole.len = Len(t) /\ whole.data = Overwrite(old.data, u)
    OBVIOUS
  <2> HIDE DEF new, whole, u, t
  <2>3. \A j \in 1 .. Len(t) : j \in 1 .. SSS_MAX_SECRET_LEN /\ j <= Len(t)
    BY <1>1, LengthAssumption
  <2> QED BY <1>3, <2>1, <2>2, <2>3
<1> QED BY <1>7, <1>8

LEMMA ParseType ==
  ASSUME NEW old \in [1 .. SSS_N -> Share], NEW n \in 2 .. SSS_N, NEW entries \in [1 .. n -> TokenEntry]
  PROVE  LET parsed == ParseEntries(old, entries)
         IN  /\ parsed \in [1 .. SSS_N -> Share]
             /\ (\A i \in 1 .. n : EntryOk(entries[i])) =>
                  \A i \in 1 .. n :
                    LET t == entries[i].bytes
                    IN  /\ parsed[i].x = entries[i].x /\ parsed[i].len = Len(t)
                        /\ \A j \in 1 .. Len(t) : parsed[i].data[j] = t[j]
<1> DEFINE parsed == ParseEntries(old, entries)
<1>0. SSS_N \in Nat /\ n \in Nat /\ n <= SSS_N /\ Len(entries) = n
  BY PortalAssumption
<1>1. \A i \in 1 .. SSS_N :
        parsed[i] = IF i <= n /\ \A j \in 1 .. i - 1 : EntryOk(entries[j])
                    THEN WriteEntry(old[i], entries[i]) ELSE old[i]
  BY <1>0 DEF ParseEntries
<1>2. parsed = [i \in 1 .. SSS_N |-> parsed[i]]
  BY DEF ParseEntries
<1> HIDE DEF parsed
<1>3. ASSUME NEW i \in 1 .. SSS_N PROVE parsed[i] \in Share
  <2>1. CASE i <= n
    <3>1. i \in 1 .. n /\ old[i] \in Share /\ entries[i] \in TokenEntry
      BY <1>0, <2>1
    <3>2. WriteEntry(old[i], entries[i]) \in Share
      BY <3>1, WriteType
    <3> QED BY <1>1, <3>1, <3>2
  <2>2. CASE ~(i <= n)
    BY <1>1, <2>2
  <2> QED BY <2>1, <2>2
<1>4. ASSUME \A i \in 1 .. n : EntryOk(entries[i]), NEW i \in 1 .. n
      PROVE  LET t == entries[i].bytes
             IN  /\ parsed[i].x = entries[i].x /\ parsed[i].len = Len(t)
                 /\ \A j \in 1 .. Len(t) : parsed[i].data[j] = t[j]
  <2>1. i \in 1 .. SSS_N /\ i <= n /\ \A j \in 1 .. i - 1 : j \in 1 .. n
    BY <1>0
  <2>2. parsed[i] = WriteEntry(old[i], entries[i])
    BY <1>1, <1>4, <2>1
  <2>3. old[i] \in Share /\ entries[i] \in TokenEntry /\ EntryOk(entries[i])
    BY <1>4, <2>1
  <2> QED BY <2>2, <2>3, WriteType
<1> QED BY <1>2, <1>3, <1>4 DEF parsed

-----------------------------------------------------------------------------
(* Dealings. *)

Deal == [msg : Messages, mode : Mode, shares : [1 .. SSS_N -> Share]]

SplitOf(d) == ToSplit(Received(d.msg), DivideMode(d.msg, d.mode))

\* The shares of a dealing are those of one accepted call of sss_split.
DealBySplit(d) ==
  /\ SplitAccepts(Len(SplitOf(d)), SSS_N, SSS_K)
  /\ \E draws \in Draws(Len(SplitOf(d)), SSS_K) : d.shares = sss_split(SplitOf(d), draws, SSS_N)

LEMMA DealFields ==
  ASSUME NEW d \in Deal
  PROVE  d.msg \in Messages /\ d.msg \in Message /\ d.mode \in Mode
         /\ d.shares \in [1 .. SSS_N -> Share]
<1>1. d.msg \in Messages /\ d.mode \in Mode /\ d.shares \in [1 .. SSS_N -> Share]
  BY DEF Deal
<1>2. Messages \subseteq Message
  BY PortalAssumption DEF Message
<1> QED BY <1>1, <1>2

LEMMA TextIsBytes ==
  ASSUME NEW t \in Text
  PROVE  t \in Seq(Elem) /\ Len(t) \in Nat /\ \A i \in 1 .. Len(t) : t[i] \in Elem /\ t[i] # 0
BY DEF Text

LEMMA ToSplitType ==
  ASSUME NEW text \in Text, NEW mode
  PROVE  ToSplit(text, mode) \in Seq(Elem)
<1>1. text \in Seq(Elem)
  BY TextIsBytes
<1>2. text \in DOMAIN Phrases => Phrases[text] \in Seq(Elem)
  BY PortalAssumption
<1> QED BY <1>1, <1>2 DEF ToSplit

LEMMA Parameters ==
  /\ SSS_N \in Nat /\ SSS_K \in Nat /\ SSS_K >= 2 /\ SSS_K <= SSS_N
  /\ SSS_MAX_SECRET_LEN \in Nat /\ SSS_MAX_SECRET_LEN >= 1
  /\ JsonRoom \in Nat /\ JsonClosing \in Nat /\ SSS_MAX_SECRET_LEN + JsonClosing <= JsonRoom
  /\ SSS_MAX_SECRET_LEN <= JsonRoom
BY PortalAssumption, LengthAssumption

\* What sss_split makes of accepted bytes.
LEMMA SplitMakes ==
  ASSUME NEW bytes \in Seq(Elem), SplitAccepts(Len(bytes), SSS_N, SSS_K),
         NEW draws \in Draws(Len(bytes), SSS_K)
  PROVE  /\ Len(bytes) \in 1 .. SSS_MAX_SECRET_LEN
         /\ sss_split(bytes, draws, SSS_N) \in [1 .. SSS_N -> Share]
         /\ \A b \in 1 .. Len(bytes) : draws[b] \in [1 .. SSS_K - 1 -> Elem] /\ bytes[b] \in Elem
         /\ \A s \in 1 .. SSS_N :
              LET share == sss_split(bytes, draws, SSS_N)[s]
              IN  /\ s # 0 /\ share.x = s /\ share.len = Len(bytes)
                  /\ \A b \in 1 .. Len(bytes) :
                       share.data[b] = gf_poly_eval(Coefficients(bytes[b], draws[b]), s)
<1>1. Len(bytes) \in 1 .. SSS_MAX_SECRET_LEN
  BY DEF SplitAccepts
<1>2. ASSUME NEW s \in 1 .. SSS_N
      PROVE  LET share == sss_split(bytes, draws, SSS_N)[s]
             IN  /\ s # 0 /\ share \in Share /\ share.x = s /\ share.len = Len(bytes)
                 /\ \A b \in 1 .. Len(bytes) :
                      /\ bytes[b] \in Elem /\ draws[b] \in [1 .. SSS_K - 1 -> Elem]
                      /\ share.data[b] = gf_poly_eval(Coefficients(bytes[b], draws[b]), s)
  BY Parameters, SplitType
<1>3. sss_split(bytes, draws, SSS_N) = [s \in 1 .. SSS_N |-> sss_split(bytes, draws, SSS_N)[s]]
  BY DEF sss_split
<1>4. sss_split(bytes, draws, SSS_N) \in [1 .. SSS_N -> Share]
  BY <1>2, <1>3
<1>5. 1 \in 1 .. SSS_N
  BY Parameters
<1>6. \A b \in 1 .. Len(bytes) : draws[b] \in [1 .. SSS_K - 1 -> Elem] /\ bytes[b] \in Elem
  BY <1>2, <1>5
<1> QED BY <1>1, <1>2, <1>4, <1>6

LEMMA EntryOfShare ==
  ASSUME NEW s \in Share
  PROVE  /\ AsEntry(s) \in Entry /\ AsEntry(s).x = s.x /\ AsEntry(s).hex = "ok"
         /\ Len(AsEntry(s).bytes) = s.len
         /\ \A j \in 1 .. s.len : AsEntry(s).bytes[j] = s.data[j]
<1>1. s.x \in Elem /\ s.len \in 0 .. SSS_MAX_SECRET_LEN /\ s.data \in Buffer
  BY ShareFields
<1>2. s.len \in Nat /\ \A j \in 1 .. s.len : s.data[j] \in Elem
  BY <1>1, Parameters DEF Buffer
<1> DEFINE t == SubSeq(s.data, 1, s.len)
<1>3. /\ t \in Seq(Elem) /\ Len(t) = IF 1 <= s.len THEN s.len - 1 + 1 ELSE 0
      /\ \A j \in 1 .. s.len - 1 + 1 : t[j] = s.data[1 + j - 1]
  <2>1. s.len \in Int /\ 1 \in Int
    BY <1>2
  <2> QED BY <1>2, <2>1, SubSeqProperties
<1>4. Len(t) = s.len /\ \A j \in 1 .. s.len : t[j] = s.data[j]
  BY <1>2, <1>3
<1>5. AsEntry(s) = [x |-> s.x, bytes |-> t, hex |-> "ok"]
  BY DEF AsEntry
<1> HIDE DEF t
<1>6. [x |-> s.x, bytes |-> t, hex |-> "ok"] \in Entry
  BY <1>1, <1>3 DEF Entry
<1> QED BY <1>4, <1>5, <1>6

LEMMA Subarray ==
  ASSUME NEW parsed \in [1 .. SSS_N -> Share], NEW n \in 2 .. SSS_N
  PROVE  /\ SubSeq(parsed, 1, n) \in [1 .. n -> Share]
         /\ \A i \in 1 .. n : SubSeq(parsed, 1, n)[i] = parsed[i]
<1>1. n \in Nat /\ n >= 2 /\ \A i \in 1 .. n : parsed[i] \in Share
  BY Parameters
<1>2. /\ SubSeq(parsed, 1, n) \in Seq(Share)
      /\ Len(SubSeq(parsed, 1, n)) = IF 1 <= n THEN n - 1 + 1 ELSE 0
      /\ \A i \in 1 .. n - 1 + 1 : SubSeq(parsed, 1, n)[i] = parsed[1 + i - 1]
  <2>1. n \in Int /\ 1 \in Int
    BY <1>1
  <2> QED BY <1>1, <2>1, SubSeqProperties
<1>3. Len(SubSeq(parsed, 1, n)) = n /\ \A i \in 1 .. n : SubSeq(parsed, 1, n)[i] = parsed[i]
  BY <1>1, <1>2
<1>4. SubSeq(parsed, 1, n) \in [1 .. Len(SubSeq(parsed, 1, n)) -> Share]
  BY <1>2, LenProperties
<1> QED BY <1>3, <1>4

\* A quorum of one dealing, whatever the static array held before.
QuorumEntries(d, entries, n) ==
  /\ n >= SSS_K
  /\ ToSet(entries) \subseteq EntriesOf(d)
  /\ Cardinality(ToSet(entries)) = n

LEMMA QuorumFields ==
  ASSUME NEW d \in Deal, DealBySplit(d), NEW n \in 2 .. SSS_N, NEW entries \in [1 .. n -> Entry],
         QuorumEntries(d, entries, n)
  PROVE  /\ \A i \in 1 .. n :
              /\ EntryOk(entries[i]) /\ Token(entries[i]) = entries[i] /\ entries[i] \in TokenEntry
              /\ Len(entries[i].bytes) = Len(SplitOf(d))
              /\ \E s \in 1 .. SSS_N : entries[i] = AsEntry(d.shares[s])
         /\ \A i, j \in 1 .. n : entries[i].x = entries[j].x => i = j
<1>1. SplitOf(d) \in Seq(Elem)
  BY DealFields, ReceivedType, ToSplitType DEF SplitOf
<1>2. PICK draws \in Draws(Len(SplitOf(d)), SSS_K) : d.shares = sss_split(SplitOf(d), draws, SSS_N)
  BY DEF DealBySplit
<1>3. /\ Len(SplitOf(d)) \in 1 .. SSS_MAX_SECRET_LEN
      /\ d.shares \in [1 .. SSS_N -> Share]
      /\ \A s \in 1 .. SSS_N : s # 0 /\ d.shares[s].x = s /\ d.shares[s].len = Len(SplitOf(d))
  <2>1. PICK bytes \in Seq(Elem) : bytes = SplitOf(d)
    BY <1>1
  <2>2. SplitAccepts(Len(bytes), SSS_N, SSS_K) /\ draws \in Draws(Len(bytes), SSS_K)
        /\ d.shares = sss_split(bytes, draws, SSS_N)
    BY <1>2, <2>1 DEF DealBySplit
  <2>3. /\ Len(bytes) \in 1 .. SSS_MAX_SECRET_LEN
        /\ sss_split(bytes, draws, SSS_N) \in [1 .. SSS_N -> Share]
        /\ \A s \in 1 .. SSS_N :
             s # 0 /\ sss_split(bytes, draws, SSS_N)[s].x = s
             /\ sss_split(bytes, draws, SSS_N)[s].len = Len(bytes)
    BY <2>2, SplitMakes
  <2> QED BY <2>1, <2>2, <2>3
<1>4. n \in Nat /\ DOMAIN entries = 1 .. n
  BY Parameters
<1>5. \A i \in 1 .. n : \E s \in 1 .. SSS_N : entries[i] = AsEntry(d.shares[s])
  <2>1. \A i \in 1 .. n : entries[i] \in EntriesOf(d)
    BY <1>4 DEF QuorumEntries, ToSet
  <2> QED BY <2>1 DEF EntriesOf
<1>6. ASSUME NEW i \in 1 .. n
      PROVE  /\ EntryOk(entries[i]) /\ Token(entries[i]) = entries[i] /\ entries[i] \in TokenEntry
             /\ Len(entries[i].bytes) = Len(SplitOf(d))
  <2>1. PICK s \in 1 .. SSS_N : entries[i] = AsEntry(d.shares[s])
    BY <1>5
  <2>0. d.shares[s] \in Share /\ d.shares[s].x = s /\ s # 0 /\ d.shares[s].len = Len(SplitOf(d))
    BY <1>3
  <2>2. /\ entries[i].x = s /\ s # 0 /\ entries[i].hex = "ok"
        /\ Len(entries[i].bytes) = Len(SplitOf(d)) /\ entries[i] \in Entry
    BY <2>0, <2>1, EntryOfShare
  <2>3. Len(SplitOf(d)) \in Nat /\ Len(SplitOf(d)) # 0 /\ Len(SplitOf(d)) <= SSS_MAX_SECRET_LEN
    BY <1>3, Parameters
  <2>4. entries[i].bytes # <<>>
    <3> SUFFICES ASSUME entries[i].bytes = <<>> PROVE FALSE
      OBVIOUS
    <3>1. Len(entries[i].bytes) = 0
      OBVIOUS
    <3> QED BY <2>2, <2>3, <3>1
  <2>5. Token(entries[i]) = entries[i] /\ entries[i] \in TokenEntry
    BY <2>2, <2>3, TokenType DEF TokenEntry
  <2> QED BY <2>2, <2>4, <2>5 DEF EntryOk
<1>7. ASSUME NEW i \in 1 .. n, NEW j \in 1 .. n, entries[i].x = entries[j].x
      PROVE  i = j
  <2>1. PICK s \in 1 .. SSS_N : entries[i] = AsEntry(d.shares[s])
    BY <1>5
  <2>2. PICK t \in 1 .. SSS_N : entries[j] = AsEntry(d.shares[t])
    BY <1>5
  <2>0. d.shares[s] \in Share /\ d.shares[s].x = s /\ d.shares[t] \in Share /\ d.shares[t].x = t
    BY <1>3
  <2>3. entries[i].x = s /\ entries[j].x = t
    BY <2>0, <2>1, <2>2, EntryOfShare
  <2>4. entries[i] = entries[j]
    BY <1>7, <2>1, <2>2, <2>3
  <2>5. IsFiniteSet(1 .. n) /\ Cardinality(1 .. n) = n
    BY <1>4, FS_Interval
  <2>6. Cardinality({entries[k] : k \in 1 .. n}) = Cardinality(1 .. n)
    BY <1>4, <2>5 DEF QuorumEntries, ToSet
  <2> QED BY <1>4, <2>4, <2>5, <2>6, SameSizeSameElement
<1> QED BY <1>5, <1>6, <1>7

LEMMA QuorumCombined ==
  ASSUME NEW d \in Deal, DealBySplit(d), NEW n \in 2 .. SSS_N, NEW entries \in [1 .. n -> Entry],
         QuorumEntries(d, entries, n), NEW old \in [1 .. SSS_N -> Share]
  PROVE  LET parsed == ParseEntries(old, entries)
         IN  /\ \A i \in 1 .. n : EntryOk(entries[i])
             /\ entries = [i \in 1 .. n |-> Token(entries[i])]
             /\ Len(SplitOf(d)) \in 1 .. SSS_MAX_SECRET_LEN
             /\ parsed[1].len = Len(SplitOf(d))
             /\ sss_combine(SubSeq(parsed, 1, n), Len(SplitOf(d))) = SplitOf(d)
<1> DEFINE parsed == ParseEntries(old, entries)
           arr == SubSeq(parsed, 1, n)
           bytes == SplitOf(d)
<1>1. bytes \in Seq(Elem) /\ n \in Nat /\ n >= SSS_K
  BY DealFields, ReceivedType, ToSplitType, Parameters DEF SplitOf, QuorumEntries
<1>2. PICK draws \in Draws(Len(bytes), SSS_K) : d.shares = sss_split(bytes, draws, SSS_N)
  BY DEF DealBySplit
<1>3. /\ Len(bytes) \in 1 .. SSS_MAX_SECRET_LEN /\ d.shares \in [1 .. SSS_N -> Share]
      /\ \A b \in 1 .. Len(bytes) : draws[b] \in [1 .. SSS_K - 1 -> Elem] /\ bytes[b] \in Elem
      /\ \A s \in 1 .. SSS_N :
           /\ s # 0 /\ d.shares[s].x = s /\ d.shares[s].len = Len(bytes)
           /\ \A b \in 1 .. Len(bytes) :
                d.shares[s].data[b] = gf_poly_eval(Coefficients(bytes[b], draws[b]), s)
  BY <1>1, <1>2, SplitMakes DEF DealBySplit
<1> HIDE DEF bytes
<1>4. /\ \A i \in 1 .. n :
           /\ EntryOk(entries[i]) /\ Token(entries[i]) = entries[i] /\ entries[i] \in TokenEntry
           /\ Len(entries[i].bytes) = Len(bytes)
           /\ \E s \in 1 .. SSS_N : entries[i] = AsEntry(d.shares[s])
      /\ \A i, j \in 1 .. n : entries[i].x = entries[j].x => i = j
  <2>1. /\ \A i \in 1 .. n :
             /\ EntryOk(entries[i]) /\ Token(entries[i]) = entries[i] /\ entries[i] \in TokenEntry
             /\ Len(entries[i].bytes) = Len(SplitOf(d))
             /\ \E s \in 1 .. SSS_N : entries[i] = AsEntry(d.shares[s])
        /\ \A i, j \in 1 .. n : entries[i].x = entries[j].x => i = j
    BY QuorumFields, SMTT(60)
  <2> QED BY <2>1 DEF bytes
<1>5. /\ parsed \in [1 .. SSS_N -> Share]
      /\ \A i \in 1 .. n :
           /\ parsed[i].x = entries[i].x /\ parsed[i].len = Len(bytes)
           /\ \A j \in 1 .. Len(bytes) : parsed[i].data[j] = entries[i].bytes[j]
  <2>1. \A i \in 1 .. n : EntryOk(entries[i])
    BY <1>4
  <2>2. /\ parsed \in [1 .. SSS_N -> Share]
        /\ \A i \in 1 .. n :
             /\ parsed[i].x = entries[i].x /\ parsed[i].len = Len(entries[i].bytes)
             /\ \A j \in 1 .. Len(entries[i].bytes) :
                  parsed[i].data[j] = entries[i].bytes[j]
    <3>1. entries \in [1 .. n -> TokenEntry]
      BY <1>4
    <3> HIDE DEF parsed
    <3>2. parsed = ParseEntries(old, entries)
      BY DEF parsed
    <3> QED BY <2>1, <3>1, <3>2, ParseType
  <2> HIDE DEF parsed
  <2> QED BY <1>4, <2>2
<1> HIDE DEF parsed
<1>6. arr \in [1 .. n -> Share] /\ \A i \in 1 .. n : arr[i] = parsed[i]
  BY <1>5, Subarray
<1> HIDE DEF arr
<1>7. ASSUME NEW i \in 1 .. n
      PROVE  /\ arr[i].x # 0
             /\ \A b \in 1 .. Len(bytes) :
                  arr[i].data[b] = gf_poly_eval(Coefficients(bytes[b], draws[b]), arr[i].x)
  <2>1. PICK s \in 1 .. SSS_N : entries[i] = AsEntry(d.shares[s])
    BY <1>4
  <2>2. d.shares[s] \in Share /\ d.shares[s].x = s /\ s # 0 /\ d.shares[s].len = Len(bytes)
    BY <1>3
  <2>3. entries[i].x = s /\ \A b \in 1 .. Len(bytes) : entries[i].bytes[b] = d.shares[s].data[b]
    BY <2>1, <2>2, EntryOfShare, SMTT(30)
  <2>4. arr[i].x = s /\ \A b \in 1 .. Len(bytes) : arr[i].data[b] = entries[i].bytes[b]
    BY <1>5, <1>6, <2>3
  <2> QED BY <1>3, <2>2, <2>3, <2>4
<1>8. Quota(arr, n)
  <2>1. \A i \in 1 .. n : arr[i].x = entries[i].x
    BY <1>5, <1>6
  <2>2. \A i, j \in 1 .. n : arr[i].x = arr[j].x => i = j
    BY <1>4, <2>1
  <2> QED BY <1>7, <2>2 DEF Quota
<1>9. Len(bytes) \in Nat /\ Len(bytes) <= SSS_MAX_SECRET_LEN
  BY <1>3, Parameters
<1> DEFINE coeff == [b \in 1 .. Len(bytes) |-> Coefficients(bytes[b], draws[b])]
<1>10. ASSUME NEW b \in 1 .. Len(bytes)
       PROVE  /\ coeff[b] \in [1 .. SSS_K -> Elem] /\ coeff[b][1] = bytes[b]
              /\ OnPolynomial(arr, n, b, coeff[b])
  <2>1. coeff[b] = Coefficients(bytes[b], draws[b])
    OBVIOUS
  <2>2. coeff[b] \in [1 .. SSS_K -> Elem] /\ coeff[b][1] = bytes[b]
    BY <1>3, <2>1, Parameters, CoefficientsType
  <2> HIDE DEF coeff
  <2> QED BY <1>7, <2>1, <2>2 DEF OnPolynomial
<1> HIDE DEF coeff
<1>11. bytes \in [1 .. Len(bytes) -> Elem]
  BY <1>1
<1>12. PICK L \in Nat : L = Len(bytes) /\ L <= SSS_MAX_SECRET_LEN
  BY <1>9
<1>13. sss_combine(arr, Len(bytes)) = bytes
  <2>1. SSS_K \in Nat /\ SSS_K >= 1 /\ SSS_K <= n
    BY <1>1, Parameters
  <2>2. EveryByte(arr, n, L, SSS_K, coeff, bytes)
    BY <1>10, <1>12 DEF EveryByte
  <2> QED BY <1>1, <1>6, <1>8, <1>11, <1>12, <2>1, <2>2, CombineRecovers
<1>14. parsed[1].len = Len(bytes)
  <2>1. 1 \in 1 .. n
    BY <1>1
  <2> QED BY <1>5, <2>1
<1>15. entries = [i \in 1 .. n |-> Token(entries[i])]
  BY <1>4
<1> QED BY <1>3, <1>4, <1>13, <1>14, <1>15 DEF bytes, parsed, arr

-----------------------------------------------------------------------------
(* Answers. *)

\* The head of a text.
LEMMA HeadOf ==
  ASSUME NEW S, NEW t \in Seq(S), NEW n \in 0 .. Len(t)
  PROVE  /\ SubSeq(t, 1, n) \in Seq(S) /\ Len(SubSeq(t, 1, n)) = n
         /\ \A i \in 1 .. n : SubSeq(t, 1, n)[i] = t[i]
<1>1. n \in Int /\ 1 \in Int /\ n \in Nat /\ n <= Len(t) /\ \A i \in 1 .. n : t[i] \in S
  OBVIOUS
<1>2. /\ SubSeq(t, 1, n) \in Seq(S) /\ Len(SubSeq(t, 1, n)) = IF 1 <= n THEN n - 1 + 1 ELSE 0
      /\ \A i \in 1 .. n - 1 + 1 : SubSeq(t, 1, n)[i] = t[1 + i - 1]
  BY <1>1, SubSeqProperties
<1> QED BY <1>1, <1>2

LEMMA SameSeq ==
  ASSUME NEW S, NEW s \in Seq(S), NEW R, NEW t \in Seq(R), Len(s) = Len(t),
         \A i \in 1 .. Len(s) : s[i] = t[i]
  PROVE  s = t
<1>1. s = [i \in 1 .. Len(s) |-> s[i]] /\ t = [i \in 1 .. Len(t) |-> t[i]]
  OBVIOUS
<1> QED BY <1>1

\* The part of a text that goes into the reply.
Cut(t) == SubSeq(t, 1, Min({Len(t), JsonRoom}))

LEMMA CutType ==
  ASSUME NEW t \in Text
  PROVE  /\ Cut(t) \in Text /\ Len(Cut(t)) <= Len(t) /\ Len(t) \in Nat
         /\ \A n \in Nat : n <= Len(t) /\ n <= JsonRoom =>
              Len(Cut(t)) >= n /\ \A i \in 1 .. n : Cut(t)[i] = t[i]
         /\ Len(t) <= JsonRoom => Cut(t) = t
<1> DEFINE n == Min({Len(t), JsonRoom})
<1>1. t \in Seq(Elem \ {0}) /\ Len(t) \in Nat /\ JsonRoom \in Nat
  BY Parameters DEF Text
<1>2. n = IF Len(t) <= JsonRoom THEN Len(t) ELSE JsonRoom
  BY <1>1, SmallerOfTwo
<1>3. Cut(t) = SubSeq(t, 1, n)
  BY DEF Cut
<1> HIDE DEF n
<1>4. n \in 0 .. Len(t) /\ n \in Nat /\ n <= Len(t)
  BY <1>1, <1>2
<1>5. Cut(t) \in Text /\ Len(Cut(t)) = n /\ \A i \in 1 .. n : Cut(t)[i] = t[i]
  BY <1>1, <1>3, <1>4, HeadOf DEF Text
<1>6. Len(t) <= JsonRoom => Cut(t) = t
  BY <1>1, <1>2, <1>3, SubSeqFull
<1>7. ASSUME NEW m \in Nat, m <= Len(t), m <= JsonRoom
      PROVE  Len(Cut(t)) >= m /\ \A i \in 1 .. m : Cut(t)[i] = t[i]
  <2>1. m <= n
    BY <1>2, <1>7
  <2> QED BY <1>4, <1>5, <2>1
<1> QED BY <1>1, <1>4, <1>5, <1>6, <1>7

LEMMA JsonIs ==
  ASSUME NEW request, NEW t \in Text
  PROVE  LET r == JsonReply(request, t)
         IN  /\ r.request = request /\ r.status = "200" /\ r.text = Cut(t) /\ r.announced = Len(t)
             /\ r.closed = (Len(t) + JsonClosing <= JsonRoom)
BY DEF JsonReply, Cut

\* The text of a plain secret is what precedes the first 0 in the buffer, or
\* begins with the buffer.
LEMMA PlainText ==
  ASSUME NEW buf \in Buffer, NEW t \in PlainTexts(buf)
  PROVE  /\ t \in Text
         /\ \A n \in 0 .. SSS_MAX_SECRET_LEN :
              (\A i \in 1 .. n : buf[i] # 0) =>
                /\ Len(t) >= n /\ \A i \in 1 .. n : t[i] = buf[i]
                /\ (n < SSS_MAX_SECRET_LEN /\ buf[n + 1] = 0) => Len(t) = n
<1>1. /\ buf \in Seq(Elem) /\ Len(buf) = SSS_MAX_SECRET_LEN /\ DOMAIN buf = 1 .. SSS_MAX_SECRET_LEN
      /\ SSS_MAX_SECRET_LEN \in Nat
  BY BufferIsSeq
<1>2. CASE \E i \in DOMAIN buf : buf[i] = 0
  <2>1. t = CString(buf)
    BY <1>2 DEF PlainTexts
  <2>2. t \in Text
    BY <1>1, <2>1, CStringType
  <2>3. ASSUME NEW n \in 0 .. SSS_MAX_SECRET_LEN, \A i \in 1 .. n : buf[i] # 0
        PROVE  /\ Len(t) >= n /\ \A i \in 1 .. n : t[i] = buf[i]
               /\ (n < SSS_MAX_SECRET_LEN /\ buf[n + 1] = 0) => Len(t) = n
    <3>1. n \in 0 .. Len(buf)
      BY <1>1
    <3>2. /\ Len(t) >= n /\ \A i \in 1 .. n : t[i] = buf[i]
          /\ (n < Len(buf) => buf[n + 1] = 0) => t = SubSeq(buf, 1, n)
      BY <1>1, <2>1, <2>3, <3>1, CStringEnds
    <3>3. Len(SubSeq(buf, 1, n)) = n
      BY <1>1, <3>1, HeadOf
    <3> QED BY <3>2, <3>3
  <2> QED BY <2>2, <2>3
<1>3. CASE ~ \E i \in DOMAIN buf : buf[i] = 0
  <2>1. PICK more \in Text : t = buf \o more
    BY <1>3, PortalAssumption DEF PlainTexts
  <2>2. buf \in Seq(Elem \ {0})
    <3>1. \A i \in 1 .. SSS_MAX_SECRET_LEN : buf[i] \in Elem \ {0}
      BY <1>1, <1>3
    <3>2. buf \in [1 .. SSS_MAX_SECRET_LEN -> Elem \ {0}]
      BY <3>1 DEF Buffer
    <3> QED BY <1>1, <3>2
  <2>3. /\ t \in Text /\ Len(t) = SSS_MAX_SECRET_LEN + Len(more)
        /\ \A i \in 1 .. SSS_MAX_SECRET_LEN + Len(more) :
             t[i] = IF i <= SSS_MAX_SECRET_LEN THEN buf[i] ELSE more[i - SSS_MAX_SECRET_LEN]
    BY <1>1, <2>1, <2>2, ConcatProperties DEF Text
  <2>4. Len(more) \in Nat
    BY DEF Text
  <2>5. ASSUME NEW n \in 0 .. SSS_MAX_SECRET_LEN
        PROVE  /\ Len(t) >= n /\ \A i \in 1 .. n : t[i] = buf[i]
               /\ ~(n < SSS_MAX_SECRET_LEN /\ buf[n + 1] = 0)
    <3>1. Len(t) >= n
      BY <1>1, <2>3, <2>4
    <3>2. \A i \in 1 .. n : i \in 1 .. SSS_MAX_SECRET_LEN + Len(more) /\ i <= SSS_MAX_SECRET_LEN
      BY <1>1, <2>4
    <3>3. \A i \in 1 .. n : t[i] = buf[i]
      BY <2>3, <3>2
    <3>4. n < SSS_MAX_SECRET_LEN => n + 1 \in DOMAIN buf
      BY <1>1
    <3> QED BY <1>3, <3>1, <3>3, <3>4
  <2> QED BY <2>3, <2>5
<1> QED BY <1>2, <1>3

LEMMA AnswerType ==
  ASSUME NEW request, NEW buf \in Buffer, NEW len, Answer(request, buf, len)
  PROVE  /\ last'.request = request /\ last'.status \in {"200", "400", "500"}
         /\ last'.text \in Text /\ last'.announced \in Nat
<1>1. CASE \E t \in PlainTexts(buf) : last' = JsonReply(request, t)
  <2>1. PICK t \in PlainTexts(buf) : last' = JsonReply(request, t)
    BY <1>1
  <2>2. t \in Text
    BY PlainText
  <2> QED BY <2>1, <2>2, JsonIs, CutType
<1>2. CASE \E p \in PhrasesOf(SubSeq(buf, 1, len)) : last' = JsonReply(request, p)
  <2>1. PICK p \in Text : last' = JsonReply(request, p)
    BY <1>2, PortalAssumption DEF PhrasesOf
  <2> QED BY <2>1, JsonIs, CutType
<1>3. CASE last' = Bare(request, "500")
  BY <1>3 DEF Bare, Text
<1> QED BY <1>1, <1>2, <1>3 DEF Answer

LEMMA PrefixIs ==
  ASSUME NEW S, NEW s \in Seq(S), NEW t \in Seq(S), Len(s) <= Len(t),
         \A i \in 1 .. Len(s) : t[i] = s[i]
  PROVE  IsPrefix(s, t)
<1>1. Len(s) \in 0 .. Len(s) /\ Len(s) \in 0 .. Len(t) /\ Len(s) \in Nat
  OBVIOUS
<1>2. /\ SubSeq(s, 1, Len(s)) \in Seq(S) /\ Len(SubSeq(s, 1, Len(s))) = Len(s)
      /\ \A i \in 1 .. Len(s) : SubSeq(s, 1, Len(s))[i] = s[i]
  BY <1>1, HeadOf
<1>3. /\ SubSeq(t, 1, Len(s)) \in Seq(S) /\ Len(SubSeq(t, 1, Len(s))) = Len(s)
      /\ \A i \in 1 .. Len(s) : SubSeq(t, 1, Len(s))[i] = t[i]
  BY <1>1, HeadOf
<1>4. SubSeq(s, 1, Len(s)) = SubSeq(t, 1, Len(s))
  BY <1>2, <1>3, SameSeq
<1> QED BY <1>4 DEF IsPrefix

\* What a quorum's answer is to be.
Answered(d) ==
  /\ last.status = "200"
  /\ IF d.mode = "words" THEN last.text = Cut(Expected(d)) ELSE IsPrefix(Cut(Expected(d)), last.text)

ExactIfFresh(d, buf) ==
  LET typed == Typed(d.msg)
  IN  d.mode = "plain" /\ Len(typed) < SSS_MAX_SECRET_LEN /\ buf[Len(typed) + 1] = 0
      => last.text = typed /\ last.announced = Len(typed) /\ last.closed

\* A message that fits in msg_buf leaves room for its list in the query.
LEMMA ModeArrives ==
  ASSUME NEW msg \in Message, EncodedLength(msg) <= 2 * SSS_MAX_SECRET_LEN, NEW mode
  PROVE  DivideMode(msg, mode) = mode
<1>1. EncodedLength(msg) \in Nat
  <2>1. Len(msg) \in Nat
    BY DEF Message
  <2> QED BY <2>1, WidthStep DEF EncodedLength
<1>2. ModeWidth(mode) \in Nat /\ ModeWidth(mode) <= ListWidth
  BY PortalAssumption DEF ModeWidth
<1>3. EncodedLength(msg) + ModeWidth(mode) <= QUERY_ROOM + 1
  BY <1>1, <1>2, PortalAssumption, LengthAssumption
<1>4. Excess(EncodedLength(msg) + ModeWidth(mode), QUERY_ROOM + 1) = 0
  BY <1>3 DEF Excess
<1> QED BY <1>4 DEF DivideMode, ModeLeft

\* A buffer that begins with the bytes of the dealing gives that answer.
LEMMA AnswerOfQuorum ==
  ASSUME NEW d \in Deal, DealBySplit(d), EncodedLength(d.msg) <= 2 * SSS_MAX_SECRET_LEN,
         NEW buf \in Buffer, \A j \in 1 .. Len(SplitOf(d)) : buf[j] = SplitOf(d)[j],
         NEW request, request.got.mode = d.mode, Answer(request, buf, Len(SplitOf(d)))
  PROVE  Answered(d)' /\ ExactIfFresh(d, buf)'
<1> DEFINE typed == Typed(d.msg)
           bytes == SplitOf(d)
<1>1. /\ typed \in Text /\ bytes = ToSplit(typed, d.mode) /\ bytes \in Seq(Elem) /\ d.mode \in Mode
  <2>1. d.msg \in Message /\ d.mode \in Mode
    BY DealFields
  <2>2. Received(d.msg) = typed /\ typed \in Text
    BY <2>1, ReceivedType, TypedType
  <2>3. DivideMode(d.msg, d.mode) = d.mode
    BY <2>1, ModeArrives
  <2> QED BY <2>1, <2>2, <2>3, ToSplitType DEF SplitOf
<1>2. Len(bytes) \in 1 .. SSS_MAX_SECRET_LEN /\ SSS_MAX_SECRET_LEN \in Nat
      /\ JsonRoom \in Nat /\ SSS_MAX_SECRET_LEN <= JsonRoom
      /\ JsonClosing \in Nat /\ SSS_MAX_SECRET_LEN + JsonClosing <= JsonRoom
  BY Parameters DEF DealBySplit, SplitAccepts
<1>3. bytes # <<>>
  <2> SUFFICES ASSUME bytes = <<>> PROVE FALSE
    OBVIOUS
  <2>1. Len(bytes) = 0
    OBVIOUS
  <2> QED BY <1>2, <2>1
<1>4. \A j \in 1 .. Len(bytes) : buf[j] = bytes[j]
  OBVIOUS
<1>5. Answer(request, buf, Len(bytes))
  OBVIOUS
<1> HIDE DEF typed, bytes
<1>6. CASE d.mode = "plain"
  <2>1. bytes = typed
    BY <1>1, <1>6 DEF ToSplit
  <2>2. Len(typed) \in Nat /\ Len(typed) \in 0 .. SSS_MAX_SECRET_LEN /\ Len(typed) <= SSS_MAX_SECRET_LEN
        /\ Len(typed) <= JsonRoom
    BY <1>2, <2>1
  <2>3. \A j \in 1 .. Len(typed) : buf[j] = typed[j] /\ buf[j] # 0
    BY <1>1, <1>4, <2>1, TextIsBytes
  <2>4. PICK t \in PlainTexts(buf) : last' = JsonReply(request, t)
    BY <1>5, <1>6 DEF Answer
  <2>5. /\ t \in Text /\ Len(t) >= Len(typed) /\ \A i \in 1 .. Len(typed) : t[i] = buf[i]
        /\ (Len(typed) < SSS_MAX_SECRET_LEN /\ buf[Len(typed) + 1] = 0) => Len(t) = Len(typed)
    BY <2>2, <2>3, PlainText
  <2>6. last'.status = "200" /\ last'.text = Cut(t) /\ last'.announced = Len(t)
        /\ last'.closed = (Len(t) + JsonClosing <= JsonRoom)
    BY <2>4, <2>5, JsonIs
  <2>7. Cut(typed) = typed
    BY <1>1, <2>2, CutType
  <2>8. Cut(t) \in Text /\ Len(Cut(t)) >= Len(typed) /\ \A i \in 1 .. Len(typed) : Cut(t)[i] = t[i]
    <3>1. Len(t) \in Nat
      BY <2>5, CutType
    <3> QED BY <2>2, <2>5, <3>1, CutType
  <2>9. IsPrefix(typed, Cut(t))
    <3>1. typed \in Seq(Elem \ {0}) /\ Cut(t) \in Seq(Elem \ {0})
      BY <1>1, <2>8 DEF Text
    <3>2. \A i \in 1 .. Len(typed) : Cut(t)[i] = typed[i]
      BY <2>3, <2>5, <2>8
    <3>3. Len(typed) <= Len(Cut(t))
      BY <2>2, <2>8
    <3> QED BY <3>1, <3>2, <3>3, PrefixIs
  <2>10. Answered(d)'
    BY <1>6, <2>6, <2>7, <2>9 DEF Answered, Expected, typed
  <2>11. ASSUME Len(typed) < SSS_MAX_SECRET_LEN, buf[Len(typed) + 1] = 0
         PROVE  last'.text = typed /\ last'.announced = Len(typed) /\ last'.closed
    <3>1. Len(t) = Len(typed)
      BY <2>5, <2>11
    <3>2. t = typed
      <4>1. \A i \in 1 .. Len(typed) : t[i] = typed[i]
        BY <2>3, <2>5
      <4> QED BY <1>1, <2>5, <3>1, <4>1, SameSeq DEF Text
    <3>3. Len(typed) + JsonClosing <= JsonRoom
      BY <1>2, <2>2
    <3> QED BY <2>6, <2>7, <3>2, <3>3
  <2> QED BY <2>10, <2>11 DEF ExactIfFresh, typed
<1>7. CASE d.mode = "words"
  <2>1. typed \in DOMAIN Phrases /\ bytes = Phrases[typed]
    BY <1>1, <1>3, <1>7 DEF ToSplit
  <2>2. SubSeq(buf, 1, Len(bytes)) = bytes
    <3>1. buf \in Seq(Elem) /\ Len(bytes) \in 0 .. Len(buf)
      BY <1>2, BufferIsSeq
    <3>2. /\ SubSeq(buf, 1, Len(bytes)) \in Seq(Elem) /\ Len(SubSeq(buf, 1, Len(bytes))) = Len(bytes)
          /\ \A i \in 1 .. Len(bytes) : SubSeq(buf, 1, Len(bytes))[i] = buf[i]
      BY <3>1, HeadOf
    <3> QED BY <1>1, <1>4, <3>2, SameSeq
  <2>3. bytes \in DOMAIN Expanded /\ Len(Expanded[bytes]) < 2 * SSS_MAX_SECRET_LEN
    BY <1>2, <1>3, <2>1, PortalAssumption
  <2>4. PhrasesOf(bytes) = {Expanded[bytes]} /\ Expanded[bytes] \in Text
    BY <2>3, PortalAssumption DEF PhrasesOf
  <2>5. last' = JsonReply(request, Expanded[bytes])
    BY <1>5, <1>7, <2>2, <2>4 DEF Answer
  <2>6. last'.status = "200" /\ last'.text = Cut(Expanded[bytes])
    BY <2>4, <2>5, JsonIs
  <2>7. Expected(d) = Expanded[bytes]
    BY <1>7, <2>1 DEF Expected, typed
  <2> QED BY <1>7, <2>6, <2>7 DEF Answered, ExactIfFresh
<1>8. CASE d.mode = "unknown"
  BY <1>1, <1>3, <1>8 DEF ToSplit
<1> QED BY <1>1, <1>6, <1>7, <1>8 DEF Mode

\* Two arrays of m shares with the same abscissas and the same first len bytes.
Alike(s, t, m, len) ==
  /\ DOMAIN s = 1 .. m /\ s = [i \in 1 .. m |-> s[i]]
  /\ DOMAIN t = 1 .. m /\ t = [i \in 1 .. m |-> t[i]]
  /\ \A i \in 1 .. m : s[i].x = t[i].x /\ \A b \in 1 .. len : s[i].data[b] = t[i].data[b]

\* sss_combine reads nothing else, and each byte by itself.
LEMMA CombineReads ==
  ASSUME NEW m \in Nat, NEW s, NEW t, NEW short \in Nat, NEW len \in Nat,
         short <= len, Alike(s, t, m, short)
  PROVE  sss_combine(s, short) = [b \in 1 .. short |-> sss_combine(t, len)[b]]
<1> DEFINE xs == [i \in 1 .. m |-> s[i].x]
           xt == [i \in 1 .. m |-> t[i].x]
           F(basis, u, b) == FoldFunction(gf_add, 0, [i \in 1 .. m |-> gf_mul(basis[i], u[i].data[b])])
           bs == [i \in 1 .. m |-> lagrange_basis_0(xs, i)]
           bt == [i \in 1 .. m |-> lagrange_basis_0(xt, i)]
<1>0. /\ DOMAIN s = 1 .. m /\ s = [i \in 1 .. m |-> s[i]]
      /\ DOMAIN t = 1 .. m /\ t = [i \in 1 .. m |-> t[i]]
      /\ \A i \in 1 .. m : s[i].x = t[i].x /\ \A b \in 1 .. short : s[i].data[b] = t[i].data[b]
  BY DEF Alike
<1>1. Len(s) = m /\ Len(t) = m
  BY <1>0
<1>2. sss_combine(s, short) = [b \in 1 .. short |-> F(bs, s, b)]
  BY <1>1 DEF sss_combine
<1>3. sss_combine(t, len) = [b \in 1 .. len |-> F(bt, t, b)]
  BY <1>1 DEF sss_combine
<1>4. xs = xt
  BY <1>0
<1>5. bs = bt
  BY <1>4
<1>6. \A b \in 1 .. short : F(bs, s, b) = F(bt, t, b)
  <2> HIDE DEF bs, bt
  <2> SUFFICES ASSUME NEW b \in 1 .. short PROVE F(bs, s, b) = F(bt, t, b)
    OBVIOUS
  <2>1. [i \in 1 .. m |-> gf_mul(bs[i], s[i].data[b])] = [i \in 1 .. m |-> gf_mul(bt[i], t[i].data[b])]
    BY <1>0, <1>5
  <2> QED BY <2>1
<1>7. \A b \in 1 .. short : b \in 1 .. len
  OBVIOUS
<1> HIDE DEF F, bs, bt
<1> QED BY <1>2, <1>3, <1>6, <1>7

-----------------------------------------------------------------------------
(* The invariant. *)

DealsBySplit == \A i \in DOMAIN deals : DealBySplit(deals[i])

PortalInv ==
  TypeOK /\ DealsBySplit /\ QuorumAnswered /\ PlainExactWhenFresh /\ OwnEntriesCombined

LEMMA TypeParts ==
  ASSUME TypeOK
  PROVE  /\ deals \in Seq(Deal) /\ Len(deals) <= MaxDeals
         /\ shares \in [1 .. SSS_N -> Share] /\ secret \in Buffer
         /\ attempts \in 0 .. MaxAttempts
BY DEF TypeOK, Deal, Buffer

LEMMA TypeFromParts ==
  ASSUME deals' \in Seq(Deal), Len(deals') <= MaxDeals, shares' \in [1 .. SSS_N -> Share],
         secret' \in Buffer, attempts' \in 0 .. MaxAttempts,
         last'.status \in {"200", "400", "500"}, last'.text \in Text, last'.announced \in Nat
  PROVE  TypeOK'
BY DEF TypeOK, Deal, Buffer

LEMMA BareIs ==
  ASSUME NEW request, NEW status \in {"200", "400", "500"}
  PROVE  LET r == Bare(request, status)
         IN  r.request = request /\ r.status \in {"200", "400", "500"} /\ r.text \in Text
             /\ r.announced \in Nat
BY DEF Bare, Text

LEMMA RequestIs ==
  ASSUME NEW kind, NEW entries, NEW mode, NEW got
  PROVE  LET r == Request(kind, entries, mode, got)
         IN  r.kind = kind /\ r.entries = entries /\ r.mode = mode /\ r.got = got
BY DEF Request

\* A request that is not a reconstruction of some entries asks for nothing the
\* last three invariants speak of.
LEMMA NothingAsked ==
  ASSUME \/ last'.request.kind # "reconstruct"
         \/ last'.request.entries = <<>> /\ last'.request.got.entries = <<>>
  PROVE  QuorumAnswered' /\ PlainExactWhenFresh' /\ OwnEntriesCombined'
<1>1. ASSUME NEW d PROVE ~WholeQuorumOf(d)'
  <2>1. Len(<<>>) = 0 /\ ~(0 >= SSS_K)
    BY Parameters
  <2> QED BY <2>1 DEF QuorumOf, WholeQuorumOf
<1>2. QuorumAnswered'
  BY <1>1 DEF QuorumAnswered
<1>3. PlainExactWhenFresh'
  BY <1>1 DEF PlainExactWhenFresh
<1>4. OwnEntriesCombined'
  BY DEF OwnEntriesCombined
<1> QED BY <1>2, <1>3, <1>4

LEMMA InitPortal == Init => PortalInv
<1> SUFFICES ASSUME Init PROVE PortalInv
  OBVIOUS
<1>1. deals = <<>> /\ shares = [i \in 1 .. SSS_N |-> NoShare]
      /\ secret = [b \in 1 .. SSS_MAX_SECRET_LEN |-> 0] /\ attempts = 0
      /\ last = Bare(Request("none", <<>>, "plain", [entries |-> <<>>, mode |-> "plain"]), "400")
  BY DEF Init
<1>2. NoShare \in Share
  <2>1. 0 \in Elem /\ 0 \in 0 .. SSS_MAX_SECRET_LEN
    BY Sizes, Parameters
  <2>2. [b \in 1 .. SSS_MAX_SECRET_LEN |-> 0] \in Buffer
    BY <2>1 DEF Buffer
  <2> QED BY <2>1, <2>2, ShareBuilt DEF NoShare
<1>3. TypeOK
  <2>1. deals \in Seq(Deal) /\ Len(deals) <= MaxDeals
    BY <1>1, PortalAssumption
  <2>2. shares \in [1 .. SSS_N -> Share]
    BY <1>1, <1>2
  <2>3. secret \in Buffer
    BY <1>1, Sizes DEF Buffer
  <2>4. attempts \in 0 .. MaxAttempts
    BY <1>1, PortalAssumption
  <2>5. last.status \in {"200", "400", "500"} /\ last.text \in Text /\ last.announced \in Nat
    BY <1>1, BareIs
  <2> QED BY <2>1, <2>2, <2>3, <2>4, <2>5 DEF TypeOK, Deal, Buffer
<1>4. DealsBySplit /\ Dealt = {}
  <2>1. DOMAIN deals = {}
    BY <1>1
  <2> QED BY <2>1 DEF DealsBySplit, Dealt
<1>5. last.request.kind = "none"
  BY <1>1, BareIs, RequestIs
<1> QED BY <1>3, <1>4, <1>5 DEF PortalInv, QuorumAnswered, PlainExactWhenFresh, OwnEntriesCombined

LEMMA DivideKeeps ==
  ASSUME PortalInv, NEW msg \in Messages, NEW mode \in Mode, Divide(msg, mode)
  PROVE  PortalInv'
<1> DEFINE got == DivideMode(msg, mode)
           bytes == ToSplit(Received(msg), got)
           request == Request("divide", <<>>, mode, [entries |-> <<>>, mode |-> got])
<1>1. TypeOK /\ DealsBySplit
  BY DEF PortalInv
<1>2. shares' = shares /\ secret' = secret /\ attempts' = attempts
  BY DEF Divide
<1>3. request.kind = "divide"
  BY RequestIs
<1>4. CASE SplitAccepts(Len(bytes), SSS_N, SSS_K)
  <2>1. PICK draws \in [1 .. Len(bytes) -> [1 .. SSS_K - 1 -> RandomValues]] :
          deals' = Append(deals, [msg |-> msg, mode |-> mode,
                                  shares |-> sss_split(bytes, draws, SSS_N)])
    BY <1>4 DEF Divide
  <2>2. Len(deals) < MaxDeals
        /\ last' = Bare(request, "200")
    BY <1>4 DEF Divide
  <2>3. bytes \in Seq(Elem) /\ draws \in Draws(Len(bytes), SSS_K)
    <3>1. msg \in Message
      BY PortalAssumption DEF Message
    <3>2. bytes \in Seq(Elem)
      BY <3>1, ReceivedType, ToSplitType
    <3>3. draws \in [1 .. Len(bytes) -> [1 .. SSS_K - 1 -> Elem]]
      <4> HIDE DEF bytes
      <4>1. \A b \in 1 .. Len(bytes) : draws[b] \in [1 .. SSS_K - 1 -> Elem]
        BY PortalAssumption
      <4> QED BY <4>1
    <3> QED BY <3>2, <3>3 DEF Draws
  <2> HIDE DEF bytes
  <2>4. sss_split(bytes, draws, SSS_N) \in [1 .. SSS_N -> Share]
    BY <1>4, <2>3, SplitMakes
  <2> DEFINE new == [msg |-> msg, mode |-> mode, shares |-> sss_split(bytes, draws, SSS_N)]
  <2>5. new \in Deal /\ new.msg = msg /\ new.mode = mode /\ new.shares = sss_split(bytes, draws, SSS_N)
    BY <2>4 DEF Deal
  <2> HIDE DEF new
  <2>6. DealBySplit(new)
    <3>1. SplitOf(new) = bytes
      BY <2>5 DEF SplitOf, bytes
    <3> QED BY <1>4, <2>3, <2>5, <3>1 DEF DealBySplit
  <2>7. deals' = Append(deals, new)
    BY <2>1 DEF new
  <2>8. /\ deals \in Seq(Deal) /\ deals' \in Seq(Deal) /\ Len(deals') = Len(deals) + 1
        /\ Len(deals) \in Nat /\ DOMAIN deals = 1 .. Len(deals) /\ DOMAIN deals' = 1 .. Len(deals) + 1
        /\ \A i \in 1 .. Len(deals) : deals'[i] = deals[i]
        /\ deals'[Len(deals) + 1] = new
    <3>1. deals \in Seq(Deal)
      BY <1>1, TypeParts
    <3> QED BY <2>5, <2>7, <3>1
  <2>9. DealsBySplit'
    <3> SUFFICES ASSUME NEW i \in DOMAIN deals' PROVE DealBySplit(deals'[i])
      BY DEF DealsBySplit, DealBySplit, SplitOf
    <3>1. CASE i \in 1 .. Len(deals)
      BY <1>1, <2>8, <3>1 DEF DealsBySplit
    <3>2. CASE i \notin 1 .. Len(deals)
      <4>1. i = Len(deals) + 1
        BY <2>8, <3>2
      <4> QED BY <2>6, <2>8, <4>1
    <3> QED BY <3>1, <3>2
  <2>10. TypeOK'
    <3>1. last'.status \in {"200", "400", "500"} /\ last'.text \in Text /\ last'.announced \in Nat
      BY <2>2, BareIs
    <3>2. Len(deals') <= MaxDeals
      BY <2>2, <2>8, PortalAssumption
    <3>3. shares' \in [1 .. SSS_N -> Share] /\ secret' \in Buffer /\ attempts' \in 0 .. MaxAttempts
      BY <1>1, <1>2, TypeParts
    <3> QED BY <2>8, <3>1, <3>2, <3>3, TypeFromParts
  <2>11. last'.request.kind # "reconstruct"
    BY <1>3, <2>2, BareIs
  <2> QED BY <2>9, <2>10, <2>11, NothingAsked DEF PortalInv
<1>5. CASE ~SplitAccepts(Len(bytes), SSS_N, SSS_K)
  <2>1. deals' = deals /\ last' = Bare(request, "400")
    BY <1>5 DEF Divide
  <2>2. last'.request = request /\ last'.status \in {"200", "400", "500"} /\ last'.text \in Text
        /\ last'.announced \in Nat
    BY <2>1, BareIs
  <2>3. TypeOK'
    BY <1>1, <1>2, <2>1, <2>2, TypeParts, TypeFromParts
  <2>4. DealsBySplit'
    BY <1>1, <2>1 DEF DealsBySplit, DealBySplit, SplitOf
  <2>5. last'.request.kind # "reconstruct"
    BY <1>3, <2>2
  <2> QED BY <2>3, <2>4, <2>5, NothingAsked DEF PortalInv
<1> QED BY <1>4, <1>5

LEMMA MalformedKeeps ==
  ASSUME PortalInv, ReconstructMalformed
  PROVE  PortalInv'
<1>1. TypeOK /\ DealsBySplit
  BY DEF PortalInv
<1>2. last' = Bare(Request("reconstruct", <<>>, "plain", [entries |-> <<>>, mode |-> "plain"]), "400")
      /\ deals' = deals /\ shares' = shares /\ secret' = secret /\ attempts' = attempts
  BY DEF ReconstructMalformed
<1>3. last'.status \in {"200", "400", "500"} /\ last'.text \in Text /\ last'.announced \in Nat
      /\ last'.request.entries = <<>> /\ last'.request.got.entries = <<>>
  BY <1>2, BareIs, RequestIs
<1>4. TypeOK'
  BY <1>1, <1>2, <1>3, TypeParts, TypeFromParts
<1>5. DealsBySplit'
  BY <1>1, <1>2 DEF DealsBySplit, DealBySplit, SplitOf
<1> QED BY <1>3, <1>4, <1>5, NothingAsked DEF PortalInv

LEMMA IssuedEntries ==
  ASSUME TypeOK
  PROVE  Issued \cup Typos \subseteq Entry
<1>1. deals \in Seq(Deal)
  BY TypeParts
<1>2. ASSUME NEW i \in DOMAIN deals, NEW s \in 1 .. SSS_N PROVE AsEntry(deals[i].shares[s]) \in Entry
  <2>1. deals[i] \in Deal
    BY <1>1
  <2>2. deals[i].shares[s] \in Share
    BY <2>1, DealFields
  <2> QED BY <2>2, EntryOfShare
<1>3. Issued \subseteq Entry
  BY <1>2 DEF Issued, EntriesOf
<1>4. Typos \subseteq Entry
  BY PortalAssumption
<1> QED BY <1>3, <1>4

LEMMA QuorumAsked ==
  ASSUME NEW d, WholeQuorumOf(d)', NEW entries, last'.request.entries = entries,
         NEW n, Len(entries) = n
  PROVE  /\ QuorumEntries(d, entries, n) /\ last'.request.mode = d.mode
         /\ EncodedLength(d.msg) <= 2 * SSS_MAX_SECRET_LEN /\ Fits(entries, last'.request.mode)
BY DEF QuorumOf, QuorumEntries, WholeQuorumOf

\* A request of which nothing can be parsed, or in which some entry is faulty,
\* offers no quorum that arrived whole, and nothing to combine.
LEMMA RefusedAsksNothing ==
  ASSUME DealsBySplit', deals' \in Seq(Deal),
         NEW n \in 2 .. SSS_N, NEW entries \in [1 .. n -> Entry], Len(entries) = n,
         NEW mode, NEW order, NEW got, got = Arrived(entries, mode, order),
         last'.request.entries = entries, last'.request.mode = mode, last'.request.got = got,
         got.entries = <<>> \/ \E i \in DOMAIN got.entries : ~EntryOk(got.entries[i])
  PROVE  QuorumAnswered' /\ PlainExactWhenFresh' /\ OwnEntriesCombined'
<1>1. ASSUME NEW d \in Dealt' PROVE ~WholeQuorumOf(d)'
  <2>1. d \in Deal /\ DealBySplit(d)
    <3>1. PICK j \in DOMAIN deals' : d = deals'[j]
      BY DEF Dealt
    <3>2. d \in Deal
      BY <3>1
    <3>3. DealBySplit(d)
      BY <3>1 DEF DealsBySplit, DealBySplit, SplitOf
    <3> QED BY <3>2, <3>3
  <2> SUFFICES ASSUME WholeQuorumOf(d)' PROVE FALSE
    OBVIOUS
  <2>2. QuorumEntries(d, entries, n) /\ Fits(entries, mode)
    BY QuorumAsked
  <2>3. got.entries = [i \in 1 .. n |-> Token(entries[i])]
    BY <2>2, ArrivedType
  <2>4. \A i \in 1 .. n : EntryOk(entries[i]) /\ Token(entries[i]) = entries[i]
    BY <2>1, <2>2, QuorumFields
  <2>5. n \in Nat /\ 1 \in 1 .. n
    BY Parameters
  <2>6. DOMAIN got.entries = 1 .. n /\ \A i \in 1 .. n : EntryOk(got.entries[i])
    BY <2>3, <2>4
  <2>7. got.entries # <<>>
    <3>1. DOMAIN <<>> = {}
      OBVIOUS
    <3> QED BY <2>5, <2>6, <3>1
  <2> QED BY <2>6, <2>7
<1>2. QuorumAnswered'
  BY <1>1 DEF QuorumAnswered
<1>3. PlainExactWhenFresh'
  BY <1>1 DEF PlainExactWhenFresh
<1>4. OwnEntriesCombined'
  BY DEF OwnEntriesCombined
<1> QED BY <1>2, <1>3, <1>4

LEMMA ParseArrived ==
  ASSUME NEW old \in [1 .. SSS_N -> Share], NEW n \in 2 .. SSS_N, NEW entries,
         entries = <<>> \/ entries \in [1 .. n -> TokenEntry]
  PROVE  ParseEntries(old, entries) \in [1 .. SSS_N -> Share]
<1>1. CASE entries = <<>>
  <2>1. \A i \in 1 .. SSS_N : ~(i <= Len(entries))
    BY <1>1, Parameters
  <2>2. ParseEntries(old, entries) = [i \in 1 .. SSS_N |-> old[i]]
    BY <2>1 DEF ParseEntries
  <2> QED BY <2>2
<1>2. CASE entries \in [1 .. n -> TokenEntry]
  BY <1>2, ParseType
<1> QED BY <1>1, <1>2

LEMMA ReconstructKeeps ==
  ASSUME PortalInv, NEW n \in 2 .. SSS_N, NEW entries \in [1 .. n -> Entry], NEW mode \in Mode,
         NEW order, Len(entries) = n, Reconstruct(entries, mode, order)
  PROVE  PortalInv'
<1> DEFINE got == Arrived(entries, mode, order)
           came == got.entries
           request == Request("reconstruct", entries, mode, got)
           parsed == ParseEntries(shares, came)
           len == parsed[1].len
           array == SubSeq(parsed, 1, n)
<1>1. /\ TypeOK /\ DealsBySplit /\ deals \in Seq(Deal) /\ Len(deals) <= MaxDeals
      /\ shares \in [1 .. SSS_N -> Share] /\ secret \in Buffer /\ attempts \in 0 .. MaxAttempts
  BY TypeParts DEF PortalInv
<1>2. attempts < MaxAttempts /\ attempts' = attempts + 1 /\ shares' = parsed /\ deals' = deals
  BY DEF Reconstruct
<1>3. /\ request.kind = "reconstruct" /\ request.entries = entries /\ request.mode = mode
      /\ request.got = got
  BY RequestIs
<1>0. came = <<>> \/ came \in [1 .. n -> TokenEntry]
  BY ArrivedType
<1>4. parsed \in [1 .. SSS_N -> Share]
  BY <1>0, <1>1, ParseArrived
<1>5. /\ attempts' \in 0 .. MaxAttempts /\ deals' \in Seq(Deal) /\ Len(deals') <= MaxDeals
      /\ shares' \in [1 .. SSS_N -> Share]
  <2>1. MaxAttempts \in Nat
    BY PortalAssumption
  <2> QED BY <1>1, <1>2, <1>4, <2>1
<1>6. DealsBySplit' /\ Dealt' = Dealt
  BY <1>1, <1>2 DEF DealsBySplit, DealBySplit, SplitOf, Dealt
<1>7. n \in Nat /\ 1 \in 1 .. n /\ n >= 2 /\ DOMAIN entries = 1 .. n
  BY Parameters
<1>8. CASE came = <<>> \/ \E i \in DOMAIN came : ~EntryOk(came[i])
  <2>2. last' = Bare(request, "400") /\ secret' = secret
    BY <1>8 DEF Reconstruct
  <2>3. last'.request = request /\ last'.status \in {"200", "400", "500"} /\ last'.text \in Text
        /\ last'.announced \in Nat
    BY <2>2, BareIs
  <2>4. last'.request.entries = entries /\ last'.request.mode = mode /\ last'.request.got = got
    BY <1>3, <2>3
  <2>5. TypeOK'
    <3>1. secret' \in Buffer
      BY <1>1, <2>2
    <3> QED BY <1>5, <2>3, <3>1, TypeFromParts
  <2>6. QuorumAnswered' /\ PlainExactWhenFresh' /\ OwnEntriesCombined'
    <3>1. PICK g : g = got
      OBVIOUS
    <3>2. g.entries = <<>> \/ \E i \in DOMAIN g.entries : ~EntryOk(g.entries[i])
      BY <1>8, <3>1
    <3>3. last'.request.got = g /\ g = Arrived(entries, mode, order)
      BY <2>4, <3>1
    <3> HIDE DEF got
    <3> QED BY <1>5, <1>6, <2>4, <3>2, <3>3, RefusedAsksNothing
  <2> QED BY <1>6, <2>5, <2>6 DEF PortalInv
<1>9. CASE ~(came = <<>> \/ \E i \in DOMAIN came : ~EntryOk(came[i]))
  <2>0. came \in [1 .. n -> TokenEntry] /\ DOMAIN came = 1 .. n
    BY <1>0, <1>9
  <2>1. \A i \in 1 .. n : EntryOk(came[i])
    BY <1>9, <2>0
  <2>2. \A i \in 1 .. n :
           /\ came[i].bytes \in Seq(Elem)
           /\ Len(came[i].bytes) \in 1 .. SSS_MAX_SECRET_LEN
           /\ parsed[i].x = came[i].x /\ parsed[i].len = Len(came[i].bytes)
           /\ \A j \in 1 .. Len(came[i].bytes) : parsed[i].data[j] = came[i].bytes[j]
    <3> HIDE DEF got
    <3> SUFFICES ASSUME NEW i \in 1 .. n
                 PROVE  /\ came[i].bytes \in Seq(Elem)
                        /\ Len(came[i].bytes) \in 1 .. SSS_MAX_SECRET_LEN
                        /\ parsed[i].x = came[i].x /\ parsed[i].len = Len(came[i].bytes)
                        /\ \A j \in 1 .. Len(came[i].bytes) : parsed[i].data[j] = came[i].bytes[j]
      OBVIOUS
    <3>1. came[i] \in TokenEntry /\ came[i].bytes # <<>>
      BY <2>0, <2>1 DEF EntryOk
    <3>2. came[i].bytes \in Seq(Elem) /\ Len(came[i].bytes) \in 0 .. SSS_MAX_SECRET_LEN
      BY <3>1, TokenFields
    <3>3. Len(came[i].bytes) \in 1 .. SSS_MAX_SECRET_LEN
      BY <3>1, <3>2, Parameters
    <3>4. /\ parsed[i].x = came[i].x /\ parsed[i].len = Len(came[i].bytes)
          /\ \A j \in 1 .. Len(came[i].bytes) : parsed[i].data[j] = came[i].bytes[j]
      <4>1. PICK c \in [1 .. n -> TokenEntry] : c = came
        BY <2>0
      <4>2. \A k \in 1 .. n : EntryOk(c[k])
        BY <2>1, <4>1
      <4>3. parsed = ParseEntries(shares, c)
        BY <4>1
      <4> HIDE DEF came, parsed
      <4>4. /\ parsed[i].x = c[i].x /\ parsed[i].len = Len(c[i].bytes)
            /\ \A j \in 1 .. Len(c[i].bytes) : parsed[i].data[j] = c[i].bytes[j]
        BY <1>1, <4>2, <4>3, ParseType
      <4> QED BY <4>1, <4>4
    <3> QED BY <3>2, <3>3, <3>4
  <2> HIDE DEF parsed, got
  <2>3. len \in 1 .. SSS_MAX_SECRET_LEN /\ len = Len(came[1].bytes)
    BY <1>7, <2>2
  <2>4. CombineAccepts(n, len)
    BY <1>7, <2>3 DEF CombineAccepts
  <2>5. secret' = Overwrite(secret, sss_combine(array, len)) /\ Answer(request, secret', len)
    BY <1>9, <2>4 DEF Reconstruct, parsed, got
  <2>6. array \in [1 .. n -> Share] /\ \A i \in 1 .. n : array[i] = parsed[i]
    BY <1>4, Subarray
  <2> DEFINE new == sss_combine(array, len)
  <2>7. new \in Seq(Elem) /\ Len(new) = len
    <3>1. len \in Nat /\ len <= SSS_MAX_SECRET_LEN
      BY <2>3, Parameters
    <3>2. new \in [1 .. len -> Elem]
      BY <1>7, <2>6, <3>1, CombineType
    <3> HIDE DEF new, len
    <3> QED BY <3>1, <3>2, LenProperties
  <2> HIDE DEF new
  <2>8. /\ secret' \in Buffer
        /\ \A j \in 1 .. SSS_MAX_SECRET_LEN : secret'[j] = IF j <= Len(new) THEN new[j] ELSE secret[j]
    BY <1>1, <2>5, <2>7, OverwriteType DEF new
  <2>9. PICK buf \in Buffer : buf = secret'
    BY <2>8
  <2>10. \A j \in 1 .. len : buf[j] = new[j]
    BY <2>3, <2>7, <2>8, <2>9, Parameters
  <2>11. Answer(request, buf, len)
    BY <2>5, <2>9
  <2>12. last'.request = request /\ last'.status \in {"200", "400", "500"}
         /\ last'.text \in Text /\ last'.announced \in Nat
    BY <2>11, AnswerType
  <2>13. TypeOK'
    BY <1>5, <2>8, <2>12, TypeFromParts
  <2>14. ASSUME NEW d \in Dealt', WholeQuorumOf(d)'
         PROVE  Answered(d)' /\ ExactIfFresh(d, buf)'
    <3>1. d \in Deal /\ DealBySplit(d)
      <4>1. PICK i \in DOMAIN deals : d = deals[i]
        BY <1>6, <2>14 DEF Dealt
      <4>2. d \in Deal
        BY <1>1, <4>1
      <4> QED BY <1>1, <4>1, <4>2 DEF DealsBySplit
    <3>2. /\ QuorumEntries(d, entries, n) /\ mode = d.mode
          /\ EncodedLength(d.msg) <= 2 * SSS_MAX_SECRET_LEN /\ Fits(entries, mode)
      BY <1>3, <2>12, <2>14, QuorumAsked
    <3>3. got.mode = mode /\ came = [i \in 1 .. n |-> Token(entries[i])]
      BY <3>2, ArrivedType DEF got
    <3>4. /\ [i \in 1 .. n |-> Token(entries[i])] = entries
          /\ ParseEntries(shares, entries)[1].len = Len(SplitOf(d))
          /\ sss_combine(SubSeq(ParseEntries(shares, entries), 1, n), Len(SplitOf(d))) = SplitOf(d)
      BY <1>1, <3>1, <3>2, QuorumCombined
    <3>5. len = Len(SplitOf(d)) /\ new = SplitOf(d)
      BY <3>3, <3>4 DEF new, parsed
    <3>6. \A j \in 1 .. Len(SplitOf(d)) : buf[j] = SplitOf(d)[j]
      BY <2>10, <3>5
    <3>7. Answer(request, buf, Len(SplitOf(d))) /\ request.got.mode = d.mode
      BY <1>3, <2>11, <3>2, <3>3, <3>5
    <3> HIDE DEF request
    <3> QED BY <3>1, <3>2, <3>6, <3>7, AnswerOfQuorum
  <2>15. QuorumAnswered'
    BY <2>14 DEF QuorumAnswered, Answered, Expected, Cut
  <2>16. PlainExactWhenFresh'
    BY <2>9, <2>14 DEF PlainExactWhenFresh, ExactIfFresh
  <2>17. OwnEntriesCombined'
    <3> DEFINE lengths == {Len(came[i].bytes) : i \in DOMAIN came}
               short == Min(lengths)
               own == [i \in DOMAIN came |->
                         [x |-> came[i].x, len |-> short, data |-> came[i].bytes]]
    <3>1. SUFFICES SubSeq(buf, 1, short) = sss_combine(own, short)
      <4>1. last'.request.got.entries = came
        BY <1>3, <2>12
      <4> HIDE DEF came
      <4> QED BY <2>9, <4>1 DEF OwnEntriesCombined
    <3>2. lengths \subseteq Nat /\ lengths # {}
      <4>1. \A i \in 1 .. n : Len(came[i].bytes) \in Nat
        BY <2>2, Parameters
      <4> HIDE DEF came
      <4> QED BY <1>7, <2>0, <4>1
    <3> HIDE DEF came
    <3>3. short \in lengths /\ \A k \in lengths : short <= k
      BY <3>2, LeastIsMin
    <3>4. short \in Nat /\ short <= len /\ len \in Nat
          /\ \A i \in 1 .. n : Len(came[i].bytes) \in Nat /\ short <= Len(came[i].bytes)
      <4>1. \A i \in 1 .. n : Len(came[i].bytes) \in lengths
        BY <2>0
      <4> HIDE DEF short, lengths, len
      <4> QED BY <1>7, <2>3, <3>2, <3>3, <4>1
    <3> HIDE DEF short, lengths
    <3>5. DOMAIN own = 1 .. n /\ own = [i \in 1 .. n |-> own[i]]
      BY <2>0
    <3>6. DOMAIN array = 1 .. n /\ array = [i \in 1 .. n |-> array[i]]
      BY <2>6
    <3>7. \A i \in 1 .. n : own[i].x = array[i].x /\ \A b \in 1 .. short : own[i].data[b] = array[i].data[b]
      <4> HIDE DEF array, len
      <4> SUFFICES ASSUME NEW i \in 1 .. n
                   PROVE  own[i].x = array[i].x /\ \A b \in 1 .. short : own[i].data[b] = array[i].data[b]
        OBVIOUS
      <4>1. own[i].x = came[i].x /\ own[i].data = came[i].bytes
        BY <2>0
      <4>2. array[i] = parsed[i] /\ \A b \in 1 .. short : b \in 1 .. Len(came[i].bytes)
        BY <2>6, <3>4
      <4> HIDE DEF own
      <4> QED BY <2>2, <4>1, <4>2
    <3>8. sss_combine(own, short) = [b \in 1 .. short |-> new[b]]
      <4> HIDE DEF own, array, len
      <4>0. Alike(own, array, n, short)
        BY <3>5, <3>6, <3>7 DEF Alike
      <4>1. sss_combine(own, short) = [b \in 1 .. short |-> sss_combine(array, len)[b]]
        BY <1>7, <3>4, <4>0, CombineReads
      <4> QED BY <4>1 DEF new
    <3>9. SubSeq(buf, 1, short) = [b \in 1 .. short |-> new[b]]
      <4> HIDE DEF len
      <4>1. buf \in Seq(Elem) /\ short \in 0 .. Len(buf)
        BY <2>3, <2>9, <3>4, BufferIsSeq, Parameters
      <4>2. /\ SubSeq(buf, 1, short) \in Seq(Elem) /\ Len(SubSeq(buf, 1, short)) = short
            /\ \A j \in 1 .. short : SubSeq(buf, 1, short)[j] = buf[j]
        BY <4>1, HeadOf
      <4>3. SubSeq(buf, 1, short) = [b \in 1 .. short |-> SubSeq(buf, 1, short)[b]]
        BY <4>2
      <4>4. \A b \in 1 .. short : b \in 1 .. len
        BY <3>4
      <4> QED BY <2>10, <4>2, <4>3, <4>4
    <3> QED BY <3>8, <3>9
  <2> QED BY <1>6, <2>13, <2>15, <2>16, <2>17 DEF PortalInv
<1> QED BY <1>8, <1>9

LEMMA PortalStep == PortalInv /\ [Next]_vars => PortalInv'
<1> SUFFICES ASSUME PortalInv, [Next]_vars PROVE PortalInv'
  OBVIOUS
<1>1. ASSUME NEW msg \in Messages, NEW mode \in Mode, Divide(msg, mode) PROVE PortalInv'
  BY <1>1, DivideKeeps
<1>2. CASE ReconstructMalformed
  BY <1>2, MalformedKeeps
<1>3. ASSUME NEW entries \in EntryLists, NEW mode \in {"plain", "words"},
             NEW order \in {"dx", "xd"}, Reconstruct(entries, mode, order)
      PROVE  PortalInv'
  <2>0. Issued \subseteq Entry /\ Typos \subseteq Entry
    BY IssuedEntries, PortalAssumption DEF PortalInv
  <2>1. PICK n \in Nat : entries \in [1 .. n -> Entry]
    <3>1. CASE \E k \in 2 .. MaxEntries[Len(deals)] : entries \in [1 .. k -> Issued]
      BY <2>0, <3>1
    <3>2. CASE \E e \in [1 .. 2 -> Issued], i \in 1 .. 2, typo \in Typos : entries = [e EXCEPT ![i] = typo]
      <4>1. PICK e \in [1 .. 2 -> Issued], i \in 1 .. 2, typo \in Typos : entries = [e EXCEPT ![i] = typo]
        BY <3>2
      <4>2. entries \in [1 .. 2 -> Entry]
        BY <2>0, <4>1
      <4> QED BY <4>2
    <3> QED BY <1>3, <3>1, <3>2 DEF EntryLists
  <2>2. Len(entries) = n
    BY <2>1
  <2>3. n \in 2 .. SSS_N
    BY <1>3, <2>2 DEF Reconstruct
  <2>4. mode \in Mode
    BY DEF Mode
  <2> QED BY <1>3, <2>1, <2>2, <2>3, <2>4, ReconstructKeeps
<1>4. CASE UNCHANGED vars
  <2>1. /\ deals' = deals /\ shares' = shares /\ secret' = secret /\ attempts' = attempts
        /\ last' = last
    BY <1>4 DEF vars
  <2>2. TypeOK'
    BY <2>1 DEF PortalInv, TypeOK
  <2>3. DealsBySplit'
    BY <2>1 DEF PortalInv, DealsBySplit, DealBySplit, SplitOf
  <2>4. Dealt' = Dealt
    BY <2>1 DEF Dealt
  <2>5. ASSUME NEW d PROVE WholeQuorumOf(d)' <=> WholeQuorumOf(d)
    BY <2>1 DEF QuorumOf, WholeQuorumOf
  <2>6. QuorumAnswered'
    BY <2>1, <2>4, <2>5 DEF PortalInv, QuorumAnswered
  <2>7. PlainExactWhenFresh'
    BY <2>1, <2>4, <2>5 DEF PortalInv, PlainExactWhenFresh
  <2>8. OwnEntriesCombined'
    BY <2>1 DEF PortalInv, OwnEntriesCombined
  <2> QED BY <2>2, <2>3, <2>6, <2>7, <2>8 DEF PortalInv
<1>5. CASE \E entries \in EntryLists, mode \in {"plain", "words"} :
               \E order \in IF Fits(entries, mode) THEN {"dx"} ELSE Orders :
                 Reconstruct(entries, mode, order)
  <2>1. PICK entries \in EntryLists, mode \in {"plain", "words"} :
          \E order \in {"dx", "xd"} : Reconstruct(entries, mode, order)
    BY <1>5, PortalAssumption
  <2> QED BY <2>1, <1>3
<1> QED BY <1>1, <1>2, <1>4, <1>5 DEF Next

LEMMA PortalInvariant == Spec => []PortalInv
<1>1. Init => PortalInv
  BY InitPortal
<1>2. PortalInv /\ [Next]_vars => PortalInv'
  BY PortalStep
<1> QED BY <1>1, <1>2, PTL DEF Spec

-----------------------------------------------------------------------------
(* The theorems. *)

\* Whatever the requests and in whatever order, the static buffers hold shares
\* and bytes, a share's length stays within its buffer, and every reply is a
\* status and a text that a C string can hold.
THEOREM TypeCorrect == Spec => []TypeOK
<1>1. PortalInv => TypeOK
  BY DEF PortalInv
<1> QED BY <1>1, PortalInvariant, PTL

\* SSS_K or more of a dealing's shares, each once and as they were shown, in a
\* query that fits, are answered with 200 and the phrase, or with a text that
\* begins with the secret; nothing that any earlier request left in the static
\* buffers of handler_reconstruct can change that.
THEOREM QuorumIsAnswered == Spec => []QuorumAnswered
<1>1. PortalInv => QuorumAnswered
  BY DEF PortalInv
<1> QED BY <1>1, PortalInvariant, PTL

\* A quorum for a plain secret, in a query that fits, is answered exactly and in
\* closed JSON when the secret leaves room for its end and the buffer holds a 0
\* behind it: bytes of an earlier, longer secret are the only thing that can be
\* appended to it.
THEOREM PlainIsExact == Spec => []PlainExactWhenFresh
<1>1. PortalInv => PlainExactWhenFresh
  BY DEF PortalInv
<1> QED BY <1>1, PortalInvariant, PTL

\* As far as the shortest entry of a request goes, whatever was cut from it on its
\* way, handler_reconstruct combines the entries of that request: no abscissa and
\* no byte of a share parsed for an earlier one.
THEOREM OwnEntries == Spec => []OwnEntriesCombined
<1>1. PortalInv => OwnEntriesCombined
  BY DEF PortalInv
<1> QED BY <1>1, PortalInvariant, PTL

=============================================================================
