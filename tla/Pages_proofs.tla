----------------------------- MODULE Pages_proofs -----------------------------
(***************************************************************************)
(* The three invariants of Pages, for any messages, any number of splits,  *)
(* shares, rows, scans and requests, and any way in which shares are kept. *)
(***************************************************************************)
EXTENDS Pages, SequenceTheorems, FiniteSetTheorems, TLAPS

Split == [message : Message, mode : Mode, bytes : {"utf8", "low bytes", "cut"}]

Scan == [row : Rows, code : Share, posted : BOOLEAN]

KeptShares == {s.share : s \in kept}

\* What TypeOK says, with what it needs to be inductive: a request in flight
\* counts as a split, and a scan is of a share the user kept.
PageTypes ==
  /\ page \in DOMAIN Wanted /\ board \in Board /\ loaded \subseteq Wanted[page]
  /\ boxes \in [bip : BOOLEAN, slip : BOOLEAN, passphrase : BOOLEAN, disabled : BOOLEAN]
  /\ ~(boxes.bip /\ boxes.slip)
  /\ boxes.disabled = ~(boxes.bip \/ boxes.slip) /\ ~(boxes.disabled /\ boxes.passphrase)
  /\ board # "demo" => loaded = {}

SplitTypes ==
  /\ divides \in Seq([message : Message, mode : Mode])
  /\ deals \in Seq(Split)
  /\ Len(deals) + Len(divides) <= MaxDeals
  /\ displayed \in 0 .. Len(deals)
  /\ kept \subseteq Keepsake
  /\ \A s \in kept : s.share.deal \in DOMAIN deals

RowType == [x : Nat, prefix : 0 .. N, data : {None} \cup [share : KeptShares, form : {"hex", "base32"}]]

UnsplitTypes ==
  /\ targetRow \in Rows \cup {None} /\ picking \in BOOLEAN
  /\ scans \in Seq(Scan) /\ Len(scans) <= MaxScans
  /\ \A i \in DOMAIN scans : scans[i].code \in KeptShares
  /\ rows \in [Rows -> RowType]
  /\ requests \in Seq(SUBSET (Message \cup {Other})) /\ Len(requests) <= MaxRequests
  /\ used \in 0 .. SecretMax /\ result \in Message \cup {None, Other}
  /\ meant \in [Rows -> Share \cup {None}]
  /\ mishap \in BOOLEAN
  /\ expected \in Message \cup {None}

\* A scan fills the row whose button opened the picker, as long as no other
\* button was pressed meanwhile; only the device is ever asked to decode.
Aimed ==
  /\ targetRow = pressed
  /\ picking \/ scans # <<>> => pressed \in Rows
  /\ ~mishap => \A i \in DOMAIN scans : scans[i].row = pressed
  /\ \A i \in DOMAIN scans : scans[i].posted => board = "server"

\* Where somebody answers, the last request is the only one if it is expected
\* to succeed, and the message is all that can be answered to it.
Awaited ==
  /\ board # "demo" /\ requests # <<>> /\ expected # None
       => Len(requests) = 1 /\ requests[1] = {expected}
  /\ requests = <<>> /\ expected # None => result = expected

\* The other page does not know of this one's rows before it is opened.
Untouched == page = "split" => UnsplitInit

IInv ==
  /\ PageTypes /\ SplitTypes /\ UnsplitTypes
  /\ Aimed /\ ScansInTheirRows /\ Awaited /\ Untouched
-----------------------------------------------------------------------------
(* Lemmas about the data. *)

\* A sequence without one of its elements.
LEMMA RemoveAtKeeps ==
  ASSUME NEW S, NEW s \in Seq(S), NEW i \in DOMAIN s
  PROVE  /\ RemoveAt(s, i) \in Seq(S)
         /\ Len(RemoveAt(s, i)) = Len(s) - 1
         /\ \A j \in DOMAIN RemoveAt(s, i) : \E k \in DOMAIN s : RemoveAt(s, i)[j] = s[k]
<1> DEFINE front == SubSeq(s, 1, i - 1)
           back  == SubSeq(s, i + 1, Len(s))
<1>1. i \in 1 .. Len(s) /\ Len(s) \in Nat /\ \A k \in 1 .. Len(s) : s[k] \in S
  BY LenProperties, ElementOfSeq
<1>2. /\ front \in Seq(S) /\ Len(front) = i - 1
      /\ \A j \in 1 .. i - 1 : front[j] = s[j]
  BY <1>1, SubSeqProperties
<1>3. /\ back \in Seq(S) /\ Len(back) = Len(s) - i
      /\ \A j \in 1 .. Len(s) - i : back[j] = s[i + j]
  BY <1>1, SubSeqProperties
<1> HIDE DEF front, back
<1>4. /\ front \o back \in Seq(S) /\ Len(front \o back) = Len(s) - 1
      /\ \A j \in 1 .. Len(s) - 1 :
           (front \o back)[j] = IF j <= i - 1 THEN front[j] ELSE back[j - (i - 1)]
  <2>1. /\ front \o back \in Seq(S) /\ Len(front \o back) = Len(front) + Len(back)
        /\ \A j \in 1 .. Len(front) + Len(back) :
             (front \o back)[j] = IF j <= Len(front) THEN front[j] ELSE back[j - Len(front)]
    BY <1>2, <1>3, ConcatProperties
  <2>2. Len(front) + Len(back) = Len(s) - 1 /\ Len(front) = i - 1
    BY <1>1, <1>2, <1>3
  <2> QED BY <2>1, <2>2
<1>5. \A j \in DOMAIN (front \o back) : \E k \in DOMAIN s : (front \o back)[j] = s[k]
  <2> SUFFICES ASSUME NEW j \in 1 .. Len(s) - 1
               PROVE  \E k \in 1 .. Len(s) : (front \o back)[j] = s[k]
    BY <1>1, <1>4, LenProperties
  <2>1. CASE j <= i - 1
    BY <2>1, <1>1, <1>2, <1>4
  <2>2. CASE ~(j <= i - 1)
    <3>1. j - (i - 1) \in 1 .. Len(s) - i /\ i + (j - (i - 1)) = j + 1 /\ j + 1 \in 1 .. Len(s)
      BY <2>2, <1>1
    <3>2. (front \o back)[j] = s[j + 1]
      BY <2>2, <3>1, <1>3, <1>4
    <3> QED BY <3>1, <3>2
  <2> QED BY <2>1, <2>2
<1> QED BY <1>4, <1>5 DEF RemoveAt, front, back

\* A sequence with one more element.
LEMMA AppendKeeps ==
  ASSUME NEW S, NEW s \in Seq(S), NEW e \in S
  PROVE  /\ Append(s, e) \in Seq(S)
         /\ Len(Append(s, e)) = Len(s) + 1
         /\ DOMAIN Append(s, e) = 1 .. Len(s) + 1
         /\ \A i \in 1 .. Len(s) : Append(s, e)[i] = s[i]
         /\ Append(s, e)[Len(s) + 1] = e
BY AppendProperties, LenProperties

\* One to one, when the image is as large.
LEMMA SameSizeSameElement ==
  ASSUME NEW S, IsFiniteSet(S), NEW f, DOMAIN f = S,
         Cardinality({f[x] : x \in S}) = Cardinality(S),
         NEW x \in S, NEW y \in S, f[x] = f[y]
  PROVE  x = y
<1> DEFINE T == {f[z] : z \in S}
           g == [z \in S |-> f[z]]
<1>1. g \in Surjection(S, T)
  BY DEF Surjection
<1>2. g \in Injection(S, T)
  <2>1. Cardinality(T) = Cardinality(S)
    OBVIOUS
  <2> HIDE DEF T, g
  <2> QED BY <1>1, <2>1, FS_Surjection
<1>3. g[x] = f[x] /\ g[y] = f[y]
  OBVIOUS
<1> HIDE DEF g, T
<1> QED BY <1>2, <1>3 DEF Injection, IsInjective

-----------------------------------------------------------------------------
(* The steps. *)

\* What belongs to the other page stands still.
LEMMA Steps ==
  ASSUME IInv, [Next]_vars
  PROVE  \/ UNCHANGED vars
         \/ PageStep /\ UNCHANGED <<splitVars, unsplitVars>>
         \/ page = "split" /\ SplitStep /\ UNCHANGED <<pageVars, unsplitVars>>
         \/ page = "split" /\ \E b \in Board : OpenUnsplit(b)
         \/ page = "unsplit" /\ ~mishap /\ UnsplitStep /\ UNCHANGED <<pageVars, splitVars>>
<1>1. CASE PageStep /\ ~picking /\ ~mishap /\ UNCHANGED <<splitVars, unsplitVars>>
  BY <1>1
<1>2. CASE SplitStep /\ UNCHANGED unsplitVars
  BY <1>2 DEF SplitStep, encrypt, DivideAnswered, DivideFails, copyText, downloadQR, Keep, pageVars
<1>3. CASE \E b \in Board : OpenUnsplit(b)
  BY <1>3 DEF OpenUnsplit
<1>4. CASE ~mishap /\ UnsplitStep /\ UNCHANGED <<pageVars, splitVars>>
  <2>1. page = "split" => FALSE
    <3> SUFFICES ASSUME page = "split" PROVE FALSE
      OBVIOUS
    <3>1. ~picking /\ scans = <<>> /\ requests = <<>>
      BY DEF IInv, Untouched, UnsplitInit, FormInit
    <3>2. DOMAIN scans = {} /\ DOMAIN requests = {}
      BY <3>1
    <3> QED BY <1>4, <3>1, <3>2 DEF UnsplitStep, ScanPressed, PickerCancelled, FileChosen, Typed, reconstruct
  <2>2. page \in {"split", "unsplit"}
    BY DEF IInv, PageTypes, Wanted
  <2> QED BY <1>4, <2>1, <2>2
<1> QED BY <1>1, <1>2, <1>3, <1>4 DEF Next

\* The check boxes exclude each other, and a module that arrives was asked for.
LEMMA PageTypesKept ==
  ASSUME IInv, [Next]_vars
  PROVE  PageTypes'
<1>0. PageTypes
  BY DEF IInv
<1>1. CASE PageStep
  <2>1. CASE \E m \in Wanted[page] : ModuleLoaded(m)
    BY <1>0, <2>1 DEF ModuleLoaded, Board, PageTypes
  <2>2. CASE BipClicked
    BY <1>0, <2>2 DEF BipClicked, Checked, PageTypes
  <2>3. CASE SlipClicked
    BY <1>0, <2>3 DEF SlipClicked, Checked, PageTypes
  <2>4. CASE PassphraseClicked
    BY <1>0, <2>4 DEF PassphraseClicked, PageTypes
  <2> QED BY <1>1, <2>1, <2>2, <2>3, <2>4 DEF PageStep
<1>2. CASE \E b \in Board : OpenUnsplit(b)
  <2>1. page' = "unsplit" /\ board' \in Board /\ loaded' = {} /\ boxes' = NoBoxes
    BY <1>2 DEF OpenUnsplit, Open
  <2>2. NoBoxes \in [bip : BOOLEAN, slip : BOOLEAN, passphrase : BOOLEAN, disabled : BOOLEAN]
    BY DEF NoBoxes
  <2> QED BY <2>1, <2>2 DEF PageTypes, NoBoxes, Wanted
<1>3. CASE UNCHANGED pageVars
  BY <1>0, <1>3 DEF pageVars, PageTypes
<1> QED BY <1>1, <1>2, <1>3, Steps DEF vars

\* A split is made of a message in a mode of the boxes.
LEMMA ModeOfBoxes ==
  ASSUME PageTypes
  PROVE  compressionMode \in Mode
BY DEF PageTypes, compressionMode, Mode

LEMMA DisplayedAtLast ==
  ASSUME SplitTypes, NEW new \in Split, deals' = Append(deals, new), displayed' = Len(deals) + 1
  PROVE  /\ deals' \in Seq(Split) /\ Len(deals') = Len(deals) + 1
         /\ displayed' \in 0 .. Len(deals')
         /\ DOMAIN deals \subseteq DOMAIN deals'
<1>1. deals \in Seq(Split) /\ Len(deals) \in Nat /\ DOMAIN deals = 1 .. Len(deals)
  BY LenProperties DEF SplitTypes
<1>2. /\ Append(deals, new) \in Seq(Split)
      /\ Len(Append(deals, new)) = Len(deals) + 1
      /\ DOMAIN Append(deals, new) = 1 .. Len(deals) + 1
  BY <1>1, AppendKeeps
<1> QED BY <1>1, <1>2

LEMMA DisplaysTypes ==
  ASSUME SplitTypes, NEW msg \in Message, NEW mode \in Mode, NEW bytes \in {"utf8", "low bytes", "cut"},
         Displays(msg, mode, bytes)
  PROVE  /\ deals' \in Seq(Split) /\ Len(deals') = Len(deals) + 1
         /\ displayed' \in 0 .. Len(deals')
         /\ DOMAIN deals \subseteq DOMAIN deals'
<1>1. PICK new \in Split : new = [message |-> msg, mode |-> mode, bytes |-> bytes]
  BY DEF Split
<1> QED BY <1>1, DisplayedAtLast DEF Displays

\* Never more splits than the bound, requests in flight included.
LEMMA SplitTypesKept ==
  ASSUME IInv, [Next]_vars
  PROVE  SplitTypes'
<1> DEFINE Ask == [message : Message, mode : Mode]
<1>0. /\ SplitTypes /\ PageTypes
      /\ divides \in Seq(Ask) /\ deals \in Seq(Split)
      /\ Len(divides) \in Nat /\ Len(deals) \in Nat
      /\ DOMAIN divides = 1 .. Len(divides) /\ DOMAIN deals = 1 .. Len(deals)
      /\ N \in Nat \ {0} /\ MaxDeals \in Nat \ {0}
  BY LenProperties, SplitPageAssumption DEF IInv, SplitTypes
<1>1. CASE SplitStep
  <2>1. ASSUME NEW msg \in Message, encrypt(msg) PROVE SplitTypes'
    <3>0. compressionMode \in Mode
      BY <1>0, ModeOfBoxes
    <3>1. CASE "sss" \in loaded
      <4>1. \/ Displays(msg, compressionMode, "low bytes")
            \/ Displays(msg, compressionMode, "utf8")
            \/ UNCHANGED <<deals, displayed>>
        BY <2>1, <3>1 DEF encrypt, encryptWasm
      <4>2. \/ /\ deals' \in Seq(Split) /\ Len(deals') = Len(deals) + 1
               /\ displayed' \in 0 .. Len(deals') /\ DOMAIN deals \subseteq DOMAIN deals'
            \/ UNCHANGED <<deals, displayed>>
        BY <1>0, <3>0, <4>1, DisplaysTypes
      <4>3. UNCHANGED <<divides, kept>> /\ Len(deals) + Len(divides) < MaxDeals
        BY <2>1, <3>1 DEF encrypt
      <4> QED BY <1>0, <4>2, <4>3 DEF SplitTypes
    <3>2. CASE "sss" \notin loaded
      <4> DEFINE ask == [message |-> msg, mode |-> compressionMode]
      <4>1. divides' = Append(divides, ask) /\ UNCHANGED <<deals, displayed, kept>>
            /\ Len(deals) + Len(divides) < MaxDeals
        BY <2>1, <3>2 DEF encrypt
      <4>2. ask \in Ask
        BY <3>0
      <4> HIDE DEF ask, Ask
      <4>3. Append(divides, ask) \in Seq(Ask) /\ Len(Append(divides, ask)) = Len(divides) + 1
        BY <1>0, <4>2, AppendProperties
      <4> USE DEF Ask
      <4> QED BY <1>0, <4>1, <4>3 DEF SplitTypes
    <3> QED BY <3>1, <3>2
  <2>2. ASSUME NEW i \in DOMAIN divides, DivideAnswered(i) \/ DivideFails(i) PROVE SplitTypes'
    <3>1. divides' = RemoveAt(divides, i) /\ UNCHANGED kept
      BY <2>2 DEF DivideAnswered, DivideFails
    <3>2. divides' \in Seq(Ask) /\ Len(divides') = Len(divides) - 1
      <4> HIDE DEF Ask
      <4> QED BY <1>0, <3>1, RemoveAtKeeps
    <3>3. divides[i].message \in Message /\ divides[i].mode \in Mode
      <4>1. divides[i] \in Ask
        <5> HIDE DEF Ask
        <5> QED BY <1>0, ElementOfSeq
      <4> QED BY <4>1
    <3>4. \/ Displays(divides[i].message, divides[i].mode, "utf8")
          \/ Displays(divides[i].message, divides[i].mode, "cut")
          \/ UNCHANGED <<deals, displayed>>
      BY <2>2 DEF DivideAnswered, DivideFails
    <3>5. \/ /\ deals' \in Seq(Split) /\ Len(deals') = Len(deals) + 1
             /\ displayed' \in 0 .. Len(deals') /\ DOMAIN deals \subseteq DOMAIN deals'
          \/ UNCHANGED <<deals, displayed>>
      BY <1>0, <3>3, <3>4, DisplaysTypes
    <3> QED BY <1>0, <3>1, <3>2, <3>5 DEF SplitTypes
  <2>3. ASSUME NEW x \in 1 .. N, copyText(x) \/ downloadQR(x) PROVE SplitTypes'
    <3>1. PICK as \in {"text", "code"} : Keep(x, as)
      BY <2>3 DEF copyText, downloadQR
    <3>2. displayed \in DOMAIN deals /\ displayed \in 1 .. MaxDeals
      BY <1>0, <3>1 DEF SplitTypes, Keep
    <3>3. PICK new \in Keepsake : new = [share |-> [deal |-> displayed, x |-> x], as |-> as]
      BY <3>2 DEF Keepsake, Share
    <3>4. kept' = kept \cup {new} /\ UNCHANGED <<divides, deals, displayed>>
      BY <3>1, <3>3 DEF Keep
    <3>5. new.share.deal = displayed
      BY <3>3
    <3>6. kept' \subseteq Keepsake /\ \A s \in kept' : s.share.deal \in DOMAIN deals
      BY <1>0, <3>2, <3>4, <3>5 DEF SplitTypes
    <3> QED BY <1>0, <3>4, <3>6 DEF SplitTypes
  <2> QED BY <1>1, <2>1, <2>2, <2>3 DEF SplitStep
<1>2. CASE \E b \in Board : OpenUnsplit(b)
  <2>1. divides' = <<>> /\ displayed' = 0 /\ UNCHANGED <<deals, kept>>
    BY <1>2 DEF OpenUnsplit
  <2>2. divides' \in Seq(Ask) /\ Len(divides') = 0
    BY <2>1
  <2> QED BY <1>0, <2>1, <2>2 DEF SplitTypes
<1>3. CASE UNCHANGED splitVars
  BY <1>0, <1>3 DEF SplitTypes, splitVars
<1> QED BY <1>1, <1>2, <1>3, Steps DEF vars

\* A page as it is opened, on a device that may have been used.
Opened == FormInit /\ used \in 0 .. SecretMax

\* Before and when the other page is opened, there is nothing on it.
LEMMA EmptyPage ==
  Opened => UnsplitTypes /\ Aimed /\ ScansInTheirRows /\ Awaited
<1> USE DEF FormInit
<1> SUFFICES ASSUME Opened PROVE UnsplitTypes /\ Aimed /\ ScansInTheirRows /\ Awaited
  OBVIOUS
<1>1. /\ Rows \subseteq Nat /\ N \in Nat /\ MaxScans \in Nat /\ MaxRequests \in Nat
      /\ scans = <<>> /\ requests = <<>>
  BY UnsplitPageAssumption, SplitPageAssumption DEF Opened
<1>2. EmptyRows \in [Rows -> RowType]
  <2> SUFFICES ASSUME NEW r \in Rows PROVE EmptyRows[r] \in RowType
    BY DEF EmptyRows
  <2>1. EmptyRows[r] = [x |-> r + 1, prefix |-> 0, data |-> None]
    BY DEF EmptyRows
  <2> QED BY <1>1, <2>1 DEF RowType
<1>3. scans \in Seq(Scan) /\ requests \in Seq(SUBSET (Message \cup {Other}))
      /\ Len(scans) = 0 /\ Len(requests) = 0 /\ DOMAIN scans = {}
  BY <1>1
<1>4. UnsplitTypes
  <2>1. rows \in [Rows -> RowType] /\ meant \in [Rows -> Share \cup {None}]
    BY <1>2 DEF Opened
  <2>2. \A i \in DOMAIN scans : scans[i].code \in KeptShares
    BY <1>3
  <2>3. Len(scans) <= MaxScans /\ Len(requests) <= MaxRequests
    BY <1>1, <1>3
  <2> QED BY <1>3, <2>1, <2>2, <2>3 DEF UnsplitTypes, Opened
<1>5. Aimed
  BY <1>1, <1>3 DEF Aimed, Opened
<1>6. ScansInTheirRows
  BY DEF ScansInTheirRows, Opened, EmptyRows
<1>7. Awaited
  BY DEF Awaited, Opened
<1> QED BY <1>4, <1>5, <1>6, <1>7

\* A fact about one scan, and the sequence that has it replaced.
LEMMA ExceptKeeps ==
  ASSUME NEW S, NEW s \in Seq(S), NEW i \in DOMAIN s, NEW e \in S
  PROVE  /\ [s EXCEPT ![i] = e] \in Seq(S)
         /\ Len([s EXCEPT ![i] = e]) = Len(s)
         /\ DOMAIN [s EXCEPT ![i] = e] = DOMAIN s
BY ExceptSeq

\* What the state tells of a scan.
LEMMA ScanFacts ==
  ASSUME IInv, NEW i \in DOMAIN scans
  PROVE  /\ scans[i] \in Scan /\ scans[i].row \in Rows /\ scans[i].posted \in BOOLEAN
         /\ scans[i].code \in Share /\ scans[i].code \in KeptShares
         /\ pressed \in Rows /\ targetRow = pressed
         /\ ~mishap => scans[i].row = pressed
         /\ scans[i].posted => board = "server"
<1>1. scans \in Seq(Scan) /\ scans[i].code \in KeptShares
  BY DEF IInv, UnsplitTypes
<1>2. scans[i] \in Scan
  <2> HIDE DEF Scan
  <2> QED BY <1>1, ElementOfSeq
<1>3. scans # <<>>
  BY <1>1
<1> QED BY <1>1, <1>2, <1>3 DEF IInv, Aimed, Scan

\* The shares the user has.
LEMMA KeptFacts ==
  ASSUME IInv, NEW s \in kept
  PROVE  s.share \in KeptShares /\ s.share \in Share /\ s.share.x \in 1 .. N
BY SplitPageAssumption DEF IInv, SplitTypes, Keepsake, KeptShares, Share

\* The steps of the page, with what its parts come to.
LEMMA UnsplitSteps ==
  ASSUME IInv, UnsplitStep, UNCHANGED <<pageVars, splitVars>>
  PROVE  \/ \E r \in Rows : ScanPressed(r)
         \/ PickerCancelled
         \/ \E s \in kept : FileChosen(s.share)
         \/ \E s \in kept, r \in Rows : Typed(r, s.share)
         \/ \E i \in DOMAIN scans :
              fillShareFromQR(i, IF board = "demo" /\ "codec" \notin loaded THEN "base32" ELSE "hex")
         \/ \E i \in DOMAIN scans : decodeWithServer(i)
         \/ \E i \in DOMAIN scans : ScanFails(i)
         \/ reconstruct
         \/ \E i \in DOMAIN requests : ReconstructAnswered(i)
         \/ \E i \in DOMAIN requests : ReconstructFails(i)
<1>1. ASSUME NEW i \in DOMAIN scans, ImageLoaded(i)
      PROVE  \/ fillShareFromQR(i, IF board = "demo" /\ "codec" \notin loaded THEN "base32" ELSE "hex")
             \/ decodeWithServer(i)
  BY <1>1 DEF ImageLoaded, decodeLocal
<1>2. ASSUME NEW i \in DOMAIN scans, DecodeAnswered(i)
      PROVE  fillShareFromQR(i, IF board = "demo" /\ "codec" \notin loaded THEN "base32" ELSE "hex")
  <2>1. board = "server"
    BY <1>2, ScanFacts DEF DecodeAnswered
  <2> QED BY <1>2, <2>1 DEF DecodeAnswered
<1> QED BY <1>1, <1>2 DEF UnsplitStep

\* Messages that were split, and nothing else, are hoped for, and only they and
\* the other text are answered.
LEMMA DealtMessages ==
  ASSUME IInv
  PROVE  /\ \A d \in DOMAIN deals : deals[d].message \in Message
         /\ \A entries, mode, wasm :
              Answers(entries, mode, wasm) \in SUBSET (Message \cup {Other})
<1>1. \A d \in DOMAIN deals : deals[d] \in Split
  <2>1. deals \in Seq(Split)
    BY DEF IInv, SplitTypes
  <2> HIDE DEF Split
  <2> QED BY <2>1, ElementOfSeq
<1>2. \A d \in DOMAIN deals : deals[d].message \in Message
  BY <1>1 DEF Split
<1> QED BY <1>2 DEF Answers, Sources

LEMMA HopedTypes ==
  ASSUME IInv, NEW mode, NEW wasm
  PROVE  Hoped(mode, wasm) \in Message \cup {None}
BY DealtMessages DEF Hoped

\* The rows are empty still, nothing on the page moves, or one of its handlers
\* runs.
LEMMA RowSteps ==
  ASSUME IInv, [Next]_vars
  PROVE  \/ Opened'
         \/ UNCHANGED <<splitVars, unsplitVars, page, board>>
         \/ page = "unsplit" /\ ~mishap /\ UnsplitStep /\ UNCHANGED <<pageVars, splitVars>>
<1>1. CASE page = "split"
  <2>1. UnsplitInit
    BY <1>1 DEF IInv, Untouched
  <2>2. UNCHANGED formVars /\ (used' = used \/ used' \in 0 .. SecretMax)
    <3>1. UNCHANGED unsplitVars \/ \E b \in Board : OpenUnsplit(b)
      BY <1>1, Steps DEF vars
    <3> QED BY <3>1, UnsplitPageAssumption, SplitPageAssumption DEF OpenUnsplit, unsplitVars, formVars
  <2> QED BY <2>1, <2>2, SplitPageAssumption DEF UnsplitInit, FormInit, Opened, formVars
<1>2. CASE page # "split"
  <2>1. PageStep => UNCHANGED <<page, board>>
    BY DEF PageStep, ModuleLoaded, BipClicked, SlipClicked, PassphraseClicked
  <2> QED BY <1>2, <2>1, Steps DEF vars, pageVars
<1> QED BY <1>1, <1>2

LEMMA EmptyPageNext ==
  Opened' => (UnsplitTypes /\ Aimed /\ ScansInTheirRows /\ Awaited)'
BY EmptyPage, PTL

\* A row after a code or a text has come into it.
LEMMA RowFilled ==
  ASSUME rows \in [Rows -> RowType], meant \in [Rows -> Share \cup {None}],
         NEW r \in Rows, NEW x \in Nat, NEW prefix \in 0 .. N,
         NEW form \in {"hex", "base32"}, NEW share \in KeptShares, share \in Share
  PROVE  /\ [rows EXCEPT ![r] = [x |-> x, prefix |-> prefix, data |-> [share |-> share, form |-> form]]]
              \in [Rows -> RowType]
         /\ [meant EXCEPT ![r] = share] \in [Rows -> Share \cup {None}]
<1>1. PICK d \in [share : KeptShares, form : {"hex", "base32"}] : d = [share |-> share, form |-> form]
  OBVIOUS
<1>2. PICK new \in RowType : new = [x |-> x, prefix |-> prefix, data |-> d]
  BY DEF RowType
<1>3. [rows EXCEPT ![r] = new] \in [Rows -> RowType]
  OBVIOUS
<1> QED BY <1>1, <1>2, <1>3

\* A row is a record of its three fields.
LEMMA RowTyped ==
  ASSUME NEW row \in RowType, NEW prefix \in 0 .. N,
         NEW d \in {None} \cup [share : KeptShares, form : {"hex", "base32"}]
  PROVE  [[row EXCEPT !.prefix = prefix] EXCEPT !.data = d]
           = [x |-> row.x, prefix |-> prefix, data |-> d]
<1>1. PICK half : half = [row EXCEPT !.prefix = prefix]
  OBVIOUS
<1>2. PICK full : full = [half EXCEPT !.data = d]
  OBVIOUS
<1>3. half \in RowType /\ half.prefix = prefix /\ half.x = row.x
  BY <1>1 DEF RowType
<1>4. full \in RowType /\ full.prefix = prefix /\ full.x = row.x /\ full.data = d
  BY <1>2, <1>3 DEF RowType
<1>5. full = [x |-> full.x, prefix |-> full.prefix, data |-> full.data]
  BY <1>4 DEF RowType
<1> QED BY <1>1, <1>2, <1>4, <1>5

\* What typing a share comes to.
LEMMA TypedRow ==
  ASSUME IInv, NEW s \in kept, NEW r \in Rows, Typed(r, s.share)
  PROVE  rows' = [rows EXCEPT ![r] = [x |-> rows[r].x, prefix |-> s.share.x,
                                      data |-> [share |-> s.share, form |-> "hex"]]]
<1>0. rows \in [Rows -> RowType] /\ rows[r] \in RowType
  BY DEF IInv, UnsplitTypes
<1>1. s.share \in KeptShares /\ s.share.x \in 0 .. N
  BY KeptFacts, SplitPageAssumption
<1>2. PICK d \in {None} \cup [share : KeptShares, form : {"hex", "base32"}] :
        d = [share |-> s.share, form |-> "hex"]
  BY <1>1
<1>3. PICK new : new = [x |-> rows[r].x, prefix |-> s.share.x, data |-> d]
  OBVIOUS
<1>4. new = [[rows[r] EXCEPT !.prefix = s.share.x] EXCEPT !.data = d]
  BY <1>0, <1>1, <1>3, RowTyped
<1>5. rows' = [[rows EXCEPT ![r].prefix = s.share.x] EXCEPT ![r].data = d]
  BY <1>2 DEF Typed
<1>6. [rows EXCEPT ![r].prefix = s.share.x][r] = [rows[r] EXCEPT !.prefix = s.share.x]
  BY <1>0
<1>7. rows'[r] = new
  BY <1>0, <1>4, <1>5, <1>6
<1>8. /\ DOMAIN rows' = Rows /\ rows' = [q \in Rows |-> rows'[q]]
      /\ \A q \in Rows : q # r => rows'[q] = rows[q]
  BY <1>0, <1>5
<1>9. rows' = [q \in Rows |-> IF q = r THEN new ELSE rows[q]]
  BY <1>7, <1>8
<1>10. [rows EXCEPT ![r] = new] = [q \in Rows |-> IF q = r THEN new ELSE rows[q]]
  BY <1>0
<1> QED BY <1>2, <1>3, <1>9, <1>10

\* What is outstanding when another request is sent.
LEMMA RequestsWithOther ==
  ASSUME requests \in Seq(SUBSET (Message \cup {Other}))
  PROVE  LET before == [i \in DOMAIN requests |-> requests[i] \cup {Other}]
         IN  before \in Seq(SUBSET (Message \cup {Other})) /\ Len(before) = Len(requests)
<1> DEFINE Answer == SUBSET (Message \cup {Other})
           n == Len(requests)
           before == [i \in 1 .. n |-> requests[i] \cup {Other}]
<1>1. n \in Nat /\ DOMAIN requests = 1 .. n
  BY LenProperties
<1>2. \A i \in 1 .. n : requests[i] \in Answer
  <2> HIDE DEF Answer
  <2>1. requests \in Seq(Answer)
    BY DEF Answer
  <2> QED BY <1>1, <2>1, ElementOfSeq
<1>3. before \in [1 .. n -> Answer]
  BY <1>2
<1>4. before \in Seq(Answer) /\ Len(before) = n
  <2> HIDE DEF Answer, n, before
  <2>1. before \in Seq(Answer)
    BY <1>1, <1>3
  <2>2. DOMAIN before = 1 .. n
    BY <1>3
  <2> QED BY <1>1, <2>1, <2>2, LenProperties
<1> QED BY <1>1, <1>4

\* A row that is sent holds as many bytes as its split has.
LEMMA RowSizes ==
  ASSUME IInv
  PROVE  \A r \in DOMAIN parseShares :
           SizeOf(deals[rows[r].data.share.deal]) \in 1 .. SecretMax
<1> SUFFICES ASSUME NEW r \in DOMAIN parseShares
             PROVE  SizeOf(deals[rows[r].data.share.deal]) \in 1 .. SecretMax
  OBVIOUS
<1>1. r \in Rows /\ rows[r].data # None /\ rows[r] \in RowType
  BY DEF parseShares, Filled, IInv, UnsplitTypes
<1>2. rows[r].data.share \in KeptShares
  BY <1>1 DEF RowType
<1>3. rows[r].data.share.deal \in DOMAIN deals
  BY <1>2 DEF KeptShares, IInv, SplitTypes
<1>4. deals[rows[r].data.share.deal] \in Split
  <2>1. deals \in Seq(Split)
    BY DEF IInv, SplitTypes
  <2> HIDE DEF Split
  <2> QED BY <1>3, <2>1, ElementOfSeq
<1> QED BY <1>4, SplitPageAssumption DEF Split, Mode, SizeOf

\* Rows hold shares the user has, and requests messages or the other text.
LEMMA UnsplitTypesKept ==
  ASSUME IInv, [Next]_vars
  PROVE  UnsplitTypes'
<1> DEFINE Answer == SUBSET (Message \cup {Other})
<1>0. UnsplitTypes
  BY DEF IInv
<1>1. CASE Opened'
  BY <1>1, EmptyPageNext
<1>2. CASE UNCHANGED <<splitVars, unsplitVars, page, board>>
  BY <1>0, <1>2 DEF UnsplitTypes, splitVars, unsplitVars, formVars, KeptShares, RowType
<1>3. CASE page = "unsplit" /\ ~mishap /\ UnsplitStep /\ UNCHANGED <<pageVars, splitVars>>
  <2>0. KeptShares' = KeptShares /\ RowType' = RowType
    BY <1>3 DEF splitVars, KeptShares, RowType
  <2>1. ASSUME NEW r \in Rows, ScanPressed(r) PROVE UnsplitTypes'
    BY <1>0, <2>0, <2>1 DEF ScanPressed, UnsplitTypes
  <2>2. CASE PickerCancelled
    BY <1>0, <2>0, <2>2 DEF PickerCancelled, UnsplitTypes
  <2>3. ASSUME NEW s \in kept, FileChosen(s.share) PROVE UnsplitTypes'
    <3>1. PICK new \in Scan : new = [row |-> pressed, code |-> s.share, posted |-> FALSE]
      BY <2>3, KeptFacts DEF FileChosen, Scan, IInv, Aimed
    <3>2. scans' = Append(scans, new) /\ new.code = s.share /\ Len(scans) < MaxScans
      BY <2>3, <3>1 DEF FileChosen
    <3>3. /\ scans' \in Seq(Scan) /\ Len(scans') = Len(scans) + 1
          /\ DOMAIN scans' = 1 .. Len(scans) + 1 /\ scans'[Len(scans) + 1] = new
          /\ \A i \in 1 .. Len(scans) : scans'[i] = scans[i]
      <4> HIDE DEF Scan
      <4> QED BY <1>0, <3>2, AppendKeeps DEF UnsplitTypes
    <3>4. \A i \in DOMAIN scans' : scans'[i].code \in KeptShares
      <4>1. DOMAIN scans = 1 .. Len(scans) /\ Len(scans) \in Nat
        BY <1>0, LenProperties DEF UnsplitTypes
      <4>2. s.share \in KeptShares
        BY KeptFacts
      <4> QED BY <1>0, <3>2, <3>3, <4>1, <4>2 DEF UnsplitTypes
    <3>5. Len(scans') <= MaxScans
      BY <1>0, <3>2, <3>3, LenProperties, UnsplitPageAssumption DEF UnsplitTypes
    <3> QED BY <1>0, <2>0, <2>3, <3>3, <3>4, <3>5 DEF FileChosen, UnsplitTypes
  <2>4. ASSUME NEW s \in kept, NEW r \in Rows, Typed(r, s.share) PROVE UnsplitTypes'
    <3>1. rows[r] \in RowType /\ rows[r].x \in Nat
      BY <1>0 DEF UnsplitTypes, RowType
    <3>2. rows' = [rows EXCEPT ![r] = [x |-> rows[r].x, prefix |-> s.share.x,
                                       data |-> [share |-> s.share, form |-> "hex"]]]
      BY <2>4, TypedRow
    <3>3. s.share \in KeptShares /\ s.share \in Share /\ s.share.x \in 0 .. N
      BY KeptFacts, SplitPageAssumption
    <3>4. rows' \in [Rows -> RowType] /\ meant' \in [Rows -> Share \cup {None}]
      <4>1. rows \in [Rows -> RowType] /\ meant \in [Rows -> Share \cup {None}]
        BY <1>0 DEF UnsplitTypes
      <4>2. meant' = [meant EXCEPT ![r] = s.share] /\ "hex" \in {"hex", "base32"}
        BY <2>4 DEF Typed
      <4> QED BY <3>1, <3>2, <3>3, <4>1, <4>2, RowFilled
    <3> QED BY <1>0, <2>0, <2>4, <3>4 DEF Typed, UnsplitTypes
  <2>5. ASSUME NEW i \in DOMAIN scans, NEW form \in {"hex", "base32"}, fillShareFromQR(i, form)
        PROVE  UnsplitTypes'
    <3>1. /\ scans[i].row \in Rows /\ targetRow \in Rows
          /\ scans[i].code \in Share /\ scans[i].code \in KeptShares
      BY ScanFacts
    <3>2. scans[i].code.x \in Nat /\ 0 \in 0 .. N
      BY <3>1, SplitPageAssumption DEF Share
    <3>3. rows' \in [Rows -> RowType] /\ meant' \in [Rows -> Share \cup {None}]
      BY <1>0, <2>5, <3>1, <3>2, RowFilled DEF fillShareFromQR, UnsplitTypes
    <3>4. scans' = RemoveAt(scans, i)
      BY <2>5 DEF fillShareFromQR
    <3>5. /\ scans' \in Seq(Scan) /\ Len(scans') <= MaxScans
          /\ \A j \in DOMAIN scans' : scans'[j].code \in KeptShares
      <4> HIDE DEF Scan
      <4>1. /\ scans' \in Seq(Scan) /\ Len(scans') = Len(scans) - 1
            /\ \A j \in DOMAIN scans' : \E k \in DOMAIN scans : scans'[j] = scans[k]
        BY <1>0, <3>4, RemoveAtKeeps DEF UnsplitTypes
      <4> QED BY <1>0, <4>1, LenProperties, UnsplitPageAssumption DEF UnsplitTypes
    <3>6. mishap' \in BOOLEAN
      BY <1>0, <2>5 DEF fillShareFromQR, UnsplitTypes
    <3> QED BY <1>0, <2>0, <2>5, <3>3, <3>5, <3>6 DEF fillShareFromQR, UnsplitTypes
  <2>6. ASSUME NEW i \in DOMAIN scans, decodeWithServer(i) PROVE UnsplitTypes'
    <3>1. PICK new \in Scan : new = [scans[i] EXCEPT !.posted = TRUE]
      BY ScanFacts DEF Scan
    <3>2. scans' = [scans EXCEPT ![i] = new] /\ new.code = scans[i].code
      BY <2>6, <3>1, ScanFacts DEF decodeWithServer, Scan
    <3>3. scans' \in Seq(Scan) /\ Len(scans') = Len(scans) /\ DOMAIN scans' = DOMAIN scans
      <4> HIDE DEF Scan
      <4> QED BY <1>0, <3>2, ExceptKeeps DEF UnsplitTypes
    <3>4. \A j \in DOMAIN scans' : scans'[j].code \in KeptShares
      BY <1>0, <3>2, <3>3 DEF UnsplitTypes
    <3> QED BY <1>0, <2>0, <2>6, <3>3, <3>4 DEF decodeWithServer, UnsplitTypes
  <2>7. ASSUME NEW i \in DOMAIN scans, ScanFails(i) PROVE UnsplitTypes'
    <3>1. scans' = RemoveAt(scans, i)
      BY <2>7 DEF ScanFails
    <3>2. /\ scans' \in Seq(Scan) /\ Len(scans') <= MaxScans
          /\ \A j \in DOMAIN scans' : scans'[j].code \in KeptShares
      <4> HIDE DEF Scan
      <4>1. /\ scans' \in Seq(Scan) /\ Len(scans') = Len(scans) - 1
            /\ \A j \in DOMAIN scans' : \E k \in DOMAIN scans : scans'[j] = scans[k]
        BY <1>0, <3>1, RemoveAtKeeps DEF UnsplitTypes
      <4> QED BY <1>0, <4>1, LenProperties, UnsplitPageAssumption DEF UnsplitTypes
    <3> QED BY <1>0, <2>0, <2>7, <3>2 DEF ScanFails, UnsplitTypes
  <2>8. CASE reconstruct
    <3>1. \A mode, wasm : Answers(parseShares, mode, wasm) \in Answer
      BY DealtMessages
    <3>2. \A mode, wasm : Hoped(mode, wasm) \in Message \cup {None}
      BY HopedTypes
    <3>3. CASE "sss" \in loaded
      <4>1. \/ UNCHANGED result
            \/ \E text \in Answers(parseShares, compressionMode, TRUE) : result' = text
        BY <2>8, <3>3 DEF reconstruct, reconstructWasm, Shows
      <4>2. expected' = None \/ expected' = Hoped(compressionMode, TRUE)
        BY <2>8, <3>3 DEF reconstruct, reconstructWasm, Shows
      <4>3. expected' \in Message \cup {None} /\ result' \in Message \cup {None, Other}
        BY <1>0, <3>1, <3>2, <4>1, <4>2 DEF UnsplitTypes
      <4> QED BY <1>0, <2>0, <2>8, <3>3, <4>3 DEF reconstruct, UnsplitTypes
    <3>4. CASE "sss" \notin loaded
      <4> DEFINE before == [i \in DOMAIN requests |-> requests[i] \cup {Other}]
      <4>0. before \in Seq(Answer) /\ Len(before) = Len(requests)
        BY <1>0, RequestsWithOther DEF UnsplitTypes
      <4>1. PICK new \in Answer : requests' = Append(before, new)
        BY <2>8, <3>1, <3>4 DEF reconstruct, reconstructFetch
      <4> HIDE DEF before
      <4>2. Len(requests) < MaxRequests /\ UNCHANGED result /\ expected' \in Message \cup {None}
        BY <2>8, <3>2, <3>4 DEF reconstruct, reconstructFetch
      <4>3. requests' \in Seq(Answer) /\ Len(requests') = Len(requests) + 1
        <5> HIDE DEF Answer
        <5> QED BY <4>0, <4>1, AppendKeeps
      <4>4. Len(requests') <= MaxRequests
        BY <1>0, <4>2, <4>3, LenProperties, UnsplitPageAssumption DEF UnsplitTypes
      <4>5. used' \in 0 .. SecretMax
        <5>1. \/ UNCHANGED used
              \/ \E r \in DOMAIN parseShares : used' = SizeOf(deals[rows[r].data.share.deal])
          BY <2>8, <3>4 DEF reconstruct, reconstructFetch
        <5> QED BY <1>0, <5>1, RowSizes, SplitPageAssumption DEF UnsplitTypes
      <4> QED BY <1>0, <2>0, <2>8, <4>2, <4>3, <4>4, <4>5 DEF reconstruct, UnsplitTypes
    <3> QED BY <3>3, <3>4
  <2>9. ASSUME NEW i \in DOMAIN requests, ReconstructAnswered(i) \/ ReconstructFails(i)
        PROVE  UnsplitTypes'
    <3>1. requests' = RemoveAt(requests, i)
      BY <2>9 DEF ReconstructAnswered, ReconstructFails
    <3>2. requests' \in Seq(Answer) /\ Len(requests') = Len(requests) - 1 /\ requests[i] \in Answer
      <4>1. requests \in Seq(Answer)
        BY <1>0 DEF UnsplitTypes
      <4> HIDE DEF Answer
      <4> QED BY <3>1, <4>1, RemoveAtKeeps, ElementOfSeq
    <3>3. Len(requests') <= MaxRequests
      BY <1>0, <3>2, LenProperties, UnsplitPageAssumption DEF UnsplitTypes
    <3>4. result' \in Message \cup {None, Other} /\ expected' \in Message \cup {None}
      BY <1>0, <2>9, <3>2 DEF ReconstructAnswered, ReconstructFails, UnsplitTypes
    <3> QED BY <1>0, <2>0, <2>9, <3>2, <3>3, <3>4 DEF ReconstructAnswered, ReconstructFails, UnsplitTypes
  <2> QED BY <1>3, <2>1, <2>2, <2>3, <2>4, <2>5, <2>6, <2>7, <2>8, <2>9, UnsplitSteps
<1> QED BY <1>1, <1>2, <1>3, RowSteps

\* The picker was opened for the row the user means.
LEMMA AimedKept ==
  ASSUME IInv, [Next]_vars
  PROVE  Aimed'
<1>0. Aimed /\ UnsplitTypes /\ Len(scans) \in Nat /\ DOMAIN scans = 1 .. Len(scans)
  BY LenProperties DEF IInv, UnsplitTypes
<1>1. CASE Opened'
  BY <1>1, EmptyPageNext
<1>2. CASE UNCHANGED <<splitVars, unsplitVars, page, board>>
  BY <1>0, <1>2 DEF Aimed, unsplitVars, formVars
<1>3. CASE page = "unsplit" /\ ~mishap /\ UnsplitStep /\ UNCHANGED <<pageVars, splitVars>>
  <2>0. UNCHANGED board
    BY <1>3 DEF pageVars
  <2>1. ASSUME NEW r \in Rows, ScanPressed(r) PROVE Aimed'
    BY <1>0, <2>0, <2>1 DEF ScanPressed, Aimed
  <2>2. ASSUME NEW s \in kept, FileChosen(s.share) PROVE Aimed'
    <3>1. PICK new : new = [row |-> pressed, code |-> s.share, posted |-> FALSE]
      OBVIOUS
    <3>2. scans' = Append(scans, new) /\ new.row = pressed /\ ~new.posted
          /\ UNCHANGED <<targetRow, pressed, mishap>> /\ pressed \in Rows
      BY <1>0, <2>2, <3>1 DEF FileChosen, Aimed
    <3>3. \A j \in DOMAIN scans' : scans'[j] = new \/ \E k \in DOMAIN scans : scans'[j] = scans[k]
      <4>1. PICK S : scans \in Seq(S) /\ new \in S
        <5>1. scans \in Seq(Scan)
          BY <1>0 DEF UnsplitTypes
        <5>2. new \in Scan
          BY <3>1, <3>2, KeptFacts DEF Scan
        <5> HIDE DEF Scan
        <5> QED BY <5>1, <5>2
      <4>2. /\ DOMAIN scans' = 1 .. Len(scans) + 1 /\ scans'[Len(scans) + 1] = new
            /\ \A j \in 1 .. Len(scans) : scans'[j] = scans[j]
        BY <3>2, <4>1, AppendKeeps
      <4> QED BY <1>0, <4>2
    <3> QED BY <1>0, <2>0, <3>2, <3>3 DEF Aimed
  <2>3. ASSUME NEW i \in DOMAIN scans, scans' = RemoveAt(scans, i),
               UNCHANGED <<targetRow, picking, pressed>>, mishap => mishap'
        PROVE  Aimed'
    <3>1. \A j \in DOMAIN scans' : \E k \in DOMAIN scans : scans'[j] = scans[k]
      <4>1. scans \in Seq(Scan)
        BY <1>0 DEF UnsplitTypes
      <4> HIDE DEF Scan
      <4> QED BY <2>3, <4>1, RemoveAtKeeps
    <3>2. pressed \in Rows
      BY ScanFacts
    <3> QED BY <1>0, <2>0, <2>3, <3>1, <3>2 DEF Aimed
  <2>4. ASSUME NEW i \in DOMAIN scans, NEW form, fillShareFromQR(i, form) PROVE Aimed'
    BY <2>3, <2>4 DEF fillShareFromQR
  <2>5. ASSUME NEW i \in DOMAIN scans, ScanFails(i) PROVE Aimed'
    BY <2>3, <2>5 DEF ScanFails
  <2>6. ASSUME NEW i \in DOMAIN scans, decodeWithServer(i) PROVE Aimed'
    <3>1. PICK new : new = [scans[i] EXCEPT !.posted = TRUE]
      OBVIOUS
    <3>2. scans' = [scans EXCEPT ![i] = new] /\ new.row = scans[i].row
      BY <2>6, <3>1, ScanFacts DEF decodeWithServer, Scan
    <3>3. /\ UNCHANGED <<targetRow, picking, pressed, mishap>> /\ pressed \in Rows
          /\ board = "server" /\ board' = "server"
      BY <2>0, <2>6, ScanFacts DEF decodeWithServer
    <3>4. DOMAIN scans' = DOMAIN scans /\ \A j \in DOMAIN scans : scans'[j].row = scans[j].row
      BY <3>2
    <3> QED BY <1>0, <3>3, <3>4 DEF Aimed
  <2>7. ASSUME UNCHANGED <<targetRow, pressed, scans, mishap>>, picking' => picking PROVE Aimed'
    BY <1>0, <2>0, <2>7 DEF Aimed
  <2>8. CASE PickerCancelled
    BY <2>7, <2>8 DEF PickerCancelled
  <2>9. CASE reconstruct
    BY <2>7, <2>9 DEF reconstruct
  <2>10. ASSUME NEW s \in kept, NEW r \in Rows, Typed(r, s.share) PROVE Aimed'
    BY <2>7, <2>10 DEF Typed
  <2>11. ASSUME NEW i \in DOMAIN requests, ReconstructAnswered(i) \/ ReconstructFails(i) PROVE Aimed'
    BY <2>7, <2>11 DEF ReconstructAnswered, ReconstructFails
  <2> QED BY <1>3, <2>1, <2>2, <2>4, <2>5, <2>6, <2>8, <2>9, <2>10, <2>11, UnsplitSteps
<1> QED BY <1>1, <1>2, <1>3, RowSteps

\* A share comes into the row it was meant for, as hex and under its own x.
LEMMA ScansInTheirRowsKept ==
  ASSUME IInv, [Next]_vars
  PROVE  ScansInTheirRows'
<1>0. /\ ScansInTheirRows /\ UnsplitTypes /\ None \notin Share
      /\ rows \in [Rows -> RowType] /\ meant \in [Rows -> Share \cup {None}]
  BY NoneAssumption DEF IInv, UnsplitTypes
<1>1. CASE Opened'
  BY <1>1, EmptyPageNext
<1>2. CASE UNCHANGED <<splitVars, unsplitVars, page, board>>
  BY <1>0, <1>2 DEF ScansInTheirRows, unsplitVars, formVars, XOf
<1>3. CASE page = "unsplit" /\ ~mishap /\ UnsplitStep /\ UNCHANGED <<pageVars, splitVars>>
  <2>1. ASSUME NEW r \in Rows, NEW share \in Share, NEW x, NEW prefix \in 0 .. N, mishap' => mishap,
               (IF prefix # 0 THEN prefix ELSE x) = share.x,
               rows' = [rows EXCEPT ![r] = [x |-> x, prefix |-> prefix,
                                            data |-> [share |-> share, form |-> "hex"]]],
               meant' = [meant EXCEPT ![r] = share]
        PROVE  ScansInTheirRows'
    <3> SUFFICES ASSUME NEW q \in Rows
                 PROVE  IF meant'[q] = None THEN rows'[q].data = None
                        ELSE /\ rows'[q].data = [share |-> meant'[q], form |-> "hex"]
                             /\ XOf(rows'[q]) = meant'[q].x
      BY DEF ScansInTheirRows, XOf
    <3>1. CASE q = r
      <4>1. meant'[q] = share /\ share # None
        BY <1>0, <2>1, <3>1
      <4>2. rows'[q] = [x |-> x, prefix |-> prefix, data |-> [share |-> share, form |-> "hex"]]
        BY <1>0, <2>1, <3>1
      <4> QED BY <2>1, <4>1, <4>2 DEF XOf
    <3>2. CASE q # r
      <4>1. meant'[q] = meant[q] /\ rows'[q] = rows[q]
        BY <1>0, <2>1, <3>2
      <4> QED BY <1>0, <1>3, <4>1 DEF ScansInTheirRows
    <3> QED BY <3>1, <3>2
  <2>2. ASSUME NEW s \in kept, NEW r \in Rows, Typed(r, s.share) PROVE ScansInTheirRows'
    <3>1. s.share \in Share /\ s.share.x \in 0 .. N /\ s.share.x # 0
      BY KeptFacts, SplitPageAssumption
    <3>2. meant' = [meant EXCEPT ![r] = s.share] /\ (mishap' => mishap)
      BY <2>2 DEF Typed
    <3>3. rows' = [rows EXCEPT ![r] = [x |-> rows[r].x, prefix |-> s.share.x,
                                       data |-> [share |-> s.share, form |-> "hex"]]]
      BY <2>2, TypedRow
    <3> QED BY <2>1, <3>1, <3>2, <3>3
  <2>3. ASSUME NEW i \in DOMAIN scans,
               fillShareFromQR(i, IF board = "demo" /\ "codec" \notin loaded THEN "base32" ELSE "hex")
        PROVE  ScansInTheirRows'
    <3>1. CASE board = "demo" /\ "codec" \notin loaded
      <4>1. mishap'
        BY <2>3, <3>1 DEF fillShareFromQR
      <4> QED BY <4>1 DEF ScansInTheirRows
    <3>2. CASE ~(board = "demo" /\ "codec" \notin loaded)
      <4>1. fillShareFromQR(i, "hex")
        BY <2>3, <3>2
      <4>2. /\ scans[i].row = targetRow /\ targetRow \in Rows
            /\ scans[i].code \in Share /\ scans[i].code.x = scans[i].code.x /\ 0 \in 0 .. N
        BY <1>3, ScanFacts, SplitPageAssumption
      <4>3. mishap' => mishap
        BY <4>1, <3>2 DEF fillShareFromQR
      <4> QED BY <2>1, <4>1, <4>2, <4>3 DEF fillShareFromQR
    <3> QED BY <3>1, <3>2
  <2>4. ASSUME UNCHANGED <<rows, meant>>, mishap => mishap' PROVE ScansInTheirRows'
    BY <1>0, <2>4 DEF ScansInTheirRows, XOf
  <2>5. ASSUME NEW r \in Rows, ScanPressed(r) PROVE ScansInTheirRows'
    BY <2>4, <2>5 DEF ScanPressed
  <2>6. ASSUME NEW s \in kept, FileChosen(s.share) PROVE ScansInTheirRows'
    BY <2>4, <2>6 DEF FileChosen
  <2>7. ASSUME NEW i \in DOMAIN scans, decodeWithServer(i) \/ ScanFails(i) PROVE ScansInTheirRows'
    BY <2>4, <2>7 DEF decodeWithServer, ScanFails
  <2>8. CASE PickerCancelled
    BY <2>4, <2>8 DEF PickerCancelled
  <2>9. CASE reconstruct
    BY <2>4, <2>9 DEF reconstruct
  <2>10. ASSUME NEW i \in DOMAIN requests, ReconstructAnswered(i) \/ ReconstructFails(i)
         PROVE  ScansInTheirRows'
    BY <2>4, <2>10 DEF ReconstructAnswered, ReconstructFails
  <2> QED BY <1>3, <2>2, <2>3, <2>5, <2>6, <2>7, <2>8, <2>9, <2>10, UnsplitSteps
<1> QED BY <1>1, <1>2, <1>3, RowSteps

LEMMA UntouchedKept ==
  ASSUME IInv, [Next]_vars
  PROVE  Untouched'
<1>1. CASE page = "split"
  <2>1. UNCHANGED unsplitVars \/ page' = "unsplit"
    BY <1>1, Steps DEF vars, OpenUnsplit, Open
  <2> QED BY <1>1, <2>1 DEF IInv, Untouched, UnsplitInit, FormInit, unsplitVars, formVars
<1>2. CASE page # "split"
  <2>1. page' = page
    BY <1>2, Steps DEF vars, pageVars, PageStep, ModuleLoaded, BipClicked, SlipClicked, PassphraseClicked
  <2> QED BY <1>2, <2>1 DEF Untouched
<1> QED BY <1>1, <1>2

\* What is sent is what is meant.
LEMMA SentAsMeant ==
  ASSUME IInv, ~mishap
  PROVE  /\ Filled = {r \in Rows : meant[r] # None}
         /\ DOMAIN parseShares = Filled
         /\ \A r \in Filled :
              /\ meant[r] \in Share
              /\ parseShares[r].x = meant[r].x
              /\ parseShares[r].data = [share |-> meant[r], form |-> "hex"]
<1>0. /\ meant \in [Rows -> Share \cup {None}]
      /\ \A r \in Rows : IF meant[r] = None THEN rows[r].data = None
                         ELSE /\ rows[r].data = [share |-> meant[r], form |-> "hex"]
                              /\ XOf(rows[r]) = meant[r].x
  BY DEF IInv, UnsplitTypes, ScansInTheirRows
<1>1. ASSUME NEW r \in Rows, meant[r] # None
      PROVE  rows[r].data # None /\ meant[r] \in Share
  <2>1. meant[r] \in Share
    BY <1>0, <1>1
  <2>2. [share |-> meant[r], form |-> "hex"] \in Data
    BY <2>1 DEF Data
  <2> QED BY <1>0, <1>1, <2>1, <2>2, NoneAssumption
<1>2. Filled = {r \in Rows : meant[r] # None}
  BY <1>0, <1>1 DEF Filled
<1>3. DOMAIN parseShares = Filled
  BY DEF parseShares
<1>4. ASSUME NEW r \in Filled
      PROVE  parseShares[r].x = XOf(rows[r]) /\ parseShares[r].data = rows[r].data
  BY DEF parseShares
<1> QED BY <1>0, <1>1, <1>2, <1>3, <1>4

\* A message that is hoped for is the one text the request can come to.
LEMMA OnlyTheMessage ==
  ASSUME IInv, NEW mode, NEW wasm, Hoped(mode, wasm) # None
  PROVE  /\ Answers(parseShares, mode, wasm) = {Hoped(mode, wasm)}
         /\ Sources(parseShares, mode, wasm) # {}
<1> DEFINE named == {r \in Rows : meant[r] # None}
           Of(e) == /\ \A r \in named : meant[r].deal = e
                    /\ Cardinality({meant[r].x : r \in named}) = Cardinality(named)
                    /\ Cardinality(named) >= K
                    /\ deals[e].mode = mode
                    /\ Readable(deals[e], Cardinality(named), wasm) /\ Bounded(deals[e], wasm)
           d == CHOOSE e \in DOMAIN deals : Of(e)
<1>1. ~mishap /\ \E e \in DOMAIN deals : Of(e)
  BY DEF Hoped
<1>2. Hoped(mode, wasm) = deals[d].message
  BY <1>1 DEF Hoped
<1>3. d \in DOMAIN deals /\ Of(d)
  BY <1>1
<1> HIDE DEF d
<1>4. IsFiniteSet(named) /\ Cardinality(named) \in Nat /\ K \in Nat \ {0}
  BY UnsplitPageAssumption, FS_Subset, FS_CardinalityType
<1>5. PICK q : q \in named
  BY <1>3, <1>4, FS_EmptySet
<1>6. /\ DOMAIN parseShares = named
      /\ \A r \in named : /\ meant[r] \in Share
                          /\ parseShares[r].x = meant[r].x
                          /\ parseShares[r].data = [share |-> meant[r], form |-> "hex"]
  BY <1>1, SentAsMeant
<1>7. \A r \in named : meant[r] = [deal |-> d, x |-> meant[r].x]
  BY <1>3, <1>6 DEF Share
<1>8. Quorum(parseShares, d)
  <2>1. Cardinality(DOMAIN parseShares) >= K
    BY <1>3, <1>6
  <2>2. \A r \in DOMAIN parseShares :
          parseShares[r].data = [share |-> [deal |-> d, x |-> parseShares[r].x], form |-> "hex"]
    BY <1>6, <1>7
  <2>3. ASSUME NEW r \in named, NEW s \in named, meant[r].x = meant[s].x
        PROVE  r = s
    <3> DEFINE f == [t \in named |-> meant[t].x]
    <3>1. DOMAIN f = named /\ f[r] = f[s] /\ {f[t] : t \in named} = {meant[t].x : t \in named}
      BY <2>3
    <3> HIDE DEF f
    <3>2. Cardinality({f[t] : t \in named}) = Cardinality(named)
      BY <1>3, <3>1
    <3> HIDE DEF named
    <3> QED BY <1>4, <3>1, <3>2, SameSizeSameElement
  <2> QED BY <1>6, <2>1, <2>2, <2>3 DEF Quorum
<1>9. ASSUME NEW e, Quorum(parseShares, e) PROVE e = d
  <2>1. parseShares[q].data = [share |-> [deal |-> e, x |-> parseShares[q].x], form |-> "hex"]
    BY <1>5, <1>6, <1>9 DEF Quorum
  <2>2. [share |-> [deal |-> e, x |-> parseShares[q].x], form |-> "hex"].share
          = [share |-> [deal |-> d, x |-> meant[q].x], form |-> "hex"].share
    BY <1>5, <1>6, <1>7, <2>1
  <2>3. [deal |-> e, x |-> parseShares[q].x].deal = [deal |-> d, x |-> meant[q].x].deal
    BY <2>2
  <2> QED BY <2>3
<1>10. Sources(parseShares, mode, wasm) = {d}
  BY <1>3, <1>6, <1>8, <1>9 DEF Sources
<1> QED BY <1>2, <1>3, <1>10 DEF Answers

\* What is expected comes, if somebody answers.
LEMMA AwaitedKept ==
  ASSUME IInv, [Next]_vars
  PROVE  Awaited'
<1> DEFINE Answer == SUBSET (Message \cup {Other})
<1>0. /\ Awaited /\ PageTypes /\ UnsplitTypes
      /\ requests \in Seq(Answer) /\ Len(requests) \in Nat
      /\ DOMAIN requests = 1 .. Len(requests)
      /\ requests = <<>> <=> Len(requests) = 0
  BY LenProperties, EmptySeq DEF IInv, UnsplitTypes
<1>1. CASE Opened'
  BY <1>1, EmptyPageNext
<1>2. CASE UNCHANGED <<splitVars, unsplitVars, page, board>>
  BY <1>0, <1>2 DEF Awaited, unsplitVars, formVars
<1>3. CASE page = "unsplit" /\ ~mishap /\ UnsplitStep /\ UNCHANGED <<pageVars, splitVars>>
  <2>0. UNCHANGED board
    BY <1>3 DEF pageVars
  <2>1. ASSUME UNCHANGED <<requests, expected, result>> PROVE Awaited'
    BY <1>0, <2>0, <2>1 DEF Awaited
  <2>2. CASE reconstruct
    <3>1. \A mode, wasm : Hoped(mode, wasm) # None =>
            Answers(parseShares, mode, wasm) = {Hoped(mode, wasm)}
      BY OnlyTheMessage
    <3>2. CASE "sss" \in loaded
      <4>1. board = "demo"
        BY <1>0, <3>2 DEF PageTypes
      <4>2. expected' # None => result' = expected'
        <5>1. ASSUME expected' # None
              PROVE  /\ expected' = Hoped(compressionMode, TRUE)
                     /\ \/ \E text \in Answers(parseShares, compressionMode, TRUE) : result' = text
                        \/ Sources(parseShares, compressionMode, TRUE) = {}
          BY <2>2, <3>2, <5>1 DEF reconstruct, reconstructWasm, Shows
        <5>2. ASSUME expected' # None
              PROVE  /\ Answers(parseShares, compressionMode, TRUE) = {expected'}
                     /\ Sources(parseShares, compressionMode, TRUE) # {}
          <6>1. \A wasm : Hoped(compressionMode, wasm) # None =>
                  /\ Answers(parseShares, compressionMode, wasm) = {Hoped(compressionMode, wasm)}
                  /\ Sources(parseShares, compressionMode, wasm) # {}
            BY <3>1, OnlyTheMessage
          <6>2. Hoped(compressionMode, TRUE) # None =>
                  /\ Answers(parseShares, compressionMode, TRUE) = {Hoped(compressionMode, TRUE)}
                  /\ Sources(parseShares, compressionMode, TRUE) # {}
            BY <6>1, Zenon
          <6> QED BY <5>1, <5>2, <6>2
        <5> QED BY <5>1, <5>2
      <4> QED BY <2>0, <4>1, <4>2 DEF Awaited
    <3>3. CASE "sss" \notin loaded
      <4> DEFINE before == [i \in DOMAIN requests |-> requests[i] \cup {Other}]
      <4>0. before \in Seq(Answer) /\ Len(before) = Len(requests)
        BY <1>0, RequestsWithOther
      <4>1. PICK new : /\ new = Answers(parseShares, compressionMode, FALSE)
                       /\ requests' = Append(before, new)
        BY <2>2, <3>3 DEF reconstruct, reconstructFetch
      <4> HIDE DEF before
      <4>2. expected' # None => requests = <<>> /\ new = {expected'}
        BY <2>2, <3>1, <3>3, <4>1 DEF reconstruct, reconstructFetch
      <4>3. /\ Len(requests') = Len(requests) + 1 /\ requests'[Len(requests) + 1] = new
            /\ requests' # <<>>
        <5>1. new \in Answer
          BY <4>1, DealtMessages
        <5> HIDE DEF Answer
        <5>2. /\ requests' \in Seq(Answer) /\ Len(requests') = Len(requests) + 1
              /\ requests'[Len(requests) + 1] = new
          <6>1. /\ Append(before, new) \in Seq(Answer)
                /\ Len(Append(before, new)) = Len(before) + 1
                /\ Append(before, new)[Len(before) + 1] = new
            BY <4>0, <5>1, AppendKeeps
          <6> QED BY <4>0, <4>1, <6>1
        <5> QED BY <1>0, <5>2, EmptySeq
      <4>4. expected' # None => Len(requests') = 1 /\ requests'[1] = {expected'}
        BY <1>0, <4>2, <4>3
      <4> QED BY <4>3, <4>4 DEF Awaited
    <3> QED BY <3>2, <3>3
  <2>3. ASSUME NEW i \in DOMAIN requests, ReconstructAnswered(i) PROVE Awaited'
    <3>1. requests' = RemoveAt(requests, i) /\ result' \in requests[i] /\ UNCHANGED expected /\ board # "demo"
      BY <2>3 DEF ReconstructAnswered
    <3>2. Len(requests') = Len(requests) - 1 /\ requests' \in Seq(Answer)
      <4> HIDE DEF Answer
      <4> QED BY <1>0, <3>1, RemoveAtKeeps
    <3>3. CASE expected = None
      BY <3>1, <3>3 DEF Awaited
    <3>4. CASE expected # None
      <4>1. Len(requests) = 1 /\ requests[1] = {expected} /\ i = 1
        BY <1>0, <3>1, <3>4 DEF Awaited
      <4>2. requests' = <<>> /\ result' = expected'
        BY <3>1, <3>2, <4>1, EmptySeq
      <4> QED BY <4>2 DEF Awaited
    <3> QED BY <3>3, <3>4
  <2>4. ASSUME NEW i \in DOMAIN requests, ReconstructFails(i) PROVE Awaited'
    BY <2>4 DEF ReconstructFails, Awaited
  <2>5. ASSUME NEW r \in Rows, ScanPressed(r) PROVE Awaited'
    BY <2>1, <2>5 DEF ScanPressed
  <2>6. ASSUME NEW s \in kept, FileChosen(s.share) PROVE Awaited'
    BY <2>1, <2>6 DEF FileChosen
  <2>7. ASSUME NEW s \in kept, NEW r \in Rows, Typed(r, s.share) PROVE Awaited'
    BY <2>1, <2>7 DEF Typed
  <2>8. ASSUME NEW i \in DOMAIN scans, NEW form, fillShareFromQR(i, form) PROVE Awaited'
    BY <2>1, <2>8 DEF fillShareFromQR
  <2>9. ASSUME NEW i \in DOMAIN scans, decodeWithServer(i) \/ ScanFails(i) PROVE Awaited'
    BY <2>1, <2>9 DEF decodeWithServer, ScanFails
  <2>10. CASE PickerCancelled
    BY <2>1, <2>10 DEF PickerCancelled
  <2> QED BY <1>3, <2>2, <2>3, <2>4, <2>5, <2>6, <2>7, <2>8, <2>9, <2>10, UnsplitSteps
<1> QED BY <1>1, <1>2, <1>3, RowSteps

-----------------------------------------------------------------------------
(* The theorems. *)

LEMMA Invariance == Spec => []IInv
<1>1. Init => IInv
  <2> SUFFICES ASSUME Init PROVE IInv
    OBVIOUS
  <2>1. PageTypes
    BY DEF Init, PageTypes, Wanted, NoBoxes
  <2>2. SplitTypes
    <3>1. /\ divides \in Seq([message : Message, mode : Mode]) /\ deals \in Seq(Split)
          /\ Len(deals) = 0 /\ Len(divides) = 0
      BY DEF Init, SplitInit
    <3> QED BY <3>1, SplitPageAssumption DEF Init, SplitInit, SplitTypes
  <2>3. UnsplitTypes /\ Aimed /\ ScansInTheirRows /\ Awaited /\ Untouched
    <3>1. UnsplitInit /\ Opened
      BY SplitPageAssumption DEF Init, UnsplitInit, Opened
    <3> QED BY <3>1, EmptyPage DEF Untouched
  <2> QED BY <2>1, <2>2, <2>3 DEF IInv
<1>2. IInv /\ [Next]_vars => IInv'
  <2> SUFFICES ASSUME IInv, [Next]_vars PROVE IInv'
    OBVIOUS
  <2> QED BY PageTypesKept, SplitTypesKept, UnsplitTypesKept, AimedKept, ScansInTheirRowsKept,
             AwaitedKept, UntouchedKept DEF IInv
<1> QED BY <1>1, <1>2, PTL DEF Spec

\* At most one list is checked, a passphrase only with a list; what is in
\* flight and what is displayed is of splits that were made, and the rows hold
\* shares the user kept.
THEOREM TypeCorrect == Spec => []TypeOK
<1>1. IInv => TypeOK
  <2> SUFFICES ASSUME IInv PROVE TypeOK
    OBVIOUS
  <2>0. PageTypes /\ SplitTypes /\ UnsplitTypes
    BY DEF IInv
  <2>1. /\ page \in DOMAIN Wanted /\ board \in Board /\ loaded \subseteq Wanted[page]
        /\ boxes \in [bip : BOOLEAN, slip : BOOLEAN, passphrase : BOOLEAN, disabled : BOOLEAN]
        /\ ~(boxes.bip /\ boxes.slip)
        /\ boxes.disabled = ~(boxes.bip \/ boxes.slip) /\ ~(boxes.disabled /\ boxes.passphrase)
    BY <2>0 DEF PageTypes
  <2>2. Len(divides) <= MaxDeals /\ Len(deals) <= MaxDeals
    <3>1. deals \in Seq(Split) /\ divides \in Seq([message : Message, mode : Mode])
      BY <2>0 DEF SplitTypes
    <3>2. Len(deals) \in Nat /\ Len(divides) \in Nat
      BY <3>1, LenProperties
    <3> QED BY <2>0, <3>2, SplitPageAssumption DEF SplitTypes
  <2>3. \A i \in DOMAIN divides : divides[i].message \in Message /\ divides[i].mode \in Mode
    <3> SUFFICES ASSUME NEW i \in DOMAIN divides
                 PROVE  divides[i].message \in Message /\ divides[i].mode \in Mode
      OBVIOUS
    <3> DEFINE Ask == [message : Message, mode : Mode]
    <3>1. divides \in Seq(Ask)
      BY <2>0 DEF SplitTypes
    <3>2. divides[i] \in Ask
      <4> HIDE DEF Ask
      <4> QED BY <3>1, ElementOfSeq
    <3> QED BY <3>2
  <2>4. \A d \in DOMAIN deals :
          /\ deals[d].message \in Message /\ deals[d].mode \in Mode
          /\ deals[d].bytes \in {"utf8", "low bytes", "cut"}
    <3> SUFFICES ASSUME NEW d \in DOMAIN deals
                 PROVE  /\ deals[d].message \in Message /\ deals[d].mode \in Mode
                        /\ deals[d].bytes \in {"utf8", "low bytes", "cut"}
      OBVIOUS
    <3>1. deals[d] \in Split
      <4>1. deals \in Seq(Split)
        BY <2>0 DEF SplitTypes
      <4> HIDE DEF Split
      <4> QED BY <4>1, ElementOfSeq
    <3> QED BY <3>1 DEF Split
  <2>5. displayed \in 0 .. Len(deals) /\ kept \subseteq Keepsake
        /\ \A s \in kept : s.share.deal \in DOMAIN deals
    BY <2>0 DEF SplitTypes
  <2>6. /\ targetRow \in Rows \cup {None} /\ picking \in BOOLEAN
        /\ Len(scans) <= MaxScans /\ Len(requests) <= MaxRequests
        /\ used \in 0 .. SecretMax /\ result \in Message \cup {None, Other}
    BY <2>0 DEF UnsplitTypes
  <2>7. ASSUME NEW r \in Rows
        PROVE  /\ rows[r].x \in Nat /\ rows[r].prefix \in 0 .. N
               /\ rows[r].data # None =>
                    /\ rows[r].data \in Data
                    /\ \E s \in kept : s.share = rows[r].data.share
    <3>1. rows[r] \in RowType
      BY <2>0 DEF UnsplitTypes
    <3>2. /\ rows[r].x \in Nat /\ rows[r].prefix \in 0 .. N
          /\ rows[r].data \in {None} \cup [share : KeptShares, form : {"hex", "base32"}]
      BY <3>1 DEF RowType
    <3>3. ASSUME rows[r].data # None
          PROVE  rows[r].data \in Data /\ \E s \in kept : s.share = rows[r].data.share
      <4>1. rows[r].data \in [share : KeptShares, form : {"hex", "base32"}]
        BY <3>2, <3>3
      <4>2. KeptShares \subseteq Share
        BY <2>0 DEF SplitTypes, KeptShares, Keepsake
      <4>3. rows[r].data.share \in KeptShares
        BY <4>1
      <4> QED BY <4>1, <4>2, <4>3 DEF Data, KeptShares
    <3> QED BY <3>2, <3>3
  <2> QED BY <2>1, <2>2, <2>3, <2>4, <2>5, <2>6, <2>7 DEF TypeOK
<1> QED BY <1>1, Invariance, PTL

\* unsplit.js 289-302, 532-585: unless the scans of two rows overlapped, or a
\* code was read before the codec had come, every row holds the share that was
\* scanned or typed into it, however many rows and scans there are.
THEOREM ScansStayInTheirRows == Spec => []ScansInTheirRows
<1>1. IInv => ScansInTheirRows
  BY DEF IInv
<1> QED BY <1>1, Invariance, PTL

\* split.js and unsplit.js from end to end: a quorum of one split's shares,
\* combined in the mode of that split with no other request outstanding, shows
\* the message that was split, for any messages and any number of shares.
THEOREM QuorumShowsMessage == Spec => []MessageRecovered
<1>1. IInv => MessageRecovered
  BY DEF IInv, Awaited, MessageRecovered
<1> QED BY <1>1, Invariance, PTL

===============================================================================
