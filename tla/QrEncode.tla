------------------------------- MODULE QrEncode -------------------------------
(***************************************************************************)
(* A request for a QR code, of a text or of a share: qrcodegen_encodeText  *)
(* of src/src/qrcode/qr_encode.c with its two buffers, which change what   *)
(* they hold from step to step, and the drawing of the result as SVG, by   *)
(* the device (handler_qr_svg_render) or in the page (wasm_qr_generate).   *)
(***************************************************************************)
EXTENDS QrGrid, QrStandard, ShareText

CONSTANTS
  Texts,              \* bound: texts asked of the page
  Queries,            \* bound: texts asked of the device; Error is a request without one
  Shares,             \* bound: shares asked for, as hex texts
  Drawn,              \* bound: versions whose codes are drawn, not only chosen
  QR_SVG_BUF_SIZE     \* room for a reply

ASSUME QrEncodeAssumption ==
  /\ Texts \subseteq Seq(0 .. 44 \cup {NoPlace})
  /\ \A what \in Queries : what # Error => what \in Seq(0 .. 44 \cup {NoPlace})
  /\ Drawn \subseteq Version
  /\ QR_SVG_BUF_SIZE \in Nat

VARIABLES
  pc,          \* what has been done
  share,       \* the share asked for, Error for a text
  asked,       \* the text asked for
  text,        \* what is encoded
  version,     \* 0 before it is chosen
  tempBuffer,  \* the segment, then the codewords, then the function modules
  qrcode,      \* the data, then the grid
  mask,        \* masks tried
  bestMask, minPenalty,
  svg          \* length of the SVG document, -1 for none

vars == <<pc, share, asked, text, version, tempBuffer, qrcode, mask, bestMask, minPenalty, svg>>

LONG_MAX == 2147483647

Init ==
  /\ pc = "idle" /\ share = Error /\ asked = <<>> /\ text = <<>> /\ version = 0
  /\ tempBuffer = <<>> /\ qrcode = <<>>
  /\ mask = 0 /\ bestMask = 0 /\ minPenalty = LONG_MAX
  /\ svg = -1

\* Room for the text of a query, as it is sent and decoded.
TEXT_BUF_SIZE == 1024

\* The places of blank, $, %, +, / and the colon: a browser sends an escape of
\* three characters, "%2." or, for the colon, "%3.".
Escaped == {36, 37, 38, 40, 43, 44}

RawLength(what, n) == n + 2 * Cardinality({i \in 1 .. n : what[i] \in Escaped})

\* get_query_param cuts what is sent, in the middle of an escape as well; url_decode
\* takes what is left of one for characters.
Received(what) ==
  LET whole == CHOOSE n \in 0 .. Len(what) :
                 /\ RawLength(what, n) < TEXT_BUF_SIZE
                 /\ n < Len(what) => RawLength(what, n + 1) >= TEXT_BUF_SIZE
  IN  IF whole = Len(what) THEN what
      ELSE SubSeq(what, 1, whole)
             \o SubSeq(<<38, IF what[whole + 1] = 44 THEN 3 ELSE 2>>,
                       1, TEXT_BUF_SIZE - 1 - RawLength(what, whole))

\* A request of the device.
handler_qr_svg(what) ==
  /\ pc = "idle"
  /\ IF what = Error THEN pc' = "refused" /\ UNCHANGED <<asked, text>>
     ELSE pc' = "asked" /\ asked' = what /\ text' = Received(what)
  /\ UNCHANGED <<share, version, tempBuffer, qrcode, mask, bestMask, minPenalty, svg>>

\* A call of the page, whose text may be of any length.
AskPage(what) ==
  /\ pc = "idle"
  /\ pc' = "asked" /\ asked' = what /\ text' = what
  /\ UNCHANGED <<share, version, tempBuffer, qrcode, mask, bestMask, minPenalty, svg>>

\* The places of a share's code: its x in decimal, a colon, and the base32
\* letters and digits.
Spelled(code) ==
  [i \in 1 .. code.x.chars |-> (code.x.value \div 10^(code.x.chars - i)) % 10]
    \o <<44>>
    \o [i \in DOMAIN code.chars |->
          IF code.chars[i] < 26 THEN code.chars[i] + 10 ELSE code.chars[i] - 24]

\* handler_qr_share_svg; the page calls the same function with the same size.  A
\* share so long that its query is cut has too many digits before and after.
AskShare(hex) ==
  LET code == share_to_base32(hex, SHARE_B32_BUF_SIZE + 4)
  IN  /\ pc = "idle"
      /\ share' = hex
      /\ IF code = Error THEN pc' = "refused" /\ UNCHANGED text
         ELSE pc' = "asked" /\ text' = Spelled(code)
      /\ UNCHANGED <<asked, version, tempBuffer, qrcode, mask, bestMask, minPenalty, svg>>

\* Only the alphanumeric mode is known: lower case is refused.  A segment that
\* outgrows the buffer is written over what lies behind it; if that does no harm,
\* no version fits.
MakeSegment ==
  /\ pc = "asked"
  /\ IF ~isAlphanumeric(text) THEN pc' = "failed" /\ UNCHANGED tempBuffer
     ELSE IF WithinBuffer(text) THEN tempBuffer' = makeAlphanumeric(text) /\ pc' = "segment"
     ELSE pc' \in {"overrun", "failed"} /\ UNCHANGED tempBuffer
  /\ UNCHANGED <<share, asked, text, version, qrcode, mask, bestMask, minPenalty, svg>>

\* The first version with room, or none.
ChooseVersion ==
  /\ pc = "segment"
  /\ IF \E v \in Version : Fits(tempBuffer, v)
     THEN /\ version' = CHOOSE v \in Version :
                          Fits(tempBuffer, v) /\ \A w \in 1 .. v - 1 : ~Fits(tempBuffer, w)
          /\ pc' = "versioned"
     ELSE UNCHANGED version /\ pc' = "failed"
  /\ UNCHANGED <<share, asked, text, tempBuffer, qrcode, mask, bestMask, minPenalty, svg>>

AppendBits ==
  /\ pc = "versioned" /\ version \in Drawn
  /\ qrcode' = Padded(Message(tempBuffer, Len(text), version), getNumDataCodewords(version))
  /\ pc' = "data"
  /\ UNCHANGED <<share, asked, text, version, tempBuffer, mask, bestMask, minPenalty, svg>>

AddEcc ==
  /\ pc = "data"
  /\ tempBuffer' = addEccAndInterleave(qrcode, version)
  /\ pc' = "codewords"
  /\ UNCHANGED <<share, asked, text, version, qrcode, mask, bestMask, minPenalty, svg>>

\* The codewords go where the grid is still light, so the light function
\* modules are drawn after them.
Draw ==
  /\ pc = "codewords"
  /\ tempBuffer' = initializeFunctionModules(version)
  /\ qrcode' = drawLightFunctionModules(
                 drawCodewords(tempBuffer, initializeFunctionModules(version), version), version)
  /\ pc' = "drawn"
  /\ UNCHANGED <<share, asked, text, version, mask, bestMask, minPenalty, svg>>

\* A trial that leaves the mask on the grid.
TryMaskAndKeep ==
  /\ pc = "drawn" /\ mask < 8
  /\ LET masked == drawFormatBits(mask, applyMask(tempBuffer, qrcode, mask, version), version)
         score  == getPenaltyScore(masked, version)
     IN  /\ bestMask' = (IF score < minPenalty THEN mask ELSE bestMask)
         /\ minPenalty' = (IF score < minPenalty THEN score ELSE minPenalty)
         /\ qrcode' = masked
  /\ mask' = mask + 1
  /\ UNCHANGED <<pc, share, asked, text, version, tempBuffer, svg>>

\* Mask, format bits, score, and the mask undone; the format bits stay.
TryMask ==
  /\ pc = "drawn" /\ mask < 8
  /\ LET masked == drawFormatBits(mask, applyMask(tempBuffer, qrcode, mask, version), version)
         score  == getPenaltyScore(masked, version)
     IN  /\ bestMask' = (IF score < minPenalty THEN mask ELSE bestMask)
         /\ minPenalty' = (IF score < minPenalty THEN score ELSE minPenalty)
         /\ qrcode' = applyMask(tempBuffer, masked, mask, version)
  /\ mask' = mask + 1
  /\ UNCHANGED <<pc, share, asked, text, version, tempBuffer, svg>>

ApplyBest ==
  /\ pc = "drawn" /\ mask = 8
  /\ qrcode' = drawFormatBits(bestMask, applyMask(tempBuffer, qrcode, bestMask, version), version)
  /\ pc' = "encoded"
  /\ UNCHANGED <<share, asked, text, version, tempBuffer, mask, bestMask, minPenalty, svg>>

-----------------------------------------------------------------------------
(* SVG. *)

SVG_SCALE == 8
SVG_MARGIN == 4 * SVG_SCALE

X(m) == SVG_MARGIN + m[1] * SVG_SCALE
Y(m) == SVG_MARGIN + m[2] * SVG_SCALE + SVG_SCALE \div 2

\* A rectangle element for every dark module.
RectsLength(dark) == 55 * Cardinality(dark)

\* "Mx,yh8" for every dark module: four characters and the digits.
PathLength(dark) ==
  LET DigitsFrom(p) == Cardinality({m \in dark : X(m) >= p}) + Cardinality({m \in dark : Y(m) >= p})
  IN  4 * Cardinality(dark) + DigitsFrom(1) + DigitsFrom(10) + DigitsFrom(100) + DigitsFrom(1000)

\* The declaration and the opening element with the side four times.
svg_begin(side) == 129 + 4 * (IF side < 1000 THEN 3 ELSE 4)

Background == 57
Closing == 43

\* Characters of the document.
SvgLength(dark, size) ==
  svg_begin(size * SVG_SCALE + 2 * SVG_MARGIN) + Background + PathLength(dark) + Closing

\* Every part has to leave room for the NUL.
qrcode_to_svg(dark, size, room) ==
  IF SvgLength(dark, size) < room THEN SvgLength(dark, size) ELSE -1

Rendered(room) ==
  /\ pc = "encoded"
  /\ svg' = qrcode_to_svg(qrcode, Size(version), room)
  /\ pc' = IF svg' = -1 THEN "failed" ELSE "answered"
  /\ UNCHANGED <<share, asked, text, version, tempBuffer, qrcode, mask, bestMask, minPenalty>>

\* The device writes 67 characters of headers ahead of the document.
DeviceRoom == QR_SVG_BUF_SIZE - 67

\* It has no longer texts.
handler_qr_svg_render == Len(text) < TEXT_BUF_SIZE /\ Rendered(DeviceRoom)

wasm_qr_generate == Rendered(QR_SVG_BUF_SIZE)

Next ==
  \/ \E what \in Queries : handler_qr_svg(what)
  \/ \E what \in Texts : AskPage(what)
  \/ \E hex \in Shares : AskShare(hex)
  \/ MakeSegment \/ ChooseVersion \/ AppendBits \/ AddEcc \/ Draw
  \/ TryMask \/ ApplyBest
  \/ handler_qr_svg_render \/ wasm_qr_generate

Spec == Init /\ [][Next]_vars

-----------------------------------------------------------------------------
(* Properties. *)

IsGrid(g) == g \subseteq Square(version)

\* Types; a segment, up to the longest that the buffer holds, ends in a byte
\* that was cleared for it.
TypeOK ==
  /\ pc \in {"idle", "asked", "segment", "versioned", "data", "codewords", "drawn",
             "encoded", "answered", "failed", "refused", "overrun"}
  /\ version \in Version \cup {0} /\ mask \in 0 .. 8 /\ bestMask \in 0 .. 7
  /\ minPenalty \in Int /\ svg \in Int
  /\ pc \in {"segment", "versioned"} =>
       /\ tempBuffer \in Seq({0, 1})
       /\ (Len(tempBuffer) + 7) \div 8 = (calcSegmentBitLength(Len(text)) + 7) \div 8
  /\ pc = "data" =>
       qrcode \in Seq(0 .. 255) /\ Len(qrcode) = getNumDataCodewords(version)
  /\ pc = "codewords" =>
       tempBuffer \in Seq(0 .. 255) /\ Len(tempBuffer) = RawCodewords(version)
  /\ pc \in {"drawn", "encoded"} => IsGrid(qrcode) /\ IsGrid(tempBuffer)

\* The version is the smallest that holds the text, as the standard's table
\* of capacities says, up to its last character; every text that one holds finds
\* room in the buffer of its segment, too.
VersionAsStandard ==
  /\ pc = "versioned" =>
       /\ Len(text) <= StandardCapacity[version]
       /\ \A v \in 1 .. version - 1 : Len(text) > StandardCapacity[v]
  /\ pc \in {"failed", "overrun"} /\ version = 0 =>
       NoPlace \in ToSet(text) \/ Len(text) > StandardCapacity[40]

\* The codewords have exactly the modules the standard leaves them: the
\* function modules drawn are those it reserves, and the count by formula is
\* the count of the others, but for a rest that makes no byte.
LayoutAsStandard ==
  pc = "versioned" =>
    /\ initializeFunctionModules(version) = StandardReserved(version)
    /\ getNumRawDataModules(version) = Cardinality(Square(version) \ StandardReserved(version))

\* A reader that knows the standard but not the encoder finds the patterns
\* that make the picture a code and the mask in both copies of the format
\* bits, walks the free modules, finds every block free of errors and gets the
\* text back; which is the one that was asked for, if the query had room for it.
ReadsBack ==
  pc = "encoded" =>
    /\ PatternsRead(qrcode, version)
    /\ FormatRead(qrcode, version) # {}
    /\ version >= 7 => VersionRead(qrcode, version)
    /\ \A m \in FormatRead(qrcode, version) : BlocksIntact(CodewordsRead(qrcode, version, m), version)
    /\ \A m \in FormatRead(qrcode, version) :
         TextRead(CodewordsRead(qrcode, version, m), version) = text
    /\ share = Error /\ RawLength(asked, Len(asked)) < TEXT_BUF_SIZE => text = asked

\* Every trial is undone before the next, and the mask kept is the first of
\* those whose codes have the smallest penalty, runs and finder-like patterns
\* being counted on the line with its light border.
BestMaskKept ==
  pc = "encoded" =>
    LET bare     == applyMask(tempBuffer, qrcode, bestMask, version)
        score[m \in 0 .. 7] ==
          StandardPenalty(drawFormatBits(m, applyMask(tempBuffer, bare, m, version), version),
                          Size(version))
    IN  /\ minPenalty = score[bestMask]
        /\ \A m \in 0 .. 7 : IF m < bestMask THEN score[m] > minPenalty ELSE score[m] >= minPenalty

\* A share as the device deals it.
Legal(hex) ==
  /\ hex.x.chars \in 1 .. 3 /\ hex.x.value \in 1 .. 255
  /\ Len(hex.chars) % 2 = 0 /\ Len(hex.chars) \in 2 .. 2 * SSS_MAX_SECRET_LEN
  /\ ToSet(hex.chars) \subseteq 0 .. 15

\* The code of a share is always drawn, up to the longest share: its text is
\* alphanumeric, finds a version, and even with every module dark the picture
\* of that version fits into a reply of the device.
SharesDrawn ==
  share # Error /\ Legal(share) =>
    /\ pc \notin {"refused", "failed", "overrun"}
    /\ pc = "versioned" => SvgLength(Square(version), Size(version)) < DeviceRoom

=============================================================================
