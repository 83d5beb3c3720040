-------------------------------- MODULE Codecs --------------------------------
(***************************************************************************)
(* The way of a secret through the codecs.  A phrase is compressed on the  *)
(* device (handler_divide) or in the page (the wrappers of                 *)
(* src/demo/src/compression_wasm.c) and later expanded on either.  A share *)
(* becomes a QR code's text and is read back by the device, by the demo or *)
(* by the page's own decoder.  Bytes that no phrase was compressed to (of  *)
(* a wrong or damaged quorum) and codes that no encoder made come in too.  *)
(***************************************************************************)
EXTENDS WordList, ShareText

CONSTANTS
  Texts,      \* bound: what users type
  StrayBytes, \* bound: what a quorum of other shares may give
  Payloads,   \* bound: bytes of the shares
  Prefixes1,  \* bound: what stands before the colon
  StrayCodes  \* bound: characters of foreign codes

\* Room for a text that the device read from a picture.
QR_DECODE_MAX_PAYLOAD == 2048

\* The buffers are as large as the longest phrases and shares ask for.  A stray
\* byte is a half of an index or, where ByteSize is not 256, of none.
ASSUME CodecsAssumption ==
  /\ Texts \subseteq Seq(1 .. 255)
  /\ StrayBytes \subseteq Seq(0 .. 255)
  /\ \A data \in StrayBytes :
       /\ Len(data) <= SSS_MAX_SECRET_LEN
       /\ \A i \in DOMAIN data :
            data[i] < ByteSize \/ \A list \in List : data[i] >= Len(Words(list))
  /\ Payloads \subseteq Seq(0 .. 255)
  /\ Prefixes1 \subseteq Prefix
  /\ StrayCodes \subseteq Seq(CodeChar)
  /\ \A list \in List :
       /\ 2 * MaxWords[list] <= SSS_MAX_SECRET_LEN
       /\ MaxWords[list] * (MaxWordLen - 1) + 2 <= SSS_MAX_SECRET_LEN
  /\ 2 * SSS_MAX_SECRET_LEN + 8 < QR_DECODE_MAX_PAYLOAD

Mode == {"classic", "passphrase"}

Side == {"device", "page"}

Reader == {"device", "demo", "jsqr"}

VARIABLES
  step,       \* what was done last
  phrase,     \* list, mode and text of the phrase
  bytes,      \* what it was compressed to, or stray bytes
  shown,      \* what these were expanded to, on each side
  share,      \* a share's hex text
  code,       \* the text of its QR code, or of a foreign one
  read        \* what each reader makes of that code

vars == <<step, phrase, bytes, shown, share, code, read>>

-----------------------------------------------------------------------------
(* The wrappers of the demo; NULL is Error. *)

wasm_bip39_compress(text) == wl_codec_compress("bip39", text, 2 * MaxWords["bip39"])
wasm_slip39_compress(text) == wl_codec_compress("slip39", text, 2 * MaxWords["slip39"])

wasm_bip39_compress_passphrase(text) ==
  wl_codec_compress_passphrase("bip39", text, SSS_MAX_SECRET_LEN)
wasm_slip39_compress_passphrase(text) ==
  wl_codec_compress_passphrase("slip39", text, SSS_MAX_SECRET_LEN)

\* The size of a phrase of the most and longest words, and its NUL.
PhraseSize(list) == MaxWords[list] * MaxWordLen + MaxWords[list] + 1

wasm_bip39_decompress(data) ==
  IF Len(data) > 2 * MaxWords["bip39"] THEN Error
  ELSE wl_codec_decompress("bip39", data, PhraseSize("bip39"))
wasm_slip39_decompress(data) ==
  IF Len(data) > 2 * MaxWords["slip39"] THEN Error
  ELSE wl_codec_decompress("slip39", data, PhraseSize("slip39"))

wasm_bip39_decompress_passphrase(data) ==
  IF Len(data) > SSS_MAX_SECRET_LEN THEN Error
  ELSE wl_codec_decompress_passphrase("bip39", data, 2 * SSS_MAX_SECRET_LEN)
wasm_slip39_decompress_passphrase(data) ==
  IF Len(data) > SSS_MAX_SECRET_LEN THEN Error
  ELSE wl_codec_decompress_passphrase("slip39", data, 2 * SSS_MAX_SECRET_LEN)

wasm_share_to_base32(text) == share_to_base32(text, SHARE_B32_BUF_SIZE + 4)
wasm_share_from_base32(text) == share_from_base32(text, 2 * SSS_MAX_SECRET_LEN + 5)

-----------------------------------------------------------------------------
(* The choice of the codec by the mode of the request. *)

DeviceCompress(list, mode, text) ==
  IF mode = "classic" THEN wl_codec_compress(list, text, SSS_MAX_SECRET_LEN)
  ELSE wl_codec_compress_passphrase(list, text, SSS_MAX_SECRET_LEN)

PageCompress(list, mode, text) ==
  CASE list = "bip39" /\ mode = "classic" -> wasm_bip39_compress(text)
    [] list = "bip39" /\ mode = "passphrase" -> wasm_bip39_compress_passphrase(text)
    [] list = "slip39" /\ mode = "classic" -> wasm_slip39_compress(text)
    [] list = "slip39" /\ mode = "passphrase" -> wasm_slip39_compress_passphrase(text)

\* What a C string shows of a text, on the device and in the page.
UpToNul(text) ==
  LET nuls == {i \in DOMAIN text : text[i] = 0}
  IN  IF text = Error \/ nuls = {} THEN text ELSE SubSeq(text, 1, Min(nuls) - 1)

DeviceExpand(list, mode, data) ==
  IF mode = "classic" THEN wl_codec_decompress(list, data, 2 * SSS_MAX_SECRET_LEN)
  ELSE wl_codec_decompress_passphrase(list, data, 2 * SSS_MAX_SECRET_LEN)

PageExpand(list, mode, data) ==
  CASE list = "bip39" /\ mode = "classic" -> wasm_bip39_decompress(data)
    [] list = "bip39" /\ mode = "passphrase" -> wasm_bip39_decompress_passphrase(data)
    [] list = "slip39" /\ mode = "classic" -> wasm_slip39_decompress(data)
    [] list = "slip39" /\ mode = "passphrase" -> wasm_slip39_decompress_passphrase(data)

CompressOn(side, list, mode, text) ==
  IF side = "device" THEN DeviceCompress(list, mode, text) ELSE PageCompress(list, mode, text)

ExpandOn(side, list, mode, data) ==
  UpToNul(IF side = "device" THEN DeviceExpand(list, mode, data) ELSE PageExpand(list, mode, data))

\* The demo and the device call the C decoder, the page's own one is JavaScript.
ReadBy(reader, text) ==
  CASE reader = "device" -> share_from_base32(text, QR_DECODE_MAX_PAYLOAD)
    [] reader = "demo"   -> wasm_share_from_base32(text)
    [] reader = "jsqr"   -> shareFromBase32(Trimmed(text))

-----------------------------------------------------------------------------

Init ==
  /\ step = "start"
  /\ phrase = Error /\ bytes = Error /\ shown = [s \in Side |-> Error]
  /\ share = Error /\ code = Error /\ read = [r \in Reader |-> Error]

Compress(side, list, mode, text) ==
  /\ step = "start"
  /\ phrase' = [list |-> list, mode |-> mode, text |-> text]
  /\ bytes' = CompressOn(side, list, mode, text)
  /\ step' = "compressed"
  /\ UNCHANGED <<shown, share, code, read>>

\* A quorum of other shares, or of damaged ones, gives any bytes.
Stray(list, mode, data) ==
  /\ step = "start"
  /\ phrase' = [list |-> list, mode |-> mode, text |-> <<>>]
  /\ bytes' = data
  /\ step' = "compressed"
  /\ UNCHANGED <<shown, share, code, read>>

\* sss_split takes no empty secret, so none comes back.
Expand ==
  /\ step = "compressed"
  /\ bytes \notin {Error, <<>>}
  /\ shown' = [s \in Side |-> ExpandOn(s, phrase.list, phrase.mode, bytes)]
  /\ step' = "expanded"
  /\ UNCHANGED <<phrase, bytes, share, code, read>>

Deal(x, data) ==
  /\ step = "start"
  /\ share' = Text(x, "hex", bytes_to_hex(data))
  /\ step' = "dealt"
  /\ UNCHANGED <<phrase, bytes, shown, code, read>>

\* The device (handler_qr_share_svg) and the demo call it alike.
Encode ==
  /\ step = "dealt"
  /\ code' = wasm_share_to_base32(share)
  /\ step' = "encoded"
  /\ UNCHANGED <<phrase, bytes, shown, share, read>>

Foreign(x, chars) ==
  /\ step = "start"
  /\ code' = Text(x, "base32", chars)
  /\ step' = "encoded"
  /\ UNCHANGED <<phrase, bytes, shown, share, read>>

Scan ==
  /\ step = "encoded"
  /\ code # Error
  /\ read' = [r \in Reader |-> ReadBy(r, code)]
  /\ step' = "read"
  /\ UNCHANGED <<phrase, bytes, shown, share, code>>

Next ==
  \/ \E list \in List, mode \in Mode :
       \/ \E side \in Side, text \in Texts : Compress(side, list, mode, text)
       \/ \E data \in StrayBytes : Stray(list, mode, data)
  \/ Expand
  \/ \E x \in Prefixes1 :
       \/ \E data \in Payloads : Deal(x, data)
       \/ \E chars \in StrayCodes : Foreign(x, chars)
  \/ Encode
  \/ Scan

Spec == Init /\ [][Next]_vars

-----------------------------------------------------------------------------

\* Types; what is split and what is sent fits in the buffers.
TypeOK ==
  /\ step \in {"start", "compressed", "expanded", "dealt", "encoded", "read"}
  /\ bytes # Error => bytes \in Seq(0 .. 255) /\ Len(bytes) <= SSS_MAX_SECRET_LEN
  /\ \A s \in Side : shown[s] # Error =>
       shown[s] \in Seq(1 .. 255) /\ Len(shown[s]) < 2 * SSS_MAX_SECRET_LEN
  /\ code # Error => code.chars \in Seq(CodeChar)
  /\ \A r \in Reader : read[r] # Error => read[r].chars \in Seq(CodeChar)

\* part is core with nothing but blanks around it.
Wraps(part, core) ==
  /\ core # <<>> => core[1] \notin Blank /\ core[Len(core)] \notin Blank
  /\ \E i \in 1 .. Len(part) - Len(core) + 1 :
       /\ SubSeq(part, i, i + Len(core) - 1) = core
       /\ \A j \in DOMAIN part \ (i .. i + Len(core) - 1) : part[j] \in Blank

Before(text, i) == SubSeq(text, 1, i - 1)
Behind(text, i) == SubSeq(text, i + 1, Len(text))

\* Whoever compressed a phrase, both sides expand it to its words in their
\* order and, behind the first separator, to its passphrase letter by letter
\* (an empty one is left out): nothing a user types is accepted and then
\* changed or lost, and no buffer of either side is too small for it.
PhraseRecovered ==
  step = "expanded" /\ phrase.text # <<>> =>
    \A s \in Side :
      /\ shown[s] # Error
      /\ IF phrase.mode = "classic" THEN Tokens(shown[s]) = Tokens(phrase.text)
         ELSE LET in    == CHOOSE i \in DOMAIN phrase.text :
                             /\ phrase.text[i] = Separator
                             /\ Separator \notin ToSet(Before(phrase.text, i))
                  empty == Separator \notin ToSet(shown[s])
                  out   == IF empty THEN Len(shown[s]) + 1
                           ELSE CHOOSE i \in DOMAIN shown[s] :
                                  /\ shown[s][i] = Separator
                                  /\ Separator \notin ToSet(Before(shown[s], i))
              IN  /\ \E i, j \in 1 .. in - 1 :
                       LET core == SubSeq(phrase.text, i, j)
                       IN  /\ Wraps(Before(phrase.text, in), core)
                           /\ Tokens(Before(shown[s], out)) = Tokens(core)
                  /\ Wraps(Behind(phrase.text, in),
                           IF empty THEN <<>> ELSE Behind(shown[s], out + 1))

\* The bytes end in a passphrase as a user may type it, or have none to end in.
Retypable(data, mode) ==
  mode = "passphrase" =>
    LET pass == SubSeq(data, 2 + 2 * data[1], Len(data))
    IN  pass # <<>> /\ 0 \notin ToSet(pass) /\ pass[1] \notin Blank /\ Last(pass) \notin Blank

\* A phrase that is shown stands for one byte string only: typed in again it
\* is compressed to the same bytes, also when it came from other shares'
\* bytes, which no phrase was compressed to.
PhraseStable ==
  step = "expanded" /\ Retypable(bytes, phrase.mode) =>
    \A s, t \in Side :
      shown[s] # Error => CompressOn(t, phrase.list, phrase.mode, shown[s]) = bytes

\* The code's x is written as an encoder's caller writes it.  With zeros or blanks
\* ahead of it, the longest codes outgrow the buffers of the encoder and of the
\* demo, though not the one of the device.
PlainNumber == code.x.chars <= 3

\* Blanks ahead of x are gone from what jsQR reads.
AsRead(r, text) ==
  IF r = "jsqr" THEN Text(Unblanked(text.x), text.alphabet, text.chars) ELSE text

\* Every reader makes of an encoder's code the share that was dealt, and of a
\* foreign code that the device takes, in letters of either case, the same share
\* as the device, but for blanks ahead of its x; only the demo may refuse it, if
\* its x is written with blanks or zeros ahead.
ScansAgree ==
  step = "read" =>
    /\ share # Error => \A r \in Reader : read[r] = AsRead(r, share)
    /\ read["device"] # Error =>
         \A r \in Reader :
           \/ read[r] = AsRead(r, read["device"])
           \/ r = "demo" /\ ~PlainNumber /\ read[r] = Error

\* A code in capitals, as an encoder writes it.
Capitals(text) == Text(text.x, text.alphabet, Values(text.chars))

\* But for the case of its letters, one code stands for one share: a code that
\* the C decoder takes is, in capitals, the one its share is encoded to, or that
\* share's text is refused.
CodesCanonical ==
  step = "read" /\ read["device"] # Error /\ code.chars # <<>> =>
    \/ wasm_share_to_base32(read["device"]) = Capitals(code)
    \/ ~PlainNumber /\ wasm_share_to_base32(read["device"]) = Error

=============================================================================
