------------------------------- MODULE Portal -------------------------------
(***************************************************************************)
(* The two handlers of the portal that carry the secret, handler_divide    *)
(* and handler_reconstruct of http_handlers.c in                           *)
(* src/src/access-point/http/src, with their helpers, over the life of the *)
(* device: the HTTP thread runs them one request after the other, and what *)
(* one request leaves in the static buffers of handler_reconstruct is      *)
(* there for the next.                                                     *)
(*                                                                         *)
(* A text is a sequence of field elements that are not 0, since 0 is the   *)
(* byte that ends a C string.  In a URL a character takes one byte, or     *)
(* three as an escape %XX; a message is a sequence of <<byte, width>>.     *)
(*                                                                         *)
(* A request line that does not fit in rx_buf is cut, and with it the      *)
(* query: its end is lost without a trace.  d_buf[2048], x_buf[64] and     *)
(* ROUTER_QUERY_MAX never cut more, since the query is shorter than they.  *)
(***************************************************************************)
EXTENDS Shamir

CONSTANTS
  SSS_N, SSS_K,     \* 5 and 3 in the code
  Phrases,          \* by text, the bytes the word list codec makes of it
  Expanded,         \* by bytes, the text the codec makes of them
  Messages,         \* what users split
  RandomValues,     \* bound: what the random generator may draw
  Percent, HexDigit,\* the first two characters of an escape, taken literally
  JsonRoom,         \* characters that fit in the JSON body behind its opening,
  JsonClosing,      \* and those that close it: SSS_MAX_SECRET_LEN + 8 and 2
  QUERY_ROOM,       \* characters that arrive of the query of /reconstruct:
                    \* HTTP_RX_BUF_SIZE without its end and "GET /reconstruct?",
                    \* 2030
  ListWidth,        \* "&bip=1" is 6 characters, "&slip=1" 7
  Adjacent,         \* texts that memory after the secret buffer may spell
  Typos,            \* mistyped entries
  Orders,           \* in which clients send d and x: "dx" or "xd"
  MaxEntries,       \* bound: entries of one request, by the dealings so far
  MaxDeals,         \* bound: successful splits
  MaxAttempts       \* bound: reconstructions

Text == Seq(Elem \ {0})

Mode == {"plain", "words", "unknown"}    \* no bip/slip, "1" or "2", or other

\* One entry of d= and x=: an abscissa (0: none in 1..255), the bytes its hex
\* digits begin, and whether the digits are well-formed, odd in number (the last
\* byte has one), or wrong in the last byte.
Entry == [x : Elem, bytes : Seq(Elem), hex : {"ok", "odd", "digit"}]

ASSUME PortalAssumption ==
  /\ SSS_K \in Nat /\ 2 <= SSS_K
  /\ SSS_N \in Nat /\ SSS_K <= SSS_N /\ SSS_N < FieldSize
  /\ Phrases \in [DOMAIN Phrases -> Seq(Elem)] /\ DOMAIN Phrases \subseteq Text
  /\ Expanded \in [DOMAIN Expanded -> Text] /\ DOMAIN Expanded \subseteq Seq(Elem)
  \* What was compressed can be expanded: at most 33 words of 8 characters, " ; "
  \* and what 256 bytes leave for the passphrase.
  /\ \A p \in DOMAIN Phrases :
       Phrases[p] # <<>> /\ Len(Phrases[p]) <= SSS_MAX_SECRET_LEN =>
         /\ Phrases[p] \in DOMAIN Expanded
         /\ Len(Expanded[Phrases[p]]) < 2 * SSS_MAX_SECRET_LEN
  /\ Messages \subseteq Seq(Elem \X {1, 3})
  /\ RandomValues \subseteq Elem
  /\ {Percent, HexDigit} \subseteq Elem \ {0}
  /\ JsonRoom \in Nat /\ JsonClosing \in Nat /\ SSS_MAX_SECRET_LEN + JsonClosing <= JsonRoom
  /\ ListWidth \in Nat /\ QUERY_ROOM \in Nat
  /\ 2 * SSS_MAX_SECRET_LEN + ListWidth <= QUERY_ROOM
  /\ Adjacent \subseteq Text
  /\ Typos \subseteq Entry
  /\ Orders \subseteq {"dx", "xd"}
  /\ MaxDeals \in Nat /\ MaxAttempts \in Nat /\ MaxEntries \in [0 .. MaxDeals -> Nat]

VARIABLES
  deals,     \* what users were given: message, mode and shares, oldest first
  shares,    \* static shares of handler_reconstruct
  secret,    \* static secret of handler_reconstruct
  attempts,  \* reconstructions so far: for the bound only
  last       \* the last request and its reply

vars == <<deals, shares, secret, attempts, last>>

-----------------------------------------------------------------------------
(***************************************************************************)
(* Strings.                                                                *)
(***************************************************************************)

\* What a C string function sees of bytes: up to the first 0.
CString(bytes) ==
  LET zeros == {i \in DOMAIN bytes : bytes[i] = 0}
  IN  IF zeros = {} THEN bytes ELSE SubSeq(bytes, 1, Min(zeros) - 1)

Bytes(msg) == [i \in DOMAIN msg |-> msg[i][1]]

\* Characters the first n units of a message take in the URL: one each, and two
\* more for an escape.
UrlWidth(msg, n) == n + 2 * Cardinality({i \in 1 .. n : msg[i][2] = 3})

EncodedLength(msg) == UrlWidth(msg, Len(msg))

\* What the user typed, as far as a C string can hold it.
Typed(msg) == CString(Bytes(msg))

\* A buffer sized for a secret one byte shorter.
ReceivedOneShort(msg) ==
  LET limit == 2 * (SSS_MAX_SECRET_LEN - 1)
      whole == Max({n \in 0 .. Len(msg) : UrlWidth(msg, n) <= limit})
      rest  == IF whole = Len(msg) THEN 0 ELSE limit - UrlWidth(msg, whole)
  IN  CString(Bytes(SubSeq(msg, 1, whole))
              \o SubSeq(<<Percent, HexDigit>>, 1, rest))

\* msg_buf of handler_divide: the value is cut at 2 * SSS_MAX_SECRET_LEN
\* characters of the URL, and an escape that is cut in two stays as it is.
Received(msg) ==
  LET limit == 2 * SSS_MAX_SECRET_LEN
      whole == Max({n \in 0 .. Len(msg) : UrlWidth(msg, n) <= limit})
      rest  == IF whole = Len(msg) THEN 0 ELSE limit - UrlWidth(msg, whole)
  IN  CString(Bytes(SubSeq(msg, 1, whole))
              \o SubSeq(<<Percent, HexDigit>>, 1, rest))

-----------------------------------------------------------------------------
(***************************************************************************)
(* handler_divide.                                                         *)
(***************************************************************************)

\* The bytes that are split: the text itself or its compressed form; <<>> when
\* the codec refuses it.
ToSplit(text, mode) ==
  IF mode = "plain" THEN text
  ELSE IF mode = "words" /\ text \in DOMAIN Phrases
          /\ Len(Phrases[text]) <= SSS_MAX_SECRET_LEN
       THEN Phrases[text]
  ELSE <<>>

\* The last parameter of a query that has lost characters: the value goes first,
\* and without its "=" there is no parameter.
ModeWidth(mode) == IF mode = "plain" THEN 0 ELSE ListWidth

ModeLeft(mode, lost) ==
  IF lost = 0 THEN mode
  ELSE IF lost = 1 /\ mode # "plain" THEN "unknown"
  ELSE "plain"

Excess(width, room) == IF width <= room THEN 0 ELSE width - room

\* "msg=" and "GET /divide?" leave one character more than QUERY_ROOM.
DivideMode(msg, mode) ==
  ModeLeft(mode, Excess(EncodedLength(msg) + ModeWidth(mode), QUERY_ROOM + 1))

\* entries, mode: what the client sent; got: what the handler has of it.
Request(kind, entries, mode, got) ==
  [kind |-> kind, entries |-> entries, mode |-> mode, got |-> got]

\* A reply without a text.
Bare(request, status) ==
  [request |-> request, status |-> status, text |-> <<>>, announced |-> 0, closed |-> TRUE]

\* 200 with five shares, or 400.
Divide(msg, mode) ==
  LET got     == DivideMode(msg, mode)
      bytes   == ToSplit(Received(msg), got)
      request == Request("divide", <<>>, mode, [entries |-> <<>>, mode |-> got])
  IN  /\ IF SplitAccepts(Len(bytes), SSS_N, SSS_K)
         THEN /\ Len(deals) < MaxDeals
              /\ \E draws \in [1 .. Len(bytes) -> [1 .. SSS_K - 1 -> RandomValues]] :
                   deals' = Append(deals, [msg    |-> msg,
                                           mode   |-> mode,
                                           shares |-> sss_split(bytes, draws, SSS_N)])
              /\ last' = Bare(request, "200")
         ELSE /\ last' = Bare(request, "400")
              /\ UNCHANGED deals
      /\ UNCHANGED <<shares, secret, attempts>>

-----------------------------------------------------------------------------
(***************************************************************************)
(* The query of /reconstruct: d= and x=, in either order (the page sends d *)
(* first), and the word list, if any, last.                                *)
(***************************************************************************)

Digits(e) == 2 * Len(e.bytes) - IF e.hex = "odd" THEN 1 ELSE 0

XWidth(x) == IF x < 10 THEN 1 ELSE IF x < 100 THEN 2 ELSE 3

\* "d=", "&x=" and two lists with commas.
QueryWidth(entries, mode) ==
  3 + 2 * Len(entries) + ModeWidth(mode)
    + FoldFunction(LAMBDA m, n : m + n, 0,
                   [i \in DOMAIN entries |-> Digits(entries[i]) + XWidth(entries[i].x)])

Fits(entries, mode) == QueryWidth(entries, mode) <= QUERY_ROOM

\* An entry whose data ends after n digits.
DigitsKept(e, n) ==
  [e EXCEPT !.bytes = SubSeq(e.bytes, 1, (n + 1) \div 2),
            !.hex   = IF n % 2 = 1 THEN "odd" ELSE "ok"]

\* An entry whose abscissa has lost its last n digits.
XCut(e, n) == [e EXCEPT !.x = IF n = 1 THEN @ \div 10 ELSE IF n = 2 THEN @ \div 100 ELSE 0]

\* Tokens of any length.
TokenUncut(e) == e

\* get_token cuts at SSS_MAX_SECRET_LEN bytes of digits.
Token(e) ==
  IF Digits(e) <= 2 * SSS_MAX_SECRET_LEN THEN e ELSE DigitsKept(e, 2 * SSS_MAX_SECRET_LEN)

\* What the handler has of a query: the word list is lost first, then the end of
\* the last list; when a whole entry of it is lost, the lists are unequal and
\* nothing is parsed.
Arrived(entries, mode, order) ==
  LET lost == Excess(QueryWidth(entries, mode), QUERY_ROOM)
      cut  == lost - ModeWidth(mode)
      tail == Last(entries)
      Got(list, left) == [entries |-> [i \in DOMAIN list |-> Token(list[i])], mode |-> left]
      Instead(e) == [entries EXCEPT ![Len(entries)] = e]
  IN  IF lost <= ModeWidth(mode) THEN Got(entries, ModeLeft(mode, lost))
      ELSE IF order = "dx" /\ cut \in 1 .. XWidth(tail.x)
      THEN Got(Instead(XCut(tail, cut)), "plain")
      ELSE IF order = "xd" /\ cut \in 1 .. Digits(tail)
      THEN Got(Instead(DigitsKept(tail, Digits(tail) - cut)), "plain")
      ELSE Got(<<>>, "plain")

-----------------------------------------------------------------------------
(***************************************************************************)
(* handler_reconstruct.                                                    *)
(***************************************************************************)

\* data with its first bytes overwritten.
Overwrite(data, bytes) ==
  [j \in DOMAIN data |-> IF j <= Len(bytes) THEN bytes[j] ELSE data[j]]

EntryOk(e) == e.x # 0 /\ e.hex = "ok" /\ e.bytes # <<>>

\* A parser that takes the length of a share from its first use.
WriteEntryKeepsLength(old, e) ==
  IF e.x = 0 THEN old
  ELSE IF e.hex = "odd" \/ e.bytes = <<>> THEN [old EXCEPT !.x = e.x]
  ELSE [x    |-> e.x,
        len  |-> IF old.len = 0 THEN Len(e.bytes) ELSE old.len,
        data |-> Overwrite(old.data, IF e.hex = "ok" THEN e.bytes
                                     ELSE Front(e.bytes))]

\* What one turn of handler_parse_entry_share leaves in a share: it writes
\* each field as soon as it has it, and stops at the first error.
WriteEntry(old, e) ==
  IF e.x = 0 THEN old
  ELSE IF e.hex = "odd" \/ e.bytes = <<>> THEN [old EXCEPT !.x = e.x]
  ELSE [x    |-> e.x,
        len  |-> Len(e.bytes),
        data |-> Overwrite(old.data, IF e.hex = "ok" THEN e.bytes
                                     ELSE Front(e.bytes))]

\* A loop that ends before the last entry.
ParseEntriesButLast(old, entries) ==
  [i \in 1 .. SSS_N |->
     IF i < Len(entries) /\ \A j \in 1 .. i - 1 : EntryOk(entries[j])
     THEN WriteEntry(old[i], entries[i]) ELSE old[i]]

\* handler_parse_entry_share on the static array.
ParseEntries(old, entries) ==
  [i \in 1 .. SSS_N |->
     IF i <= Len(entries) /\ \A j \in 1 .. i - 1 : EntryOk(entries[j])
     THEN WriteEntry(old[i], entries[i]) ELSE old[i]]

\* handler_combine_json_response: the text goes in as it is, without escapes; it
\* is cut to the room there is, and the announced length is the one it would have
\* had.  The JSON is closed when there is room for that as well.
JsonReply(request, text) ==
  [request   |-> request,
   status    |-> "200",
   text      |-> SubSeq(text, 1, Min({Len(text), JsonRoom})),
   announced |-> Len(text),
   closed    |-> Len(text) + JsonClosing <= JsonRoom]

\* The text of a plain secret: up to the first 0 in the buffer, or beyond it.
PlainTexts(buffer) ==
  IF \E i \in DOMAIN buffer : buffer[i] = 0 THEN {CString(buffer)}
  ELSE {buffer \o more : more \in Adjacent}

\* The codec's text for bytes, if it fits in decompressed[].
PhrasesOf(bytes) ==
  {Expanded[b] : b \in {c \in DOMAIN Expanded :
                         c = bytes /\ Len(Expanded[c]) < 2 * SSS_MAX_SECRET_LEN}}

Answer(request, buffer, len) ==
  LET mode == request.got.mode
  IN  \/ /\ mode = "plain"
         /\ \E text \in PlainTexts(buffer) : last' = JsonReply(request, text)
      \/ /\ mode = "words"
         /\ \E p \in PhrasesOf(SubSeq(buffer, 1, len)) : last' = JsonReply(request, p)
      \/ /\ mode = "unknown"
            \/ (mode = "words" /\ PhrasesOf(SubSeq(buffer, 1, len)) = {})
         /\ last' = Bare(request, "500")

\* The parameters are missing, too few, too many or unequal in number.
ReconstructMalformed ==
  /\ last' = Bare(Request("reconstruct", <<>>, "plain", [entries |-> <<>>, mode |-> "plain"]),
                     "400")
  /\ UNCHANGED <<deals, shares, secret, attempts>>

\* Two to SSS_N entries, what is lost of the query before they are read; the
\* length combined is that of the first.
Reconstruct(entries, mode, order) ==
  LET got     == Arrived(entries, mode, order)
      request == Request("reconstruct", entries, mode, got)
      parsed  == ParseEntries(shares, got.entries)
      len     == parsed[1].len
  IN  /\ attempts < MaxAttempts
      /\ attempts' = attempts + 1
      /\ Len(entries) \in 2 .. SSS_N
      /\ shares' = parsed
      /\ IF got.entries = <<>> \/ \E i \in DOMAIN got.entries : ~EntryOk(got.entries[i])
         THEN last' = Bare(request, "400") /\ UNCHANGED secret
         ELSE IF ~CombineAccepts(Len(entries), len)
         THEN last' = Bare(request, "500") /\ UNCHANGED secret
         ELSE /\ secret' = Overwrite(secret, sss_combine(SubSeq(parsed, 1, Len(entries)), len))
              /\ Answer(request, secret', len)
      /\ UNCHANGED deals

-----------------------------------------------------------------------------

\* A share as the page shows it: its abscissa and the hex of its bytes.
AsEntry(share) ==
  [x |-> share.x, bytes |-> SubSeq(share.data, 1, share.len), hex |-> "ok"]

EntriesOf(deal) == {AsEntry(deal.shares[i]) : i \in 1 .. SSS_N}

Issued == UNION {EntriesOf(deals[i]) : i \in DOMAIN deals}

NoShare == [x |-> 0, len |-> 0, data |-> [b \in 1 .. SSS_MAX_SECRET_LEN |-> 0]]

Init ==
  /\ deals = <<>>
  /\ shares = [i \in 1 .. SSS_N |-> NoShare]
  /\ secret = [b \in 1 .. SSS_MAX_SECRET_LEN |-> 0]
  /\ attempts = 0
  /\ last = Bare(Request("none", <<>>, "plain", [entries |-> <<>>, mode |-> "plain"]), "400")

\* Bound: entries as they were issued, or, in the first request, two of which
\* one is mistyped.
EntryLists ==
  (UNION {[1 .. n -> Issued] : n \in 2 .. MaxEntries[Len(deals)]})
    \cup (IF attempts = 0
            THEN {[e EXCEPT ![i] = typo] : e \in [1 .. 2 -> Issued], i \in 1 .. 2, typo \in Typos}
            ELSE {})

\* A word list that is unknown is one that was cut, and in a query that fits
\* the order changes nothing.
Next ==
  \/ \E msg \in Messages, mode \in Mode : Divide(msg, mode)
  \/ ReconstructMalformed
  \/ \E entries \in EntryLists, mode \in {"plain", "words"} :
       \E order \in IF Fits(entries, mode) THEN {"dx"} ELSE Orders :
         Reconstruct(entries, mode, order)

Spec == Init /\ [][Next]_vars

-----------------------------------------------------------------------------

\* The last request offered a quorum of one dealing's shares, unaltered and
\* each once, in the mode of the dealing, and the message had fitted.
QuorumOf(deal) ==
  LET entries == last.request.entries
  IN  /\ last.request.kind = "reconstruct"
      /\ last.request.mode = deal.mode
      /\ Len(entries) >= SSS_K
      /\ ToSet(entries) \subseteq EntriesOf(deal)
      /\ Cardinality(ToSet(entries)) = Len(entries)
      /\ EncodedLength(deal.msg) <= 2 * SSS_MAX_SECRET_LEN

\* The same, in a query that arrived as it was sent.
WholeQuorumOf(deal) == QuorumOf(deal) /\ Fits(last.request.entries, last.request.mode)

Dealt == {deals[i] : i \in DOMAIN deals}

\* The text a reply should hold: the secret, or the phrase its compressed form
\* stands for, which may differ from what was typed in its blanks.
Expected(deal) ==
  IF deal.mode = "words" THEN Expanded[Phrases[Typed(deal.msg)]] ELSE Typed(deal.msg)

\* Types: whatever a client sends, a length stays within its buffer.
TypeOK ==
  /\ deals \in Seq([msg : Messages, mode : Mode, shares : [1 .. SSS_N -> Share]])
  /\ Len(deals) <= MaxDeals
  /\ shares \in [1 .. SSS_N -> Share]
  /\ secret \in [1 .. SSS_MAX_SECRET_LEN -> Elem]
  /\ attempts \in 0 .. MaxAttempts
  /\ last.status \in {"200", "400", "500"}
  /\ last.text \in Text /\ last.announced \in Nat

\* A quorum whose query fits is always answered with 200 and, for a phrase, with
\* exactly that phrase, as far as the reply has room; for a plain secret the
\* answer begins with it.  No earlier request of whatever kind, refused half-way
\* or cut, can spoil this through the static buffers.
QuorumAnswered ==
  \A d \in Dealt :
    WholeQuorumOf(d) =>
      LET text == Expected(d)
          seen == SubSeq(text, 1, Min({Len(text), JsonRoom}))
      IN  /\ last.status = "200"
          /\ IF d.mode = "words" THEN last.text = seen ELSE IsPrefix(seen, last.text)

\* A plain secret that leaves room for its end, and behind which the buffer
\* holds no byte of an earlier secret, is answered exactly as it was typed, in
\* a reply that is whole, by a quorum whose query fits.
PlainExactWhenFresh ==
  \A d \in Dealt :
    LET typed == Typed(d.msg)
    IN  /\ WholeQuorumOf(d) /\ d.mode = "plain"
        /\ Len(typed) < SSS_MAX_SECRET_LEN /\ secret[Len(typed) + 1] = 0
        => last.text = typed /\ last.announced = Len(typed) /\ last.closed

\* Whatever shares came, of one length or not, cut or not: up to the end of the
\* shortest, what is combined is what arrived of this request.  Shares left by
\* an earlier one, longer, shorter or refused half-way, take part only behind it.
OwnEntriesCombined ==
  LET entries  == last.request.got.entries
      shortest == Min({Len(entries[i].bytes) : i \in DOMAIN entries})
  IN  /\ last.request.kind = "reconstruct" /\ entries # <<>>
      /\ \A i \in DOMAIN entries : EntryOk(entries[i])
      => SubSeq(secret, 1, shortest)
           = sss_combine([i \in DOMAIN entries |->
                            [x |-> entries[i].x, len |-> shortest, data |-> entries[i].bytes]],
                         shortest)

\* http_handlers.h: "Returns a 200 OK with the reconstructed secret."  A
\* quorum of a plain dealing is answered with the secret, and nothing else.
ReconstructedExactly ==
  \A d \in Dealt :
    WholeQuorumOf(d) /\ d.mode = "plain" => last.text = Typed(d.msg)

\* http_handlers.h: "Receives a message to encrypt": what is split after a
\* 200 is the message.
MessageKept == \A d \in Dealt : Received(d.msg) = Typed(d.msg)

=============================================================================
