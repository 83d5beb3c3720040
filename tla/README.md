# Relic Core in TLA+

Relic Core is a firmware for ESP32 boards (Zephyr, C). The device opens a Wi-Fi
access point, sends every browser to its own page, splits a secret into five
shares of which any three recover it, and recovers secrets from shares that are
typed in or scanned as QR codes. This directory holds TLA+ models of it, the TLC
configurations that check them and the TLAPS proofs about them.

Paths below are relative to the repository.

## 1. The system

| Part | Source | State it keeps | Operations | Modelled by |
|---|---|---|---|---|
| Secret sharing | `src/sss/sss.c` | lookup tables, filled on first use | `sss_split`, `sss_combine` | `GaloisField`, `FieldTables`, `Shamir`, `SecretSharing` |
| HTTP server | `src/access-point/http/src/http_server.c` | two threads, a listening socket and one connection each | accept, receive, dispatch, send, close | `ConnectionService`, `HttpServer`, `HttpService` |
| Router | `.../http_router.c` | none | `router_parse`, `router_dispatch` | `HttpServer` (what it can decide), `Portal` (what a query loses) |
| Upload handler | `.../http_handlers.c` `handler_qr_decode_stream` | decoder context with its image | stream the body into the image, decode | `HttpServer` |
| Split and reconstruct | `.../http_handlers.c` `handler_divide`, `handler_reconstruct` | static shares and static secret, kept from request to request | one request each | `Portal` |
| SVG handlers | `.../http_handlers.c`, `src/svg` | static text buffers | `/qr.svg`, `/qr-share.svg` | `ShareText`, `QrEncode` |
| Boot and Wi-Fi | `src/main.c`, `src/access-point/wifi/src/wifi_mgr.c` | semaphore, event callback | `wifi_mgr_init`, event handler | `WifiBoot` |
| DHCP | `src/access-point/net/src/dhcp.c` | none | `dhcp_server_start` | `WifiBoot` (outcome) |
| DNS interceptor | `src/access-point/net/src/dns.c` | a socket and two datagram buffers | filter and answer a query | `Dns`, on top of `WifiBoot` |
| Word list codecs | `src/compression/word_list` | none | compress and expand, with or without a passphrase | `WordList`, `Codecs`; two tables in `Portal` |
| Base32, share text | `src/compression/encoding` | none | to and from `x:base32` | `Base32`, `ShareText`, `Codecs` |
| QR encoder | `src/qrcode/qr_encode.c` | two buffers that change their content from step to step | encode a text | `QrBits`, `QrGrid`, `QrEncode` |
| QR decoders | `src/qrcode/quirc`, `src/qrcode/zxing` | streaming decoder context | begin, buffer, commit, destroy | the context's life in `HttpServer` |
| Page scripts | `src/access-point/assets/scripts` | check boxes, loaded modules, input rows, target row | split, keep, scan, reconstruct | `PortalPage`, `SplitPage`, `UnsplitPage`, `Pages` |
| WASM demo | `demo/src` | none | wrappers of the same C functions with their own buffers | `Codecs`, `QrEncode` |

How they interact. `main` runs `wifi_mgr_init`, which waits on a semaphore that
the network management thread gives when the driver reports the access point, and
then creates the threads of the DNS and HTTP servers; it looks at none of the
results. From then on a browser talks to the device: the HTTP thread takes one
connection at a time, reads the headers, and calls one handler, which returns the
whole reply as a string. Only the upload handler reads from the socket itself. The
handlers share no data with the other threads, but they share static buffers with
their own earlier calls. The page is served by the device and calls it back with
`fetch`, one user action at a time, without waiting for the previous answer.

What is hard about it, and where it is looked at:

* *Interleaving and segmentation* - clients that send and read in pieces, stall,
  end or reset, against a thread that serves one of them at a time (`HttpServer`);
  a report of the driver that comes before the wait for it (`WifiBoot`).
* *State left behind* - static buffers across requests of different users, and
  requests that were refused half-way (`Portal`).
* *Arithmetic that only fails for some values* - tables, Lagrange bases
  (`FieldTables`, `SecretSharing`).
* *Truncation without a word* - a request longer than the receive buffer, a value
  longer than its own, a text longer than the reply (`Portal`, `QrEncode`, `Pages`), a
  reply longer than its datagram (`Dns`).
* *Partial failure and resources* - allocation, sends that take only a part,
  a failed decoding, a failed access point (`HttpServer`, `WifiBoot`).
* *Order in the browser* - modules that load late or never, scans and replies that
  overlap (`Pages`).
* *Two implementations of one format* - device, WASM wrappers and page script have a
  codec each (`Codecs`, `Pages`).
* *A buffer that is reused for something else* in each step of the encoder, and forty
  versions that differ in a few table entries (`QrEncode`).
* *Datagrams* that are lost, repeated or malformed (`Dns`).

What makes each part correct:

* *Sharing*: the tables multiply; a quorum recovers exactly; fewer shares are
  compatible with every secret; a damaged byte damages that byte only.
* *Server*: every accepted connection is held by one thread until closed, answered
  in whole, and closed at last; an upload lands byte for byte in its image; its
  memory is freed on every way out.
* *Portal*: a reply depends on what arrived of the request alone; a quorum is answered
  with its message; a message that is accepted is the one that is split.
* *Boot*: 0 means that the access point is up; an error means an error; servers
  start after it.
* *DNS*: only questions for the portal's domains are answered, and those are at last.
* *Codecs*: what was compressed is expanded to the same phrase, in the same mode, and
  every reader of a share's code gets the share.
* *QR codes*: a reader that knows the standard only reads the text, in the smallest
  version that holds it, under the best mask.
* *Pages*: a message comes back from any quorum of its shares, kept in any form.

`PROJECT.json` lists the hazards at their lines, with the properties that would
notice each going wrong.

## 2. The modules

`BitOps` has the exclusive or and single bits. `GaloisField` defines the field operations
of `sss.c` with the tables as functions, for any width and polynomial. `FieldTables` runs
`gf_init_tables` as the loop it is: one action `Turn` per turn, `Finish` for the two
assignments after it.

`Shamir` has `sss_split` and `sss_combine` as operators: the former takes the drawn
coefficients as an argument, so that a caller quantifies over the random generator;
the latter, like the code, combines whatever array it is given with the length it is
told. `SecretSharing` puts a dealer and a collector around them: `Split`, `Collect`
(any share, any order, repeats), `Damage` (one byte of one share), `Combine`.

`Portal` extends `Shamir` with the two handlers. `Divide` and `Reconstruct` are one
action each, because the HTTP thread runs a handler from start to end before it takes
another request. The variables `shares` and `secret` are the two static arrays of
`handler_reconstruct`; `deals` and `last` record what users were given and the last
request with its reply. A text is a sequence of field elements other than 0 (the end
of a C string); a message carries for each byte how many characters it takes in the
URL, one or three. `WriteEntry` is one turn of the parsing loop, which writes each
field as soon as it has it. What `printf("%s")` finds behind a buffer without a zero
byte is a choice over `Adjacent`.

A query is cut before a handler sees it. A request is received into 2047 characters, of
which "GET /reconstruct?" leaves `QUERY_ROOM`, 2030, to the query; `router_parse` takes
what is there. `ROUTER_QUERY_MAX`, `d_buf[2048]` and `x_buf[64]` cut nothing more, being
larger than what can still arrive. `Arrived` says what the handler has: first the word list
goes, then the end of whichever list comes last. The page sends `d` first, so the last
abscissa loses digits, and when the lists become unequal in number nothing is parsed and
the reply is a 400; with `x` first it is the last share that loses digits. Three shares
always fit, four of 256 bytes do not, five do up to 201 bytes. `Token` is the cut of a
share at 256 bytes. A request records what was sent and, as `got`, what arrived.

The codec is two tables. `Phrases` gives the bytes of a text: several texts may have the same
bytes, because blanks are skipped, and blanks alone have none. `Expanded` gives the text of
bytes, which has single blanks. The JSON of a reply is cut to `JsonRoom` behind its opening;
`announced` is the length as if it had not been, and `closed` says whether the end of
the JSON is in the reply. The text goes in without escapes.

`HttpServer` has the two threads and their clients. `pc` is where a thread stands:
`start` (socket, bind, listen), `accept`, `recv` (header loop), `dispatch`, `body`
(receive loop of the upload), `commit` (decode, destroy, reply), `send`, or `dead`
when the start failed. A stream is a count of units; each receive or send takes any
number that both ends allow. Headers cut short by the buffer or the client may parse
into anything that begins like the request (`Parse`). The TCP backlog, the send
window and resets are external.

`ConnectionService` is what the server promises: connections are taken in the order in
which they came, one at a time on each port, each is given one answer, and it is closed
with the whole of it unless its client left. `HttpService` maps the variables of
`HttpServer` to it: `waiting` is the backlog, `serving` the `client_fd` of a thread, and
a closed connection counts as answered if all units of its reply were taken.

`WifiBoot` has the main thread, the event handler and the driver. `Dns` extends it with
the thread of `dns.c`, which exists once `main` has reached it, a station that asks for
one name until it is resolved, and other traffic to the port. A query is its labels, the
way its name ends (with a zero byte, in a pointer, cut inside a label or between two),
whether the header is there, and how many bytes stand behind the name; sizes are computed
from them and cut at `DNS_BUF_SIZE`, as `recvfrom` does. A label is the parts between its own
dots, because the code writes the name as a string with dots and compares that: the one
label `relic.co` is answered like the two labels `relic` and `co`. A reply that the buffer
does not hold is written over the stack behind it, and then the thread goes on or is
`overrun`. The radio loses and, since a repeated question is the same datagram, repeats;
of the replies to others only the last one is under way (`InAir`).

`CodecError` has the error values; `Base32` the bit packing of `base32.c`; `WordList`
the two packings of `wl_codec.c` with every length check, for lists, word counts and
index widths that are parameters; `ShareText` the text `x:DATA` in hex and in base32, by
the device (`share_base32.c`), by the WASM wrapper and by the page's own decoder
(`unsplit.js`), with the blanks the page trims. A character of a code is its place among
A-Z, 2-7 and a-z: the decoders read small letters as capitals, and the page, which calls
`toUpperCase`, two letters beyond ASCII as well. `Codecs` composes them: `Compress` on either side, `Expand` on either
side, `Encode`, `Read` by any of three readers, and bytes and codes that no encoder made.

`QrBits` is the part of `qr_encode.c` that computes codewords: capacity by version,
character counts, Reed-Solomon and interleaving. `QrGrid` is the part that draws:
function modules, zigzag, masks, penalties. `QrStandard` is the reference: it is written
from the rules of the symbology, with the geometry and capacities given by other means
than the code's formulas, and it reads a grid back. `QrEncode` is the encoder's sequence
of steps on its two buffers, one action for each: `tempBuffer` is the segment, then the
codewords, then the function modules; `qrcode` the data, then the grid. After it comes
the SVG document, of which the length alone is modelled. The page passes a text of any
length (`Texts`); the device's own are `Queries`, cut by `get_query_param` at 1023
characters, escapes included. A segment that outgrows `tempBuffer` is written over what lies
behind it, and then no version fits or the encoder is `overrun`.

`PortalPage` is common to both pages: which board served it, which WASM modules it wants
and has, and the check boxes that exclude each other. `SplitPage` has `encrypt` by the
device or by the module, the shares displayed, and what the user keeps of them: a copied
text or a printed code. `UnsplitPage` has the rows, the file picker with the target
row, images that load and are decoded in their own time on the device or in the page,
and `/reconstruct`. `Pages` composes them. A message is known by its codec, whether it
has a passphrase, the widest of its characters, and whether it survives `/divide` (`url`)
and the JSON of a reply (`json`); `Size` is the length of its shares.

What the device answers is what `Portal` says of it. `Readable` says when a quorum can show its
message: all of it was split, the query has room for its shares, and the reply can be parsed.
`Bounded` says when it can show nothing else: a plain secret must leave room for its end, and
nothing longer may have been combined before, of which `used` keeps the length. Where they
do not hold, `Other` stands for whatever text comes instead.

The `MC*` modules and the `.cfg` files give the instances; the `*_proofs` modules have the
theorems: `Shamir_proofs` the lemmas about the operators of `GaloisField` and `Shamir`,
`FieldTables_proofs`, `SecretSharing_proofs`, `Portal_proofs`, `Pages_proofs`,
`HttpServer_proofs` (with the refinement of `HttpService`), `Dns_proofs` (with
`WifiBoot`) and `Codecs_proofs` the theorems about the specifications. Operators and actions with a comment
such as "a loop that sends on without subtracting" are the faulty variants named under
`mutants` in `PROJECT.json`: no specification uses them, each is a plausible bug, and one
of the properties fails when it takes the place of the definition it varies.

## 3. The runs

| Run | What it asks | Bounds and why they are enough |
|---|---|---|
| `field` | Do the tables multiply and divide, and does 0x03 generate the field? | None: the device's own GF(256) and 0x11B. The loop has one behaviour; `TablesMultiply` compares all products with the recursive definition over polynomials. |
| `sharing` | Recovery, secrecy, locality of damage. | GF(8), every coefficient the generator can draw, one- and two-byte secrets, 3-of-5, 2-of-7 (all abscissas of the field) and 2-of-3, up to three gathered shares, one damaged byte. The arithmetic of a byte depends on the field's laws only, which `field` checks at full size; two bytes show independence. Section 4 proves the properties for every field and size. |
| `codecs` | Is a phrase recovered on either side? Do all readers agree on a code? Is there one code for a share, but for the case of its letters? | Words of two letters, six and three of them, indices of two halves with four values each, seven bytes of a secret: one list has an index whose high half is not 0, one has the shorter phrase, and every length check has texts on both of its sides. Base32 has its real widths, with payloads of every length modulo five and codes in capitals, in small letters and mixed; an `x` is written plainly, with zeros or blanks ahead, or too long. Section 4 proves the properties for every list, size and text. |
| `qr` | Do the codes read back? | No reduction of the encoder: texts as long as each of the forty versions holds and one longer, the longest the segment's buffer holds (5698 characters) and one more; queries around 1023 characters, with an escape across the end; versions 1, 2, 4, 7, 10, 11, 18 and 19 are drawn (with and without alignment and version patterns, with one, two and more blocks of equal and of unequal length, both widths of the count, and the last that fits `QR_SVG_BUF_SIZE`). |
| `pages` | Is a message recovered through both pages? | Two splits of one message out of four: a phrase with a passphrase in Latin-1, a text that `/divide` cuts, one with a quote, one whose two shares have no room in the query (4 for 6 bytes). Two shares of two are kept, one as text and one as code; two rows, one scan and two requests outstanding; a device on which nothing or something longer was combined before. Each pair of boards, each order in which modules arrive or fail, each mode. A secret that fills the buffer is in `portal`. |
| `portal` | Do static buffers, typing errors or cut queries spoil a reply, their own or a later one? | GF(4), 2-of-3, three-byte buffers, two successful splits and two reconstructions. Two entries, in the first request with at most one mistyped or too long; or three of one dealing, whose query of up to 30 characters has room for 26 and so loses, in either order of the lists, the word list, digits of the last abscissa, digits of the last share, or everything. Three lengths, a long use before a short one, a refused or cut use before a good one, every mixture of two dealings, phrases with a blank too many, of blanks alone and longer than a reply occur. |
| `portal_tail` | "Returns a 200 OK with the reconstructed secret" | Violated, see section 5. |
| `portal_truncates` | Is the message that is split the one that was sent? | Violated, see section 5. |
| `server` | The properties of section 1 under every segmentation. | Two clients, seven pairs of requests (equal and unequal uploads, one that announces less or more than it sends, headers longer than the buffer, pages, TLS), a buffer of three units, a backlog of two, a window of one unit for a page of two. A third client would only wait in the backlog; each partial receive or send needs two units to occur. `ServesInOrder` is the specification of `ConnectionService` under the refinement mapping, its fairness included. |
| `boot` | Is the ready signal lost, do servers start early, does a station resolve, is anyone else answered? | Two waiting events: the main thread is finite and the handler forgets all but the semaphore. Two of the ten domains, with letters in capitals, one of them also as a single label with a dot in it, a subdomain, a response, an OPT record, a name cut off and a datagram without a header; and one padded to the size of the buffer, after which the thread may be `overrun`; one datagram of others waits beside the station's. |
| `dns_overrun` | Does a station resolve whatever others send? | Violated, see section 5. |
| `boot_failure` | What `wifi_mgr.h` says of the return value. | Violated, see section 5. |

Deadlock is checked in the runs of `Portal`. In the others the system may really
stop: a phrase is read, a code is drawn, a page is left alone, the table loop ends, a
dealing is over, all clients of the instance are served, the boot waits for a driver that
has failed.

Fairness. `HttpServer`: both threads have one priority and yield in every socket call,
so a thread that can move does (weak fairness of its steps); the timeout of the upload
is a step the thread can always take when nothing waits, because both boards with the
upload handler set `NET_CONTEXT_RCVTIMEO`. The code has no timeout for headers and
replies, so the liveness property needs two things of clients and states them: they
complete headers they began or close, and they read their reply or reset. Nothing is
asked of the body of an upload. `WifiBoot`: the two threads are scheduled, and the
driver reports the outcome of a request it accepted; whether it is a success is open.
`Dns`: the thread is scheduled, the station asks
again while it has no address (weak fairness), and of questions and replies that are
sent over and over the radio delivers one at last (strong fairness; without it a lossy
medium promises nothing). The property asks for an access point that stays up and a
thread that got its socket, which the code does not ensure.
`FieldTables` has weak fairness of its loop; it matters to no property.

## 4. The proofs

Every invariant of the runs `field`, `sharing`, `codecs`, `portal`, `pages` and `server`,
the order of the boot and the filter of the interceptor are theorems, for every value of the
constants their assumptions allow. `PROJECT.json` lists them under `theorems`.

### Recursive definitions and folds

The library's induction theorems take an operator as a parameter, which the provers
cannot instantiate. `Shamir_proofs` therefore states induction as facts about sets:
every non-empty set of numbers has a least element (`LeastElement`, from the
well-foundedness of finite subsets), a set with 0 and all successors has every number
(`NatInduct`), and a function definition whose right-hand side only asks for values of
lower rank has a solution (`Descends`, `Solution`, `RankInduct`). With these, what a
recursive function computes is proved as an equation (`XorEquation`,
`PowerOfTwoEquation`, `PowerEquation`) and so are the folds of the community modules
(`FoldExists`, `FoldUnique`, `FoldAnyOrder`). A property that needs an induction is a
set, `{n \in Nat : ...}`, and the proof shows that it has every number.

### The field and its tables

The first part of `Shamir_proofs` derives the laws of the field from two assumptions: the width has
at least two bits and the polynomial one bit more (`FieldAssumption`), and 3 generates
all elements but 0 (`GeneratorAssumption`, which is what the comment at the head of
`sss.c` says of 0x03; TLC evaluates it for GF(256) and 0x11B in `field`, and for the small
fields in the other runs). Multiplication by 3 is linear; multiplication by any element
is a number of turns of it, so `gf_mul` distributes (`MulDistributes`); that it
commutes, associates and is undone by `gf_div` is arithmetic of logarithms.

`FieldTables_proofs` proves that the loop establishes them. Its invariant `LoopInv`
adds to the types what `i` turns have written (`TurnsDone`): both halves of `exp` and
the logarithms of the powers passed, the entry of 0 untouched. When the flag is up the
arrays equal the tables of `GaloisField` (`FinishedTables`), and `TablesMultiply`,
`DivisionUndoes` and `EachPowerOnce` follow.

### Secret sharing

The rest of `Shamir_proofs` is about the operators of sharing. The heart is `InterpTails`: the sum
`sss_combine` computes, applied to the values of a polynomial in Horner's form, is its
constant. It goes by induction on the coefficients with two facts about the Lagrange basis
at 0: its members add up to 1 (`InterpOne`), and for a polynomial c + X q the sum is c
plus x times the difference of two sums for q, one over all shares and one without the
share of abscissa x (`InterpHorner`). Where q has fewer coefficients than either has
shares, the two sums are the same constant and cancel. Both rest on how the basis changes
when a share is removed (`BasisRemove`, `InterpShift`). `Recovery` and `CombineByte` put
this in terms of shares. `WrongValueShows`: no member of the basis is 0, so one wrong
value always shows. `PolynomialThrough` builds a polynomial through any points,
`SamePolynomial` says there is no second one; together they give `OneExplanation`, the
secrecy of the scheme.

`SecretSharing_proofs` uses the invariant `SharingInv`: the shares dealt are those of
one accepted call of `sss_split` (`DealtBySplit`), each share collected is one of them
except for its damaged bytes (`CollectedFromDealt`), at most one byte is damaged
(`OneDamage`), and what was recovered is what `sss_combine` gives for the shares
collected (`RecoveredByCombine`). From it: `QuorumRecovers`, `DamageStaysInItsByte`,
`FewerSharesRevealNothing` and `BytesSharedIndependently`, for any field, any threshold,
any number of shares and any length.

### The codecs

`Codecs_proofs` proves the five invariants of `Codecs` for any word lists, numbers of
words, widths of an index, texts, payloads, stray bytes and foreign codes.
`CodecsAssumption` says how large the buffers have to be for the longest phrase and the
longest share, which the code's sizes are (33 words of 8 characters, 256 bytes);
`WordListAssumption` that a list has no word twice and no blank or separator in one.

Nothing here depends on the order of calls, and the inductive invariant says so:
`CodecsInv` tells by which calls each value came - the bytes from a phrase on either side,
or from elsewhere (`PhraseWay`), what is shown from these bytes (`ShownWay`), the code from a
share that was dealt, or from elsewhere (`CodeWay`), what was read from this code
(`ReadWay`). The properties then follow from lemmas about the operators:

* A code's way is a matter of bits. `FiveBits` and `EightBits` compute what the fold that
  gathers a group makes of it, `BitsOfChar` and `BitsOfByte` that a group is made of its own
  bits. So regrouping bytes as characters and back gives the bytes (`RegroupBytes`), and
  characters whose spare bits are zero come back too (`RegroupChars`); the lengths agree
  because a partial group of either encoding has one length only (`Lengths`). `CodeIsRead`
  is the result for shares and `TakenCode` the one for codes.
* A phrase's way is a matter of words. `SpelledAt` says where in a text the words of a
  sequence stand; `WordsOfSpelled` shows that `Tokens` finds just these, and `JoinSpells`
  that what `Join` writes spells what it was given. With no word twice in a list an index is
  found again (`IndexOfIndexed`), and two bytes hold it (`HalvesTogether`). From these come
  `ClassicRecovered` and `ClassicStable`.
* With a passphrase, the text has three parts (`ThreeParts`): what compression accepts has
  a first separator, and its blanks can be cut (`TrimCuts`, `TrimKeeps`). What expansion
  writes is a text that compression cuts at the same place (`CanonicalParts`), so
  `PassphraseRecovered` and `PassphraseStable` follow from the two items above. That every
  buffer on the way has room, on the device and in the page, is `Sizes`.

The attempt to prove `ScansAgree` and `CodesCanonical` found them false as they had stood: an
`x` may be written with up to four zeros ahead of its three digits, and then the longest
codes are too long for two buffers (section 5). The properties now name this exception and no
other (`PlainNumber`), and the instance of `codecs` has it. `CodesCanonical` compares codes in
capitals: the decoders map either case of a letter to one value (`ValuesOf`), so a share
has many spellings and one code. That the page trims nothing of a written code is
`NothingTrimmed`.

### The handlers

`Portal_proofs` has the invariant `PortalInv`: the four properties and that every
dealing is one call of `sss_split` on what `ToSplit` made of its message
(`DealsBySplit`). Of the static buffers it says no more than their type: that is the
point. `QuorumCombined` shows for whatever the array of shares holds that
the entries of a quorum overwrite all that `sss_combine` reads of it and give the bytes
that were split; `AnswerOfQuorum` shows for whatever the secret's buffer holds beyond
those bytes that the reply begins with the message, and ends there if a 0 follows
(`PlainText`, `CStringEnds`) or if it is a phrase. `ReceivedType` shows that a message
whose URL form fits is received as it was typed, escapes included. `CombineReads` says
which parts of the array `sss_combine` looks at, and gives `OwnEntriesCombined`.

What is lost of a query stands between a request and the parser. `ArrivedType` says that
what arrives is a list of entries within their bounds, whatever was cut; `QuorumAsked` that
a quorum whose query fits arrives as it was sent, `ParseArrived` what the parser then makes of
it. `QuorumAnswered` and `PlainExactWhenFresh` are about quorums whose query fits and hold
after any requests, cut ones included; `OwnEntriesCombined` is about every request that was
combined, for any cut and any lengths of its shares. `JsonIs` says what a reply has room for.

`PortalAssumption` states what is used of the parts around: what was compressed can be
expanded, to less than the 512 bytes of `decompressed` (at most 33 words of 8 characters with
what follows them); the room in the reply's body is not less than a secret and its closing;
a query has room for one share. Several phrases may have the same bytes, and blanks
have none. All other sizes are free.

### The pages

`Pages_proofs` proves the three invariants of `Pages` for any messages, splits, rows,
scans and requests. `IInv` adds to them that a request in flight counts as a split
(`PageTypes`, `SplitTypes`, `UnsplitTypes`), that scans are of shares the user has, that the picker was
opened for the row the user means (`AimedKept`), and that what is sent and awaited
belongs to one message (`SentAsMeant`, `OnlyTheMessage`, `AwaitedKept`). The theorem
speaks of a quorum that is `Readable` and `Bounded` (section 2); about all others the
specification allows `Other`, also to requests that wait while another one is sent
(`RequestsWithOther`), because they may be answered behind it.

### The server

`HttpServer_proofs` proves the six safety invariants of `HttpServer` - `TypeOK`,
`HeldUntilClosed`, `ContextFreed`, `UploadInPlace`, `HeadersWhole`, `WholeReplies` -
for any set of clients, any requests and any sizes, from `ServerAssumption` alone: the
sizes are positive, scripts are functions to requests, and `NoConn` is no connection.

Most of them are not inductive. That an accepted connection is in no other hands needs to
know that the backlogs hold queued connections only, each once (`BacklogOnce`), and that a
connection is known to the device exactly once its client opened it (`KnownOnceOpen`).
That each pixel is in place needs to know where the stream stands while the body is read:
right behind the last pixel, or, if the headers never came whole, at an end that nothing
follows (`UploadInv`); and this in turn needs how the header loop was left (`ReadingInv`).
`ReplyChosen` says that a thread that sends has a reply. Their conjunction with the
invariants is `IInv`. The proof of `IInv /\ [Next]_vars => IInv'` is split by conjunct
(`TypesKept`, `HoldersKept`, `UploadKept`, `RepliesKept`), each with one step per action;
TLC checked `IInv` on the instance of `server` first.

Its second part shows that the threads implement `ConnectionService`
(`ImplementsService`): each step is a step of the service under the mapping of
`HttpService`, or leaves it as it is. It uses `IInv` and one more invariant,
`DecidedOnce`: an answer that is chosen is being sent, or its connection is closed; so no
thread can choose a second one. The theorem is about `SafeSpec`; that the fairness of the
service is implemented too is checked by TLC (`ServesInOrder`).

### Boot and interceptor

`Dns_proofs` proves `TypeOK` and `ServersAfterAp` of `WifiBoot` for any number of waiting
events. The invariant says that the semaphore remembers (`SemRemembers`: above 0 only
after a report of success), that nothing is requested before its step (`RequestedLate`),
and that after a request `wifi_mgr_init` returns from its wait alone (`ReturnsUp`).

It then proves that the device with the interceptor still implements `WifiBoot`,
fairness included (`BootUndisturbed`), so that what holds of the boot holds of it; and
`OnlyAllowedAnswered` for any domains, labels and datagrams, dots inside labels included, by
the invariant that every reply on its way was built from a question that passed the checks
(`RepliesBuilt`). That the reply to a plain question fits its buffer needs of
`DnsAssumption` that a buffer holds a header, the longest name and an answer; of replies to
longer datagrams nothing of the kind is claimed, nor true.

### Only model-checked

Liveness (`EveryConnectionCloses`, `BootCompletes`, `StationResolves`, the fairness in
`ServesInOrder`), which the prover cannot reach.

The six invariants of `QrEncode`. They compare the encoder with `QrStandard` through the
code's tables for forty versions, Reed-Solomon divisions and a grid of some ten thousand
modules: facts about these numbers, which TLC establishes by evaluating the encoder at its
real size, and for which no argument shorter than that evaluation is in sight. Of
the versions that are not drawn, TLC checks the choice and the room, not the symbol.

## 5. Where the code and its comments differ

* **A shorter secret is followed by the tail of a longer one** (`portal_tail`).
  `handler_reconstruct` combines into a static buffer that it neither clears nor ends
  with a zero byte, and hands it on as a C string (`http_handlers.c:399-408`).
  `PlainExactWhenFresh` says when the reply is exact, `QuorumAnswered` that it
  always begins with the secret.
* **A long message is split in part** (`portal_truncates`). The limit of 512
  characters applies to the percent-encoded value, whose rest is dropped without a word.
* **A padded question may stop the interceptor** (`dns_overrun`). The reply is the datagram
  and 16 bytes more, in a buffer of the datagram's largest size (`dns.c:333-337`).
* **`wifi_mgr_init` does not return when the access point fails** (`boot_failure`).

Visible in the models as the code has them, with no run of their own; the properties say
where they stop being about such behaviours:

* Portal: shares of unequal length are combined with bytes of earlier requests
  (`http_handlers.c:401`; `sss.h:76` asks for one length); two shares with
  one abscissa are combined into a wrong secret with a 200. A query of more than 2030
  characters - four shares of 256 bytes - is cut, and as the page sends `d` first, answered
  with a 400; a client that sends `x` first has its last share shortened. A phrase longer than
  262 characters is sent shorter than its Content-Length, its JSON open
  (`http_handlers.c:831`).
* Server: a request longer than the receive buffer is dispatched in part; one client that
  stalls in its headers stops the server; `http_server_start` returns 0 also when the
  thread then finds no socket.
* Boot: without an interface `wifi_mgr_init` returns 0 (`wifi_mgr.h:32`: "0 on success (AP
  ready)"); DHCP is started ahead of the driver's report, though the comment says after the
  enable (`wifi_mgr.c:279`).
* Lengths written by hand beside literal bodies are wrong in three replies, a table no model
  is needed for: 422 announces 21 bytes for 20 (`http_types.c:97`), 413 announces 18 for 17
  (line 85), 429 announces 16 for 17 (line 103).
* DNS: any type of question is answered with an A record (`dns.h:28` speaks of A-record
  queries); the answer goes behind everything the query had, so one with an OPT record
  is answered where a resolver does not look; RD is set whether or not the query had it
  (the comment says "copied from query"); a name cut off between two labels counts as
  complete.
* Codecs: the page's `shareFromBase32` takes code lengths that the device refuses, leaves
  what it cannot decode as it is and does not check `x`; an `x` of up to seven characters is
  accepted, but the buffers for a share's code (`http_handlers.c:501`) and for the demo's hex
  text (`compression_wasm.c:99`, "up to 3 digits") have room for three, so that the longest
  shares with leading zeros are read on the device only; a hex share of the characters
  A-F and 2-7 alone can be read as base32; a text of blanks compresses to no bytes, which
  `sss_split` then refuses; a phrase with an empty passphrase is expanded without its
  separator and is then no passphrase text.
* QR: the segment is written before the version is chosen, and one of more than 5698
  characters beyond its buffer, where `qr_encode.h:60-61` promises false; the comparison
  with `LENGTH_OVERFLOW` behind it (`qr_encode.c:143`) is never true, since the bits
  returned are those written; `/qr` encodes the beginning of a text that takes more than
  1023 characters in the query, an escape cut in two included. A text beyond version 18
  (1046 characters) does not fit the device's reply. No share is that long (`SharesDrawn`).
* Pages: two scans that overlap end in the row pressed last; a code read before the codec
  module is there stays base32 and is sent as hex, though the comment says that rows hold
  hex (`unsplit.js:393-394`); a failed call of a module leaks its buffers
  (`unsplit.js:136`); shares stay displayed after a request that failed (`split.js:250`);
  replies are shown as they come; the page lets two shares through although the threshold is
  three; a message with characters beyond Latin-1 loses half of them in `stringToBytes`.

## 6. Not modelled

`derive_wifi_psk` (a hash), the HTML and its styles, the route table, logging, what the
SVG text says, the recognition of QR codes and all vendored libraries (quirc, zxing,
jsQR). The word tables `bip39_words.c` and `slip39_words.c` are data. `main.c` and
`qr_decode_wasm.c` of the demo pass pointers on. A reboot loses all state, since nothing
is stored, so there is no recovery to model. The size of the WASM heap and the order of
fields inside a datagram are left out.

## 7. State

All modules of the plan are written: `GaloisField`/`FieldTables`, `Shamir`/`SecretSharing`,
`HttpServer`, `Portal`, `WifiBoot`, `Dns`, `Pages`, `Codecs` and the refinement of
`ConnectionService`, each with its proofs; `QrEncode` with its parts, model-checked.

Worth doing next: that the encoder's Reed-Solomon multiplication is a field's, with the
lemmas that exist for `gf_mul`; that the interleaving and the zigzag lose no codeword, for
every version at once, which the `qr` run checks by reading back.
