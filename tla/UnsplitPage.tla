------------------------------ MODULE UnsplitPage -----------------------------
(***************************************************************************)
(* unsplit.js: rows of shares, typed or scanned, and the request that      *)
(* combines them.  Images load, the device decodes and /reconstruct        *)
(* answers, each in its own time.                                          *)
(***************************************************************************)
EXTENDS SplitPage

CONSTANTS
  Rows,       \* numbers of the rows
  K,          \* shares a secret needs
  MaxScans,   \* bound: scans outstanding at once
  MaxRequests,\* bound: requests outstanding at once
  QueryRoom,  \* bytes of shares that the query of /reconstruct has room for
  Before,     \* bound: lengths of what others combined on the device before
  Other       \* a text that is no message; they are not told apart

ASSUME UnsplitPageAssumption ==
  /\ Rows \subseteq Nat /\ IsFiniteSet(Rows)
  /\ {K, MaxScans, MaxRequests} \subseteq Nat \ {0}
  /\ QueryRoom \in Nat /\ Before \subseteq 0 .. SecretMax
  /\ Other \notin Message \cup {None}

VARIABLES
  targetRow,   \* the row of the button pressed last
  picking,     \* the file picker is open
  scans,       \* images chosen and not yet read
  rows,        \* the fields: x, the "x:" typed before the data, and the data
  requests,    \* /reconstruct requests without their reply, each as the texts
               \* that may be shown for it
  used,        \* from here on the static secret of the device is 0 still
  result,      \* the text shown, None for none
  pressed,     \* history: the row whose button the user pressed last
  meant,       \* history: the share the user meant for each row
  mishap,      \* history: scans of two rows overlapped, or a code was read
               \* before the codec had come
  expected     \* history: what the last click should show, None if it may fail

formVars == <<targetRow, picking, scans, rows, requests, result, pressed, meant, mishap, expected>>

unsplitVars == <<formVars, used>>

Data == [share : Share, form : {"hex", "base32"}]

ASSUME NoneAssumption == None \notin Share \cup Data

EmptyRows == [r \in Rows |-> [x |-> r + 1, prefix |-> 0, data |-> None]]

FormInit ==
  /\ targetRow = None /\ picking = FALSE /\ scans = <<>>
  /\ rows = EmptyRows /\ requests = <<>> /\ result = None
  /\ pressed = None /\ meant = [r \in Rows |-> None] /\ mishap = FALSE /\ expected = None

UnsplitInit == FormInit /\ used = 0

\* A button that is only heard while no row is chosen.
ScanPressedOnce(r) ==
  /\ page = "unsplit" /\ ~picking
  /\ targetRow' = (IF targetRow = None THEN r ELSE targetRow)
  /\ picking' = TRUE /\ pressed' = r
  /\ mishap' = (mishap \/ \E i \in DOMAIN scans : scans[i].row # r)
  /\ UNCHANGED <<scans, rows, requests, used, result, meant, expected>>

\* The button of a row opens the picker, in front of everything else.
ScanPressed(r) ==
  /\ page = "unsplit" /\ ~picking
  /\ targetRow' = r
  /\ picking' = TRUE /\ pressed' = r
  /\ mishap' = (mishap \/ \E i \in DOMAIN scans : scans[i].row # r)
  /\ UNCHANGED <<scans, rows, requests, used, result, meant, expected>>

PickerCancelled ==
  /\ picking
  /\ picking' = FALSE
  /\ UNCHANGED <<targetRow, scans, rows, requests, used, result, pressed, meant, mishap, expected>>

\* The change event; row is the row the user means.
FileChosen(code) ==
  /\ picking /\ Len(scans) < MaxScans
  /\ picking' = FALSE
  /\ scans' = Append(scans, [row |-> pressed, code |-> code, posted |-> FALSE])
  /\ UNCHANGED <<targetRow, rows, requests, used, result, pressed, meant, mishap, expected>>

fillShareFromQR(i, form) ==
  LET code == scans[i].code
  IN  /\ rows' = [rows EXCEPT ![targetRow] =
                    [x |-> code.x, prefix |-> 0, data |-> [share |-> code, form |-> form]]]
      /\ meant' = [meant EXCEPT ![scans[i].row] = code]
      /\ mishap' = (mishap \/ (board = "demo" /\ "codec" \notin loaded))
      /\ scans' = RemoveAt(scans, i)
      /\ UNCHANGED <<targetRow, picking, requests, used, result, pressed, expected>>

\* Read in the page: by jsQR and shareFromBase32, or by the WASM modules; a
\* payload stays as it is while the codec is missing.
decodeLocal(i) ==
  /\ board = "jsqr" \/ (board = "demo" /\ "qr_decode" \in loaded)
  /\ fillShareFromQR(i, IF board = "demo" /\ "codec" \notin loaded THEN "base32" ELSE "hex")

decodeWithServer(i) ==
  /\ board = "server"
  /\ scans' = [scans EXCEPT ![i].posted = TRUE]
  /\ UNCHANGED <<targetRow, picking, rows, requests, used, result, pressed, meant, mishap, expected>>

ImageLoaded(i) == ~scans[i].posted /\ (decodeLocal(i) \/ decodeWithServer(i))

\* The device converts the payload before it answers.
DecodeAnswered(i) == scans[i].posted /\ fillShareFromQR(i, "hex")

\* No image, no code in it, or no answer.
ScanFails(i) ==
  /\ scans' = RemoveAt(scans, i)
  /\ UNCHANGED <<targetRow, picking, rows, requests, used, result, pressed, meant, mishap, expected>>

\* "x:hex" in the data field; the x field keeps what it holds.
Typed(r, share) ==
  /\ page = "unsplit" /\ ~picking
  /\ rows' = [rows EXCEPT ![r].prefix = share.x, ![r].data = [share |-> share, form |-> "hex"]]
  /\ meant' = [meant EXCEPT ![r] = share]
  /\ UNCHANGED <<targetRow, picking, scans, requests, used, result, pressed, mishap, expected>>

-----------------------------------------------------------------------------
(* Reconstruction. *)

\* The rows that are sent. Their order on the page decides nothing here.
Filled == {r \in Rows : rows[r].data # None}

\* A page that reads the field alone.
FieldShares == [r \in Filled |-> [x |-> rows[r].x, data |-> rows[r].data]]

\* The x before the colon wins over the field.
XOf(row) == IF row.prefix # 0 THEN row.prefix ELSE row.x

parseShares == [r \in Filled |-> [x |-> XOf(rows[r]), data |-> rows[r].data]]

\* Enough shares of one split under their own x, each once.
Quorum(entries, deal) ==
  /\ Cardinality(DOMAIN entries) >= K
  /\ \A r \in DOMAIN entries :
       entries[r].data = [share |-> [deal |-> deal, x |-> entries[r].x], form |-> "hex"]
  /\ \A r, q \in DOMAIN entries : entries[r].x = entries[q].x => r = q

\* Bytes split as they were typed are read as UTF-8 from the device's reply,
\* and one by one from the module's memory.
SameText(deal, wasm) ==
  \/ deal.message.chars = "ascii"
  \/ deal.bytes = "utf8" /\ ~wasm
  \/ deal.bytes = "low bytes" /\ wasm /\ deal.message.chars = "latin"

SizeOf(deal) == Size[<<deal.message, deal.mode.codec>>]

\* n shares of the split are combined and its message may be shown: all of it was
\* split; the device gets them in a query that is not cut, and its JSON can be
\* parsed and gives the text back.
Readable(deal, n, wasm) ==
  /\ deal.bytes # "cut"
  /\ deal.mode.codec # "none" \/ SameText(deal, wasm)
  /\ wasm \/ (n * SizeOf(deal) <= QueryRoom /\ deal.message.json)

\* Nothing else may be shown: the device reads a plain secret up to the first 0
\* of a buffer that it never clears.
Bounded(deal, wasm) ==
  \/ wasm \/ deal.mode.codec # "none"
  \/ used <= SizeOf(deal) /\ SizeOf(deal) < SecretMax

\* The splits that the entries are a readable quorum of: one, or none.
Sources(entries, mode, wasm) ==
  {d \in DOMAIN deals : /\ Quorum(entries, d) /\ deals[d].mode = mode
                        /\ Readable(deals[d], Cardinality(DOMAIN entries), wasm)}

\* What may be shown for a request. A query that is cut is refused, or has lost
\* its list and shows the bytes themselves.
Answers(entries, mode, wasm) ==
  LET sources == Sources(entries, mode, wasm)
  IN  {deals[d].message : d \in sources}
        \cup IF \E d \in sources : Bounded(deals[d], wasm) THEN {} ELSE {Other}

\* The user's view of a click: what is meant by the rows.
Hoped(mode, wasm) ==
  LET named == {r \in Rows : meant[r] # None}
      Of(d) == /\ \A r \in named : meant[r].deal = d
               /\ Cardinality({meant[r].x : r \in named}) = Cardinality(named)
               /\ Cardinality(named) >= K
               /\ deals[d].mode = mode
               /\ Readable(deals[d], Cardinality(named), wasm) /\ Bounded(deals[d], wasm)
  IN  IF ~mishap /\ \E d \in DOMAIN deals : Of(d)
      THEN deals[CHOOSE d \in DOMAIN deals : Of(d)].message ELSE None

Shows(text, hope) == result' = text /\ expected' = hope

reconstructWasm(entries, mode) ==
  IF mode.codec # "none" /\ "codec" \notin loaded
  THEN UNCHANGED result /\ expected' = None
  ELSE \/ \E text \in Answers(entries, mode, TRUE) : Shows(text, Hoped(mode, TRUE))
       \/ Sources(entries, mode, TRUE) = {} /\ UNCHANGED result /\ expected' = Hoped(mode, TRUE)

\* With requests outstanding already, the order of the replies decides, and the
\* device may handle this one before them.  It combines as many bytes as a row
\* has, unless the request is lost or refused.
reconstructFetch(entries, mode) ==
  /\ Len(requests) < MaxRequests
  /\ requests' = Append([i \in DOMAIN requests |-> requests[i] \cup {Other}],
                        Answers(entries, mode, FALSE))
  /\ \/ UNCHANGED used
     \/ \E r \in DOMAIN entries :
          LET n == SizeOf(deals[rows[r].data.share.deal])
          IN  n > used /\ used' = n
  /\ expected' = IF requests = <<>> THEN Hoped(mode, FALSE) ELSE None
  /\ UNCHANGED result

reconstruct ==
  /\ page = "unsplit" /\ ~picking /\ Cardinality(Filled) >= 2
  /\ IF "sss" \in loaded
     THEN reconstructWasm(parseShares, compressionMode) /\ UNCHANGED <<requests, used>>
     ELSE reconstructFetch(parseShares, compressionMode)
  /\ UNCHANGED <<targetRow, picking, scans, rows, pressed, meant, mishap>>

ReconstructAnswered(i) ==
  /\ board # "demo"
  /\ result' \in requests[i]
  /\ requests' = RemoveAt(requests, i)
  /\ UNCHANGED <<targetRow, picking, scans, rows, used, pressed, meant, mishap, expected>>

\* What was shown stays.
ReconstructFails(i) ==
  /\ requests' = RemoveAt(requests, i)
  /\ expected' = None
  /\ UNCHANGED <<targetRow, picking, scans, rows, used, result, pressed, meant, mishap>>

UnsplitStep ==
  \/ \E r \in Rows : ScanPressed(r)
  \/ PickerCancelled
  \/ \E s \in kept : IF s.as = "code" THEN FileChosen(s.share) ELSE \E r \in Rows : Typed(r, s.share)
  \/ \E i \in DOMAIN scans : ImageLoaded(i) \/ DecodeAnswered(i) \/ ScanFails(i)
  \/ reconstruct
  \/ \E i \in DOMAIN requests : ReconstructAnswered(i) \/ ReconstructFails(i)

=============================================================================
