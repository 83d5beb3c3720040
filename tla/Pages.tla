--------------------------------- MODULE Pages --------------------------------
(***************************************************************************)
(* The way of a message: split on one page, kept as texts and printed      *)
(* codes, typed and scanned into the other page, and shown there.  The two *)
(* pages may come from different boards.                                   *)
(***************************************************************************)
EXTENDS UnsplitPage

vars == <<pageVars, splitVars, unsplitVars>>

Init ==
  /\ page = "split" /\ board \in Board /\ loaded = {} /\ boxes = NoBoxes
  /\ SplitInit /\ UnsplitInit

\* The split page is left behind with its replies; what the user kept stays. The
\* device has combined other secrets before; from now on it serves this page
\* alone.
OpenUnsplit(b) ==
  /\ page = "split" /\ Cardinality(kept) = MaxKept
  /\ Open("unsplit", b)
  /\ divides' = <<>> /\ displayed' = 0
  /\ used' \in IF b = "demo" THEN {0} ELSE Before
  /\ UNCHANGED <<deals, kept, formVars>>

\* The picker is in front of the boxes.  Bound: a behaviour ends with a mishap,
\* after which nothing is promised.
Next ==
  \/ PageStep /\ ~picking /\ ~mishap /\ UNCHANGED <<splitVars, unsplitVars>>
  \/ SplitStep /\ UNCHANGED unsplitVars
  \/ \E b \in Board : OpenUnsplit(b)
  \/ ~mishap /\ UnsplitStep /\ UNCHANGED <<pageVars, splitVars>>

Spec == Init /\ [][Next]_vars

-----------------------------------------------------------------------------
(* Properties. *)

\* At most one list is checked, a passphrase only with a list; the displayed
\* split and the kept shares are of splits that were made; rows hold shares
\* the user kept.
TypeOK ==
  /\ page \in DOMAIN Wanted /\ board \in Board /\ loaded \subseteq Wanted[page]
  /\ boxes \in [bip : BOOLEAN, slip : BOOLEAN, passphrase : BOOLEAN, disabled : BOOLEAN]
  /\ ~(boxes.bip /\ boxes.slip)
  /\ boxes.disabled = ~(boxes.bip \/ boxes.slip) /\ ~(boxes.disabled /\ boxes.passphrase)
  /\ Len(divides) <= MaxDeals /\ Len(deals) <= MaxDeals
  /\ \A i \in DOMAIN divides : divides[i].message \in Message /\ divides[i].mode \in Mode
  /\ \A d \in DOMAIN deals :
       /\ deals[d].message \in Message /\ deals[d].mode \in Mode
       /\ deals[d].bytes \in {"utf8", "low bytes", "cut"}
  /\ displayed \in 0 .. Len(deals)
  /\ kept \subseteq Keepsake /\ \A s \in kept : s.share.deal \in DOMAIN deals
  /\ targetRow \in Rows \cup {None} /\ picking \in BOOLEAN
  /\ Len(scans) <= MaxScans /\ Len(requests) <= MaxRequests
  /\ \A r \in Rows :
       /\ rows[r].x \in Nat /\ rows[r].prefix \in 0 .. N
       /\ rows[r].data # None =>
            /\ rows[r].data \in Data
            /\ \E s \in kept : s.share = rows[r].data.share
  /\ used \in 0 .. SecretMax /\ result \in Message \cup {None, Other}

\* unsplit.js 289-302, 532-585: unless the scans of two rows overlapped, or a
\* code was read before the codec had come, every row holds, as hex and under
\* its own x, the share the user scanned or typed into it.
ScansInTheirRows ==
  ~mishap => \A r \in Rows :
    IF meant[r] = None THEN rows[r].data = None
    ELSE /\ rows[r].data = [share |-> meant[r], form |-> "hex"]
         /\ XOf(rows[r]) = meant[r].x

\* split.js and unsplit.js from end to end: when a click with a quorum of one
\* split's shares, in the mode of that split, is answered, and no other request
\* was outstanding at the click, the message that was split is shown, wherever
\* it was split and however the shares came back.  Not promised is what exceeds
\* a URL or is altered by the bytes or the JSON of one of the ways (Readable),
\* and, by the device, a plain secret that is shorter than one it combined before
\* or fills its buffer (Bounded).
MessageRecovered ==
  (requests = <<>> /\ expected # None) => result = expected

=============================================================================
