------------------------------- MODULE SplitPage ------------------------------
(***************************************************************************)
(* split.js: a message is split by the device (/divide) or by the WASM     *)
(* module, its shares are displayed, and the user keeps some of them, as   *)
(* text or as a QR code.  Replies come in any order, or not at all.        *)
(***************************************************************************)
EXTENDS PortalPage, FiniteSets

CONSTANTS
  N,          \* shares dealt
  SecretMax,  \* the longest secret: SSS_MAX_SECRET_LEN
  Size,       \* by message and list, the bytes that are split
  MaxDeals,   \* bound: splits of a behaviour
  MaxKept,    \* bound: shares the user keeps
  Keepable    \* bound: by x, the ways in which a share is kept

ASSUME SplitPageAssumption ==
  /\ {N, MaxDeals, MaxKept, SecretMax} \subseteq Nat \ {0}
  /\ Size \in [Message \X {"none", "bip39", "slip39"} -> 1 .. SecretMax]
  /\ Keepable \in [1 .. N -> SUBSET {"text", "code"}]

VARIABLES
  divides,     \* /divide requests without their reply
  deals,       \* splits made: what was split, how, and in which bytes
  displayed,   \* the split whose shares are on the page, 0 for none
  kept         \* shares the user has, as texts or printed codes

splitVars == <<divides, deals, displayed, kept>>

Share == [deal : 1 .. MaxDeals, x : 1 .. N]
Keepsake == [share : Share, as : {"text", "code"}]

SplitInit == divides = <<>> /\ deals = <<>> /\ displayed = 0 /\ kept = {}

\* A phrase is only taken in its own mode; anything is taken as it is.
Takes(mode, msg) ==
  mode.codec = "none" \/ mode = [codec |-> msg.codec, passphrase |-> msg.passphrase]

\* The device gets the text in UTF-8, cut when it is too long for its parameter;
\* stringToBytes keeps the low byte of each character.
Displays(msg, mode, bytes) ==
  /\ deals' = Append(deals, [message |-> msg, mode |-> mode, bytes |-> bytes])
  /\ displayed' = Len(deals) + 1

\* The codecs take UTF-8 on both sides.
encryptWasm(msg, mode) ==
  IF mode.codec = "none" THEN Displays(msg, mode, "low bytes")
  ELSE IF "codec" \in loaded /\ Takes(mode, msg) THEN Displays(msg, mode, "utf8")
  ELSE UNCHANGED <<deals, displayed>>

encrypt(msg) ==
  /\ page = "split" /\ Len(deals) + Len(divides) < MaxDeals
  /\ IF "sss" \in loaded
     THEN encryptWasm(msg, compressionMode) /\ UNCHANGED divides
     ELSE /\ divides' = Append(divides, [message |-> msg, mode |-> compressionMode])
          /\ UNCHANGED <<deals, displayed>>
  /\ UNCHANGED <<pageVars, kept>>

DivideAnswered(i) ==
  /\ page = "split" /\ board # "demo"
  /\ Takes(divides[i].mode, divides[i].message)
  /\ Displays(divides[i].message, divides[i].mode,
              IF divides[i].message.url THEN "utf8" ELSE "cut")
  /\ divides' = RemoveAt(divides, i)
  /\ UNCHANGED <<pageVars, kept>>

\* Refused, lost, or nobody there; what is displayed stays.
DivideFails(i) ==
  /\ page = "split"
  /\ divides' = RemoveAt(divides, i)
  /\ UNCHANGED <<pageVars, deals, displayed, kept>>

Keep(x, as) ==
  /\ page = "split" /\ displayed # 0 /\ Cardinality(kept) < MaxKept /\ as \in Keepable[x]
  /\ kept' = kept \cup {[share |-> [deal |-> displayed, x |-> x], as |-> as]}
  /\ UNCHANGED <<pageVars, divides, deals, displayed>>

copyText(x) == Keep(x, "text")

\* In the page when both modules are there, else by /qr-share.svg.
downloadQR(x) ==
  /\ {"qr", "codec"} \subseteq loaded \/ board # "demo"
  /\ Keep(x, "code")

\* Bound: all splits of a behaviour are of one message.
SplitStep ==
  \/ \E msg \in Message :
       (\A d \in ToSet(deals) \cup ToSet(divides) : d.message = msg) /\ encrypt(msg)
  \/ \E i \in DOMAIN divides : DivideAnswered(i) \/ DivideFails(i)
  \/ \E x \in 1 .. N : copyText(x) \/ downloadQR(x)

=============================================================================
