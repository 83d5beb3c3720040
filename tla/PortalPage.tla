------------------------------ MODULE PortalPage ------------------------------
(***************************************************************************)
(* What the pages of split.js and unsplit.js have in common: who serves    *)
(* them, the WASM modules that arrive when they like, and the check boxes  *)
(* that choose a word list.                                                *)
(*                                                                         *)
(* A board is "server" (the device answers and reads QR codes), "jsqr"     *)
(* (the device answers, the page reads codes with jsQR) or "demo" (a       *)
(* static site: nobody answers, the WASM modules do the work).             *)
(***************************************************************************)
EXTENDS Naturals, Sequences, SequencesExt

CONSTANTS
  Message,   \* [codec, passphrase, chars, url, json]: the list a message is a
             \* phrase of, written as the codec writes it; whether a passphrase
             \* follows; its widest character; whether /divide takes all of it
             \* from its URL; and whether the JSON of /reconstruct, which has no
             \* escapes and only so much room, gives it back as it is
  None

Board == {"server", "jsqr", "demo"}

Mode == [codec : {"none", "bip39", "slip39"}, passphrase : BOOLEAN]

ASSUME PortalPageAssumption ==
  /\ Message \subseteq [codec : {"none", "bip39", "slip39"}, passphrase : BOOLEAN,
                        chars : {"ascii", "latin", "wide"}, url : BOOLEAN, json : BOOLEAN]
  /\ None \notin Message

VARIABLES
  page,     \* the page that is open
  board,    \* who serves it
  loaded,   \* modules that have arrived
  boxes     \* the check boxes

pageVars == <<page, board, loaded, boxes>>

\* The modules each page asks for.
Wanted == [split |-> {"sss", "qr", "codec"}, unsplit |-> {"sss", "qr_decode", "codec"}]

NoBoxes == [bip |-> FALSE, slip |-> FALSE, passphrase |-> FALSE, disabled |-> TRUE]

Open(p, b) == page' = p /\ board' = b /\ loaded' = {} /\ boxes' = NoBoxes

\* A module arrives, or never does; a device has none to send.
ModuleLoaded(m) ==
  /\ board = "demo" /\ m \in Wanted[page] \ loaded
  /\ loaded' = loaded \cup {m}
  /\ UNCHANGED <<page, board, boxes>>

\* A passphrase needs a list.
Checked(bip, slip) ==
  [bip |-> bip, slip |-> slip, disabled |-> ~(bip \/ slip),
   passphrase |-> boxes.passphrase /\ (bip \/ slip)]

\* A click that leaves the other list checked.
BipClickedAlone ==
  boxes' = Checked(~boxes.bip, boxes.slip) /\ UNCHANGED <<page, board, loaded>>

BipClicked ==
  boxes' = Checked(~boxes.bip, boxes.slip /\ boxes.bip) /\ UNCHANGED <<page, board, loaded>>

SlipClicked ==
  boxes' = Checked(boxes.bip /\ boxes.slip, ~boxes.slip) /\ UNCHANGED <<page, board, loaded>>

PassphraseClicked ==
  /\ ~boxes.disabled
  /\ boxes' = [boxes EXCEPT !.passphrase = ~@]
  /\ UNCHANGED <<page, board, loaded>>

compressionMode ==
  IF boxes.bip THEN [codec |-> "bip39", passphrase |-> boxes.passphrase]
  ELSE IF boxes.slip THEN [codec |-> "slip39", passphrase |-> boxes.passphrase]
  ELSE [codec |-> "none", passphrase |-> FALSE]

PageStep ==
  \/ \E m \in Wanted[page] : ModuleLoaded(m)
  \/ BipClicked \/ SlipClicked \/ PassphraseClicked

=============================================================================
