-------------------------------- MODULE MCPages -------------------------------
EXTENDS Pages

Msg(codec, passphrase, chars, url, json) ==
  [codec |-> codec, passphrase |-> passphrase, chars |-> chars, url |-> url, json |-> json]

MCKeepable == <<{"code"}, {"text"}>>

\* A phrase with a passphrase, and three texts: one that /divide would cut, one
\* with a quote in it, one of which the query has no room for two shares.
Phrase == Msg("bip39", TRUE, "latin", TRUE, TRUE)
Cut    == Msg("none", FALSE, "wide", FALSE, TRUE)
Quoted == Msg("none", FALSE, "ascii", TRUE, FALSE)
Full   == Msg("none", FALSE, "ascii", TRUE, TRUE)

MCMessage == {Phrase, Cut, Quoted, Full}

\* A phrase is smaller compressed.
MCSize ==
  [m \in MCMessage \X {"none", "bip39", "slip39"} |->
     IF m[1] = Full THEN 3 ELSE IF m[1] = Quoted \/ m[2] # "none" THEN 1 ELSE 2]

=============================================================================
