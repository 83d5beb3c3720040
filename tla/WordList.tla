------------------------------- MODULE WordList -------------------------------
(***************************************************************************)
(* The word list codecs of src/src/compression/word_list/wl_codec.c: a     *)
(* phrase becomes two bytes for each word, its index in the list with the  *)
(* low byte first; with a passphrase, a count goes ahead of the indices    *)
(* and the passphrase follows them as it is.  A text is a sequence of      *)
(* characters 1..255.                                                      *)
(***************************************************************************)
EXTENDS CodecError, Integers, Sequences, SequencesExt

CONSTANTS
  ByteSize,               \* values of each half of an index: 256 in the code
  Space, Tab, Separator,  \* ' ', '\t' and WL_PASSPHRASE_SEPARATOR
  bip39_words, slip39_words,  \* each list; index i is at i + 1
  MaxWordLen,             \* WL_MAX_WORD_LEN
  MaxWords                \* WL_BIP39_MAX_WORDS and WL_SLIP39_MAX_WORDS

List == {"bip39", "slip39"}

\* wl_codec_list.
Words(list) == IF list = "bip39" THEN bip39_words ELSE slip39_words

ASSUME WordListAssumption ==
  /\ ByteSize \in 2 .. 256 /\ MaxWordLen \in Nat \ {0}
  /\ \A list \in List :
       Words(list) \in Seq(Seq(1 .. 255)) /\ Len(Words(list)) <= ByteSize * ByteSize
  /\ {Space, Tab, Separator} \subseteq 1 .. 255
  /\ Space # Tab /\ Space # Separator /\ Tab # Separator
  /\ MaxWords \in [List -> 1 .. 255]
  /\ \A list \in List :
       \A word \in ToSet(Words(list)) :
         /\ Len(word) \in 1 .. MaxWordLen
         /\ {Space, Tab, Separator} \cap ToSet(word) = {}
  /\ \A list \in List :
       \A i, j \in DOMAIN Words(list) : Words(list)[i] = Words(list)[j] => i = j

-----------------------------------------------------------------------------
(* Phrases. *)

\* Where the runs of other characters than a space begin.
WordStarts(text) ==
  {i \in DOMAIN text : text[i] # Space /\ (i = 1 \/ text[i - 1] = Space)}

WordFrom(text, i) ==
  SubSeq(text, i, CHOOSE j \in i .. Len(text) :
                    /\ j = Len(text) \/ text[j + 1] = Space
                    /\ \A k \in i .. j : text[k] # Space)

\* The words of a text: only a space ends one, and empty ones are skipped.
Tokens(text) ==
  LET starts == WordStarts(text)
  IN  [n \in 1 .. Cardinality(starts) |->
         WordFrom(text, CHOOSE i \in starts :
                          Cardinality({j \in starts : j < i}) = n - 1)]

Known(list, word) == word \in ToSet(Words(list))

\* The loop over the list stops at the first match.
IndexOf(list, word) == SelectInSeq(Words(list), LAMBDA w : w = word) - 1

\* The indices of a phrase of known words, at most as many as the list allows;
\* a text of spaces has none.
wl_codec_parse_words(list, text) ==
  LET words == Tokens(text)
  IN  IF Len(words) <= MaxWords[list] /\ \A n \in DOMAIN words : Known(list, words[n])
      THEN [n \in DOMAIN words |-> IndexOf(list, words[n])]
      ELSE Error

\* One byte for each word.
LowBytesOnly(indices) ==
  [i \in 1 .. 2 * Len(indices) |-> IF i % 2 = 1 THEN indices[(i + 1) \div 2] % ByteSize ELSE 0]

\* Two bytes for each index, the low one first.
IndexBytes(indices) ==
  [i \in 1 .. 2 * Len(indices) |->
     IF i % 2 = 1 THEN indices[(i + 1) \div 2] % ByteSize ELSE indices[i \div 2] \div ByteSize]

IndicesOf(bytes) == [n \in 1 .. Len(bytes) \div 2 |-> bytes[2 * n - 1] + ByteSize * bytes[2 * n]]

\* The words of a list with one space between two of them.
Join(list, indices) ==
  FlattenSeq([n \in DOMAIN indices |->
    (IF n = 1 THEN <<>> ELSE <<Space>>) \o Words(list)[indices[n] + 1]])

-----------------------------------------------------------------------------
(* Without a passphrase. *)

wl_codec_compress(list, text, out_size) ==
  LET indices == wl_codec_parse_words(list, text)
  IN  IF \/ Len(text) \notin 1 .. MaxWords[list] * MaxWordLen + MaxWords[list]
         \/ out_size < 2 * MaxWords[list]
         \/ indices = Error
      THEN Error ELSE IndexBytes(indices)

\* The buffer has to hold the NUL as well.
wl_codec_decompress(list, bytes, out_size) ==
  LET indices == IndicesOf(bytes)
  IN  IF \/ Len(bytes) = 0 \/ Len(bytes) % 2 # 0
         \/ Len(bytes) > 2 * MaxWords[list]
         \/ \E n \in DOMAIN indices : indices[n] >= Len(Words(list))
         \/ Len(Join(list, indices)) + 1 > out_size
      THEN Error ELSE Join(list, indices)

-----------------------------------------------------------------------------
(* With a passphrase. *)

Blank == {Space, Tab}

\* text without the blanks around it.
Trim(text) ==
  LET inked == {i \in DOMAIN text : text[i] \notin Blank}
  IN  IF inked = {} THEN <<>> ELSE SubSeq(text, Min(inked), Max(inked))

\* The last separator in its place.
LastSeparator(text) ==
  LET all == {i \in DOMAIN text : text[i] = Separator} IN IF all = {} THEN 0 ELSE Max(all)

\* memchr for the separator; 0 if there is none.
FirstSeparator(text) ==
  LET all == {i \in DOMAIN text : text[i] = Separator} IN IF all = {} THEN 0 ELSE Min(all)

SeedPart(text) == Trim(SubSeq(text, 1, FirstSeparator(text) - 1))
Passphrase(text) == Trim(SubSeq(text, FirstSeparator(text) + 1, Len(text)))

\* A size that forgets the count.
TotalWithoutCount(indices, pass) == 2 * Len(indices) + Len(pass)

\* Bytes of the count, of the indices and of the passphrase.
Total(indices, pass) == 1 + 2 * Len(indices) + Len(pass)

wl_codec_compress_passphrase(list, text, out_size) ==
  LET indices == wl_codec_parse_words(list, SeedPart(text))
  IN  IF \/ FirstSeparator(text) = 0
         \/ indices = Error \/ indices = <<>>
         \/ Total(indices, Passphrase(text)) > out_size
      THEN Error
      ELSE <<Len(indices)>> \o IndexBytes(indices) \o Passphrase(text)

\* The canonical text: the words, and behind " ; " the passphrase, if any.
wl_codec_decompress_passphrase(list, bytes, out_size) ==
  LET count   == bytes[1]
      indices == IndicesOf(SubSeq(bytes, 2, 1 + 2 * count))
      pass    == SubSeq(bytes, 2 + 2 * count, Len(bytes))
      text    == Join(list, indices)
                   \o IF pass = <<>> THEN <<>> ELSE <<Space, Separator, Space>> \o pass
  IN  IF Len(bytes) = 0 THEN Error
      ELSE IF \/ count \notin 1 .. MaxWords[list]
              \/ Len(bytes) < 1 + 2 * count
              \/ \E n \in DOMAIN indices : indices[n] >= Len(Words(list))
           THEN Error
      ELSE IF Len(text) + 1 > out_size THEN Error
      ELSE text

=============================================================================
