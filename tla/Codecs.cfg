\* Words of two letters, indices up to 5, seven bytes of a secret.
CONSTANTS
  Error = Error
  ByteSize = 4
  Space = 32
  Tab = 9
  Separator = 59
  bip39_words <- MCBip39
  slip39_words <- MCSlip39
  MaxWordLen = 2
  MaxWords <- MCMaxWords
  SSS_MAX_SECRET_LEN = 7
  Texts <- MCTexts
  StrayBytes <- MCStrayBytes
  Payloads <- MCPayloads
  Prefixes1 <- MCPrefixes
  StrayCodes <- MCStrayCodes
SPECIFICATION Spec
INVARIANTS
  TypeOK
  PhraseRecovered
  PhraseStable
  CodesCanonical
  ScansAgree
CHECK_DEADLOCK FALSE
