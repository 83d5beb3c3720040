\* GF(4), 2-of-3; two dealings; queries of up to 26 characters, typing errors among them.
CONSTANTS
  Width = 2
  Polynomial = 7
  SSS_MAX_SECRET_LEN = 3
  SSS_N = 3
  SSS_K = 2
  Phrases <- MCPhrases
  Expanded <- MCExpanded
  Messages <- MCMessages
  RandomValues = {2}
  Percent = 1
  HexDigit = 3
  JsonRoom = 4
  JsonClosing = 1
  QUERY_ROOM = 26
  ListWidth = 6
  Adjacent <- MCAdjacent
  Typos <- MCTypos
  Orders = {"dx", "xd"}
  MaxEntries <- MCMaxEntries
  MaxDeals = 2
  MaxAttempts = 2
SPECIFICATION Spec
INVARIANTS
  TypeOK
  QuorumAnswered
  PlainExactWhenFresh
  OwnEntriesCombined
