\* A message of three escapes where the buffer holds two.
CONSTANTS
  Width = 2
  Polynomial = 7
  SSS_MAX_SECRET_LEN = 3
  SSS_N = 3
  SSS_K = 2
  Phrases <- MCPhrases
  Expanded <- MCExpanded
  Messages <- MCLongMessages
  RandomValues = {2}
  Percent = 1
  HexDigit = 3
  JsonRoom = 4
  JsonClosing = 1
  QUERY_ROOM = 26
  ListWidth = 7
  Adjacent <- MCAdjacent
  Typos <- MCTypos
  Orders = {"dx"}
  MaxEntries <- MCMaxEntries
  MaxDeals = 1
  MaxAttempts = 2
SPECIFICATION Spec
INVARIANTS
  MessageKept
