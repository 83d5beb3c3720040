\* Two splits of one message, two shares kept of them, two of two needed.  A page
\* may be left alone for ever.
SPECIFICATION Spec
CONSTANTS
  Message <- MCMessage
  None = None
  Other = Other
  N = 2
  SecretMax = 3
  Size <- MCSize
  MaxDeals = 2
  MaxKept = 2
  Keepable <- MCKeepable
  Rows = {0, 1}
  K = 2
  MaxScans = 1
  MaxRequests = 2
  QueryRoom = 4
  Before = {0, 3}
INVARIANTS TypeOK ScansInTheirRows MessageRecovered
CHECK_DEADLOCK FALSE
