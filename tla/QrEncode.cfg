\* Every version chosen; the small ones, those of shares and the last that fit are drawn.
CONSTANTS
  Error = Error
  Texts <- MCTexts
  Queries <- MCQueries
  Shares <- MCShares
  Drawn = {1, 2, 4, 7, 10, 11, 18, 19}
  QR_SVG_BUF_SIZE = 40960
  SSS_MAX_SECRET_LEN = 256
SPECIFICATION Spec
INVARIANTS
  TypeOK
  VersionAsStandard
  LayoutAsStandard
  ReadsBack
  BestMaskKept
  SharesDrawn
CHECK_DEADLOCK FALSE
