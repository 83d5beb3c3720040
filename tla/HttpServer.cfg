\* Two clients, a backlog of two, a header buffer of three units (the headers of an upload and two
\* more) and pages of two units that the network takes one by one.
CONSTANTS
  c1 = c1
  c2 = c2
  Conns = {c1, c2}
  NoConn = NoConn
  Scripts <- MCScripts
  RxSize = 3
  Backlog = 2
  Window = 1
  PageLength = 2
SPECIFICATION Spec
INVARIANTS
  TypeOK
  HeldUntilClosed
  ContextFreed
  UploadInPlace
  WholeReplies
  HeadersWhole
PROPERTIES
  EveryConnectionCloses
  ServesInOrder
CHECK_DEADLOCK FALSE
