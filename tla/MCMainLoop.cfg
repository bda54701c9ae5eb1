SPECIFICATION Spec
CONSTANTS
  N = 8
  InitLen = 2
  Heads <- MCHeads
  BodyLen <- MCBodyLen
  FirstReply = 5
  BufSize = 3
  Layer = "tls"
  RecordEnd <- MCRecordEnd
  AmlReentrant = TRUE
  Fallible <- MCFallible
INVARIANTS
  TypeOK
  BytesInOrder
  MessagesFramed
  LockMeansHandling
  NothingStranded
PROPERTIES
  StreamSpec
\* The client exits.
CHECK_DEADLOCK FALSE
