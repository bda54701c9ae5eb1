SPECIFICATION Spec
CONSTANTS
  N = 8
  InitLen = 2
  Heads <- MCHeads
  BodyLen <- MCBodyLen
  FirstReply = 5
  BufSize = 5
  Layer = "tls"
  RecordEnd <- MCRecordEnd
  AmlReentrant = FALSE
  Fallible <- MCFallible
INVARIANTS
  StopsForAReason
\* The client exits.
CHECK_DEADLOCK FALSE
