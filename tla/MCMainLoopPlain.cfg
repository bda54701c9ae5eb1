SPECIFICATION LiveServerSpec
CONSTANTS
  N = 8
  InitLen = 2
  Heads <- MCHeads
  BodyLen <- MCBodyLen
  FirstReply = 5
  BufSize = 5
  Layer = "none"
  RecordEnd <- MCRecordEnd
  AmlReentrant = FALSE
  Fallible <- MCFallible
INVARIANTS
  StopsForAReason
PROPERTIES
  EverythingHandled
  EofEndsClient
\* The client exits.
CHECK_DEADLOCK FALSE
