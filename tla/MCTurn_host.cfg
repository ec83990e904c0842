SPECIFICATION Spec
CONSTANTS
  MaxLines = 2
  MaxMessages = 2
  MaxPieces = 1
  Workers = 2
  HostActs = {"cancel", "close", "shutdown"}
INVARIANTS
  LinesKept
  SoundIsWhole
  DoneIsComplete
  UnspokenIsExact
  LateRequests
PROPERTIES
  NeverSaidTwice
  ImplementsStream
CHECK_DEADLOCK FALSE
