SPECIFICATION Spec
CONSTANTS
  MaxLines = 2
  MaxMessages = 1
  MaxPieces = 1
  Workers = 2
  HostActs = {"cancel", "shutdown"}
PROPERTIES
  CancelHeeded
  TurnEnds
  ThreadsReturn
CHECK_DEADLOCK FALSE
