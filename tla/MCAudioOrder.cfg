SPECIFICATION Spec
CONSTANTS
  MaxChunks = 3
  MaxPieces = 2
INVARIANTS
  StrictOrder
  NothingLost
PROPERTIES
  ImplementsVoice
CHECK_DEADLOCK FALSE
