SPECIFICATION Spec
CONSTANTS
  Modes <- BothModes
  MaxTyped = 4
  MaxBlocks = 5
  MaxChunks = 2
  Bytes = 3
  MinSilence = 2
  MinSegment = 2
  MinSpeech = 3
  Window = 4
  Keep = 5
INVARIANTS
  EntersAccounted
  GateIsExact
  SamplesWhole
  HistoryAlternates
PROPERTY EndsWithInput
CHECK_DEADLOCK FALSE
