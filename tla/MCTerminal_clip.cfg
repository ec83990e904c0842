SPECIFICATION Spec
CONSTANTS
  Modes <- Talking
  MaxTyped = 2
  MaxBlocks = 3
  MaxChunks = 2
  Bytes = 4
  MinSilence = 2
  MinSegment = 2
  MinSpeech = 3
  Window = 4
  Keep = 5
INVARIANT ClipIsWhole
CHECK_DEADLOCK FALSE
