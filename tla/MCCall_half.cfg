SPECIFICATION Spec
CONSTANTS
  ProbeMs = 1
  EndMs = 2
  ReopenMs = 1
  BargeMs = 1
  CarryMs = 3
  MaxWords = 2
  MaxSeq = 1
  MaxSounds = 1
INVARIANT WholeSentence
CHECK_DEADLOCK FALSE
