SPECIFICATION Spec
CONSTANTS
  ProbeMs = 1
  EndMs = 2
  ReopenMs = 1
  BargeMs = 2
  CarryMs = 3
  MaxWords = 2
  MaxSeq = 1
  MaxSounds = 2
INVARIANTS
  NeverSentTwice
  BusyIsTheTurn
PROPERTY RecordingEnds
CHECK_DEADLOCK FALSE
