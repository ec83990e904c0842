SPECIFICATION Spec
CONSTANTS
  MaxIdx = 2
  MaxPieces = 2
  MaxGap = 1
  MaxDecodes = 2
  Durations = {2}
  MaxTime = 4
  MaxStops = 1
  Absent = Absent
  Null = Null
INVARIANTS
  HeardInOrder
  NothingStale
  SpeakingTold
  NothingLost
CHECK_DEADLOCK FALSE
