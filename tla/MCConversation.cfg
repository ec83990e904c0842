SPECIFICATION Spec
CONSTANTS
  MaxTurns = 2
  MaxSentences = 1
  Keep = 3
INVARIANTS
  NewestWins
  NoneUnseen
  RecordedOnce
  StayersAreTold
PROPERTIES
  StoppedTurnsEnd
CHECK_DEADLOCK FALSE
