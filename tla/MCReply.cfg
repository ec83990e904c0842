SPECIFICATION Spec
CONSTANTS
  Replies <- PlainReplies
  Fragments <- Fragment
  MaxFragments = 4
  MaxSpan = 2
  MaxLen = 3
  KeepOne = TRUE
  MayFail = TRUE
INVARIANTS
  VoiceMatchesScreen
  NumbersFollowLines
  SpokenAsItComes
  OneFillerEach
  SaidInOrder
CHECK_DEADLOCK FALSE
