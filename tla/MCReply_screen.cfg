SPECIFICATION Spec
CONSTANTS
  Replies <- TaggedReplies
  Fragments <- Tagged
  MaxFragments = 4
  MaxSpan = 2
  MaxLen = 3
  KeepOne = TRUE
  MayFail = TRUE
INVARIANT VoiceMatchesScreen
CHECK_DEADLOCK FALSE
