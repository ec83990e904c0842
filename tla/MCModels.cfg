SPECIFICATION Spec
CONSTANTS
  fetch = fetch
  other = other
  t1 = t1
  t2 = t2
  Commands <- OneCommand
  Threads <- TwoThreads
  Keeps <- KeepsSilero
  Size = 2
  MaxRuns = 2
  MaxInodes = 5
INVARIANTS
  SessionsAreWhole
  PartGone
  LoadedOnce
SYMMETRY Same
PROPERTY NeverDamaged
CHECK_DEADLOCK FALSE
