SPECIFICATION Spec
CONSTANTS
  Ranks = {r0, r1}
  TotalSteps = 4
  SaveFreq = 2
  Keeps = {0, 2}
  MaxLives = 3
INVARIANTS
  RunIsConsistent
  TrackedIsWhole
PROPERTIES
  RunEnds
  ImplementsDurable
CHECK_DEADLOCK FALSE
