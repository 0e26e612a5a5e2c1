SPECIFICATION Spec
CONSTANTS
  TotalSteps = 6
  EpochCounts = {1, 2, 3}
  SaveFreq = 4
  TestFreq = 3
  Rows = 4
  World = 2
  MaxLives = 3
  MaxFaults = 1
INVARIANT BalanceKeepsRewards
CHECK_DEADLOCK FALSE
