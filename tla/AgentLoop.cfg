SPECIFICATION Spec
CONSTANTS
  NumWorkers = 2
  NumServers = 2
  Sizes = {2, 3, 4}
  Worlds = {0, 2, 4}
  ThreadCounts = {1, 2}
  MaxCacheSize = 2
  MaxTurns = 1
  MaxCalls = 2
  MaxFaults = 1
INVARIANTS
  SessionsAreSound
  RowsAreOwn
PROPERTIES
  EveryCallEnds
CHECK_DEADLOCK FALSE
