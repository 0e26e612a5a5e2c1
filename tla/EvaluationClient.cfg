SPECIFICATION EvaluationSpec
CONSTANTS
  NumItems = 3
  MaxChunks = 2
  MaxWorkers = 2
  ChunkRetries = 2
  RetryTimes = 2
  MaxRuns = 2
INVARIANTS
  FilesAreConsistent
  AnswersAreOwn
PROPERTIES
  EvaluationEnds
CHECK_DEADLOCK FALSE
