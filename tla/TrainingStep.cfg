SPECIFICATION Spec
CONSTANTS
  Prompts = 2
  RolloutN = 2
  MaxChunks = 2
  MaxWorld = 4
  MaxSeqLen = 2
  MaxTokenLen = 3
  MiniBatchSize = 3
  PpoEpochs = 1
INVARIANTS
  ForwardsAreSound
  AdvantageIsOwn
  LogProbsAreOwn
  EveryRowTrainedOnce
PROPERTIES
  StepCompletes
CHECK_DEADLOCK FALSE
