SPECIFICATION Spec
CONSTANTS
  MaxBatchSize = 1
  MaxChunks = 1
  ChunkSize = 1
  NoAnswer = NoAnswer
INVARIANT SubsampledTurnHasLowerBudget
