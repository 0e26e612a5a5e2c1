SPECIFICATION Spec
CONSTANTS
  MaxBatchSize = 3
  MaxChunks = 2
  ChunkSize = 2
  NoAnswer = NoAnswer
INVARIANTS
  TypeOK
  MemoryIsReadPrefix
  RowsMatchIndex
  ResultIsComplete
PROPERTIES
  ImplementsReading
  BatchCompletes
