SPECIFICATION Spec
CONSTANTS
  MaxBatch = 7
  MaxWorld = 4
INVARIANTS
  CallIsConsistent
  WorkIsBalanced
PROPERTIES
  ImplementsRowwise
  CallCompletes
CHECK_DEADLOCK FALSE
