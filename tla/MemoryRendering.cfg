SPECIFICATION Spec
CONSTANTS
  MaxItems = 2
  MaxBatches = 2
  ClientThreads = 2
  ServerThreads = 2
  MaxRetries = 2
  MaxBrowserFaults = 1
INVARIANTS
  RenderingIsConsistent
PROPERTIES
  ImplementsBatchRendering
  CallEnds
  ServiceDrains
CHECK_DEADLOCK FALSE
