SPECIFICATION Spec
CONSTANTS
  Trainings = {t1, t2}
  Evaluations = {e1}
  TotalEpochs = 3
  SaveFreq = 2
  MaxTime = 1
  MaxFaults = 2
INVARIANTS
  TypeOK
  RecordsInOrder
  CompletedMeansSaved
  OutcomesAreRecorded
PROPERTIES
  ScriptsEnd
CHECK_DEADLOCK FALSE
