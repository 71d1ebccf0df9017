SPECIFICATION Spec
CONSTANTS
  MaxOrders = 4
  Levels = 1
  Sides = {"BUY", "SELL"}
  BatchSize = 2
  Threshold = 2
  MaxTimeouts = 1
  MaxCrashes = 1
  MaxDrops = 1
  MaxCloses = 1
CONSTRAINT
  FourthOrderAlone
INVARIANTS
  LiveIsTracked
  FailuresAreReal
  RowsAreTruthful
PROPERTIES
  RestoredAtRestart
  FillUndoneOnlyByLateAnswer
CHECK_DEADLOCK FALSE
