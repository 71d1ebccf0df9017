SPECIFICATION Spec
CONSTANTS
  MaxOrders = 2
  Levels = 1
  Sides = {"BUY", "SELL"}
  BatchSize = 2
  Threshold = 2
  MaxTimeouts = 0
  MaxCrashes = 1
  MaxDrops = 0
  MaxCloses = 0
INVARIANTS
  CrashedPlacementIsRestored
CHECK_DEADLOCK FALSE
