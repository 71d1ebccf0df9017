SPECIFICATION FairSpec
CONSTANTS
  MaxOrders = 3
  Levels = 1
  Sides = {"BUY", "SELL"}
  BatchSize = 1
  Threshold = 2
  MaxTimeouts = 1
  MaxCrashes = 0
  MaxDrops = 0
  MaxCloses = 0
INVARIANTS
  TypeOK
PROPERTIES
  PlacementResolves
CHECK_DEADLOCK FALSE
