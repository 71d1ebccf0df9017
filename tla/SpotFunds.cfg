SPECIFICATION FairSpec
CONSTANTS
  x = x
  y = y
  Bases = {x, y}
  Setups <- MCSetups
  Lot = 4
  Target = 20
  BaseTarget = 10
  MinSell = 1
  MinOrder = 2
  MaxCycles = 2
INVARIANTS
  CacheTruthful
  HealsBounded
PROPERTIES
  RemedyTried
CHECK_DEADLOCK FALSE
