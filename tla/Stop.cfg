SPECIFICATION FairSpec
CONSTANTS
  Tasks = {1}
  StopIds = {1, 2, 3, 4}
  MaxVersion = 2
  Budget <- Everything
INVARIANTS
  OneFailureIsCovered
  SettlesOnPosition
PROPERTIES
  GapIsRepaired
