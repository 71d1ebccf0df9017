SPECIFICATION FairSpec
CONSTANTS
  Deposits = {1, 2}
  Amounts = {1, 2}
  MaxRewards = 1
  MinBuy = 2
  MinStake = 2
  Keep = 1
  Window = 2
  RewardWindow = 1
  MaxFaults = 1
INVARIANTS
  RecordsSound
  AttributedOnce
PROPERTIES
  SpentUnlessDisturbed
  NewDepositSweeps
CHECK_DEADLOCK FALSE
