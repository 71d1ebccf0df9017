SPECIFICATION Spec
CONSTANTS
  Rate = 20
  Bot <- MCBot
  MaxTroubles = 1
  Setups <- MCSetups
INVARIANTS
  SplitDelivered
  SpendingBounded
  OutcomeHolds
CHECK_DEADLOCK FALSE
