SPECIFICATION Spec
CONSTANTS
  eth = eth
  sol = sol
  Pairs = {eth, sol}
  Held <- MCHeld
  MaxTrades = 1
  MaxFaults = 1
  Balances <- MCBalances
  Notional = 10000
  MaxSwings = 1
  MaxRuns = 2
  MaxRefusals = 1
  N = 2
  Days = 3
  Kinds <- MCKinds
  Gap = 1
  MaxTx = 2
  MaxMoves = 1
  MaxOutages = 1
  Levels = 4
  Mid = 10
  Step = 1
  Prices = {3, 7, 13, 19}
  Losses <- MCLosses
  FundingEvery = 2
  Rates = {0, 1}
  Capital = 40
  Unit = 432
  MaxCandles = 4
INVARIANT
  EquityIsTotal
CHECK_DEADLOCK FALSE
