------------------------------ MODULE Backtest ------------------------------
(***************************************************************************)
(* The backtester (backtester/src/backtest.py): a grid of buy levels below *)
(* and sell levels above the first price is run over candles, with a stop  *)
(* at a loss of a share of the average entry price, and funding every few  *)
(* candles; the results are computed from the trades and the equity curve. *)
(*                                                                         *)
(* Every order has the same quantity, one lot.  A price is a number of     *)
(* ticks times Unit, so that average entry prices stay whole; a position   *)
(* carries its cost, lots times the average entry.  The code adds lots up  *)
(* as floats: one and two of them are exact, and once three were held a    *)
(* residue of rounding may be left when the last one is closed.  It keeps  *)
(* the side and the average entry, and is worth nothing.  Fees are left    *)
(* out: the code subtracts them from nothing.                              *)
(***************************************************************************)
EXTENDS Integers, FiniteSets, Sequences

CONSTANTS
  Levels,        \* levels of a side
  Mid, Step,     \* the first close and the spacing, in ticks
  Prices,        \* the prices of candles, in ticks
  Losses,        \* max_loss_options: shares <<n, d>>
  FundingEvery,  \* candles between fundings (96)
  Rates,         \* funding rates, in Units per tick
  Capital,       \* initial_capital, in ticks
  Unit,
  MaxCandles     \* length of the data

ASSUME BacktestAssumption ==
  /\ Levels \in Nat \ {0} /\ Mid \in Nat /\ Step \in Nat \ {0} /\ Step * Levels < Mid
  /\ Prices \subseteq Nat \ {0} /\ Rates \subseteq Int /\ 0 \in Rates /\ Capital \in Nat /\ Unit \in Nat \ {0}
  /\ Losses \subseteq (Nat \ {0}) \X (Nat \ {0})
  /\ FundingEvery \in Nat \ {0} /\ MaxCandles \in Nat

VARIABLES
  loss,            \* max_loss_pct of this run
  candles,         \* candles taken so far
  low, high, close, rate,      \* the candle at work
  loop, level,    \* the loop: "next", "buys", "sells", "stop", "funding", "final", "done"
  buys, sells,     \* active_buys, active_sells
  side, lots, cost,            \* the position
  rounded, entry,  \* its quantity may be inexact; the average entry of a residue
  counter,         \* funding_counter
  pnl,             \* sum of the trades' pnl
  funding,         \* funding_paid
  capital, curve,  \* self.capital and equity_curve
  cash, missed     \* history: what the orders took in, less what they paid, and
                   \* what of it those that found only a residue did

candle   == <<low, high, close, rate>>
orders   == <<buys, sells>>
holding  == <<side, lots, cost, rounded, entry>>
money    == <<pnl, funding, capital, cash, missed>>
testVars == <<loss, candles, candle, loop, level, orders, holding, counter, money, curve>>

Sides == {"none", "long", "short"}

TestTypeOK ==
  /\ loss \in Losses /\ candles \in 0..MaxCandles
  /\ {low, high, close} \subseteq Prices \cup {Mid} /\ rate \in Rates
  /\ loop \in {"next", "buys", "sells", "stop", "funding", "final", "done"}
  /\ level \in 0..Levels + 1
  /\ buys \subseteq 1..Levels /\ sells \subseteq 1..Levels
  /\ side \in Sides /\ lots \in Nat /\ cost \in Int
  /\ rounded \in BOOLEAN /\ entry \in Int
  /\ side = "none" => lots = 0 /\ ~rounded
  /\ side # "none" /\ lots = 0 => rounded
  /\ counter \in 0..FundingEvery - 1
  /\ pnl \in Int /\ funding \in Int /\ capital \in Int
  /\ cash \in Int /\ missed \in Int
  /\ curve \in Seq(Int)

BuyPrice(i)  == (Mid - Step * i) * Unit
SellPrice(i) == (Mid + Step * i) * Unit

\* Mutant of Valid: the stop is not compared with the range of the grid.
AnyLoss(l) == TRUE

\* generate_param_grid: the stop must exceed the range of the grid.
Valid(l) == l[1] * Mid > Levels * Step * l[2]

\* GridBotSimulator and setup_grid, on the first candle.
TestInit ==
  /\ loss \in {l \in Losses : Valid(l)}
  /\ candles = 0
  /\ low = Mid /\ high = Mid /\ close = Mid /\ rate = 0
  /\ loop = "next" /\ level = 0
  /\ buys = 1..Levels /\ sells = 1..Levels
  /\ side = "none" /\ lots = 0 /\ cost = 0 /\ rounded = FALSE /\ entry = 0
  /\ counter = 0
  /\ pnl = 0 /\ funding = 0 /\ capital = Capital * Unit /\ cash = 0 /\ missed = 0
  /\ curve = <<>>

-----------------------------------------------------------------------------
(* Trades.                                                                 *)

Average == cost \div lots

AddLot(price, s) ==
  /\ lots' = lots + 1 /\ cost' = cost + price /\ side' = s
  /\ rounded' = (rounded \/ lots >= 2) /\ entry' = 0
  /\ UNCHANGED <<pnl, missed>>

\* The side goes with the last lot, unless the quantity left is above zero.
CloseLot(profit) ==
  /\ pnl' = pnl + profit
  /\ lots' = lots - 1 /\ cost' = cost - Average
  /\ \E residue \in {FALSE, rounded /\ lots = 1} :
       /\ side' = IF lots = 1 /\ ~residue THEN "none" ELSE side
       /\ rounded' = (rounded /\ side' # "none")
       /\ entry' = IF residue THEN Average ELSE 0
  /\ UNCHANGED missed

\* The order closes a residue, and the rest of its quantity opens nothing.
CloseResidue(amount) ==
  /\ missed' = missed + amount
  /\ side' = "none" /\ rounded' = FALSE /\ entry' = 0
  /\ UNCHANGED <<pnl, lots, cost>>

\* Mutant of ExecuteBuy: the side stays when the last lot is closed.
BuyKeepsSide(price) ==
  /\ cash' = cash - price
  /\ \/ side # "short" /\ AddLot(price, "long")
     \/ side = "short" /\ lots = 0 /\ CloseResidue(-price)
     \/ /\ side = "short" /\ lots > 0
        /\ pnl' = pnl + Average - price
        /\ lots' = lots - 1 /\ cost' = cost - Average
        /\ UNCHANGED <<side, rounded, entry, missed>>

\* execute_buy: it closes a lot of a short, or adds one to a long.
ExecuteBuy(price) ==
  /\ cash' = cash - price
  /\ \/ side # "short" /\ AddLot(price, "long")
     \/ side = "short" /\ lots > 0 /\ CloseLot(Average - price)
     \/ side = "short" /\ lots = 0 /\ CloseResidue(-price)

\* Mutant of ExecuteSell: the average is that of the lots that remain.
SellAverages(price) ==
  /\ cash' = cash + price
  /\ \/ side # "long" /\ AddLot(price, "short")
     \/ side = "long" /\ lots = 0 /\ CloseResidue(price)
     \/ /\ side = "long" /\ lots > 0
        /\ pnl' = pnl + price - Average
        /\ lots' = lots - 1 /\ cost' = IF lots = 1 THEN 0 ELSE cost - price
        /\ side' = (IF lots = 1 THEN "none" ELSE "long")
        /\ rounded' = (rounded /\ lots > 1) /\ UNCHANGED <<entry, missed>>

\* execute_sell: it closes a lot of a long, or adds one to a short.
ExecuteSell(price) ==
  /\ cash' = cash + price
  /\ \/ side # "long" /\ AddLot(price, "short")
     \/ side = "long" /\ lots > 0 /\ CloseLot(price - Average)
     \/ side = "long" /\ lots = 0 /\ CloseResidue(price)

\* What the position would make at a price.
Unrealized(price) ==
  IF side = "long" THEN price * lots - cost
  ELSE IF side = "short" THEN cost - price * lots ELSE 0

\* Position().
Gone == side' = "none" /\ lots' = 0 /\ cost' = 0 /\ rounded' = FALSE /\ entry' = 0

CloseAt(price) ==
  /\ pnl' = pnl + Unrealized(price)
  /\ cash' = cash + (IF side = "long" THEN price * lots ELSE -(price * lots))
  /\ Gone

-----------------------------------------------------------------------------
(* The loop over the candles.                                              *)

\* A candle with any low, high and close, and any funding rate.
NextCandle ==
  /\ loop = "next" /\ candles < MaxCandles
  /\ candles' = candles + 1
  /\ low' \in Prices /\ high' \in Prices /\ close' \in Prices /\ rate' \in Rates
  /\ low' <= close' /\ close' <= high'
  /\ loop' = "buys" /\ level' = 1
  /\ UNCHANGED <<loss, orders, holding, counter, money, curve>>

\* Mutant of BuyLevel: the sell order of the level is not enabled again.
BuyOnly ==
  /\ loop = "buys" /\ level <= Levels
  /\ level' = level + 1
  /\ IF level \in buys /\ low * Unit <= BuyPrice(level)
     THEN /\ ExecuteBuy(BuyPrice(level))
          /\ buys' = buys \ {level} /\ sells' = sells
     ELSE UNCHANGED <<orders, holding, pnl, cash, missed>>
  /\ UNCHANGED <<loss, candles, candle, loop, counter, funding, capital, curve>>

\* run: a buy level the low reached is filled, its sell order enabled again.
BuyLevel ==
  /\ loop = "buys" /\ level <= Levels
  /\ level' = level + 1
  /\ IF level \in buys /\ low * Unit <= BuyPrice(level)
     THEN /\ ExecuteBuy(BuyPrice(level))
          /\ buys' = buys \ {level} /\ sells' = sells \cup {level}
     ELSE UNCHANGED <<orders, holding, pnl, cash, missed>>
  /\ UNCHANGED <<loss, candles, candle, loop, counter, funding, capital, curve>>

\* Mutant of SellLevel: a filled sell order stays.
SellStays ==
  /\ loop = "sells" /\ level <= Levels
  /\ level' = level + 1
  /\ IF level \in sells /\ high * Unit >= SellPrice(level)
     THEN /\ ExecuteSell(SellPrice(level))
          /\ buys' = buys \cup {level} /\ sells' = sells
     ELSE UNCHANGED <<orders, holding, pnl, cash, missed>>
  /\ UNCHANGED <<loss, candles, candle, loop, counter, funding, capital, curve>>

\* Then the sell levels the high reached, also one enabled a moment ago.
SellLevel ==
  /\ loop = "sells" /\ level <= Levels
  /\ level' = level + 1
  /\ IF level \in sells /\ high * Unit >= SellPrice(level)
     THEN /\ ExecuteSell(SellPrice(level))
          /\ sells' = sells \ {level} /\ buys' = buys \cup {level}
     ELSE UNCHANGED <<orders, holding, pnl, cash, missed>>
  /\ UNCHANGED <<loss, candles, candle, loop, counter, funding, capital, curve>>

LoopEnds ==
  /\ loop \in {"buys", "sells"} /\ level = Levels + 1
  /\ IF loop = "buys" THEN loop' = "sells" /\ level' = 1 ELSE loop' = "stop" /\ level' = 0
  /\ UNCHANGED <<loss, candles, candle, orders, holding, counter, money, curve>>

\* update_stop_loss: what was bought or sold for an amount is worth at the stop,
\* times the denominator of loss.
AtStop(amount) ==
  IF side = "long" THEN amount * (loss[2] - loss[1]) ELSE amount * (loss[2] + loss[1])

\* The stop follows every change of the position, and stays with a residue.
Weight == IF lots = 0 THEN 1 ELSE lots
Basis == IF lots = 0 THEN entry ELSE cost

StopHit ==
  \/ side = "long"  /\ low * Unit * Weight * loss[2] <= AtStop(Basis)
  \/ side = "short" /\ high * Unit * Weight * loss[2] >= AtStop(Basis)

\* execute_stop_loss at the stop price: the share of the cost is lost.  What the
\* lots fetch is rounded as the loss is.
StopLoss ==
  /\ loop = "stop"
  /\ IF StopHit
     THEN /\ pnl' = pnl - (cost * loss[1]) \div loss[2]
          /\ cash' = cash - (IF side = "long" THEN (0 - AtStop(cost)) \div loss[2]
                                               ELSE AtStop(cost) \div loss[2])
          /\ Gone
     ELSE UNCHANGED <<holding, pnl, cash>>
  /\ loop' = "funding"
  /\ UNCHANGED <<loss, candles, candle, level, orders, counter, funding, capital, missed, curve>>

\* apply_funding and calculate_equity: the curve is the capital, which no
\* closed trade has changed, and what the open position would make.
ApplyFunding ==
  /\ loop = "funding"
  /\ LET due == counter + 1 >= FundingEvery
         paid == IF ~due \/ side = "none" THEN 0
                 ELSE IF side = "long" THEN -(lots * close * rate) ELSE lots * close * rate
     IN /\ counter' = IF due THEN 0 ELSE counter + 1
        /\ funding' = funding + paid /\ capital' = capital + paid
        /\ curve' = Append(curve, capital + paid + Unrealized(close * Unit))
  /\ loop' = IF candles = MaxCandles THEN "final" ELSE "next"
  /\ UNCHANGED <<loss, candles, candle, level, orders, holding, pnl, cash, missed>>

\* What is left is closed at the last close, and counts as capital.
CloseFinal ==
  /\ loop = "final"
  /\ CloseAt(close * Unit)
  /\ capital' = capital + Unrealized(close * Unit)
  /\ loop' = "done"
  /\ UNCHANGED <<loss, candles, candle, level, orders, counter, funding, missed, curve>>

TestNext == \/ NextCandle \/ BuyLevel \/ SellLevel \/ LoopEnds
        \/ StopLoss \/ ApplyFunding \/ CloseFinal

TestSpec == TestInit /\ [][TestNext]_testVars
-----------------------------------------------------------------------------
(* _compile_results.                                                       *)

Larger(x, y) == IF x > y THEN x ELSE y

\* Mutant of Peak: the point before.
PointBefore == [i \in 1..Len(curve) |-> curve[IF i = 1 THEN 1 ELSE i - 1]]

Peak == LET p[i \in 1..Len(curve)] == IF i = 1 THEN curve[1] ELSE Larger(p[i - 1], curve[i]) IN p

\* Of two shares <<n, d>> the first is larger.
Deeper(a, b) == a[1] * b[2] > b[1] * a[2]

\* The drawdown of a point, as a share <<n, d>> of the peak so far, and the
\* largest of them.
Drawdown(i) == IF Peak[i] > 0 THEN <<Peak[i] - curve[i], Peak[i]>> ELSE <<0, 1>>

MaxDrawdown ==
  LET worst[i \in 0..Len(curve)] ==
        IF i = 0 THEN <<0, 1>>
        ELSE IF Deeper(Drawdown(i), worst[i - 1]) THEN Drawdown(i) ELSE worst[i - 1]
  IN worst[Len(curve)]

TotalPnl == pnl + funding
-----------------------------------------------------------------------------
(* Properties.                                                             *)

\* The position never has more lots than a side has levels, also when a stop
\* closed it and left the orders of its levels where they were (run).
LotsWithinLevels ==
  /\ lots <= Levels
  /\ side = "long"  => lots + Cardinality(buys) <= Levels
  /\ side = "short" => lots + Cardinality(sells) <= Levels

\* No level dies: one of its two orders is always active.
LevelAlive == buys \cup sells = 1..Levels

\* Average entry prices are whole: Unit is fine enough for what these levels
\* and prices can make of them.
WholeAverages == lots > 0 => cost % lots = 0

\* What the lots still held cost, as money paid.
OpenCost == IF side = "long" THEN cost ELSE IF side = "short" THEN -cost ELSE 0

\* The profit of the closed trades is the money the orders took in, once the open
\* lots are counted at their cost, whatever the order in which they were closed,
\* flips of the side and stops: but for the orders that found a residue of
\* rounding, whose money no profit counts.  Hence the profit reported is money,
\* less theirs (execute_buy, execute_sell, the stop, _compile_results).
PnlIsCash ==
  /\ pnl = cash - missed + OpenCost
  /\ loop = "done" => TotalPnl = cash - missed + funding

\* "total_pnl = sum(t.pnl for t in self.trades)" (_compile_results) would be all the
\* money of the trades, did lots add up exactly.
EveryOrderCounts == pnl = cash + OpenCost

\* A stop never comes before a level of the grid: a long's stop lies below the
\* lowest buy level and a short's above the highest sell level, which is what
\* generate_param_grid demands a larger loss for; also the stop of a residue.
StopBeyondGrid ==
  /\ side = "long"  => AtStop(Basis) < BuyPrice(Levels) * Weight * loss[2]
  /\ side = "short" => AtStop(Basis) > SellPrice(Levels) * Weight * loss[2]

\* The drawdown computed in one pass is the largest fall from any point of the
\* curve to a later one, as a share of the former: to a point where something
\* is left, or from the highest point before it.  (Once more than everything is
\* lost, a fall from a lower point is the larger share: 132 to -48 after 168.)
DrawdownIsWorst ==
  loop \in {"next", "final"} =>
    \A i, j \in DOMAIN curve :
      /\ i < j /\ curve[i] > 0
      /\ curve[j] >= 0 \/ \A k \in 1..j : curve[k] <= curve[i]
      => ~Deeper(<<curve[i] - curve[j], curve[i]>>, MaxDrawdown)

\* "Calculate total equity including unrealized PnL" (backtest.py, calculate_equity):
\* a point of the curve would be what was put in, what was realized, funding and
\* what the open position would make.
EquityIsTotal ==
  loop \in {"next", "final"} /\ curve # <<>> =>
    curve[Len(curve)] = Capital * Unit + pnl + funding + Unrealized(close * Unit)

\* No level of the grid dies, and none is held twice.
GridSound == TestTypeOK /\ LotsWithinLevels /\ LevelAlive

\* The figures a backtest reports are those of its trades, and its stop is the
\* one the parameters were generated for.
MetricsHold == WholeAverages /\ PnlIsCash /\ DrawdownIsWorst /\ StopBeyondGrid
=============================================================================
