------------------------------ MODULE GridPrices ------------------------------
(***************************************************************************)
(* The prices of the grid (strategy/gridBuilder.ts) and their rounding to  *)
(* the tick of the pair (exchange/pairMetadata.ts), for the levels that    *)
(* GridExposure places.  Prices, ticks and an absolute spacing are whole   *)
(* numbers of a unit finer than any tick; a percentage is a whole number   *)
(* of per cent.                                                            *)
(***************************************************************************)
EXTENDS GridExposure

CONSTANTS
  Prices,    \* reference prices
  Spacings,  \* config.spacingValue
  Ticks,     \* tickSize of the pair
  Deepest    \* bound: the deepest level whose price is looked at

ASSUME PriceConstants ==
  /\ Prices \subseteq Nat \ {0}
  /\ Spacings \subseteq Nat \ {0}
  /\ Ticks \subseteq Nat \ {0}
  /\ Deepest \in Nat \ {0}

Modes == {"percent", "absolute"}

\* roundToTickSize: down to a tick.
RoundToTickSize(price, tick) == (price \div tick) * tick

Power(base, n) == LET p[i \in 0..n] == IF i = 0 THEN 1 ELSE p[i - 1] * base IN p[n]

\* The exact price is ref * base^i / 100^i; cutting it to the unit first does
\* not change the tick it is rounded down to.
PercentPrice(ref, base, i, tick) ==
  RoundToTickSize((ref * Power(base, i)) \div Power(100, i), tick)

\* buyLevelPrice and priceToString
BuyLevelPrice(ref, spacing, mode, i, tick) ==
  IF mode = "percent" THEN PercentPrice(ref, 100 - spacing, i, tick)
                      ELSE RoundToTickSize(ref - spacing * i, tick)

\* Mutant of SellLevelPrice: the spacing of the first level counts for all.
SellLevelsTogether(ref, spacing, mode, i, tick) ==
  IF mode = "percent" THEN PercentPrice(ref, 100 + spacing, 1, tick)
                      ELSE RoundToTickSize(ref + spacing, tick)

\* sellLevelPrice and priceToString
SellLevelPrice(ref, spacing, mode, i, tick) ==
  IF mode = "percent" THEN PercentPrice(ref, 100 + spacing, i, tick)
                      ELSE RoundToTickSize(ref + spacing * i, tick)

Price(s, ref, spacing, mode, i, tick) ==
  IF s = "BUY" THEN BuyLevelPrice(ref, spacing, mode, i, tick)
               ELSE SellLevelPrice(ref, spacing, mode, i, tick)

-----------------------------------------------------------------------------
(* Properties.                                                             *)

\* The least distance of two neighbours among the levels 1..n of a grid and the
\* reference price, before they are rounded: in percent the deepest two buy
\* levels are the closest.
Closest(ref, spacing, mode, n) ==
  IF mode = "percent" THEN (ref * Power(100 - spacing, n - 1) * spacing) \div Power(100, n)
                      ELSE spacing

Deeper(s, p, q) == IF s = "BUY" THEN p < q ELSE p > q

\* What rounding leaves of levels i < j of a side that are computed from one
\* reference price, for all inputs; level 0 is the reference itself.  They never
\* change places, and stay apart if the closest of the levels up to j are a tick
\* apart, for which nothing in the configuration provides (schema.ts:11).  At 100
\* per cent and beyond a buy level has no price above zero.
InOrder ==
  [s \in Sides |-> [i \in 0..Deepest |-> [j \in 1..Deepest |->
     \A mode \in Modes, ref \in Prices, spacing \in Spacings, tick \in Ticks :
       LET far == Price(s, ref, spacing, mode, j, tick)
           near == IF i = 0 THEN ref ELSE Price(s, ref, spacing, mode, i, tick)
       IN  (mode = "percent" => spacing < 100)
             => /\ i # 0 => ~Deeper(s, near, far)
                /\ Closest(ref, spacing, mode, j) >= tick => Deeper(s, far, near)]]]

\* The request for an order is sent.
Starts(i) == order[i] = "none" /\ order'[i] = "sent"

\* Rounding down to ticks does not turn round the orders that the bot sends at one
\* moment, that is, from one reference price, on one side; and where the spacing is
\* a tick or more it neither merges the prices of two of them nor moves one onto
\* the reference or to its other side (buildGridLevels, buildReplenishLevel,
\* priceToString).  Orders of different moments are not compared: each has the
\* reference of its own (main.ts:168, 316), and their prices may coincide.
LevelsApart ==
  [][\A i \in Orders : Starts(i) /\ plan'[i].level <= Deepest =>
       /\ InOrder[plan'[i].side][0][plan'[i].level]
       /\ \A j \in Orders :
            Starts(j) /\ plan'[i].side = plan'[j].side /\ plan'[j].level \in plan'[i].level + 1..Deepest
              => InOrder[plan'[i].side][plan'[i].level][plan'[j].level]]_exposureVars

\* Not among the properties that hold: gridBuilder.ts:10, "N SELL orders above ref
\* price".  A spacing below a tick is accepted, and rounding down then puts a sell
\* order on the reference or below it.
SellsAboveReference ==
  [][\A i \in Orders : Starts(i) /\ plan'[i].side = "SELL" /\ plan'[i].level <= Deepest =>
       \A mode \in Modes, ref \in Prices, spacing \in Spacings, tick \in Ticks :
         SellLevelPrice(ref, spacing, mode, plan'[i].level, tick) > ref]_exposureVars

===============================================================================
