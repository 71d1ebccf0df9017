-------------------------- MODULE FuturesTools_proofs --------------------------
(***************************************************************************)
(* What holds of the tools of the futures accounts for every value of the  *)
(* constants: the grid of the backtester stays sound and the figures it    *)
(* reports are those of its trades, the ledgers of the net-flow reports    *)
(* form a chain that adds up to what the accounts earned, the scripts that *)
(* move USDT keep to their bounds, and those that close positions never    *)
(* carry one past zero and say at their end what the exchange holds.       *)
(*                                                                         *)
(* Sums, peaks and drawdowns are computed one value after another.  What   *)
(* such a computation yields is proved by induction, through the least     *)
(* element of the places where it would fail.                              *)
(***************************************************************************)
EXTENDS FuturesTools, TLAPS, FiniteSetTheorems, SequenceTheorems, WellFoundedInduction

-----------------------------------------------------------------------------
(* Induction, and computations of one value after another.                 *)

\* A set of naturals that is not empty has a least element.
LEMMA Least ==
  ASSUME NEW T \in SUBSET Nat, T # {}
  PROVE  \E n \in T : \A m \in T : n <= m
<1> DEFINE F == {1..n : n \in T}
<1>1. IsWellFoundedOn(StrictSubsetOrdering(Nat), FiniteSubsetsOf(Nat))
  BY FS_StrictSubsetOrderingWellFounded
<1>2. F \subseteq FiniteSubsetsOf(Nat)
  <2> SUFFICES ASSUME NEW n \in T PROVE 1..n \in SUBSET Nat /\ IsFiniteSet(1..n)
    BY DEF FiniteSubsetsOf
  <2> QED BY FS_Interval
<1>3. F # {}
  OBVIOUS
<1> HIDE DEF F
<1>4. PICK X \in F : \A Y \in F : ~(<<Y, X>> \in StrictSubsetOrdering(Nat))
  BY <1>1, <1>2, <1>3, WFMin
<1> USE DEF F
<1>5. PICK n \in T : X = 1..n
  BY <1>4
<1>6. ASSUME NEW m \in T, m < n PROVE FALSE
  <2>1. 1..m \in F /\ 1..m \in SUBSET Nat /\ 1..n \in SUBSET Nat
    OBVIOUS
  <2>2. 1..m \subseteq 1..n /\ 1..m # 1..n
    <3>1. n \in 1..n /\ n \notin 1..m
      BY <1>6
    <3> QED BY <1>6, <3>1
  <2> QED BY <1>4, <1>5, <2>1, <2>2 DEF StrictSubsetOrdering
<1> QED BY <1>5, <1>6

\* A set of naturals with 0 and every successor is all of them, and so is one
\* up to n.
LEMMA Inductive ==
  ASSUME NEW n \in Nat, NEW T, 0 \in T, \A k \in 0..n : k \in T /\ k < n => k + 1 \in T
  PROVE  0..n \subseteq T
<1> SUFFICES ASSUME NEW x \in 0..n, x \notin T PROVE FALSE
  OBVIOUS
<1> DEFINE B == {k \in 0..n : k \notin T}
<1>1. PICK k \in B : \A m \in B : k <= m
  <2>1. B \in SUBSET Nat /\ B # {}
    OBVIOUS
  <2> HIDE DEF B
  <2> QED BY <2>1, Least
<1>2. k # 0 /\ k - 1 \in 0..n
  BY <1>1
<1>3. k - 1 \in T
  BY <1>1, <1>2
<1> QED BY <1>1, <1>2, <1>3

\* What is computed from the value before exists.
Runs(v, G, n, s) == s[0] = v /\ \A i \in 1..n : s[i] = G[i][s[i - 1]]

LEMMA RunExists ==
  ASSUME NEW n \in Nat, NEW V, NEW v \in V, NEW G, \A i \in 1..n : \A u \in V : G[i][u] \in V
  PROVE  \E s \in [0..n -> V] : Runs(v, G, n, s)
<1> DEFINE T == {k \in 0..n : \E s \in [0..k -> V] : Runs(v, G, k, s)}
<1>1. 0 \in T
  <2>1. [i \in 0..0 |-> v] \in [0..0 -> V] /\ Runs(v, G, 0, [i \in 0..0 |-> v])
    BY DEF Runs
  <2> QED BY <2>1
<1>2. ASSUME NEW k \in 0..n, k \in T, k < n PROVE k + 1 \in T
  <2>1. PICK s \in [0..k -> V] : Runs(v, G, k, s)
    BY <1>2
  <2> DEFINE t == [i \in 0..k + 1 |-> IF i = k + 1 THEN G[k + 1][s[k]] ELSE s[i]]
  <2>2. t \in [0..k + 1 -> V]
    BY <1>2
  <2>3. t[0] = v
    BY <2>1, <1>2 DEF Runs
  <2>4. ASSUME NEW i \in 1..k + 1 PROVE t[i] = G[i][t[i - 1]]
    <3>1. CASE i = k + 1
      BY <1>2, <3>1
    <3>2. CASE i # k + 1
      <4>1. i \in 1..k /\ i - 1 \in 0..k /\ t[i] = s[i] /\ t[i - 1] = s[i - 1]
        BY <1>2, <3>2
      <4> QED BY <2>1, <4>1 DEF Runs
    <3> QED BY <3>1, <3>2
  <2> HIDE DEF t
  <2>5. Runs(v, G, k + 1, t)
    BY <2>3, <2>4 DEF Runs
  <2> QED BY <1>2, <2>2, <2>5
<1> HIDE DEF T
<1>3. \A j \in 0..n : j \in T /\ j < n => j + 1 \in T
  BY <1>2
<1>4. 0..n \subseteq T
  BY <1>1, <1>3, Inductive
<1>5. n \in T
  BY <1>4
<1> QED BY <1>5 DEF T

-----------------------------------------------------------------------------
(* The grid of the backtester.                                            *)

\* The level at work is one of the grid or the one behind the last.
LevelOK == loop \in {"buys", "sells"} => level >= 1

GridKept == GridSound /\ LevelOK

\* Orders enabled or filled change their number by one at most.
LEMMA OrdersCounted ==
  ASSUME NEW S \in SUBSET (1..Levels), NEW i \in 1..Levels
  PROVE  /\ Cardinality(S) \in Nat
         /\ i \in S => Cardinality(S \ {i}) = Cardinality(S) - 1
         /\ Cardinality(S \cup {i}) <= Cardinality(S) + 1
<1>1. IsFiniteSet(1..Levels)
  BY BacktestAssumption, FS_Interval
<1>2. IsFiniteSet(S)
  BY <1>1, FS_Subset
<1>3. Cardinality(S) \in Nat
  BY <1>2, FS_CardinalityType
<1>4. i \in S => Cardinality(S \ {i}) = Cardinality(S) - 1
  BY <1>2, FS_RemoveElement
<1>5. Cardinality(S \cup {i}) <= Cardinality(S) + 1
  <2>1. i \in S => S \cup {i} = S
    OBVIOUS
  <2>2. i \notin S => Cardinality(S \cup {i}) = Cardinality(S) + 1
    BY <1>2, FS_AddElement
  <2> QED BY <1>3, <2>1, <2>2
<1> QED BY <1>3, <1>4, <1>5

\* A side has as many orders as it has levels at most.
LEMMA OrdersBounded ==
  ASSUME NEW S \in SUBSET (1..Levels)
  PROVE  Cardinality(S) \in Nat /\ Cardinality(S) <= Levels
<1>1. IsFiniteSet(1..Levels) /\ Cardinality(1..Levels) = Levels
  BY BacktestAssumption, FS_Interval
<1> QED BY <1>1, FS_Subset, FS_CardinalityType

\* Prices, averages and paper profits are whole numbers.
LEMMA AmountsTyped ==
  ASSUME TestTypeOK
  PROVE  /\ \A i \in Int : BuyPrice(i) \in Int /\ SellPrice(i) \in Int
         /\ \A p \in Int : Unrealized(p) \in Int
         /\ \A a \in Int : AtStop(a) \in Int
<1>1. \A x, y \in Int : x * y \in Int
  OBVIOUS
<1>2. Unit \in Int /\ Mid \in Int /\ Step \in Int /\ lots \in Int /\ cost \in Int
  BY BacktestAssumption DEF TestTypeOK
<1>3. loss[1] \in Int /\ loss[2] \in Int
  BY BacktestAssumption DEF TestTypeOK
<1>4. \A i \in Int : BuyPrice(i) \in Int /\ SellPrice(i) \in Int
  BY <1>1, <1>2 DEF BuyPrice, SellPrice
<1>5. \A p \in Int : Unrealized(p) \in Int
  BY <1>1, <1>2 DEF Unrealized
<1>6. \A a \in Int : AtStop(a) \in Int
  <2>1. loss[2] - loss[1] \in Int /\ loss[2] + loss[1] \in Int
    BY <1>3
  <2> QED BY <1>1, <2>1 DEF AtStop
<1> QED BY <1>4, <1>5, <1>6

\* The prices and the rate of a candle are whole numbers.
LEMMA CandleTyped == TestTypeOK => close \in Int /\ rate \in Int /\ Unit \in Int
<1> SUFFICES ASSUME TestTypeOK PROVE close \in Int /\ rate \in Int /\ Unit \in Int
  OBVIOUS
<1>1. close \in Prices \cup {Mid} /\ rate \in Rates
  BY Zenon DEF TestTypeOK
<1> QED BY <1>1, BacktestAssumption

\* The average entry price of a position is a whole number.
LEMMA AverageTyped == TestTypeOK /\ lots # 0 => Average \in Int
BY DEF TestTypeOK, Average

\* The position is nothing at all, or lots, or a residue of what was rounded.
HoldingOK ==
  /\ side \in Sides /\ lots \in Nat /\ cost \in Int
  /\ rounded \in BOOLEAN /\ entry \in Int
  /\ side = "none" => lots = 0 /\ ~rounded
  /\ side # "none" /\ lots = 0 => rounded
  /\ pnl \in Int /\ cash \in Int /\ missed \in Int

\* An order that adds a lot keeps the position what it may be.
LEMMA LotAdded ==
  ASSUME TestTypeOK, NEW p \in Int, NEW s \in {"long", "short"}, AddLot(p, s), cash' \in Int
  PROVE  HoldingOK' /\ lots' = lots + 1 /\ side' = s
BY DEF TestTypeOK, HoldingOK, AddLot, Sides

\* So does one that closes a lot: the side stays, or goes with the last lot, or
\* stays with a residue at the average entry.
LEMMA LotClosed ==
  ASSUME TestTypeOK, NEW p \in Int, lots > 0, CloseLot(p), cash' \in Int
  PROVE  /\ HoldingOK' /\ lots' = lots - 1 /\ cost' = cost - Average /\ Average \in Int
         /\ pnl' = pnl + p /\ missed' = missed
         /\ side' = side \/ (side' = "none" /\ lots = 1)
         /\ lots = 1 /\ side' # "none" => entry' = Average
<1>1. lots \in Nat \ {0} /\ side \in Sides \ {"none"} /\ Average \in Int
  BY AverageTyped DEF TestTypeOK
<1>2. PICK residue \in {FALSE, rounded /\ lots = 1} :
        /\ side' = IF lots = 1 /\ ~residue THEN "none" ELSE side
        /\ rounded' = (rounded /\ side' # "none")
        /\ entry' = IF residue THEN Average ELSE 0
  BY DEF CloseLot
<1>3. lots' = lots - 1 /\ cost' = cost - Average /\ pnl' = pnl + p /\ missed' = missed
  BY DEF CloseLot
<1>4. rounded \in BOOLEAN /\ residue \in BOOLEAN /\ (residue => rounded /\ lots = 1)
  BY <1>2 DEF TestTypeOK
<1>5. side' \in Sides /\ rounded' \in BOOLEAN /\ entry' \in Int
  <2>1. rounded' \in BOOLEAN
    BY <1>2, Zenon
  <2>2. side' \in Sides
    BY <1>1, <1>2 DEF Sides
  <2>3. entry' = Average \/ entry' = 0
    BY <1>2
  <2> QED BY <1>1, <2>1, <2>2, <2>3
<1>6. side' = "none" => lots' = 0 /\ ~rounded'
  <2>1. side' = "none" => ~rounded'
    BY <1>2, Zenon
  <2>2. side' = "none" => lots = 1
    BY <1>1, <1>2
  <2> QED BY <1>1, <1>3, <2>1, <2>2
<1>7. side' # "none" /\ lots' = 0 => rounded'
  <2>1. side' # "none" /\ lots' = 0 => residue
    BY <1>1, <1>2, <1>3
  <2> QED BY <1>2, <1>4, <2>1
<1>8. lots' \in Nat /\ cost' \in Int /\ pnl' \in Int /\ missed' \in Int
  BY <1>1, <1>3 DEF TestTypeOK
<1>9. side' = side \/ (side' = "none" /\ lots = 1)
  BY <1>2
<1>10. lots = 1 /\ side' # "none" => entry' = Average
  BY <1>2, <1>4
<1> QED BY <1>1, <1>3, <1>5, <1>6, <1>7, <1>8, <1>9, <1>10 DEF HoldingOK

\* And one that finds a residue closes it.
LEMMA ResidueClosed ==
  ASSUME TestTypeOK, NEW p \in Int, lots = 0, CloseResidue(p), cash' \in Int
  PROVE  /\ HoldingOK' /\ lots' = 0 /\ side' = "none"
<1>1. rounded' \in BOOLEAN /\ ~rounded'
  BY Zenon DEF CloseResidue
<1>2. /\ missed' = missed + p /\ side' = "none" /\ entry' = 0
      /\ pnl' = pnl /\ lots' = lots /\ cost' = cost
  BY DEF CloseResidue
<1> QED BY <1>1, <1>2 DEF TestTypeOK, HoldingOK, Sides

\* The grid a backtest starts with is sound.
THEOREM InitSound == TestInit => GridKept
<1> SUFFICES ASSUME TestInit PROVE GridKept
  OBVIOUS
<1> USE BacktestAssumption DEF TestInit
<1>1. TestTypeOK
  <2>1. capital \in Int
    OBVIOUS
  <2>2. curve \in Seq(Int)
    OBVIOUS
  <2>3. rounded \in BOOLEAN /\ ~rounded
    BY Zenon
  <2> QED BY <2>1, <2>2, <2>3 DEF TestTypeOK, Sides
<1>2. LotsWithinLevels /\ LevelAlive /\ LevelOK
  BY DEF LotsWithinLevels, LevelAlive, LevelOK
<1> QED BY <1>1, <1>2 DEF GridKept, GridSound

-----------------------------------------------------------------------------
\* A buy level that is filled leaves the grid sound: it closes a lot of a short
\* whose sell order is enabled again, or opens one of a long in its place.
LEMMA BuyLevelSound == GridKept /\ BuyLevel => GridKept'
<1> SUFFICES ASSUME GridKept, BuyLevel PROVE GridKept'
  OBVIOUS
<1> USE DEF GridKept, GridSound
<1>1. level \in 1..Levels /\ level' = level + 1 /\ level' \in 0..Levels + 1
  BY BacktestAssumption DEF BuyLevel, LevelOK, TestTypeOK
<1>2. UNCHANGED <<loss, candles, low, high, close, rate, loop, counter, funding, capital, curve>>
  BY DEF BuyLevel, candle
<1>3. LevelOK'
  BY <1>1, <1>2 DEF LevelOK
<1>4. CASE level \in buys /\ low * Unit <= BuyPrice(level)
  <2>1. ExecuteBuy(BuyPrice(level)) /\ buys' = buys \ {level} /\ sells' = sells \cup {level}
    BY <1>4 DEF BuyLevel
  <2>2. buys' \subseteq 1..Levels /\ sells' \subseteq 1..Levels /\ LevelAlive'
    BY <2>1, <1>1 DEF TestTypeOK, LevelAlive
  <2>3. BuyPrice(level) \in Int
    BY <1>1, AmountsTyped
  <2>4. cash' = cash - BuyPrice(level) /\ cash' \in Int
    BY <2>1, <2>3 DEF ExecuteBuy, TestTypeOK
  <2>5. HoldingOK' => TestTypeOK'
    BY <1>1, <1>2, <2>2 DEF TestTypeOK, HoldingOK
  <2>6. CASE side = "short" /\ lots > 0
    <3>1. CloseLot(Average - BuyPrice(level))
      BY <2>1, <2>6 DEF ExecuteBuy
    <3>2. lots \in Nat \ {0} /\ Average \in Int /\ Average - BuyPrice(level) \in Int
      BY <2>3, <2>6, AverageTyped DEF TestTypeOK
    <3>3. HoldingOK' /\ lots' = lots - 1 /\ (side' = side \/ side' = "none")
      BY <2>4, <2>6, <3>1, <3>2, LotClosed
    <3>4. Cardinality(sells') <= Cardinality(sells) + 1 /\ Cardinality(sells) \in Nat
      BY <1>1, <2>1, OrdersCounted DEF TestTypeOK
    <3>5. Cardinality(sells') \in Nat
      BY <2>2, OrdersBounded
    <3>6. LotsWithinLevels'
      BY <2>6, <3>2, <3>3, <3>4, <3>5, BacktestAssumption DEF LotsWithinLevels
    <3> QED BY <1>3, <2>2, <2>5, <3>3, <3>6
  <2>7. CASE side = "short" /\ lots = 0
    <3>1. CloseResidue(-BuyPrice(level)) /\ -BuyPrice(level) \in Int
      BY <2>1, <2>3, <2>7 DEF ExecuteBuy
    <3>2. HoldingOK' /\ lots' = 0 /\ side' = "none"
      BY <2>4, <2>7, <3>1, ResidueClosed
    <3> QED BY <1>3, <2>2, <2>5, <3>2, BacktestAssumption DEF LotsWithinLevels
  <2>8. CASE side # "short"
    <3>1. AddLot(BuyPrice(level), "long")
      BY <2>1, <2>8 DEF ExecuteBuy
    <3>2. HoldingOK' /\ lots' = lots + 1 /\ side' = "long"
      BY <2>3, <2>4, <3>1, LotAdded
    <3>3. Cardinality(buys') = Cardinality(buys) - 1 /\ Cardinality(buys) \in Nat
      BY <1>1, <1>4, <2>1, OrdersCounted DEF TestTypeOK
    <3>4. lots + Cardinality(buys) <= Levels
      BY <2>8, OrdersBounded DEF LotsWithinLevels, TestTypeOK, Sides
    <3>5. Cardinality(buys') \in Nat
      BY <2>2, OrdersBounded
    <3>6. LotsWithinLevels'
      BY <3>2, <3>3, <3>4, <3>5, BacktestAssumption DEF LotsWithinLevels, TestTypeOK
    <3> QED BY <1>3, <2>2, <2>5, <3>2, <3>6
  <2>9. lots = 0 \/ lots > 0
    BY DEF TestTypeOK
  <2> QED BY <2>6, <2>7, <2>8, <2>9
<1>5. CASE ~(level \in buys /\ low * Unit <= BuyPrice(level))
  <2>1. UNCHANGED <<buys, sells, side, lots, cost, rounded, entry, pnl, cash, missed>>
    BY <1>5 DEF BuyLevel, orders, holding
  <2> QED BY <1>1, <1>2, <1>3, <2>1 DEF TestTypeOK, LotsWithinLevels, LevelAlive
<1> QED BY <1>4, <1>5

\* And so does a sell level.
LEMMA SellLevelSound == GridKept /\ SellLevel => GridKept'
<1> SUFFICES ASSUME GridKept, SellLevel PROVE GridKept'
  OBVIOUS
<1> USE DEF GridKept, GridSound
<1>1. level \in 1..Levels /\ level' = level + 1 /\ level' \in 0..Levels + 1
  BY BacktestAssumption DEF SellLevel, LevelOK, TestTypeOK
<1>2. UNCHANGED <<loss, candles, low, high, close, rate, loop, counter, funding, capital, curve>>
  BY DEF SellLevel, candle
<1>3. LevelOK'
  BY <1>1, <1>2 DEF LevelOK
<1>4. CASE level \in sells /\ high * Unit >= SellPrice(level)
  <2>1. ExecuteSell(SellPrice(level)) /\ sells' = sells \ {level} /\ buys' = buys \cup {level}
    BY <1>4 DEF SellLevel
  <2>2. buys' \subseteq 1..Levels /\ sells' \subseteq 1..Levels /\ LevelAlive'
    BY <2>1, <1>1 DEF TestTypeOK, LevelAlive
  <2>3. SellPrice(level) \in Int
    BY <1>1, AmountsTyped
  <2>4. cash' = cash + SellPrice(level) /\ cash' \in Int
    BY <2>1, <2>3 DEF ExecuteSell, TestTypeOK
  <2>5. HoldingOK' => TestTypeOK'
    BY <1>1, <1>2, <2>2 DEF TestTypeOK, HoldingOK
  <2>6. CASE side = "long" /\ lots > 0
    <3>1. CloseLot(SellPrice(level) - Average)
      BY <2>1, <2>6 DEF ExecuteSell
    <3>2. lots \in Nat \ {0} /\ Average \in Int /\ SellPrice(level) - Average \in Int
      BY <2>3, <2>6, AverageTyped DEF TestTypeOK
    <3>3. HoldingOK' /\ lots' = lots - 1 /\ (side' = side \/ side' = "none")
      BY <2>4, <2>6, <3>1, <3>2, LotClosed
    <3>4. Cardinality(buys') <= Cardinality(buys) + 1 /\ Cardinality(buys) \in Nat
      BY <1>1, <2>1, OrdersCounted DEF TestTypeOK
    <3>5. Cardinality(buys') \in Nat
      BY <2>2, OrdersBounded
    <3>6. LotsWithinLevels'
      BY <2>6, <3>2, <3>3, <3>4, <3>5, BacktestAssumption DEF LotsWithinLevels
    <3> QED BY <1>3, <2>2, <2>5, <3>3, <3>6
  <2>7. CASE side = "long" /\ lots = 0
    <3>1. CloseResidue(SellPrice(level)) /\ SellPrice(level) \in Int
      BY <2>1, <2>3, <2>7 DEF ExecuteSell
    <3>2. HoldingOK' /\ lots' = 0 /\ side' = "none"
      BY <2>4, <2>7, <3>1, ResidueClosed
    <3> QED BY <1>3, <2>2, <2>5, <3>2, BacktestAssumption DEF LotsWithinLevels
  <2>8. CASE side # "long"
    <3>1. AddLot(SellPrice(level), "short")
      BY <2>1, <2>8 DEF ExecuteSell
    <3>2. HoldingOK' /\ lots' = lots + 1 /\ side' = "short"
      BY <2>3, <2>4, <3>1, LotAdded
    <3>3. Cardinality(sells') = Cardinality(sells) - 1 /\ Cardinality(sells) \in Nat
      BY <1>1, <1>4, <2>1, OrdersCounted DEF TestTypeOK
    <3>4. lots + Cardinality(sells) <= Levels
      BY <2>8, OrdersBounded DEF LotsWithinLevels, TestTypeOK, Sides
    <3>5. Cardinality(sells') \in Nat
      BY <2>2, OrdersBounded
    <3>6. LotsWithinLevels'
      BY <3>2, <3>3, <3>4, <3>5, BacktestAssumption DEF LotsWithinLevels, TestTypeOK
    <3> QED BY <1>3, <2>2, <2>5, <3>2, <3>6
  <2>9. lots = 0 \/ lots > 0
    BY DEF TestTypeOK
  <2> QED BY <2>6, <2>7, <2>8, <2>9
<1>5. CASE ~(level \in sells /\ high * Unit >= SellPrice(level))
  <2>1. UNCHANGED <<buys, sells, side, lots, cost, rounded, entry, pnl, cash, missed>>
    BY <1>5 DEF SellLevel, orders, holding
  <2> QED BY <1>1, <1>2, <1>3, <2>1 DEF TestTypeOK, LotsWithinLevels, LevelAlive
<1> QED BY <1>4, <1>5

-----------------------------------------------------------------------------
\* The rest of the loop leaves the orders alone, and a stop closes everything.
LEMMA LoopSound == GridKept /\ (NextCandle \/ LoopEnds) => GridKept'
<1> SUFFICES ASSUME GridKept, NextCandle \/ LoopEnds PROVE GridKept'
  OBVIOUS
<1> USE DEF GridKept, GridSound
<1>1. UNCHANGED <<loss, buys, sells, side, lots, cost, rounded, entry, counter, pnl, funding, capital, cash,
                 missed, curve>>
  BY DEF NextCandle, LoopEnds, orders, holding, money
<1>2. /\ candles' \in 0..MaxCandles /\ {low', high', close'} \subseteq Prices \cup {Mid} /\ rate' \in Rates
      /\ loop' \in {"buys", "sells", "stop"} /\ level' \in {0, 1}
      /\ loop' \in {"buys", "sells"} => level' = 1
  BY BacktestAssumption DEF NextCandle, LoopEnds, candle, TestTypeOK
<1>3. level' \in 0..Levels + 1
  BY <1>2, BacktestAssumption
<1> QED BY <1>1, <1>2, <1>3 DEF TestTypeOK, LotsWithinLevels, LevelAlive, LevelOK

\* A stop loss keeps the grid sound: the position is gone, its levels stay as they are.
LEMMA StopSound == GridKept /\ StopLoss => GridKept'
<1> SUFFICES ASSUME GridKept, StopLoss PROVE GridKept'
  OBVIOUS
<1> USE DEF GridKept, GridSound
<1>1. /\ UNCHANGED <<loss, candles, low, high, close, rate, level, buys, sells, counter, funding, capital,
                   missed, curve>>
      /\ loop' = "funding"
  BY DEF StopLoss, candle, orders
<1>2. CASE StopHit
  <2>1. /\ pnl' = pnl - (cost * loss[1]) \div loss[2]
        /\ cash' = cash - (IF side = "long" THEN (0 - AtStop(cost)) \div loss[2] ELSE AtStop(cost) \div loss[2])
        /\ side' = "none" /\ lots' = 0 /\ cost' = 0 /\ rounded' = FALSE /\ entry' = 0
    BY <1>2 DEF StopLoss, Gone
  <2>2. loss[1] \in Nat \ {0} /\ loss[2] \in Nat \ {0}
    BY BacktestAssumption DEF TestTypeOK
  <2>3. cost * loss[1] \in Int /\ AtStop(cost) \in Int
    <3>1. \A x, y \in Int : x * y \in Int
      OBVIOUS
    <3>2. cost \in Int /\ loss[1] \in Int
      BY <2>2 DEF TestTypeOK
    <3>3. AtStop(cost) \in Int
      BY <3>2, AmountsTyped
    <3> QED BY <3>1, <3>2, <3>3
  <2>4. /\ (cost * loss[1]) \div loss[2] \in Int /\ AtStop(cost) \div loss[2] \in Int
        /\ (0 - AtStop(cost)) \div loss[2] \in Int
    BY <2>2, <2>3
  <2>5. pnl' \in Int /\ cash' \in Int
    <3>1. pnl \in Int /\ cash \in Int
      BY DEF TestTypeOK
    <3>2. PICK x \in Int, y \in Int : pnl' = pnl - x /\ cash' = cash - y
      BY <2>1, <2>4
    <3> QED BY <3>1, <3>2
  <2>6. rounded' \in BOOLEAN /\ ~rounded'
    BY <2>1, Zenon
  <2>7. TestTypeOK'
    BY <1>1, <2>1, <2>5, <2>6 DEF TestTypeOK, Sides
  <2> QED BY <1>1, <2>1, <2>7, BacktestAssumption DEF LotsWithinLevels, LevelAlive, LevelOK
<1>3. CASE ~StopHit
  <2>1. UNCHANGED <<side, lots, cost, rounded, entry, pnl, cash>>
    BY <1>3 DEF StopLoss, holding
  <2> QED BY <1>1, <2>1 DEF TestTypeOK, LotsWithinLevels, LevelAlive, LevelOK
<1> QED BY <1>2, <1>3

\* Funding changes the cash only.
LEMMA FundingSound == GridKept /\ ApplyFunding => GridKept'
<1> SUFFICES ASSUME GridKept, ApplyFunding PROVE GridKept'
  OBVIOUS
<1> USE DEF GridKept, GridSound
<1>1. /\ UNCHANGED <<loss, candles, low, high, close, rate, level, buys, sells, side, lots, cost, rounded, entry,
                   pnl, cash, missed>>
      /\ loop' \in {"final", "next"}
  BY DEF ApplyFunding, candle, orders, holding
<1>2. counter' \in 0..FundingEvery - 1
  BY BacktestAssumption DEF ApplyFunding, TestTypeOK
<1> DEFINE due  == counter + 1 >= FundingEvery
           paid == IF ~due \/ side = "none" THEN 0
                   ELSE IF side = "long" THEN -(lots * close * rate) ELSE lots * close * rate
<1>3. close \in Int /\ rate \in Int /\ Unit \in Int
  BY CandleTyped
<1>4. close * Unit \in Int /\ lots * close \in Int /\ lots * close * rate \in Int
  <2>1. \A x, y \in Int : x * y \in Int
    OBVIOUS
  <2> QED BY <1>3, <2>1 DEF TestTypeOK
<1>5. paid \in Int /\ Unrealized(close * Unit) \in Int
  BY <1>4, AmountsTyped
<1>6. /\ funding' = funding + paid /\ capital' = capital + paid
      /\ curve' = Append(curve, capital + paid + Unrealized(close * Unit))
  BY DEF ApplyFunding
<1>7. funding' \in Int /\ capital' \in Int /\ curve' \in Seq(Int)
  <2> HIDE DEF paid
  <2> QED BY <1>5, <1>6 DEF TestTypeOK
<1> QED BY <1>1, <1>2, <1>7 DEF TestTypeOK, LotsWithinLevels, LevelAlive, LevelOK

\* Closing what is left at the end keeps the grid sound.
LEMMA FinalSound == GridKept /\ CloseFinal => GridKept'
<1> SUFFICES ASSUME GridKept, CloseFinal PROVE GridKept'
  OBVIOUS
<1> USE DEF GridKept, GridSound
<1>1. /\ UNCHANGED <<loss, candles, low, high, close, rate, level, buys, sells, counter, funding, missed, curve>>
      /\ loop' = "done" /\ side' = "none" /\ lots' = 0 /\ cost' = 0 /\ rounded' = FALSE /\ entry' = 0
      /\ capital' = capital + Unrealized(close * Unit) /\ pnl' = pnl + Unrealized(close * Unit)
      /\ cash' = cash + (IF side = "long" THEN close * Unit * lots ELSE -(close * Unit * lots))
  BY DEF CloseFinal, CloseAt, Gone, candle, orders
<1>2. close * Unit \in Int /\ close * Unit * lots \in Int
  <2>1. \A x, y \in Int : x * y \in Int
    OBVIOUS
  <2>2. close \in Int /\ Unit \in Int /\ lots \in Int
    BY CandleTyped DEF TestTypeOK
  <2> QED BY <2>1, <2>2
<1>3. Unrealized(close * Unit) \in Int
  BY <1>2, AmountsTyped
<1>4. capital' \in Int /\ pnl' \in Int /\ cash' \in Int
  <2>1. capital \in Int /\ pnl \in Int /\ cash \in Int
    BY DEF TestTypeOK
  <2>2. -(close * Unit * lots) \in Int
    BY <1>2
  <2> QED BY <1>1, <1>2, <1>3, <2>1, <2>2
<1>5. TestTypeOK'
  <2>1. rounded' \in BOOLEAN /\ ~rounded'
    BY <1>1, Zenon
  <2> QED BY <1>1, <1>4, <2>1 DEF TestTypeOK, Sides
<1>6. LotsWithinLevels'
  BY <1>1, BacktestAssumption DEF LotsWithinLevels
<1>7. LevelAlive' /\ LevelOK'
  BY <1>1 DEF LevelAlive, LevelOK
<1> QED BY <1>5, <1>6, <1>7

\* Every step of the simulator keeps the grid sound.
LEMMA StepSound == GridKept /\ [TestNext]_testVars => GridKept'
<1> SUFFICES ASSUME GridKept, [TestNext]_testVars PROVE GridKept'
  OBVIOUS
<1>1. CASE TestNext
  BY <1>1, BuyLevelSound, SellLevelSound, LoopSound, StopSound, FundingSound, FinalSound DEF TestNext
<1>2. CASE UNCHANGED testVars
  BY <1>2 DEF testVars, candle, orders, holding, money, GridKept, GridSound, LevelOK,
    TestTypeOK, LotsWithinLevels, LevelAlive
<1> QED BY <1>1, <1>2

-----------------------------------------------------------------------------
(* The profit is the money of the orders that count, and the stop lies     *)
(* beyond the grid.                                                        *)

\* Products respect the order of a factor.
LEMMA TimesLarger ==
  ASSUME NEW x \in Int, NEW y \in Int, NEW z \in Nat
  PROVE  /\ x <= y => x * z <= y * z
         /\ x < y /\ z # 0 => x * z < y * z
OBVIOUS

\* Dividing leaves a remainder.
LEMMA Divided ==
  ASSUME NEW x \in Int, NEW n \in Nat \ {0}
  PROVE  x \div n \in Int /\ x % n \in 0..n - 1 /\ x = n * (x \div n) + (x % n)
OBVIOUS

\* A whole number of divisors comes out of a quotient.
LEMMA DivPlus ==
  ASSUME NEW d \in Nat \ {0}
  PROVE  \A x \in Int, y \in Int : (x + y * d) \div d = x \div d + y
<1> SUFFICES ASSUME NEW x \in Int, NEW y \in Int PROVE (x + y * d) \div d = x \div d + y
  OBVIOUS
<1> DEFINE q == x \div d
           r == x % d
<1>1. q \in Int /\ r \in 0..d - 1 /\ x = d * q + r
  BY Divided
<1> HIDE DEF q, r
<1>2. x + y * d \in Int
  OBVIOUS
<1> DEFINE z == x + y * d
           p == z \div d
           s == z % d
<1>3. p \in Int /\ s \in 0..d - 1 /\ z = d * p + s
  BY <1>2, Divided
<1>4. z = d * (q + y) + r
  BY <1>1
<1> HIDE DEF p, s, z
<1>5. PICK k \in Int : k = p - (q + y)
  BY <1>1, <1>3
<1>6. d * k = r - s
  <2>1. d * p = d * (q + y) + d * k
    BY <1>1, <1>3, <1>5
  <2>2. d * p \in Int /\ d * (q + y) \in Int /\ d * k \in Int
    BY <1>1, <1>3, <1>5
  <2> QED BY <1>1, <1>3, <1>4, <2>1, <2>2
<1>7. k = 0
  <2>1. k >= 1 => 1 * d <= k * d
    BY <1>5, TimesLarger
  <2>2. k <= -1 => k * d <= (-1) * d
    BY <1>5, TimesLarger
  <2>3. k * d = d * k
    BY <1>5
  <2>4. r - s < d /\ r - s > 0 - d
    BY <1>1, <1>3
  <2>5. (-1) * d = 0 - d /\ 1 * d = d
    OBVIOUS
  <2> QED BY <1>1, <1>3, <1>5, <1>6, <2>1, <2>2, <2>3, <2>4, <2>5
<1> QED BY <1>1, <1>3, <1>5, <1>7 DEF p, q, z

\* Closing a lot at the average, rounded down, leaves the others between the
\* same bounds.
LEMMA AverageKept ==
  ASSUME NEW c \in Int, NEW n \in Nat \ {0}, NEW b \in Int
  PROVE  /\ c \div n \in Int
         /\ c <= n * b => c - c \div n <= (n - 1) * b
         /\ c >= n * b => c - c \div n >= (n - 1) * b
<1>1. PICK q \in Int, r \in 0..n - 1 : q = c \div n /\ c = q * n + r
  <2>1. n * (c \div n) = (c \div n) * n
    BY Divided
  <2> QED BY <2>1, Divided
<1>2. c - q = q * (n - 1) + r
  <2>1. q * (n - 1) = q * n - q
    <3>1. \A y \in Int : y * (n - 1) = y * n - y
      OBVIOUS
    <3> QED BY <3>1, <1>1
  <2>2. PICK m \in Int : m = q * n
    BY <1>1
  <2>3. q * (n - 1) = m - q /\ c = m + r
    BY <1>1, <2>1, <2>2
  <2>4. q \in Int /\ r \in Int
    BY <1>1
  <2> QED BY <2>3, <2>4
<1>3. ASSUME c <= n * b PROVE c - q <= (n - 1) * b
  <2>1. q <= b
    <3>1. SUFFICES ASSUME q >= b + 1 PROVE FALSE
      BY <1>1
    <3>2. (b + 1) * n <= q * n
      BY <3>1, <1>1, TimesLarger
    <3>3. (b + 1) * n = b * n + n
      OBVIOUS
    <3> QED BY <1>1, <1>3, <3>2, <3>3
  <2>2. CASE q = b
    <3>1. r = 0
      BY <1>1, <1>3, <2>2
    <3> QED BY <1>2, <2>2, <3>1
  <2>3. CASE q <= b - 1
    <3>1. q * (n - 1) <= (b - 1) * (n - 1)
      BY <2>3, <1>1, TimesLarger
    <3>2. (b - 1) * (n - 1) = (n - 1) * b - (n - 1)
      OBVIOUS
    <3>3. r <= n - 1
      BY <1>1
    <3>4. (b - 1) * (n - 1) \in Int /\ (n - 1) * b \in Int /\ q * (n - 1) \in Int
      BY <1>1
    <3> QED BY <1>1, <1>2, <3>1, <3>2, <3>3, <3>4
  <2> QED BY <1>1, <2>1, <2>2, <2>3
<1>4. ASSUME c >= n * b PROVE c - q >= (n - 1) * b
  <2>1. q >= b
    <3>1. SUFFICES ASSUME q + 1 <= b PROVE FALSE
      BY <1>1
    <3>2. (q + 1) * n <= b * n
      BY <3>1, <1>1, TimesLarger
    <3>3. (q + 1) * n = q * n + n
      BY <1>1
    <3> QED BY <1>1, <1>4, <3>2, <3>3
  <2>2. q * (n - 1) >= b * (n - 1)
    BY <2>1, <1>1, TimesLarger
  <2> QED BY <1>1, <1>2, <2>2
<1> QED BY <1>1, <1>3, <1>4

\* What the position cost: a long's lots at most the first close each, a
\* short's at least that; no lots cost nothing, and the average entry of a
\* residue is bounded like that of a lot.
CostOK ==
  /\ Valid(loss)
  /\ lots = 0  => cost = 0
  /\ side = "long"  => 0 <= Basis /\ Basis <= Weight * (Mid * Unit)
  /\ side = "short" => Basis >= Weight * (Mid * Unit)

Settled == /\ pnl = cash - missed + OpenCost
           /\ loop = "done" => side = "none"

Kept == GridKept /\ CostOK /\ Settled

\* Buy levels lie between nothing and the first close, sell levels above it.
LEMMA LevelPrices ==
  ASSUME NEW i \in 1..Levels
  PROVE  /\ BuyPrice(i) \in Int /\ SellPrice(i) \in Int /\ Mid * Unit \in Int
         /\ 0 <= BuyPrice(i) /\ BuyPrice(i) <= Mid * Unit
         /\ SellPrice(i) >= Mid * Unit
<1> USE BacktestAssumption
<1>1. Step * i \in Nat /\ Step * i <= Step * Levels
  <2>1. i * Step <= Levels * Step
    BY TimesLarger
  <2> QED BY <2>1
<1>2. Mid - Step * i \in Nat /\ Mid - Step * i <= Mid /\ Mid + Step * i >= Mid
  <2>1. Step * Levels \in Nat /\ Step * Levels < Mid
    OBVIOUS
  <2> QED BY <1>1, <2>1
<1>3. 0 * Unit <= (Mid - Step * i) * Unit /\ (Mid - Step * i) * Unit <= Mid * Unit
  BY <1>2, TimesLarger
<1>4. Mid * Unit <= (Mid + Step * i) * Unit
  BY <1>1, <1>2, TimesLarger
<1>5. \A x, y \in Int : x * y \in Int
  OBVIOUS
<1>6. (Mid - Step * i) * Unit \in Int /\ (Mid + Step * i) * Unit \in Int
  BY <1>1, <1>5
<1> QED BY <1>3, <1>4, <1>5, <1>6 DEF BuyPrice, SellPrice

\* The position at the start cost nothing.
LEMMA InitKept == TestInit => Kept
<1> SUFFICES ASSUME TestInit PROVE Kept
  OBVIOUS
<1>1. GridKept
  BY InitSound
<1>2. CostOK /\ Settled
  BY DEF TestInit, CostOK, Settled, OpenCost, Basis, Weight
<1> QED BY <1>1, <1>2 DEF Kept

\* A buy level that is filled pays its price: for a lot of a short, or for one
\* more of a long.
LEMMA BuyLevelKept == Kept /\ BuyLevel => CostOK' /\ Settled'
<1> SUFFICES ASSUME Kept, BuyLevel PROVE CostOK' /\ Settled'
  OBVIOUS
<1> USE DEF Kept
<1>1. TestTypeOK /\ level \in 1..Levels /\ loop = "buys" /\ loop' = loop /\ loss' = loss
  BY BacktestAssumption DEF BuyLevel, GridKept, GridSound, LevelOK, TestTypeOK
<1>2. /\ pnl \in Int /\ cash \in Int /\ missed \in Int /\ lots \in Nat /\ cost \in Int /\ entry \in Int
      /\ side \in Sides /\ (side = "none" => lots = 0)
  BY <1>1 DEF TestTypeOK
<1>3. CASE level \in buys /\ low * Unit <= BuyPrice(level)
  <2>1. ExecuteBuy(BuyPrice(level))
    BY <1>3 DEF BuyLevel
  <2>2. PICK price \in Int, top \in Int : /\ price = BuyPrice(level) /\ top = Mid * Unit
                                          /\ 0 <= price /\ price <= top
    BY <1>1, LevelPrices
  <2>3. cash' = cash - price /\ cash' \in Int
    BY <1>2, <2>1, <2>2 DEF ExecuteBuy
  <2>4. CASE side = "short" /\ lots > 0
    <3>1. PICK a \in Int : a = Average
      BY <2>4, <1>1, AverageTyped
    <3>2. CloseLot(Average - price) /\ Average - price \in Int
      BY <2>1, <2>2, <2>4, <3>1 DEF ExecuteBuy
    <3>3. /\ lots' = lots - 1 /\ cost' = cost - a /\ pnl' = pnl + (a - price) /\ missed' = missed
          /\ side' = side \/ (side' = "none" /\ lots = 1)
          /\ lots = 1 /\ side' # "none" => entry' = a
      BY <1>1, <2>3, <2>4, <3>1, <3>2, LotClosed
    <3>4. lots \in Nat \ {0} /\ (lots = 1 => a = cost)
      BY <1>2, <2>4, <3>1 DEF Average
    <3>5. cost >= lots * top
      BY <2>2, <2>4, <3>4 DEF CostOK, Basis, Weight
    <3>6. cost - a >= (lots - 1) * top
      BY <3>1, <3>4, <3>5, <1>2, <2>2, AverageKept DEF Average
    <3>7. CostOK'
      <4>1. Valid(loss)' /\ (lots' = 0 => cost' = 0) /\ side' # "long"
        BY <1>1, <2>4, <3>3, <3>4 DEF CostOK, Valid
      <4>2. CASE lots = 1
        BY <4>1, <4>2, <2>2, <3>3, <3>4, <3>5 DEF CostOK, Basis, Weight
      <4>3. CASE lots # 1
        BY <4>1, <4>3, <2>2, <3>3, <3>4, <3>6 DEF CostOK, Basis, Weight
      <4> QED BY <4>2, <4>3
    <3>8. Settled'
      <4>1. pnl = cash - missed - cost
        BY <2>4, <1>2 DEF Settled, OpenCost
      <4>2. pnl' = cash' - missed' - cost'
        BY <4>1, <1>2, <2>2, <2>3, <3>1, <3>3
      <4>3. side' = "none" => cost' = 0
        BY <2>4, <3>1, <3>3, <3>4
      <4>4. cost' \in Int /\ missed' \in Int
        BY <1>2, <3>1, <3>3
      <4> QED BY <4>2, <4>3, <4>4, <1>1, <2>3, <2>4, <3>3 DEF Settled, OpenCost
    <3> QED BY <3>7, <3>8
  <2>5. CASE side = "short" /\ lots = 0
    <3>1. CloseResidue(-price)
      BY <2>1, <2>2, <2>5 DEF ExecuteBuy
    <3>2. missed' = missed - price /\ pnl' = pnl /\ lots' = 0 /\ cost' = cost /\ side' = "none"
      BY <3>1, <1>2, <2>2, <2>5 DEF CloseResidue
    <3>3. cost = 0
      BY <2>5 DEF CostOK
    <3>4. CostOK'
      BY <1>1, <3>2, <3>3 DEF CostOK, Valid
    <3>5. pnl = cash - missed
      BY <2>5, <3>3, <1>2 DEF Settled, OpenCost
    <3> QED BY <1>1, <1>2, <2>2, <2>3, <3>2, <3>4, <3>5 DEF Settled, OpenCost
  <2>6. CASE side # "short"
    <3>1. AddLot(price, "long")
      BY <2>1, <2>2, <2>6 DEF ExecuteBuy
    <3>2. lots' = lots + 1 /\ cost' = cost + price /\ side' = "long" /\ pnl' = pnl /\ missed' = missed
      BY <3>1 DEF AddLot
    <3>3. 0 <= cost /\ cost <= lots * top
      <4>1. CASE lots = 0
        BY <4>1, <1>2, <2>2 DEF CostOK
      <4>2. CASE lots # 0
        BY <4>2, <1>2, <2>2, <2>6 DEF CostOK, Basis, Weight, Sides
      <4> QED BY <4>1, <4>2
    <3>4. lots * top + top = (lots + 1) * top
      BY <1>2, <2>2
    <3>5. 0 <= cost' /\ cost' <= lots' * top
      <4>1. lots * top \in Int
        BY <1>2, <2>2
      <4> QED BY <4>1, <3>2, <3>3, <3>4, <1>2, <2>2
    <3>6. CostOK'
      <4>1. lots' # 0
        BY <1>2, <3>2
      <4> QED BY <4>1, <1>1, <2>2, <3>2, <3>5 DEF CostOK, Valid, Basis, Weight
    <3>7. pnl = cash - missed + cost
      BY <2>6, <1>2 DEF Settled, OpenCost, CostOK, Sides
    <3>8. Settled'
      BY <3>7, <3>2, <1>1, <1>2, <2>2, <2>3 DEF Settled, OpenCost
    <3> QED BY <3>6, <3>8
  <2> QED BY <2>4, <2>5, <2>6, <1>2
<1>4. CASE ~(level \in buys /\ low * Unit <= BuyPrice(level))
  <2>1. UNCHANGED <<side, lots, cost, entry, pnl, cash, missed>>
    BY <1>4 DEF BuyLevel, holding
  <2> QED BY <2>1, <1>1 DEF CostOK, Settled, OpenCost, Valid, Basis, Weight
<1> QED BY <1>3, <1>4

\* And a sell level takes in its price: for a lot of a long, or for one more of
\* a short.
LEMMA SellLevelKept == Kept /\ SellLevel => CostOK' /\ Settled'
<1> SUFFICES ASSUME Kept, SellLevel PROVE CostOK' /\ Settled'
  OBVIOUS
<1> USE DEF Kept
<1>1. TestTypeOK /\ level \in 1..Levels /\ loop = "sells" /\ loop' = loop /\ loss' = loss
  BY BacktestAssumption DEF SellLevel, GridKept, GridSound, LevelOK, TestTypeOK
<1>2. /\ pnl \in Int /\ cash \in Int /\ missed \in Int /\ lots \in Nat /\ cost \in Int /\ entry \in Int
      /\ side \in Sides /\ (side = "none" => lots = 0)
  BY <1>1 DEF TestTypeOK
<1>3. CASE level \in sells /\ high * Unit >= SellPrice(level)
  <2>1. ExecuteSell(SellPrice(level))
    BY <1>3 DEF SellLevel
  <2>2. PICK price \in Int, top \in Int : /\ price = SellPrice(level) /\ top = Mid * Unit
                                          /\ top <= price
    BY <1>1, LevelPrices
  <2>3. cash' = cash + price /\ cash' \in Int
    BY <1>2, <2>1, <2>2 DEF ExecuteSell
  <2>4. CASE side = "long" /\ lots > 0
    <3>1. PICK a \in Int : a = Average
      BY <2>4, <1>1, AverageTyped
    <3>2. CloseLot(price - Average) /\ price - Average \in Int
      BY <2>1, <2>2, <2>4, <3>1 DEF ExecuteSell
    <3>3. /\ lots' = lots - 1 /\ cost' = cost - a /\ pnl' = pnl + (price - a) /\ missed' = missed
          /\ side' = side \/ (side' = "none" /\ lots = 1)
          /\ lots = 1 /\ side' # "none" => entry' = a
      BY <1>1, <2>3, <2>4, <3>1, <3>2, LotClosed
    <3>4. lots \in Nat \ {0} /\ (lots = 1 => a = cost)
      BY <1>2, <2>4, <3>1 DEF Average
    <3>5. 0 <= cost /\ cost <= lots * top
      BY <2>2, <2>4, <3>4 DEF CostOK, Basis, Weight
    <3>6. cost - a <= (lots - 1) * top /\ 0 <= cost - a
      <4>1. cost - a <= (lots - 1) * top
        BY <3>1, <3>4, <3>5, <1>2, <2>2, AverageKept DEF Average
      <4>2. cost >= lots * 0
        BY <3>4, <3>5
      <4>3. cost - cost \div lots >= (lots - 1) * 0
        BY <3>4, <1>2, <4>2, AverageKept
      <4> QED BY <4>1, <4>3, <3>1, <3>4 DEF Average
    <3>7. CostOK'
      <4>1. Valid(loss)' /\ (lots' = 0 => cost' = 0) /\ side' # "short"
        BY <1>1, <2>4, <3>3, <3>4 DEF CostOK, Valid
      <4>2. CASE lots = 1
        BY <4>1, <4>2, <2>2, <3>3, <3>4, <3>5 DEF CostOK, Basis, Weight
      <4>3. CASE lots # 1
        BY <4>1, <4>3, <2>2, <3>3, <3>4, <3>6 DEF CostOK, Basis, Weight
      <4> QED BY <4>2, <4>3
    <3>8. Settled'
      <4>1. pnl = cash - missed + cost
        BY <2>4, <1>2 DEF Settled, OpenCost
      <4>2. pnl' = cash' - missed' + cost'
        BY <4>1, <1>2, <2>2, <2>3, <3>1, <3>3
      <4>3. side' = "none" => cost' = 0
        BY <2>4, <3>1, <3>3, <3>4
      <4>4. cost' \in Int /\ missed' \in Int
        BY <1>2, <3>1, <3>3
      <4> QED BY <4>2, <4>3, <4>4, <1>1, <2>3, <2>4, <3>3 DEF Settled, OpenCost
    <3> QED BY <3>7, <3>8
  <2>5. CASE side = "long" /\ lots = 0
    <3>1. CloseResidue(price)
      BY <2>1, <2>2, <2>5 DEF ExecuteSell
    <3>2. missed' = missed + price /\ pnl' = pnl /\ lots' = 0 /\ cost' = cost /\ side' = "none"
      BY <3>1, <1>2, <2>2, <2>5 DEF CloseResidue
    <3>3. cost = 0
      BY <2>5 DEF CostOK
    <3>4. CostOK'
      BY <1>1, <3>2, <3>3 DEF CostOK, Valid
    <3>5. pnl = cash - missed
      BY <2>5, <3>3, <1>2 DEF Settled, OpenCost
    <3> QED BY <1>1, <1>2, <2>2, <2>3, <3>2, <3>4, <3>5 DEF Settled, OpenCost
  <2>6. CASE side # "long"
    <3>1. AddLot(price, "short")
      BY <2>1, <2>2, <2>6 DEF ExecuteSell
    <3>2. lots' = lots + 1 /\ cost' = cost + price /\ side' = "short" /\ pnl' = pnl /\ missed' = missed
      BY <3>1 DEF AddLot
    <3>3. cost >= lots * top
      <4>1. CASE lots = 0
        BY <4>1, <1>2, <2>2 DEF CostOK
      <4>2. CASE lots # 0
        BY <4>2, <1>2, <2>2, <2>6 DEF CostOK, Basis, Weight, Sides
      <4> QED BY <4>1, <4>2
    <3>4. lots * top + top = (lots + 1) * top
      BY <1>2, <2>2
    <3>5. cost' >= lots' * top
      <4>1. lots * top \in Int
        BY <1>2, <2>2
      <4> QED BY <4>1, <3>2, <3>3, <3>4, <1>2, <2>2
    <3>6. CostOK'
      <4>1. lots' # 0
        BY <1>2, <3>2
      <4> QED BY <4>1, <1>1, <2>2, <3>2, <3>5 DEF CostOK, Valid, Basis, Weight
    <3>7. pnl = cash - missed - cost
      BY <2>6, <1>2 DEF Settled, OpenCost, CostOK, Sides
    <3>8. Settled'
      BY <3>7, <3>2, <1>1, <1>2, <2>2, <2>3 DEF Settled, OpenCost
    <3> QED BY <3>6, <3>8
  <2> QED BY <2>4, <2>5, <2>6, <1>2
<1>4. CASE ~(level \in sells /\ high * Unit >= SellPrice(level))
  <2>1. UNCHANGED <<side, lots, cost, entry, pnl, cash, missed>>
    BY <1>4 DEF SellLevel, holding
  <2> QED BY <2>1, <1>1 DEF CostOK, Settled, OpenCost, Valid, Basis, Weight
<1> QED BY <1>3, <1>4

\* The loop and funding trade nothing.
LEMMA LoopKept == Kept /\ (NextCandle \/ LoopEnds \/ ApplyFunding) => CostOK' /\ Settled'
<1> SUFFICES ASSUME Kept, NextCandle \/ LoopEnds \/ ApplyFunding PROVE CostOK' /\ Settled'
  OBVIOUS
<1>1. UNCHANGED <<loss, side, lots, cost, entry, pnl, cash, missed>>
  BY DEF NextCandle, LoopEnds, ApplyFunding, holding, money
<1>2. loop' # "done"
  BY DEF NextCandle, LoopEnds, ApplyFunding
<1> QED BY <1>1, <1>2 DEF Kept, CostOK, Settled, OpenCost, Valid, Basis, Weight

\* A stop turns the position into its cost less the share lost.
LEMMA StopKept == Kept /\ StopLoss => CostOK' /\ Settled'
<1> SUFFICES ASSUME Kept, StopLoss PROVE CostOK' /\ Settled'
  OBVIOUS
<1> USE DEF Kept
<1>1. loss' = loss /\ loop' = "funding" /\ missed' = missed
  BY DEF StopLoss
<1>2. CASE StopHit
  <2>1. /\ pnl' = pnl - (cost * loss[1]) \div loss[2]
        /\ cash' = cash - (IF side = "long" THEN (0 - AtStop(cost)) \div loss[2] ELSE AtStop(cost) \div loss[2])
        /\ side' = "none" /\ lots' = 0 /\ cost' = 0 /\ rounded' = FALSE /\ entry' = 0
    BY <1>2 DEF StopLoss, Gone
  <2>2. PICK n \in Nat \ {0}, d \in Nat \ {0} : n = loss[1] /\ d = loss[2]
    BY BacktestAssumption DEF GridKept, GridSound, TestTypeOK
  <2>3. pnl \in Int /\ cash \in Int /\ missed \in Int /\ cost \in Int
    BY DEF GridKept, GridSound, TestTypeOK
  <2>4. PICK lost \in Int : lost = (cost * n) \div d
    BY <2>2, <2>3
  <2>5. \A x \in Int, y \in Int : (x + y * d) \div d = x \div d + y
    BY <2>2, DivPlus
  <2>6. cost * n \in Int
    BY <2>2, <2>3
  <2>7. CASE side = "long"
    <3>1. 0 - AtStop(cost) = cost * n + (0 - cost) * d
      <4>1. \A x, y, z \in Int : 0 - x * (z - y) = x * y + (0 - x) * z
        OBVIOUS
      <4>2. AtStop(cost) = cost * (d - n)
        BY <2>2, <2>7 DEF AtStop
      <4>3. cost \in Int /\ n \in Int /\ d \in Int
        BY <2>2, <2>3
      <4> QED BY <4>1, <4>2, <4>3
    <3>2. (0 - AtStop(cost)) \div d = lost - cost
      <4>1. PICK y \in Int : y = 0 - cost
        BY <2>3
      <4>2. PICK t \in Int : t = cost * n + y * d
        BY <2>2, <2>6, <4>1
      <4>3. t \div d = lost + y
        BY <2>4, <2>5, <2>6, <4>2
      <4>4. 0 - AtStop(cost) = t
        BY <3>1, <4>1, <4>2
      <4>5. lost + y = lost - cost
        <5>1. lost \in Int
          BY <2>4
        <5> QED BY <5>1, <2>3, <4>1
      <4> QED BY <4>3, <4>4, <4>5
    <3>3. pnl = cash - missed + cost
      BY <2>7 DEF Settled, OpenCost
    <3> QED BY <1>1, <2>1, <2>2, <2>3, <2>4, <2>7, <3>2, <3>3 DEF CostOK, Settled, OpenCost, Valid
  <2>8. CASE side = "short"
    <3>1. AtStop(cost) = cost * n + cost * d
      BY <2>2, <2>3, <2>8 DEF AtStop
    <3>2. AtStop(cost) \div d = lost + cost
      BY <3>1, <2>3, <2>4, <2>5, <2>6
    <3>3. pnl = cash - missed - cost
      BY <2>8, <2>3 DEF Settled, OpenCost
    <3> QED BY <1>1, <2>1, <2>2, <2>3, <2>4, <2>8, <3>2, <3>3 DEF CostOK, Settled, OpenCost, Valid
  <2> QED BY <1>2, <2>7, <2>8 DEF StopHit
<1>3. CASE ~StopHit
  <2>1. UNCHANGED <<side, lots, cost, entry, pnl, cash>>
    BY <1>3 DEF StopLoss, holding
  <2> QED BY <1>1, <2>1 DEF CostOK, Settled, OpenCost, Valid, Basis, Weight
<1> QED BY <1>2, <1>3

\* The final close turns it into the last price of its lots.
LEMMA FinalKept == Kept /\ CloseFinal => CostOK' /\ Settled'
<1> SUFFICES ASSUME Kept, CloseFinal PROVE CostOK' /\ Settled'
  OBVIOUS
<1> USE DEF Kept
<1>1. PICK price \in Int : price = close * Unit
  <2>1. \A x, y \in Int : x * y \in Int
    OBVIOUS
  <2> QED BY <2>1, CandleTyped DEF GridKept, GridSound
<1>2. /\ pnl' = pnl + Unrealized(price)
      /\ cash' = cash + (IF side = "long" THEN price * lots ELSE -(price * lots))
      /\ side' = "none" /\ lots' = 0 /\ cost' = 0 /\ loss' = loss /\ missed' = missed
  BY <1>1 DEF CloseFinal, CloseAt, Gone
<1>3. /\ pnl \in Int /\ cash \in Int /\ missed \in Int /\ cost \in Int /\ lots \in Nat
      /\ side \in Sides /\ (side = "none" => lots = 0)
  BY DEF GridKept, GridSound, TestTypeOK
<1>4. PICK value \in Int : value = price * lots
  BY <1>1, <1>3
<1>5. lots = 0 => value = 0
  BY <1>4
<1>6. pnl' = cash' - missed'
  BY <1>2, <1>3, <1>4, <1>5 DEF Unrealized, Settled, OpenCost, Sides, CostOK
<1> QED BY <1>2, <1>3, <1>6 DEF CostOK, Settled, OpenCost, Valid

\* Whatever the simulator does, the profit stays what the orders that count took
\* in, and the cost stays between its bounds.
LEMMA StepKept == Kept /\ [TestNext]_testVars => Kept'
<1> SUFFICES ASSUME Kept, [TestNext]_testVars PROVE Kept'
  OBVIOUS
<1>1. GridKept'
  BY StepSound DEF Kept
<1>2. CostOK' /\ Settled'
  <2>1. CASE TestNext
    BY <2>1, BuyLevelKept, SellLevelKept, LoopKept, StopKept, FinalKept DEF TestNext
  <2>2. CASE UNCHANGED testVars
    BY <2>2 DEF testVars, holding, money, Kept, CostOK, Settled, OpenCost, Valid, Basis, Weight
  <2> QED BY <2>1, <2>2
<1> QED BY <1>1, <1>2 DEF Kept

\* A stop that exceeds the range of the grid lies beyond its levels: the cost is
\* bounded by the first close, and the share lost leads past the last level.
LEMMA StopsBeyond == Kept => StopBeyondGrid
<1> SUFFICES ASSUME Kept PROVE StopBeyondGrid
  OBVIOUS
<1>1. PICK n \in Nat \ {0}, d \in Nat \ {0} : n = loss[1] /\ d = loss[2]
  BY BacktestAssumption DEF Kept, GridKept, GridSound, TestTypeOK
<1>2. PICK w \in Nat \ {0}, c \in Int : w = Weight /\ c = Basis
  <2>1. Weight \in Nat \ {0} /\ Basis \in Int
    BY DEF Kept, GridKept, GridSound, TestTypeOK, Weight, Basis
  <2> QED BY <2>1
<1>3. PICK range \in Nat, unit \in Nat \ {0}, mid \in Nat :
        range = Step * Levels /\ unit = Unit /\ mid = Mid /\ range < mid
  <2>1. Step * Levels \in Nat
    BY BacktestAssumption
  <2> QED BY <2>1, BacktestAssumption
<1>4. n * mid > range * d
  <2>1. Levels * Step = range
    BY <1>3, BacktestAssumption
  <2> QED BY <2>1, <1>1, <1>3 DEF Kept, CostOK, Valid
<1>5. PICK size \in Nat : size = w * unit
  BY <1>2, <1>3
<1>6. size > 0
  BY <1>2, <1>3, <1>5
<1>7. w * (mid * unit) = mid * size
  BY <1>2, <1>3, <1>5
<1>8. /\ BuyPrice(Levels) * w * d = (mid - range) * size * d
      /\ SellPrice(Levels) * w * d = (mid + range) * size * d
  BY <1>1, <1>2, <1>3, <1>5 DEF BuyPrice, SellPrice
<1>9. ASSUME side = "long" PROVE AtStop(Basis) < BuyPrice(Levels) * Weight * loss[2]
  <2>1. AtStop(Basis) = c * (d - n) /\ 0 <= c /\ c <= mid * size
    BY <1>1, <1>2, <1>3, <1>7, <1>9 DEF AtStop, Kept, CostOK
  <2>2. (mid - range) * size > 0 /\ (mid - range) * size * d > 0
    BY <1>1, <1>3, <1>6, <1>9
  <2>3. CASE d - n <= 0
    <3>1. (d - n) * c <= 0 * c
      BY <2>1, <2>3, <1>1, <1>2, TimesLarger
    <3>2. (d - n) * c = c * (d - n)
      BY <1>1, <1>2
    <3> QED BY <3>1, <3>2, <2>1, <2>2, <1>1, <1>2, <1>8
  <2>4. CASE d - n > 0
    <3>1. c * (d - n) <= mid * size * (d - n)
      BY <2>1, <2>4, <1>1, <1>2, <1>3, TimesLarger
    <3>2. (range * d) * size < (n * mid) * size
      BY <1>1, <1>3, <1>4, <1>6, <1>9, TimesLarger
    <3>3. /\ mid * size * (d - n) = mid * size * d - (n * mid) * size
          /\ (mid - range) * size * d = mid * size * d - (range * d) * size
      BY <1>1, <1>3, <1>5
    <3>4. /\ mid * size * d \in Int /\ (n * mid) * size \in Int /\ (range * d) * size \in Int
          /\ c * (d - n) \in Int
      BY <1>1, <1>2, <1>3, <1>5
    <3> QED BY <1>1, <1>2, <1>8, <2>1, <3>1, <3>2, <3>3, <3>4
  <2> QED BY <2>3, <2>4, <1>1
<1>10. ASSUME side = "short" PROVE AtStop(Basis) > SellPrice(Levels) * Weight * loss[2]
  <2>1. AtStop(Basis) = c * (d + n) /\ mid * size <= c
    BY <1>1, <1>2, <1>3, <1>7, <1>10 DEF AtStop, Kept, CostOK
  <2>2. mid * size * (d + n) <= c * (d + n)
    BY <2>1, <1>1, <1>2, <1>3, TimesLarger
  <2>3. (range * d) * size < (n * mid) * size
    BY <1>1, <1>3, <1>4, <1>6, <1>10, TimesLarger
  <2>4. /\ mid * size * (d + n) = mid * size * d + (n * mid) * size
        /\ (mid + range) * size * d = mid * size * d + (range * d) * size
    BY <1>1, <1>3, <1>5
  <2>5. /\ mid * size * d \in Int /\ (n * mid) * size \in Int /\ (range * d) * size \in Int
        /\ c * (d + n) \in Int
    BY <1>1, <1>2, <1>3, <1>5
  <2> QED BY <1>1, <1>2, <1>8, <2>1, <2>2, <2>3, <2>4, <2>5
<1> QED BY <1>9, <1>10 DEF StopBeyondGrid

\* The profit reported is the money of the orders, but for those of a residue.
LEMMA ProfitIsCash == Kept => PnlIsCash
<1> SUFFICES ASSUME Kept PROVE PnlIsCash
  OBVIOUS
<1>1. pnl = cash - missed + OpenCost /\ (loop = "done" => pnl = cash - missed)
  BY DEF Kept, GridKept, GridSound, TestTypeOK, Settled, OpenCost
<1> QED BY <1>1 DEF PnlIsCash, OpenCost, TotalPnl

-----------------------------------------------------------------------------
(* The drawdown in one pass.                                               *)

\* The peak runs along the curve.
LEMMA PeakRuns ==
  ASSUME curve \in Seq(Int)
  PROVE  /\ Peak \in [1..Len(curve) -> Int]
         /\ \A i \in 1..Len(curve) :
              Peak[i] = IF i = 1 THEN curve[1] ELSE Larger(Peak[i - 1], curve[i])
<1> DEFINE n == Len(curve)
           Is(p) == p = [i \in 1..n |-> IF i = 1 THEN curve[1] ELSE Larger(p[i - 1], curve[i])]
           p0 == CHOOSE p : Is(p)
<1>1. Peak = p0
  BY DEF Peak
<1>2. n \in Nat /\ \A i \in 1..n : curve[i] \in Int
  OBVIOUS
<1>3. \E p \in [1..n -> Int] : Is(p)
  <2>1. CASE n = 0
    <3>1. [i \in 1..n |-> 0] \in [1..n -> Int] /\ Is([i \in 1..n |-> 0])
      BY <2>1
    <3> QED BY <3>1
  <2>2. CASE n # 0
    <3>1. PICK first \in Int : first = curve[1]
      BY <1>2, <2>2
    <3> DEFINE G == [i \in 1..n |-> [u \in Int |-> Larger(u, curve[i])]]
    <3>2. \A i \in 1..n : \A u \in Int : G[i][u] = Larger(u, curve[i]) /\ G[i][u] \in Int
      BY <1>2 DEF Larger
    <3> HIDE DEF G, n
    <3>3. PICK s \in [0..n -> Int] : Runs(first, G, n, s)
      BY <1>2, <3>2, RunExists
    <3>4. \A i \in 1..n : s[i] = Larger(s[i - 1], curve[i])
      <4> SUFFICES ASSUME NEW i \in 1..n PROVE s[i] = Larger(s[i - 1], curve[i])
        OBVIOUS
      <4>1. i - 1 \in 0..n /\ s[i - 1] \in Int
        BY <1>2
      <4> QED BY <3>2, <3>3, <4>1 DEF Runs
    <3>5. s[1] = curve[1]
      <4>1. s[0] = curve[1] /\ 1 \in 1..n /\ 1 - 1 = 0
        BY <1>2, <2>2, <3>1, <3>3 DEF Runs
      <4> QED BY <3>4, <4>1 DEF Larger
    <3> DEFINE p == [i \in 1..n |-> s[i]]
    <3>6. p \in [1..n -> Int]
      BY <1>2
    <3>7. ASSUME NEW i \in 1..n
          PROVE  p[i] = IF i = 1 THEN curve[1] ELSE Larger(p[i - 1], curve[i])
      <4>1. i # 1 => i - 1 \in 1..n
        BY <1>2
      <4> QED BY <3>4, <3>5, <4>1
    <3> HIDE DEF p
    <3>8. p = [i \in 1..n |-> p[i]]
      BY <3>6
    <3>9. Is(p)
      BY <3>7, <3>8, Zenon
    <3> QED BY <3>6, <3>9
  <2> QED BY <2>1, <2>2
<1>4. PICK p1 \in [1..n -> Int] : Is(p1)
  BY <1>3
<1>5. Is(p0)
  BY <1>4, Zenon
<1>6. \A i \in 1..n : p1[i] = IF i = 1 THEN curve[1] ELSE Larger(p1[i - 1], curve[i])
  BY <1>4
<1>7. \A i \in 1..n : p0[i] = IF i = 1 THEN curve[1] ELSE Larger(p0[i - 1], curve[i])
  <2> HIDE DEF p0
  <2> QED BY <1>5
<1>8. p0 \in [1..n -> Int]
  <2> DEFINE T == {k \in 0..n : k = 0 \/ p0[k] \in Int}
  <2>1. 0 \in T
    BY <1>2
  <2>2. ASSUME NEW k \in 0..n, k \in T, k < n PROVE k + 1 \in T
    <3>1. k + 1 \in 1..n /\ curve[k + 1] \in Int
      BY <1>2, <2>2
    <3>2. CASE k = 0
      <4>1. p0[1] = curve[1]
        BY <1>7, <3>1, <3>2
      <4> HIDE DEF p0
      <4> QED BY <3>1, <3>2, <4>1
    <3>3. CASE k # 0
      <4>1. p0[k] \in Int
        BY <2>2, <3>3
      <4>2. k + 1 # 1 /\ (k + 1) - 1 = k
        BY <3>3
      <4>3. p0[k + 1] = Larger(p0[k], curve[k + 1])
        BY <1>7, <3>1, <4>2
      <4> HIDE DEF p0
      <4> QED BY <3>1, <4>1, <4>3 DEF Larger
    <3> QED BY <3>2, <3>3
  <2> HIDE DEF T, p0
  <2>3. 0..n \subseteq T
    BY <1>2, <2>1, <2>2, Inductive
  <2>4. \A k \in 1..n : p0[k] \in Int
    BY <2>3, <1>2 DEF T
  <2>5. p0 = [i \in 1..n |-> IF i = 1 THEN curve[1] ELSE Larger(p0[i - 1], curve[i])]
    BY <1>5
  <2> QED BY <2>4, <2>5
<1> HIDE DEF p0
<1> QED BY <1>1, <1>7, <1>8

\* It is the highest point so far, and one of them.
LEMMA PeakHighest ==
  ASSUME curve \in Seq(Int)
  PROVE  \A j \in 1..Len(curve) :
           /\ \A i \in 1..j : curve[i] <= Peak[j]
           /\ \E i \in 1..j : curve[i] = Peak[j]
<1> DEFINE n == Len(curve)
           High(k) == /\ \A i \in 1..k : curve[i] <= Peak[k]
                      /\ \E i \in 1..k : curve[i] = Peak[k]
           T == {k \in 0..n : k = 0 \/ High(k)}
<1>1. n \in Nat /\ \A i \in 1..n : curve[i] \in Int /\ Peak[i] \in Int
  BY PeakRuns
<1>2. \A i \in 1..n : Peak[i] = IF i = 1 THEN curve[1] ELSE Larger(Peak[i - 1], curve[i])
  BY PeakRuns
<1> HIDE DEF n
<1>3. 0 \in T
  BY <1>1
<1>4. ASSUME NEW k \in 0..n, k \in T, k < n PROVE k + 1 \in T
  <2>1. k + 1 \in 1..n
    BY <1>1, <1>4
  <2>2. CASE k = 0
    <3>1. Peak[1] = curve[1]
      BY <1>2, <2>1, <2>2
    <3>2. High(1)
      BY <1>1, <2>1, <2>2, <3>1
    <3> HIDE DEF High
    <3> QED BY <2>1, <2>2, <3>2
  <2>3. CASE k # 0
    <3>1. High(k) /\ k \in 1..n
      BY <1>1, <1>4, <2>3
    <3>2. Peak[k + 1] = Larger(Peak[k], curve[k + 1])
      <4>1. k + 1 # 1 /\ (k + 1) - 1 = k
        BY <2>3
      <4> QED BY <1>2, <2>1, <4>1
    <3>3. Peak[k] \in Int /\ curve[k + 1] \in Int
      BY <1>1, <2>1, <3>1
    <3>4. \A i \in 1..k + 1 : curve[i] <= Peak[k + 1]
      <4> SUFFICES ASSUME NEW i \in 1..k + 1 PROVE curve[i] <= Peak[k + 1]
        OBVIOUS
      <4>1. CASE i = k + 1
        BY <3>2, <3>3, <4>1 DEF Larger
      <4>2. CASE i # k + 1
        <5>1. i \in 1..k /\ curve[i] \in Int /\ curve[i] <= Peak[k]
          BY <1>1, <3>1, <4>2
        <5> QED BY <3>2, <3>3, <5>1 DEF Larger
      <4> QED BY <4>1, <4>2
    <3>5. \E i \in 1..k + 1 : curve[i] = Peak[k + 1]
      <4>1. CASE Peak[k] > curve[k + 1]
        <5>1. Peak[k + 1] = Peak[k]
          BY <3>2, <4>1 DEF Larger
        <5>2. PICK i \in 1..k : curve[i] = Peak[k]
          BY <3>1
        <5>3. i \in 1..k + 1
          BY <3>1
        <5> QED BY <5>1, <5>2, <5>3
      <4>2. CASE ~(Peak[k] > curve[k + 1])
        <5>1. Peak[k + 1] = curve[k + 1] /\ k + 1 \in 1..k + 1
          BY <3>1, <3>2, <4>2 DEF Larger
        <5> QED BY <5>1
      <4> QED BY <4>1, <4>2
    <3>6. High(k + 1)
      BY <3>4, <3>5
    <3> HIDE DEF High
    <3> QED BY <2>1, <3>6
  <2> QED BY <2>2, <2>3
<1> HIDE DEF High, T
<1>5. 0..n \subseteq T
  BY <1>1, <1>3, <1>4, Inductive
<1>6. \A j \in 1..n : High(j)
  BY <1>1, <1>5 DEF T
<1> QED BY <1>6 DEF High, n

\* The shares compared.
Share == Int \X (Nat \ {0})

\* What is not deeper than a share is not deeper than a deeper one.
LEMMA DeeperStill ==
  ASSUME NEW w \in Share, NEW x \in Share, NEW y \in Share, Deeper(x, w), ~Deeper(y, w)
  PROVE  ~Deeper(y, x)
<1>1. PICK wn \in Int, xn \in Int, yn \in Int, wd \in Nat \ {0}, xd \in Nat \ {0}, yd \in Nat \ {0} :
        w = <<wn, wd>> /\ x = <<xn, xd>> /\ y = <<yn, yd>>
  BY DEF Share
<1>2. wn * xd < xn * wd /\ yn * wd <= wn * yd
  BY <1>1 DEF Deeper
<1>3. /\ (wn * xd) * yd < (xn * wd) * yd
      /\ (yn * wd) * xd <= (wn * yd) * xd
  BY <1>2, TimesLarger
<1>4. (yn * xd) * wd < (xn * yd) * wd
  <2>1. /\ (wn * xd) * yd = (wn * yd) * xd
        /\ (xn * wd) * yd = (xn * yd) * wd
        /\ (yn * wd) * xd = (yn * xd) * wd
    OBVIOUS
  <2>2. /\ (wn * yd) * xd \in Int /\ (xn * yd) * wd \in Int /\ (yn * xd) * wd \in Int
    OBVIOUS
  <2> QED BY <1>3, <2>1, <2>2
<1>5. yn * xd <= xn * yd
  <2>1. xn * yd < yn * xd => (xn * yd) * wd < (yn * xd) * wd
    BY TimesLarger
  <2>2. (xn * yd) * wd \in Int /\ (yn * xd) * wd \in Int /\ xn * yd \in Int /\ yn * xd \in Int
    OBVIOUS
  <2> QED BY <1>4, <2>1, <2>2
<1> QED BY <1>1, <1>5 DEF Deeper

\* Drawdowns are shares.
LEMMA DrawdownShares ==
  ASSUME curve \in Seq(Int), NEW i \in 1..Len(curve)
  PROVE  Drawdown(i) \in Share
<1>1. Peak[i] \in Int /\ curve[i] \in Int
  BY PeakRuns
<1> QED BY <1>1 DEF Drawdown, Share

\* No drawdown is deeper than the one the pass is left with.
LEMMA MaxDeepest ==
  ASSUME curve \in Seq(Int)
  PROVE  /\ MaxDrawdown \in Share
         /\ \A i \in 1..Len(curve) : ~Deeper(Drawdown(i), MaxDrawdown)
<1> DEFINE n == Len(curve)
           Worse(i, u) == IF Deeper(Drawdown(i), u) THEN Drawdown(i) ELSE u
           Is(s) == s = [i \in 0..n |-> IF i = 0 THEN <<0, 1>>
                                        ELSE IF Deeper(Drawdown(i), s[i - 1]) THEN Drawdown(i) ELSE s[i - 1]]
           s0 == CHOOSE s : Is(s)
<1>1. MaxDrawdown = s0[n]
  BY DEF MaxDrawdown
<1>2. n \in Nat /\ \A i \in 1..n : Drawdown(i) \in Share
  BY DrawdownShares
<1>3. <<0, 1>> \in Share
  BY DEF Share
<1> DEFINE G == [i \in 1..n |-> [u \in Share |-> Worse(i, u)]]
<1>4. \A i \in 1..n : \A u \in Share : G[i][u] = Worse(i, u) /\ G[i][u] \in Share
  <2> HIDE DEF n
  <2> QED BY <1>2
<1> HIDE DEF G, n
<1>5. PICK s1 \in [0..n -> Share] : Runs(<<0, 1>>, G, n, s1)
  BY <1>2, <1>3, <1>4, RunExists
<1>6. s1[0] = <<0, 1>> /\ \A i \in 1..n : s1[i] = Worse(i, s1[i - 1])
  <2>1. s1[0] = <<0, 1>>
    BY <1>5 DEF Runs
  <2>2. ASSUME NEW i \in 1..n PROVE s1[i] = Worse(i, s1[i - 1])
    <3>1. i - 1 \in 0..n /\ s1[i - 1] \in Share
      BY <1>2
    <3> QED BY <1>4, <1>5, <3>1 DEF Runs
  <2> HIDE DEF Worse
  <2> QED BY <2>1, <2>2
<1>7. Is(s1)
  <2>1. s1 = [i \in 0..n |-> s1[i]]
    OBVIOUS
  <2>2. ASSUME NEW i \in 0..n
        PROVE  s1[i] = IF i = 0 THEN <<0, 1>>
                       ELSE IF Deeper(Drawdown(i), s1[i - 1]) THEN Drawdown(i) ELSE s1[i - 1]
    <3>1. CASE i = 0
      BY <1>6, <3>1, Zenon
    <3>2. CASE i # 0
      <4>1. i \in 1..n
        BY <1>2, <3>2
      <4> QED BY <1>6, <3>2, <4>1, Zenon
    <3> QED BY <3>1, <3>2
  <2> QED BY <2>1, <2>2, Zenon
<1>8. Is(s0)
  <2> HIDE DEF Is
  <2> QED BY <1>7, Zenon
<1>9. s0[0] = <<0, 1>> /\ \A i \in 1..n : s0[i] = Worse(i, s0[i - 1])
  <2> HIDE DEF s0
  <2>1. \A i \in 0..n : s0[i] = IF i = 0 THEN <<0, 1>>
                                ELSE IF Deeper(Drawdown(i), s0[i - 1]) THEN Drawdown(i) ELSE s0[i - 1]
    BY <1>8, Zenon
  <2>2. 0 \in 0..n /\ \A i \in 1..n : i \in 0..n /\ i # 0
    BY <1>2
  <2>3. s0[0] = <<0, 1>>
    BY <2>1, <2>2, Zenon
  <2>4. \A i \in 1..n : s0[i] = Worse(i, s0[i - 1])
    BY <2>1, <2>2, Zenon
  <2> QED BY <2>3, <2>4
<1> HIDE DEF Is, s0
<1> DEFINE Deepest(k) == /\ s0[k] \in Share
                         /\ \A i \in 1..k : ~Deeper(Drawdown(i), s0[k])
           T == {k \in 0..n : Deepest(k)}
<1>10. 0 \in T
  <2>1. s0[0] \in Share
    BY <1>3, <1>9, Zenon
  <2>2. 0 \in 0..n /\ \A i \in 1..0 : ~Deeper(Drawdown(i), s0[0])
    BY <1>2
  <2> QED BY <2>1, <2>2, Zenon
<1>11. ASSUME NEW k \in 0..n, k \in T, k < n PROVE k + 1 \in T
  <2>1. k + 1 \in 1..n /\ Deepest(k)
    BY <1>2, <1>11
  <2>2. s0[k + 1] = Worse(k + 1, s0[k])
    <3>1. (k + 1) - 1 = k
      OBVIOUS
    <3> HIDE DEF Worse
    <3> QED BY <1>9, <2>1, <3>1
  <2>3. Drawdown(k + 1) \in Share
    BY <1>2, <2>1
  <2>4. CASE Deeper(Drawdown(k + 1), s0[k])
    <3>1. s0[k + 1] = Drawdown(k + 1)
      BY <2>2, <2>4
    <3>2. ASSUME NEW i \in 1..k + 1 PROVE ~Deeper(Drawdown(i), s0[k + 1])
      <4>1. CASE i = k + 1
        <5>1. ~Deeper(Drawdown(k + 1), Drawdown(k + 1))
          BY <2>3 DEF Deeper, Share
        <5> QED BY <3>1, <4>1, <5>1
      <4>2. CASE i # k + 1
        <5>1. i \in 1..k /\ i \in 1..n
          BY <1>2, <4>2
        <5>2. Drawdown(i) \in Share /\ ~Deeper(Drawdown(i), s0[k]) /\ s0[k] \in Share
          BY <1>2, <2>1, <5>1
        <5> QED BY <2>3, <2>4, <3>1, <5>2, DeeperStill
      <4> QED BY <4>1, <4>2
    <3> QED BY <2>1, <2>3, <3>1, <3>2
  <2>5. CASE ~Deeper(Drawdown(k + 1), s0[k])
    <3>1. s0[k + 1] = s0[k]
      BY <2>2, <2>5
    <3>2. ASSUME NEW i \in 1..k + 1 PROVE ~Deeper(Drawdown(i), s0[k + 1])
      <4>1. CASE i = k + 1
        BY <2>5, <3>1, <4>1
      <4>2. CASE i # k + 1
        <5>1. i \in 1..k
          BY <4>2
        <5> QED BY <2>1, <3>1, <5>1
      <4> QED BY <4>1, <4>2
    <3> QED BY <2>1, <3>1, <3>2
  <2> QED BY <2>4, <2>5
<1> HIDE DEF T, Deepest
<1>12. n \in T
  <2>1. 0..n \subseteq T
    BY <1>2, <1>10, <1>11, Inductive
  <2> QED BY <2>1, <1>2
<1>13. Deepest(n)
  BY <1>12 DEF T
<1> QED BY <1>1, <1>13 DEF Deepest, n

\* The pass finds the largest fall: a fall to a later point where something is
\* left is no deeper than the one from the peak before that point.
LEMMA PassFindsWorst == curve \in Seq(Int) => DrawdownIsWorst
<1> SUFFICES ASSUME curve \in Seq(Int), NEW i \in DOMAIN curve, NEW j \in DOMAIN curve,
                    i < j, curve[i] > 0,
                    curve[j] >= 0 \/ \A k \in 1..j : curve[k] <= curve[i]
             PROVE  ~Deeper(<<curve[i] - curve[j], curve[i]>>, MaxDrawdown)
  BY DEF DrawdownIsWorst
<1>1. /\ i \in 1..Len(curve) /\ j \in 1..Len(curve) /\ i \in 1..j
      /\ curve[i] \in Int /\ curve[j] \in Int
  OBVIOUS
<1>2. PICK wn \in Int, wd \in Nat \ {0} : MaxDrawdown = <<wn, wd>>
  BY MaxDeepest DEF Share
<1>3. PICK from \in Int, to \in Int, peak \in Int :
        /\ from = curve[i] /\ to = curve[j] /\ peak = Peak[j]
        /\ from > 0 /\ from <= peak /\ (to >= 0 \/ from = peak)
  <2>1. Peak[j] \in Int /\ curve[i] <= Peak[j]
    BY <1>1, PeakRuns, PeakHighest
  <2>2. ASSUME \A k \in 1..j : curve[k] <= curve[i] PROVE curve[i] = Peak[j]
    <3>1. PICK k \in 1..j : curve[k] = Peak[j]
      BY <1>1, PeakHighest
    <3> QED BY <1>1, <2>1, <2>2, <3>1
  <2> QED BY <1>1, <2>1, <2>2
<1>4. Drawdown(j) = <<peak - to, peak>>
  BY <1>3 DEF Drawdown
<1>5. (peak - to) * wd <= wn * peak
  <2>1. ~Deeper(Drawdown(j), MaxDrawdown)
    BY <1>1, MaxDeepest
  <2>2. ~Deeper(<<peak - to, peak>>, <<wn, wd>>)
    BY <1>2, <1>4, <2>1
  <2> QED BY <2>2 DEF Deeper
<1>6. (from - to) * wd <= wn * from
  <2>1. PICK less \in Int : less = wd - wn
    OBVIOUS
  <2>2. peak * less <= to * wd
    <3>1. peak * less = (peak - to) * wd + to * wd - wn * peak
      BY <2>1
    <3>2. (peak - to) * wd \in Int /\ to * wd \in Int /\ wn * peak \in Int
      OBVIOUS
    <3> QED BY <1>5, <3>1, <3>2
  <2>3. from * less <= to * wd
    <3>1. CASE from = peak
      BY <2>2, <3>1
    <3>2. CASE to >= 0 /\ less >= 0
      <4>1. from * less <= peak * less
        <5>1. less \in Nat /\ from <= peak
          BY <1>3, <3>2
        <5> QED BY <5>1, TimesLarger
      <4>2. from * less \in Int /\ peak * less \in Int /\ to * wd \in Int
        OBVIOUS
      <4> QED BY <2>2, <4>1, <4>2
    <3>3. CASE to >= 0 /\ less < 0
      <4>1. 0 * wd <= to * wd
        BY <3>3, TimesLarger
      <4>2. from \in Nat
        BY <1>3
      <4>3. less * from <= 0 * from
        BY <3>3, <4>2, TimesLarger
      <4>4. less * from = from * less /\ from * less \in Int /\ to * wd \in Int
        OBVIOUS
      <4> QED BY <4>1, <4>3, <4>4
    <3> QED BY <1>3, <3>1, <3>2, <3>3
  <2>4. from * less = (from - to) * wd + to * wd - wn * from
    BY <2>1
  <2>5. (from - to) * wd \in Int /\ to * wd \in Int /\ wn * from \in Int
    OBVIOUS
  <2> QED BY <2>3, <2>4, <2>5
<1> QED BY <1>2, <1>3, <1>6 DEF Deeper

-----------------------------------------------------------------------------
(* The sums in the net-flow reports.                                       *)

\* The sums of the first values of f, one after another.
Sums(f, n, s) == s[0] = 0 /\ \A i \in 1..n : s[i] = s[i - 1] + f[i]

LEMMA SumsExist ==
  ASSUME NEW n \in Nat, NEW f, \A i \in 1..n : f[i] \in Int
  PROVE  \E s \in [0..n -> Int] : Sums(f, n, s)
<1> DEFINE G == [i \in 1..n |-> [u \in Int |-> u + f[i]]]
<1>1. \A i \in 1..n : \A u \in Int : G[i][u] = u + f[i] /\ G[i][u] \in Int
  OBVIOUS
<1> HIDE DEF G
<1>2. PICK s \in [0..n -> Int] : Runs(0, G, n, s)
  <2>1. 0 \in Int
    OBVIOUS
  <2> QED BY <1>1, <2>1, RunExists
<1>3. ASSUME NEW i \in 1..n PROVE s[i] = s[i - 1] + f[i]
  <2>1. i - 1 \in 0..n
    OBVIOUS
  <2> QED BY <1>1, <1>2, <2>1 DEF Runs
<1> QED BY <1>2, <1>3 DEF Runs, Sums

\* They are determined by the values.
LEMMA SumsUnique ==
  ASSUME NEW m \in Nat, NEW n \in Nat, m <= n, NEW f, NEW g, NEW s, NEW t,
         \A i \in 1..m : f[i] = g[i], Sums(f, m, s), Sums(g, n, t)
  PROVE  s[m] = t[m]
<1> DEFINE T == {k \in 0..m : s[k] = t[k]}
<1>1. 0 \in T
  BY DEF Sums
<1>2. ASSUME NEW k \in 0..m, k \in T, k < m PROVE k + 1 \in T
  <2>1. s[k + 1] = s[k] + f[k + 1] /\ t[k + 1] = t[k] + g[k + 1]
    BY <1>2 DEF Sums
  <2> QED BY <1>2, <2>1
<1> HIDE DEF T
<1>3. m \in T
  BY <1>1, <1>2, Inductive
<1> QED BY <1>3 DEF T

\* SumTo is the last of these sums.
LEMMA SumIsLast ==
  ASSUME NEW n \in Nat, NEW f, \A i \in 1..n : f[i] \in Int
  PROVE  \E s \in [0..n -> Int] : Sums(f, n, s) /\ SumTo(f, n) = s[n]
<1> DEFINE Is(s) == s = [i \in 0..n |-> IF i = 0 THEN 0 ELSE s[i - 1] + f[i]]
           s0 == CHOOSE s : Is(s)
<1>1. SumTo(f, n) = s0[n]
  BY DEF SumTo
<1>2. PICK s1 \in [0..n -> Int] : Sums(f, n, s1)
  BY SumsExist
<1>3. s1 = [i \in 0..n |-> s1[i]]
  OBVIOUS
<1>4. \A i \in 0..n : s1[i] = IF i = 0 THEN 0 ELSE s1[i - 1] + f[i]
  BY <1>2 DEF Sums
<1>5. Is(s1)
  BY <1>3, <1>4, Zenon
<1> HIDE DEF Is
<1>6. Is(s0)
  BY <1>5, Zenon
<1> HIDE DEF s0
<1>7. s0 = [i \in 0..n |-> IF i = 0 THEN 0 ELSE s0[i - 1] + f[i]]
  BY <1>6 DEF Is
<1>8. Sums(f, n, s0)
  BY <1>7 DEF Sums
<1>9. SumTo(f, n) = s1[n]
  BY <1>1, <1>2, <1>8, SumsUnique
<1> QED BY <1>2, <1>9

-----------------------------------------------------------------------------
\* Nothing adds up to nothing, and a sum grows by its last term.
LEMMA SumNext ==
  ASSUME NEW n \in Nat, NEW f, \A i \in 1..n : f[i] \in Int
  PROVE  /\ SumTo(f, n) \in Int
         /\ n = 0 => SumTo(f, n) = 0
         /\ n > 0 => SumTo(f, n) = SumTo(f, n - 1) + f[n]
<1>1. PICK s \in [0..n -> Int] : Sums(f, n, s) /\ SumTo(f, n) = s[n]
  BY SumIsLast
<1>2. ASSUME n > 0 PROVE SumTo(f, n) = SumTo(f, n - 1) + f[n]
  <2>1. PICK m \in Nat : m = n - 1
    BY <1>2
  <2> \A i \in 1..m : f[i] \in Int
    BY <2>1
  <2>2. PICK t \in [0..m -> Int] : Sums(f, m, t) /\ SumTo(f, m) = t[m]
    BY SumIsLast
  <2>3. t[m] = s[m]
    BY <1>1, <2>1, <2>2, SumsUnique
  <2>4. s[n] = s[m] + f[n]
    BY <1>1, <1>2, <2>1 DEF Sums
  <2> QED BY <1>1, <2>1, <2>2, <2>3, <2>4
<1> QED BY <1>1, <1>2 DEF Sums

\* A sum depends on its terms only.
LEMMA SumSame ==
  ASSUME NEW n \in Nat, NEW f, NEW g, \A i \in 1..n : f[i] \in Int /\ g[i] = f[i]
  PROVE  SumTo(f, n) = SumTo(g, n)
<1>1. PICK s \in [0..n -> Int] : Sums(f, n, s) /\ SumTo(f, n) = s[n]
  BY SumIsLast
<1>2. PICK t \in [0..n -> Int] : Sums(g, n, t) /\ SumTo(g, n) = t[n]
  BY SumIsLast
<1> QED BY <1>1, <1>2, SumsUnique

\* The sum of sums is the sum of the terms.
LEMMA SumPlus ==
  ASSUME NEW n \in Nat, NEW f, NEW g, NEW h,
         \A i \in 1..n : f[i] \in Int /\ g[i] \in Int /\ h[i] = f[i] + g[i]
  PROVE  SumTo(h, n) = SumTo(f, n) + SumTo(g, n)
<1> DEFINE T == {k \in 0..n : SumTo(h, k) = SumTo(f, k) + SumTo(g, k)}
<1>1. 0 \in T
  BY SumNext
<1>2. ASSUME NEW k \in 0..n, k \in T, k < n PROVE k + 1 \in T
  <2>1. PICK m \in Nat : m = k + 1
    BY <1>2
  <2>2. \A i \in 1..m : f[i] \in Int /\ g[i] \in Int /\ h[i] \in Int
    BY <1>2, <2>1
  <2>3. /\ SumTo(f, m) = SumTo(f, m - 1) + f[m]
        /\ SumTo(g, m) = SumTo(g, m - 1) + g[m]
        /\ SumTo(h, m) = SumTo(h, m - 1) + h[m]
    BY <2>1, <2>2, SumNext
  <2>4. SumTo(f, m - 1) \in Int /\ SumTo(g, m - 1) \in Int
    BY <2>1, <2>2, SumNext
  <2>5. f[m] \in Int /\ g[m] \in Int /\ h[m] = f[m] + g[m] /\ m - 1 = k
    BY <1>2, <2>1
  <2>6. SumTo(h, m - 1) = SumTo(f, m - 1) + SumTo(g, m - 1)
    BY <1>2, <2>5
  <2>7. SumTo(h, m) = SumTo(f, m) + SumTo(g, m)
    BY <2>3, <2>4, <2>5, <2>6
  <2> QED BY <1>2, <2>1, <2>7
<1> HIDE DEF T
<1>3. \A j \in 0..n : j \in T /\ j < n => j + 1 \in T
  BY <1>2
<1>4. 0..n \subseteq T
  BY <1>1, <1>3, Inductive
<1> QED BY <1>4 DEF T

\* Where only one term counts the sum is that term, and 0 where none does.
LEMMA SumOne ==
  ASSUME NEW n \in Nat, NEW f, \A i \in 1..n : f[i] \in Int,
         NEW k \in Int, \A i \in 1..n : i # k => f[i] = 0
  PROVE  SumTo(f, n) = IF k \in 1..n THEN f[k] ELSE 0
<1> DEFINE T == {m \in 0..n : SumTo(f, m) = IF k \in 1..m THEN f[k] ELSE 0}
<1>1. 0 \in T
  BY SumNext
<1>2. ASSUME NEW j \in 0..n, j \in T, j < n PROVE j + 1 \in T
  <2>1. PICK m \in Nat : m = j + 1
    BY <1>2
  <2>2. \A i \in 1..m : f[i] \in Int
    BY <1>2, <2>1
  <2>3. SumTo(f, m) = SumTo(f, m - 1) + f[m]
    BY <2>1, <2>2, SumNext
  <2>4. SumTo(f, m - 1) = IF k \in 1..j THEN f[k] ELSE 0
    <3>1. m - 1 = j
      BY <1>2, <2>1
    <3> QED BY <1>2, <3>1
  <2>5. CASE k = m
    <3>1. k \notin 1..j /\ k \in 1..m /\ f[m] \in Int
      BY <1>2, <2>1, <2>2, <2>5
    <3> QED BY <1>2, <2>1, <2>3, <2>4, <2>5, <3>1
  <2>6. CASE k # m
    <3>1. (k \in 1..j <=> k \in 1..m) /\ f[m] = 0
      BY <1>2, <2>1, <2>2, <2>6
    <3>2. k \in 1..j => f[k] \in Int
      BY <1>2
    <3>3. SumTo(f, m) = IF k \in 1..m THEN f[k] ELSE 0
      BY <2>3, <2>4, <3>1, <3>2
    <3> QED BY <1>2, <2>1, <3>3
  <2> QED BY <2>5, <2>6
<1> HIDE DEF T
<1>3. \A j \in 0..n : j \in T /\ j < n => j + 1 \in T
  BY <1>2
<1>4. 0..n \subseteq T
  BY <1>1, <1>3, Inductive
<1> QED BY <1>4 DEF T

\* Terms that are 0 add nothing.
LEMMA SumLonger ==
  ASSUME NEW n \in Nat, NEW m \in Nat, m <= n, NEW f, \A i \in 1..n : f[i] \in Int,
         \A i \in m + 1..n : f[i] = 0
  PROVE  SumTo(f, n) = SumTo(f, m)
<1> DEFINE T == {j \in 0..n : j >= m => SumTo(f, j) = SumTo(f, m)}
<1>1. 0 \in T
  OBVIOUS
<1>2. ASSUME NEW j \in 0..n, j \in T, j < n PROVE j + 1 \in T
  <2>1. PICK k \in Nat : k = j + 1
    BY <1>2
  <2>2. \A i \in 1..k : f[i] \in Int
    BY <1>2, <2>1
  <2>3. SumTo(f, k) = SumTo(f, k - 1) + f[k] /\ k - 1 = j
    BY <2>1, <2>2, SumNext
  <2>4. SumTo(f, j) \in Int
    BY <1>2, SumNext
  <2>5. j >= m => f[k] = 0
    BY <1>2, <2>1
  <2>6. k >= m => SumTo(f, k) = SumTo(f, m)
    <3>1. CASE k = m
      BY <3>1
    <3>2. CASE k > m
      BY <1>2, <2>1, <2>3, <2>4, <2>5, <3>2
    <3> QED BY <2>1, <3>1, <3>2
  <2> QED BY <1>2, <2>1, <2>6
<1> HIDE DEF T
<1>3. \A j \in 0..n : j \in T /\ j < n => j + 1 \in T
  BY <1>2
<1>4. 0..n \subseteq T
  BY <1>1, <1>3, Inductive
<1> QED BY <1>4 DEF T

-----------------------------------------------------------------------------
(* The ledgers of the net-flow reports.                                    *)

\* No moment of a ledger lies in the future, and the days' snapshots follow one
\* another: none before today is younger than the last midnight, none younger
\* than the entry of a later day.
Periods ==
  /\ midnight <= Len(history)
  /\ \A d \in 1..Days : balances[d] # None =>
       /\ d <= today /\ balances[d].moment <= Len(history)
       /\ d < today => balances[d].moment <= midnight
       /\ \A e \in d+1..Days : balances[e] # None => balances[d].moment <= balances[e].moment
  /\ \A e \in 1..Days : flows[e] # None =>
       /\ balances[e] # None /\ flows[e].start <= flows[e].end
       /\ flows[e].end <= balances[e].moment
       /\ \A d \in 1..e-1 : balances[d] # None => balances[d].moment <= flows[e].start

\* A period that names a predecessor begins at the snapshot of that day, from
\* its total, and no day between the two has a snapshot.
Follows(e, p, start, total) ==
  p # 0 => /\ p < e /\ balances[p] # None
           /\ start = balances[p].moment /\ total = Total(balances[p].rows)
           /\ \A q \in p+1..e-1 : balances[q] = None

\* Every entry follows its predecessor, and its inventory is what is left.
Entries ==
  \A e \in 1..Days : flows[e] # None =>
    /\ flows[e].first = (flows[e].previous = 0)
    /\ Follows(e, flows[e].previous, flows[e].start, flows[e].total - flows[e].delta)
    /\ ~flows[e].first => flows[e].inventory = flows[e].delta - flows[e].external - flows[e].net

\* What the job works on: the day is today, no snapshot is younger than its
\* start and none of an earlier day younger than its period, which follows its
\* predecessor; between the two writes the snapshot is that of the job.
Working ==
  run # None =>
    /\ run.day = today /\ run.start <= run.now /\ run.now <= Len(history)
    /\ \A d \in 1..Days : balances[d] # None =>
         balances[d].moment <= run.now /\ (d < today => balances[d].moment <= run.start)
    /\ Follows(run.day, run.previous, run.start, run.total)
    /\ run.step = "flows" =>
         balances[run.day] = [rows |-> [a \in Reported |-> fetched[a].balance], moment |-> run.now]

\* Unless a kill separated them, and but for the day being written, the ledgers
\* have the same days, and an entry ends with its snapshot.
Together ==
  ~torn => \A d \in 1..Days : ~(At("flows") /\ d = today) =>
    /\ balances[d] # None <=> flows[d] # None
    /\ flows[d] # None => flows[d].end = balances[d].moment /\ flows[d].total = Total(balances[d].rows)

\* What the accounts are worth is what they earned, paid and what prices did.
Earnings == Total(worth) = moved + Flow(0, Len(history), "external") + Flow(0, Len(history), "net")

\* What the job has fetched is what there is, as far as nothing failed and, for
\* the balances, nothing happened.
Gathered ==
  /\ torn => outages > 0
  /\ run # None =>
       /\ run.clean =>
            /\ run.now = Len(history)
            /\ \A a \in Reported : a < run.account \/ (a = run.account /\ run.step = "transactions") =>
                 fetched[a].balance = worth[a]
       /\ outages = 0 =>
            \A a \in Reported : a < run.account =>
              /\ fetched[a].external = AddUp(Window(a, run.start, run.now), "external")
              /\ fetched[a].net = AddUp(Window(a, run.start, run.now), "net")

\* And so is what is in an entry.
Counted ==
  \A e \in 1..Days : flows[e] # None =>
    /\ outages = 0 => /\ flows[e].external = Flow(flows[e].start, flows[e].end, "external")
                      /\ flows[e].net = Flow(flows[e].start, flows[e].end, "net")
    /\ flows[e].clean =>
         flows[e].total = flows[e].prices + Flow(0, flows[e].end, "external") + Flow(0, flows[e].end, "net")

-----------------------------------------------------------------------------
(* The net-flow reports: what the ledgers hold.                            *)

Fields == {"external", "net"}

LEMMA ContributionTyped == \A t \in Types, k \in Fields : Contribution[t][k] \in Int
BY DEF Types, Contribution, Fields

\* A job at work is a record, and only a record.
LEMMA JobTyped ==
  ASSUME LedgersTypeOK
  PROVE  /\ run # None => run \in Job
         /\ \A d \in 1..Days : /\ balances[d] # None => balances[d] \in Snapshot
                               /\ flows[d] # None => flows[d] \in Entry
BY DEF LedgersTypeOK

\* None is no record.
LEMMA SomeIsNotNone ==
  /\ \A r \in Job : r # None
  /\ \A r \in Snapshot : r # None
  /\ \A r \in Entry : r # None
<1>1. ASSUME NEW r \in Job PROVE DOMAIN r # {}
  BY <1>1 DEF Job
<1>2. ASSUME NEW r \in Snapshot PROVE DOMAIN r # {}
  BY <1>2 DEF Snapshot
<1>3. ASSUME NEW r \in Entry PROVE DOMAIN r # {}
  BY <1>3 DEF Entry
<1>4. DOMAIN None = {}
  BY DEF None
<1> QED BY <1>1, <1>2, <1>3, <1>4

\* What a transaction adds, counted only if it is among those asked for.
Terms(h, S, k) == [i \in 1..Len(h) |-> IF i \in S THEN Contribution[h[i].type][k] ELSE 0]

LEMMA TermsTyped ==
  ASSUME LedgersTypeOK, NEW S, NEW k \in Fields
  PROVE  /\ Len(history) \in Nat
         /\ AddUp(S, k) = SumTo(Terms(history, S, k), Len(history))
         /\ \A i \in 1..Len(history) : Terms(history, S, k)[i] \in Int
         /\ AddUp(S, k) \in Int
<1>1. Len(history) \in Nat /\ \A i \in 1..Len(history) : history[i].type \in Types
  <2>1. history \in Seq([account : Reported, type : Types])
    BY DEF LedgersTypeOK
  <2>2. \A i \in 1..Len(history) : history[i] \in [account : Reported, type : Types]
    BY <2>1, ElementOfSeq
  <2> QED BY <2>1, <2>2
<1>2. AddUp(S, k) = SumTo(Terms(history, S, k), Len(history))
  BY DEF AddUp, Terms
<1>3. \A i \in 1..Len(history) : Terms(history, S, k)[i] \in Int
  BY <1>1, ContributionTyped DEF Terms
<1> QED BY <1>1, <1>2, <1>3, SumNext

\* What the accounts hold together is a number.
LEMMA TotalTyped ==
  ASSUME NEW f, \A a \in Reported : f[a] \in Int
  PROVE  Total(f) \in Int
BY SumNext, NetFlowAssumption DEF Total, Reported

\* The ledgers and the job are well formed from the start.
LEMMA ReportTyped == ReportInit => LedgersTypeOK
<1> SUFFICES ASSUME ReportInit PROVE LedgersTypeOK
  OBVIOUS
<1> USE DEF ReportInit
<1>1. worth \in [Reported -> Int]
  OBVIOUS
<1>6. moved \in Int /\ outages \in Nat
  OBVIOUS
<1>7. torn \in BOOLEAN
  BY Zenon
<1>5. today \in 1..Days
  BY NetFlowAssumption
<1>2. history \in Seq([account : Reported, type : Types]) /\ midnight \in 0..Len(history)
  OBVIOUS
<1>3. balances \in [1..Days -> Snapshot \cup {None}] /\ flows \in [1..Days -> Entry \cup {None}]
  OBVIOUS
<1>4. fetched \in [Reported -> Account]
  BY DEF Empty, Account
<1> QED BY <1>1, <1>2, <1>3, <1>4, <1>5, <1>6, <1>7 DEF LedgersTypeOK

\* A step of the accounts keeps the past of the history.
HistoryGrows ==
  /\ Len(history) <= Len(history')
  /\ \A i \in 1..Len(history) : history'[i] = history[i]

WorldMoves == \/ \E k \in Kinds : Transact(k[1], k[2])
              \/ \E a, b \in Reported : TransferBetween(a, b)
              \/ \E a \in Reported : PriceMoves(a)

LEMMA AppendGrows ==
  ASSUME NEW T, NEW s \in Seq(T), NEW t, NEW x \in T, t = Append(s, x)
  PROVE  /\ t \in Seq(T) /\ Len(t) = Len(s) + 1 /\ t[Len(t)] = x
         /\ \A i \in 1..Len(s) : t[i] = s[i]
OBVIOUS

LEMMA WorldTyped ==
  ASSUME LedgersTypeOK, WorldMoves
  PROVE  LedgersTypeOK' /\ HistoryGrows /\ run' = Disturbed
         /\ UNCHANGED <<today, midnight, balances, flows, fetched, outages, torn>>
<1>1. UNCHANGED <<today, midnight, balances, flows, fetched, outages, torn>> /\ run' = Disturbed
  BY DEF WorldMoves, Transact, TransferBetween, PriceMoves
<1>2. run' \in Job \cup {None} /\ (run' # None => (run'.account = N + 1 <=> run'.step \in {"balances", "flows"}))
  <2>1. CASE run = None
    BY <1>1, <2>1 DEF Disturbed
  <2>2. CASE run # None
    <3>1. run \in Job
      BY <2>2, JobTyped
    <3>2. run' = [run EXCEPT !.clean = FALSE]
      BY <1>1, <2>2 DEF Disturbed
    <3>3. run' \in Job /\ run'.account = run.account /\ run'.step = run.step
      BY <3>1, <3>2 DEF Job
    <3> QED BY <2>2, <3>3 DEF LedgersTypeOK
  <2> QED BY <2>1, <2>2
<1>3. history \in Seq([account : Reported, type : Types]) /\ worth \in [Reported -> Int] /\ moved \in Int
      /\ Len(history) \in Nat
  BY DEF LedgersTypeOK
<1>4. \A t \in Types : Worth(t) \in Int
  BY ContributionTyped DEF Worth, Fields
<1>5. /\ history' \in Seq([account : Reported, type : Types]) /\ HistoryGrows
      /\ worth' \in [Reported -> Int] /\ moved' \in Int
  <2>1. ASSUME NEW k \in Kinds, Transact(k[1], k[2])
        PROVE  /\ history' \in Seq([account : Reported, type : Types]) /\ HistoryGrows
               /\ worth' \in [Reported -> Int] /\ moved' \in Int
    <3>1. k[1] \in Reported /\ k[2] \in Types
      BY NetFlowAssumption DEF Reported, Types, Contribution
    <3>2. [account |-> k[1], type |-> k[2]] \in [account : Reported, type : Types]
      BY <3>1
    <3>3. history' = Append(history, [account |-> k[1], type |-> k[2]])
      BY <2>1 DEF Transact
    <3>4. history' \in Seq([account : Reported, type : Types]) /\ HistoryGrows
      BY <1>3, <3>2, <3>3, AppendGrows DEF HistoryGrows
    <3>5. worth' = [worth EXCEPT ![k[1]] = @ + Worth(k[2])] /\ moved' = moved
      BY <2>1 DEF Transact
    <3> QED BY <1>3, <1>4, <3>1, <3>4, <3>5
  <2>2. ASSUME NEW a \in Reported, NEW b \in Reported, TransferBetween(a, b)
        PROVE  /\ history' \in Seq([account : Reported, type : Types]) /\ HistoryGrows
               /\ worth' \in [Reported -> Int] /\ moved' \in Int
    <3> DEFINE s == [account |-> a, type |-> "DEBITED"]
               r == [account |-> b, type |-> "CREDITED"]
    <3>1. s \in [account : Reported, type : Types] /\ r \in [account : Reported, type : Types]
      BY DEF Types, Contribution
    <3>2. history' = history \o <<s, r>>
      BY <2>2 DEF TransferBetween
    <3> HIDE DEF s, r
    <3>3. history' \in Seq([account : Reported, type : Types]) /\ HistoryGrows
      BY <1>3, <3>1, <3>2 DEF HistoryGrows
    <3>4. worth' = [worth EXCEPT ![a] = @ - 1, ![b] = @ + 1] /\ moved' = moved
      BY <2>2 DEF TransferBetween
    <3> QED BY <1>3, <3>3, <3>4
  <2>3. ASSUME NEW a \in Reported, PriceMoves(a)
        PROVE  /\ history' \in Seq([account : Reported, type : Types]) /\ HistoryGrows
               /\ worth' \in [Reported -> Int] /\ moved' \in Int
    <3>1. history' = history /\ moved' = moved + 1 /\ worth' = [worth EXCEPT ![a] = @ + 1]
      BY <2>3 DEF PriceMoves
    <3> QED BY <1>3, <3>1 DEF HistoryGrows
  <2> QED BY <2>1, <2>2, <2>3 DEF WorldMoves
<1>6. midnight' \in 0..Len(history')
  BY <1>1, <1>3, <1>5 DEF HistoryGrows, LedgersTypeOK
<1>7. LedgersTypeOK'
  BY <1>1, <1>2, <1>5, <1>6 DEF LedgersTypeOK
<1> QED BY <1>1, <1>5, <1>7

\* Midnight moves the day and nothing else.
LEMMA MidnightTyped == LedgersTypeOK /\ Midnight => LedgersTypeOK'
<1> SUFFICES ASSUME LedgersTypeOK, Midnight PROVE LedgersTypeOK'
  OBVIOUS
<1>1. today' \in 1..Days /\ midnight' \in 0..Len(history')
  BY NetFlowAssumption DEF Midnight, LedgersTypeOK, world
<1> QED BY <1>1 DEF LedgersTypeOK, Midnight, world

\* A job begins at the last snapshot that is fresh enough, or at midnight.
NewJob(p) ==
  IF p = 0 THEN [day |-> today, now |-> Len(history), start |-> midnight,
                 previous |-> 0, total |-> 0,
                 account |-> 1, step |-> "balance", clean |-> TRUE]
           ELSE [day |-> today, now |-> Len(history), start |-> balances[p].moment,
                 previous |-> p, total |-> Total(balances[p].rows),
                 account |-> 1, step |-> "balance", clean |-> TRUE]

LEMMA BeginsAt ==
  ASSUME LedgersTypeOK, Begin
  PROVE  \E p \in 0..Days :
           /\ run' = NewJob(p)
           /\ p # 0 => p \in 1..today-1 /\ balances[p] # None /\ \A q \in p+1..today-1 : balances[q] = None
<1> DEFINE P == {p \in PreviousSnapshot(today) : FreshEnough(p)}
<1>1. CASE P = {}
  BY <1>1, NetFlowAssumption DEF Begin, NewJob
<1>2. CASE P # {}
  <2> DEFINE p == CHOOSE q \in P : TRUE
  <2>1. p \in P
    BY <1>2
  <2>2. p \in 1..today-1 /\ balances[p] # None /\ \A q \in p+1..today-1 : balances[q] = None
    BY <2>1 DEF PreviousSnapshot
  <2>3. p # 0 /\ p \in 0..Days
    <3>1. today \in 1..Days /\ Days \in Nat
      BY NetFlowAssumption DEF LedgersTypeOK
    <3> HIDE DEF p
    <3> QED BY <2>2, <3>1
  <2>4. run' = NewJob(p)
    BY <1>2, <2>3 DEF Begin, NewJob
  <2> QED BY <2>2, <2>3, <2>4
<1> QED BY <1>1, <1>2

LEMMA RowsTotal ==
  ASSUME LedgersTypeOK, NEW d \in 1..Days, balances[d] # None
  PROVE  balances[d].moment \in Nat /\ balances[d].rows \in [Reported -> Int] /\ Total(balances[d].rows) \in Int
<1>1. balances[d] \in Snapshot
  BY JobTyped
<1>2. balances[d].moment \in Nat /\ balances[d].rows \in [Reported -> Int]
  BY <1>1 DEF Snapshot
<1> QED BY <1>2, TotalTyped

LEMMA BeginTyped ==
  ASSUME LedgersTypeOK, Begin
  PROVE  LedgersTypeOK' /\ run = None /\ run' # None
<1>1. PICK p \in 0..Days : /\ run' = NewJob(p)
                           /\ p # 0 => p \in 1..today-1 /\ balances[p] # None
  BY BeginsAt
<1>2. today \in 1..Days /\ Len(history) \in Nat /\ midnight \in Nat
  BY DEF LedgersTypeOK
<1>3. 1 \in 1..N+1 /\ 1 # N + 1
  BY NetFlowAssumption
<1>4. NewJob(p) \in Job /\ NewJob(p).account # N + 1 /\ NewJob(p).step = "balance"
  <2>1. CASE p = 0
    BY <1>2, <1>3, <2>1 DEF NewJob, Job
  <2>2. CASE p # 0
    <3>1. balances[p].moment \in Nat /\ Total(balances[p].rows) \in Int
      BY <1>1, <1>2, <2>2, RowsTotal
    <3> QED BY <1>2, <1>3, <2>2, <3>1 DEF NewJob, Job
  <2> QED BY <2>1, <2>2
<1>5. run' \in Job /\ run' # None /\ (run'.account = N + 1 <=> run'.step \in {"balances", "flows"})
  BY <1>1, <1>4, SomeIsNotNone
<1>6. fetched' = Empty /\ run = None /\ UNCHANGED <<worth, history, moved, today, midnight, balances, flows, outages, torn>>
  BY DEF Begin, world
<1>7. fetched' \in [Reported -> Account]
  BY <1>6 DEF Empty, Account
<1> QED BY <1>5, <1>6, <1>7 DEF LedgersTypeOK

LEMMA FetchBalanceTyped ==
  ASSUME LedgersTypeOK, FetchBalance
  PROVE  /\ LedgersTypeOK' /\ run \in Job /\ run' \in Job /\ run.account \in Reported
         /\ run.step = "balance" /\ run'.step = "transactions"
         /\ \A k \in {"day", "now", "start", "previous", "total", "account"} : run'[k] = run[k]
         /\ UNCHANGED <<worth, history, moved, today, midnight, balances, flows, torn>>
         /\ \/ /\ fetched' = [fetched EXCEPT ![run.account].balance = worth[run.account]]
               /\ run'.clean = run.clean /\ outages' = outages
            \/ fetched' = fetched /\ ~run'.clean /\ outages' = outages + 1
<1>1. run \in Job /\ run.step = "balance" /\ run # None
  BY JobTyped DEF FetchBalance, At
<1>2. run.account \in Reported
  BY <1>1, NetFlowAssumption DEF LedgersTypeOK, Job, Reported
<1>3. UNCHANGED <<worth, history, moved, today, midnight, balances, flows, torn>>
  BY DEF FetchBalance, world
<1>4. worth[run.account] \in Int /\ fetched \in [Reported -> Account]
  BY <1>2 DEF LedgersTypeOK
<1>5. \/ /\ fetched' = [fetched EXCEPT ![run.account].balance = worth[run.account]]
         /\ run' = [run EXCEPT !.step = "transactions"] /\ outages' = outages
      \/ /\ run' = [run EXCEPT !.step = "transactions", !.clean = FALSE]
         /\ fetched' = fetched /\ outages' = outages + 1
  BY DEF FetchBalance
<1>6. fetched' \in [Reported -> Account]
  <2>1. \A a \in Reported : fetched[a] \in Account
    BY <1>4
  <2>2. [fetched[run.account] EXCEPT !.balance = worth[run.account]] \in Account
    BY <1>2, <1>4, <2>1 DEF Account
  <2> QED BY <1>2, <1>4, <1>5, <2>2
<1>7. /\ run' \in Job /\ run'.step = "transactions"
      /\ \A k \in {"day", "now", "start", "previous", "total", "account"} : run'[k] = run[k]
  BY <1>1, <1>5 DEF Job
<1>8. \/ /\ fetched' = [fetched EXCEPT ![run.account].balance = worth[run.account]]
         /\ run'.clean = run.clean /\ outages' = outages
      \/ fetched' = fetched /\ ~run'.clean /\ outages' = outages + 1
  BY <1>1, <1>5 DEF Job
<1>9. run'.account = run.account /\ run.account # N + 1
  BY <1>1, <1>7 DEF LedgersTypeOK
<1>10. outages' \in Nat
  BY <1>5 DEF LedgersTypeOK
<1>11. LedgersTypeOK'
  BY <1>3, <1>6, <1>7, <1>9, <1>10 DEF LedgersTypeOK
<1> QED BY <1>1, <1>2, <1>3, <1>7, <1>8, <1>11

LEMMA FetchTransactionsTyped ==
  ASSUME LedgersTypeOK, FetchTransactions
  PROVE  /\ LedgersTypeOK' /\ run \in Job /\ run' \in Job /\ run.account \in Reported
         /\ run.step = "transactions" /\ run'.step \in {"balance", "balances"}
         /\ run'.account = run.account + 1
         /\ \A k \in {"day", "now", "start", "previous", "total"} : run'[k] = run[k]
         /\ UNCHANGED <<worth, history, moved, today, midnight, balances, flows, torn>>
         /\ LET W == Window(run.account, run.start, run.now) IN
            \/ /\ fetched' = [fetched EXCEPT ![run.account].external = AddUp(W, "external"),
                                             ![run.account].net = AddUp(W, "net")]
               /\ run'.clean = run.clean /\ outages' = outages
            \/ fetched' = fetched /\ ~run'.clean /\ outages' = outages + 1
<1> DEFINE W == Window(run.account, run.start, run.now)
<1>1. run \in Job /\ run.step = "transactions" /\ run # None
  BY JobTyped DEF FetchTransactions, At
<1>2. run.account \in Reported
  BY <1>1, NetFlowAssumption DEF LedgersTypeOK, Job, Reported
<1>3. UNCHANGED <<worth, history, moved, today, midnight, balances, flows, torn>>
  BY DEF FetchTransactions, world
<1>4. AddUp(W, "external") \in Int /\ AddUp(W, "net") \in Int /\ fetched \in [Reported -> Account]
  BY TermsTyped DEF LedgersTypeOK, Fields
<1> HIDE DEF W
<1>5. \/ /\ fetched' = [fetched EXCEPT ![run.account].external = AddUp(W, "external"),
                                       ![run.account].net = AddUp(W, "net")]
         /\ run' = NextAccount(run) /\ outages' = outages
      \/ /\ run' = [NextAccount(run) EXCEPT !.clean = FALSE]
         /\ fetched' = fetched /\ outages' = outages + 1
  BY DEF FetchTransactions, PeriodEnd, W
<1>6. fetched' \in [Reported -> Account]
  <2>1. \A a \in Reported : fetched[a] \in Account
    BY <1>4
  <2>2. [[fetched[run.account] EXCEPT !.external = AddUp(W, "external")] EXCEPT !.net = AddUp(W, "net")] \in Account
    BY <1>2, <1>4, <2>1 DEF Account
  <2> QED BY <1>2, <1>4, <1>5, <2>2
<1>7. /\ NextAccount(run) \in Job /\ NextAccount(run).step \in {"balance", "balances"}
      /\ NextAccount(run).account = run.account + 1 /\ NextAccount(run).clean = run.clean
      /\ \A k \in {"day", "now", "start", "previous", "total"} : NextAccount(run)[k] = run[k]
      /\ NextAccount(run).account = N + 1 <=> NextAccount(run).step = "balances"
  <2>1. CASE run.account = N
    <3>1. NextAccount(run) = [run EXCEPT !.account = N + 1, !.step = "balances"]
      BY <2>1 DEF NextAccount
    <3>2. N + 1 \in 1..N+1
      BY NetFlowAssumption
    <3> QED BY <1>1, <1>2, <2>1, <3>1, <3>2, NetFlowAssumption DEF Job, Reported
  <2>2. CASE run.account # N
    <3>1. NextAccount(run) = [run EXCEPT !.account = @ + 1, !.step = "balance"]
      BY <2>2 DEF NextAccount
    <3>2. run.account + 1 \in 1..N+1 /\ run.account + 1 # N + 1
      BY <1>2, <2>2, NetFlowAssumption DEF Reported
    <3> QED BY <1>1, <3>1, <3>2 DEF Job
  <2> QED BY <2>1, <2>2
<1>8. /\ run' \in Job /\ run'.step = NextAccount(run).step /\ run'.account = NextAccount(run).account
      /\ \A k \in {"day", "now", "start", "previous", "total"} : run'[k] = run[k]
  BY <1>5, <1>7 DEF Job
<1>9. \/ /\ fetched' = [fetched EXCEPT ![run.account].external = AddUp(W, "external"),
                                       ![run.account].net = AddUp(W, "net")]
         /\ run'.clean = run.clean /\ outages' = outages
      \/ fetched' = fetched /\ ~run'.clean /\ outages' = outages + 1
  BY <1>5, <1>7 DEF Job
<1>10. outages' \in Nat
  BY <1>5 DEF LedgersTypeOK
<1>11. LedgersTypeOK'
  BY <1>3, <1>6, <1>7, <1>8, <1>10 DEF LedgersTypeOK
<1> QED BY <1>1, <1>2, <1>3, <1>7, <1>8, <1>9, <1>11 DEF W

LEMMA SaveBalancesTyped ==
  ASSUME LedgersTypeOK, SaveBalances
  PROVE  /\ LedgersTypeOK' /\ run \in Job /\ run' \in Job
         /\ run.step = "balances" /\ run'.step = "flows" /\ run.account = N + 1
         /\ \A k \in {"day", "now", "start", "previous", "total", "account", "clean"} : run'[k] = run[k]
         /\ balances' = [balances EXCEPT ![run.day] =
              [rows |-> [a \in Reported |-> fetched[a].balance], moment |-> run.now]]
         /\ UNCHANGED <<worth, history, moved, today, midnight, flows, fetched, outages, torn>>
<1>1. run \in Job /\ run.step = "balances" /\ run # None
  BY JobTyped DEF SaveBalances, At
<1>2. run.account = N + 1
  BY <1>1 DEF LedgersTypeOK
<1>3. /\ UNCHANGED <<worth, history, moved, today, midnight, flows, fetched, outages, torn>>
      /\ run' = [run EXCEPT !.step = "flows"]
      /\ balances' = [balances EXCEPT ![run.day] =
              [rows |-> [a \in Reported |-> fetched[a].balance], moment |-> run.now]]
  BY DEF SaveBalances, world
<1>4. /\ run' \in Job /\ run'.step = "flows"
      /\ \A k \in {"day", "now", "start", "previous", "total", "account", "clean"} : run'[k] = run[k]
  BY <1>1, <1>3 DEF Job
<1>5. [rows |-> [a \in Reported |-> fetched[a].balance], moment |-> run.now] \in Snapshot
  <2>1. [a \in Reported |-> fetched[a].balance] \in [Reported -> Int]
    BY DEF LedgersTypeOK, Account
  <2>2. run.now \in Nat
    BY <1>1 DEF Job
  <2> QED BY <2>1, <2>2 DEF Snapshot
<1>6. balances' \in [1..Days -> Snapshot \cup {None}]
  BY <1>3, <1>5 DEF LedgersTypeOK
<1>7. run'.account = N + 1
  BY <1>2, <1>4
<1>8. LedgersTypeOK'
  BY <1>3, <1>4, <1>6, <1>7 DEF LedgersTypeOK
<1> QED BY <1>1, <1>2, <1>3, <1>4, <1>8

LEMMA SumTyped ==
  ASSUME LedgersTypeOK, NEW k \in {"balance", "external", "net"}
  PROVE  Sum(k) \in Int /\ \A a \in Reported : fetched[a][k] \in Int
<1>1. \A a \in Reported : fetched[a][k] \in Int
  BY DEF LedgersTypeOK, Account
<1> QED BY <1>1, TotalTyped DEF Sum

LEMMA SaveFlowsTyped ==
  ASSUME LedgersTypeOK, SaveFlows
  PROVE  /\ LedgersTypeOK' /\ run \in Job /\ run.step = "flows" /\ run.account = N + 1
         /\ run' = None /\ fetched' = Empty /\ DayEntry \in Entry
         /\ flows' = [flows EXCEPT ![run.day] = DayEntry]
         /\ UNCHANGED <<worth, history, moved, today, midnight, balances, outages, torn>>
<1>1. run \in Job /\ run.step = "flows" /\ run # None
  BY JobTyped DEF SaveFlows, At
<1>2. run.account = N + 1
  BY <1>1 DEF LedgersTypeOK
<1>3. /\ UNCHANGED <<worth, history, moved, today, midnight, balances, outages, torn>>
      /\ run' = None /\ fetched' = Empty /\ flows' = [flows EXCEPT ![run.day] = DayEntry]
  BY DEF SaveFlows, world
<1>4. DayEntry \in Entry
  <2>1. Sum("balance") \in Int /\ Sum("external") \in Int /\ Sum("net") \in Int
    BY SumTyped
  <2>2. /\ run.previous \in 0..Days /\ run.start \in Nat /\ run.now \in Nat /\ run.total \in Int
        /\ run.clean \in BOOLEAN /\ moved \in Int
    BY <1>1 DEF Job, LedgersTypeOK
  <2> QED BY <2>1, <2>2 DEF DayEntry, Entry
<1>5. fetched' \in [Reported -> Account]
  BY <1>3 DEF Empty, Account
<1>6. run.day \in 1..Days
  BY <1>1 DEF Job
<1>7. flows' \in [1..Days -> Entry \cup {None}]
  BY <1>3, <1>4, <1>6 DEF LedgersTypeOK
<1>8. LedgersTypeOK'
  BY <1>3, <1>5, <1>7 DEF LedgersTypeOK
<1> QED BY <1>1, <1>2, <1>3, <1>4, <1>8

LEMMA KillTyped ==
  ASSUME LedgersTypeOK, Kill
  PROVE  /\ LedgersTypeOK' /\ run' = None /\ run # None /\ outages' = outages + 1
         /\ torn' = (torn \/ run.step = "flows")
         /\ UNCHANGED <<worth, history, moved, today, midnight, balances, flows>>
<1>1. /\ run' = None /\ run # None /\ outages' = outages + 1 /\ fetched' = Empty
      /\ torn' = (torn \/ run.step = "flows")
      /\ UNCHANGED <<worth, history, moved, today, midnight, balances, flows>>
  BY DEF Kill, world
<1>2. fetched' \in [Reported -> Account]
  BY <1>1 DEF Empty, Account
<1>3. outages' \in Nat /\ torn' \in BOOLEAN
  BY <1>1 DEF LedgersTypeOK
<1> QED BY <1>1, <1>2, <1>3 DEF LedgersTypeOK

-----------------------------------------------------------------------------
\* The world moves: the past of the history stays, and with it every ledger.
LEMMA PeriodsWorld ==
  ASSUME LedgersTypeOK, Periods, Entries, Working, Together, WorldMoves
  PROVE  Periods' /\ Entries' /\ Working' /\ Together'
<1>1. LedgersTypeOK' /\ HistoryGrows /\ run' = Disturbed
      /\ UNCHANGED <<today, midnight, balances, flows, fetched, outages, torn>>
  BY WorldTyped
<1>2. Len(history) \in Nat /\ Len(history') \in Nat /\ Len(history) <= Len(history')
  BY <1>1 DEF LedgersTypeOK, HistoryGrows
<1>3. Periods'
  <2>1. midnight' <= Len(history')
    BY <1>1, <1>2 DEF Periods, LedgersTypeOK
  <2>2. ASSUME NEW d \in 1..Days, balances[d] # None
        PROVE  balances[d].moment <= Len(history')
    BY <1>2, <2>2, RowsTotal DEF Periods
  <2> QED BY <1>1, <2>1, <2>2 DEF Periods
<1>4. Entries'
  BY <1>1 DEF Entries, Follows
<1>5. Working' /\ Together'
  <2>1. CASE run = None
    <3>1. run' = None
      BY <1>1, <2>1 DEF Disturbed
    <3> QED BY <1>1, <2>1, <3>1 DEF Working, Together, At
  <2>2. CASE run # None
    <3>1. run \in Job /\ run' = [run EXCEPT !.clean = FALSE]
      BY <1>1, <2>2, JobTyped DEF Disturbed
    <3>2. /\ run' \in Job /\ run' # None
          /\ \A k \in {"day", "now", "start", "previous", "total", "step"} : run'[k] = run[k]
      BY <3>1, SomeIsNotNone DEF Job
    <3>3. run.now \in Nat /\ run.now <= Len(history')
      BY <1>2, <2>2, <3>1 DEF Working, Job
    <3>4. Working'
      BY <1>1, <2>2, <3>2, <3>3 DEF Working, Follows
    <3>5. Together'
      BY <1>1, <2>2, <3>2 DEF Together, At
    <3> QED BY <3>4, <3>5
  <2> QED BY <2>1, <2>2
<1> QED BY <1>3, <1>4, <1>5

\* No job runs over midnight, so that every snapshot is older than it.
LEMMA PeriodsMidnight ==
  ASSUME LedgersTypeOK, Periods, Entries, Working, Together, Midnight
  PROVE  Periods' /\ Entries' /\ Working' /\ Together'
<1>1. /\ run = None /\ today' = today + 1 /\ midnight' = Len(history)
      /\ UNCHANGED <<worth, history, moved, balances, flows, run, fetched, outages, torn>>
  BY DEF Midnight, world
<1>2. today \in 1..Days /\ Len(history) \in Nat
  BY DEF LedgersTypeOK
<1>3. Periods'
  <2>1. ASSUME NEW d \in 1..Days, balances[d] # None
        PROVE  d <= today' /\ balances[d].moment <= Len(history)
    BY <1>1, <1>2, <2>1 DEF Periods
  <2> QED BY <1>1, <1>2, <2>1 DEF Periods
<1>4. Entries' /\ Working' /\ Together'
  BY <1>1 DEF Entries, Follows, Working, Together, At
<1> QED BY <1>3, <1>4

\* A job begins where its predecessor's snapshot or the day before ends.
LEMMA PeriodsBegin ==
  ASSUME LedgersTypeOK, Periods, Entries, Working, Together, Begin
  PROVE  Periods' /\ Entries' /\ Working' /\ Together'
<1>1. LedgersTypeOK' /\ run = None /\ run' # None
  BY BeginTyped
<1>2. UNCHANGED <<worth, history, moved, today, midnight, balances, flows, outages, torn>>
  BY DEF Begin, world
<1>3. PICK p \in 0..Days :
           /\ run' = NewJob(p)
           /\ p # 0 => p \in 1..today-1 /\ balances[p] # None /\ \A q \in p+1..today-1 : balances[q] = None
  BY BeginsAt
<1>4. today \in 1..Days /\ Len(history) \in Nat /\ midnight \in Nat /\ midnight <= Len(history)
  BY DEF LedgersTypeOK
<1>5. /\ run'.day = today /\ run'.now = Len(history) /\ run'.previous = p /\ run'.step = "balance"
      /\ run'.start = IF p = 0 THEN midnight ELSE balances[p].moment
      /\ run'.total = IF p = 0 THEN 0 ELSE Total(balances[p].rows)
  BY <1>3 DEF NewJob
<1>6. Periods' /\ Entries'
  BY <1>2 DEF Periods, Entries, Follows
<1>7. Together'
  BY <1>1, <1>2, <1>5 DEF Together, At
<1>8. ASSUME NEW d \in 1..Days, balances[d] # None
      PROVE  balances[d].moment <= run'.now /\ (d < today => balances[d].moment <= run'.start)
  <2>1. balances[d].moment <= Len(history) /\ balances[d].moment \in Nat
    BY <1>8, RowsTotal DEF Periods
  <2>2. ASSUME d < today PROVE balances[d].moment <= run'.start
    <3>1. CASE p = 0
      BY <1>5, <1>8, <2>2, <3>1 DEF Periods
    <3>2. CASE p # 0 /\ d <= p
      <4>1. p \in 1..Days /\ balances[p] # None /\ p < today
        BY <1>3, <1>4, <3>2
      <4>2. d < p => p \in d+1..Days /\ balances[d].moment <= balances[p].moment
        BY <1>8, <4>1 DEF Periods
      <4> QED BY <1>5, <2>1, <3>2, <4>2
    <3>3. CASE p # 0 /\ d > p
      <4>1. d \in p+1..today-1
        BY <1>3, <1>4, <2>2, <3>3
      <4> QED BY <1>3, <1>8, <3>3, <4>1
    <3> QED BY <3>1, <3>2, <3>3
  <2> QED BY <1>5, <2>1, <2>2
<1>9. run'.start <= run'.now
  BY <1>3, <1>4, <1>5, <1>8
<1>10. Follows(today, p, run'.start, run'.total)
  BY <1>3, <1>4, <1>5 DEF Follows
<1>11. Working'
  <2>1. Follows(run.day, run.previous, run.start, run.total)'
    BY <1>2, <1>5, <1>10 DEF Follows
  <2> QED BY <1>2, <1>4, <1>5, <1>8, <1>9, <2>1 DEF Working
<1> QED BY <1>6, <1>7, <1>11

\* Fetching changes neither the ledgers nor the period.
LEMMA PeriodsFetch ==
  ASSUME LedgersTypeOK, Periods, Entries, Working, Together, FetchBalance \/ FetchTransactions
  PROVE  Periods' /\ Entries' /\ Working' /\ Together'
<1>1. /\ run \in Job /\ run' \in Job /\ run.step # "flows" /\ run'.step # "flows"
      /\ \A k \in {"day", "now", "start", "previous", "total"} : run'[k] = run[k]
      /\ UNCHANGED <<worth, history, moved, today, midnight, balances, flows, torn>>
  <2>1. CASE FetchBalance
    BY <2>1, FetchBalanceTyped
  <2>2. CASE FetchTransactions
    BY <2>2, FetchTransactionsTyped
  <2> QED BY <2>1, <2>2
<1>2. run # None /\ run' # None
  BY <1>1, SomeIsNotNone
<1>3. Periods' /\ Entries'
  BY <1>1 DEF Periods, Entries, Follows
<1>4. Working'
  BY <1>1, <1>2 DEF Working, Follows
<1>5. Together'
  BY <1>1, <1>2 DEF Together, At
<1> QED BY <1>3, <1>4, <1>5

\* The snapshot of the day is the youngest, also when it replaces another one;
\* no later day has looked at it.
LEMMA PeriodsSaveBalances ==
  ASSUME LedgersTypeOK, Periods, Entries, Working, Together, SaveBalances
  PROVE  Periods' /\ Entries' /\ Working' /\ Together'
<1> DEFINE new == [rows |-> [a \in Reported |-> fetched[a].balance], moment |-> run.now]
<1>1. /\ LedgersTypeOK' /\ run \in Job /\ run' \in Job
      /\ run.step = "balances" /\ run'.step = "flows"
      /\ \A k \in {"day", "now", "start", "previous", "total"} : run'[k] = run[k]
      /\ balances' = [balances EXCEPT ![run.day] = new]
      /\ UNCHANGED <<worth, history, moved, today, midnight, flows, fetched, outages, torn>>
  BY SaveBalancesTyped
<1>2. run # None /\ run' # None
  BY <1>1, SomeIsNotNone
<1>3. /\ run.day = today /\ today \in 1..Days /\ run.now \in Nat /\ run.now <= Len(history) /\ Len(history) \in Nat
      /\ run.start \in Nat /\ run.start <= run.now
  BY <1>1, <1>2 DEF Working, LedgersTypeOK, Job
<1>4. new.moment = run.now /\ new.rows = [a \in Reported |-> fetched[a].balance]
  OBVIOUS
<1> HIDE DEF new
<1>5. /\ \A d \in 1..Days : d # today => balances'[d] = balances[d]
      /\ balances'[today] = new /\ new # None
  <2>1. balances'[today] = new /\ \A d \in 1..Days : d # today => balances'[d] = balances[d]
    BY <1>1, <1>3 DEF LedgersTypeOK
  <2>2. new # None
    BY <1>4, SomeIsNotNone, <1>3 DEF new, Snapshot, LedgersTypeOK, Account
  <2> QED BY <2>1, <2>2
<1>6. \A d \in 1..Days : balances[d] # None => balances[d].moment \in Nat
  BY RowsTotal
<1>7. Periods'
  <2>1. midnight' <= Len(history')
    BY <1>1 DEF Periods
  <2>2. ASSUME NEW d \in 1..Days, balances'[d] # None
        PROVE  /\ d <= today' /\ balances'[d].moment <= Len(history')
               /\ d < today' => balances'[d].moment <= midnight'
               /\ \A e \in d+1..Days : balances'[e] # None => balances'[d].moment <= balances'[e].moment
    <3>1. CASE d = today
      <4>1. \A e \in d+1..Days : balances'[e] = None
        BY <1>3, <1>5, <3>1 DEF Periods
      <4> QED BY <1>1, <1>3, <1>4, <1>5, <3>1, <4>1
    <3>2. CASE d # today
      <4>1. /\ balances'[d] = balances[d] /\ balances[d] # None /\ d < today
            /\ balances[d].moment <= Len(history) /\ balances[d].moment <= midnight
        BY <1>3, <1>5, <2>2, <3>2 DEF Periods
      <4>2. balances[d].moment <= run.start
        BY <1>2, <4>1 DEF Working
      <4>3. balances[d].moment <= run.now
        BY <1>3, <1>6, <4>1, <4>2
      <4>4. ASSUME NEW e \in d+1..Days, balances'[e] # None PROVE balances'[d].moment <= balances'[e].moment
        <5>1. CASE e = today
          BY <1>4, <1>5, <4>1, <4>3, <5>1
        <5>2. CASE e # today
          BY <1>5, <4>1, <4>4, <5>2 DEF Periods
        <5> QED BY <5>1, <5>2
      <4> QED BY <1>1, <1>3, <4>1, <4>4
    <3> QED BY <3>1, <3>2
  <2>3. ASSUME NEW e \in 1..Days, flows'[e] # None
        PROVE  /\ balances'[e] # None /\ flows'[e].start <= flows'[e].end
               /\ flows'[e].end <= balances'[e].moment
               /\ \A d \in 1..e-1 : balances'[d] # None => balances'[d].moment <= flows'[e].start
    <3>1. /\ flows[e] # None /\ balances[e] # None /\ flows[e].start <= flows[e].end
          /\ flows[e].end <= balances[e].moment /\ flows'[e] = flows[e] /\ e <= today
          /\ \A d \in 1..e-1 : balances[d] # None => balances[d].moment <= flows[e].start
      BY <1>1, <2>3 DEF Periods
    <3>2. \A d \in 1..e-1 : balances'[d] = balances[d]
      BY <1>3, <1>5, <3>1, NetFlowAssumption
    <3>3. flows[e].end <= balances'[e].moment
      <4>1. CASE e = today
        <5>1. balances[e].moment <= run.now
          BY <1>2, <3>1 DEF Working
        <5>2. flows[e].end \in Nat
          BY <3>1, JobTyped DEF Entry
        <5> QED BY <1>3, <1>4, <1>5, <1>6, <3>1, <4>1, <5>1, <5>2
      <4>2. CASE e # today
        BY <1>5, <3>1, <4>2
      <4> QED BY <4>1, <4>2
    <3>4. balances'[e] # None
      BY <1>5, <3>1
    <3> QED BY <3>1, <3>2, <3>3, <3>4
  <2> QED BY <2>1, <2>2, <2>3 DEF Periods
<1>8. ASSUME NEW e \in 1..Days, e <= today, NEW p \in 0..Days, NEW s, NEW t, Follows(e, p, s, t)
      PROVE  /\ p # 0 => /\ p < e /\ balances'[p] # None
                         /\ s = balances'[p].moment /\ t = Total(balances'[p].rows)
                         /\ \A q \in p+1..e-1 : balances'[q] = None
  <2>1. Days \in Nat /\ today \in 1..Days
    BY <1>3, NetFlowAssumption
  <2> SUFFICES ASSUME p # 0
               PROVE  /\ p < e /\ balances'[p] # None
                      /\ s = balances'[p].moment /\ t = Total(balances'[p].rows)
                      /\ \A q \in p+1..e-1 : balances'[q] = None
    OBVIOUS
  <2>2. p \in 1..Days /\ p < e /\ p # today /\ balances'[p] = balances[p]
    BY <1>5, <1>8, <2>1 DEF Follows
  <2>3. \A q \in p+1..e-1 : q \in 1..Days /\ q # today /\ balances'[q] = balances[q]
    BY <1>5, <1>8, <2>1, <2>2
  <2> QED BY <1>8, <2>2, <2>3 DEF Follows
<1>9. Entries'
  <2> SUFFICES ASSUME NEW e \in 1..Days, flows[e] # None
               PROVE  /\ flows[e].first = (flows[e].previous = 0)
                      /\ flows[e].previous # 0 =>
                           /\ flows[e].previous < e /\ balances'[flows[e].previous] # None
                           /\ flows[e].start = balances'[flows[e].previous].moment
                           /\ flows[e].total - flows[e].delta = Total(balances'[flows[e].previous].rows)
                           /\ \A q \in flows[e].previous+1..e-1 : balances'[q] = None
                      /\ ~flows[e].first => flows[e].inventory = flows[e].delta - flows[e].external - flows[e].net
    BY <1>1 DEF Entries, Follows
  <2>1. flows[e].previous \in 0..Days /\ e <= today
    BY JobTyped DEF Entry, Periods
  <2> QED BY <1>8, <2>1 DEF Entries
<1>10. Working'
  <2>1. ASSUME NEW d \in 1..Days, balances'[d] # None
        PROVE  balances'[d].moment <= run'.now /\ (d < today => balances'[d].moment <= run'.start)
    <3>1. run'.now = run.now /\ run'.start = run.start
      BY <1>1
    <3>2. CASE d = today
      BY <1>3, <1>4, <1>5, <3>1, <3>2
    <3>3. CASE d # today
      BY <1>2, <1>5, <2>1, <3>1, <3>3 DEF Working
    <3> QED BY <3>2, <3>3
  <2>2. Follows(run.day, run.previous, run.start, run.total)'
    <3>1. Follows(run.day, run.previous, run.start, run.total) /\ run.previous \in 0..Days
      BY <1>1, <1>2 DEF Working, Job
    <3> QED BY <1>1, <1>3, <1>8, <3>1 DEF Follows
  <2>3. balances'[run'.day] = [rows |-> [a \in Reported |-> fetched'[a].balance], moment |-> run'.now]
    BY <1>1, <1>3, <1>5 DEF new
  <2> QED BY <1>1, <1>3, <2>1, <2>2, <2>3 DEF Working
<1>11. Together'
  BY <1>1, <1>2, <1>5 DEF Together, At
<1> QED BY <1>7, <1>9, <1>10, <1>11

\* The entry is that of the snapshot just written: it ends with it, and begins
\* where its predecessor's ends.
LEMMA PeriodsSaveFlows ==
  ASSUME LedgersTypeOK, Periods, Entries, Working, Together, SaveFlows
  PROVE  Periods' /\ Entries' /\ Working' /\ Together'
<1>1. /\ LedgersTypeOK' /\ run \in Job /\ run.step = "flows"
      /\ run' = None /\ DayEntry \in Entry /\ flows' = [flows EXCEPT ![run.day] = DayEntry]
      /\ UNCHANGED <<worth, history, moved, today, midnight, balances, outages, torn>>
  BY SaveFlowsTyped
<1>2. run # None
  BY <1>1, SomeIsNotNone
<1>3. run.day = today /\ today \in 1..Days /\ run.now \in Nat /\ run.start \in Nat /\ run.start <= run.now
  BY <1>1, <1>2 DEF Working, LedgersTypeOK, Job
<1>4. balances[today] = [rows |-> [a \in Reported |-> fetched[a].balance], moment |-> run.now]
  BY <1>1, <1>2, <1>3 DEF Working
<1>5. /\ balances[today] # None /\ balances[today].moment = run.now
      /\ Total(balances[today].rows) = Sum("balance")
  <2>1. balances[today].moment = run.now /\ balances[today].rows = [a \in Reported |-> fetched[a].balance]
    BY <1>4
  <2>2. balances[today] \in Snapshot
    <3>1. [a \in Reported |-> fetched[a].balance] \in [Reported -> Int]
      BY DEF LedgersTypeOK, Account
    <3> QED BY <1>3, <1>4, <3>1 DEF Snapshot
  <2> QED BY <2>1, <2>2, SomeIsNotNone DEF Sum
<1>6. /\ DayEntry.start = run.start /\ DayEntry.end = run.now /\ DayEntry.previous = run.previous
      /\ DayEntry.total = Sum("balance") /\ DayEntry.first = (run.previous = 0)
      /\ DayEntry.delta = IF run.previous = 0 THEN 0 ELSE Sum("balance") - run.total
      /\ run.previous # 0 => DayEntry.inventory = DayEntry.delta - DayEntry.external - DayEntry.net
  BY DEF DayEntry
<1>7. /\ DayEntry # None /\ flows'[today] = DayEntry
      /\ \A e \in 1..Days : e # today => flows'[e] = flows[e]
  <2>1. flows'[today] = DayEntry /\ \A e \in 1..Days : e # today => flows'[e] = flows[e]
    BY <1>1, <1>3 DEF LedgersTypeOK
  <2> QED BY <1>1, <2>1, SomeIsNotNone
<1>8. Periods'
  <2> SUFFICES ASSUME NEW e \in 1..Days, flows'[e] # None
               PROVE  /\ balances[e] # None /\ flows'[e].start <= flows'[e].end
                      /\ flows'[e].end <= balances[e].moment
                      /\ \A d \in 1..e-1 : balances[d] # None => balances[d].moment <= flows'[e].start
    BY <1>1 DEF Periods
  <2>1. CASE e = today
    <3>1. \A d \in 1..e-1 : d \in 1..Days /\ d < today
      BY <1>3, <2>1, NetFlowAssumption
    <3>2. \A d \in 1..e-1 : balances[d] # None => balances[d].moment <= run.start
      BY <1>2, <3>1 DEF Working
    <3> QED BY <1>3, <1>5, <1>6, <1>7, <2>1, <3>2
  <2>2. CASE e # today
    BY <1>7, <2>2 DEF Periods
  <2> QED BY <2>1, <2>2
<1>9. Entries'
  <2> SUFFICES ASSUME NEW e \in 1..Days, flows'[e] # None
               PROVE  /\ flows'[e].first = (flows'[e].previous = 0)
                      /\ Follows(e, flows'[e].previous, flows'[e].start, flows'[e].total - flows'[e].delta)
                      /\ ~flows'[e].first => flows'[e].inventory = flows'[e].delta - flows'[e].external - flows'[e].net
    BY <1>1 DEF Entries, Follows
  <2>1. CASE e = today
    <3>1. Follows(today, run.previous, run.start, run.total)
      BY <1>2, <1>3 DEF Working
    <3>2. run.previous # 0 => DayEntry.total - DayEntry.delta = run.total
      <4>1. run.total \in Int /\ Sum("balance") \in Int
        BY <1>1, SumTyped DEF Job
      <4> QED BY <1>6, <4>1
    <3> QED BY <1>6, <1>7, <2>1, <3>1, <3>2 DEF Follows
  <2>2. CASE e # today
    BY <1>7, <2>2 DEF Entries
  <2> QED BY <2>1, <2>2
<1>10. Working'
  BY <1>1 DEF Working
<1>11. Together'
  <2> SUFFICES ASSUME ~torn, NEW d \in 1..Days
               PROVE  /\ balances[d] # None <=> flows'[d] # None
                      /\ flows'[d] # None => /\ flows'[d].end = balances[d].moment
                                             /\ flows'[d].total = Total(balances[d].rows)
    BY <1>1 DEF Together, At
  <2>1. CASE d = today
    BY <1>5, <1>6, <1>7, <2>1
  <2>2. CASE d # today
    BY <1>7, <2>2 DEF Together
  <2> QED BY <2>1, <2>2
<1> QED BY <1>8, <1>9, <1>10, <1>11

\* A kill leaves the ledgers as they are; between the two writes it tears them.
LEMMA PeriodsKill ==
  ASSUME LedgersTypeOK, Periods, Entries, Working, Together, Kill
  PROVE  Periods' /\ Entries' /\ Working' /\ Together'
<1>1. /\ run' = None /\ run # None
      /\ torn' = (torn \/ run.step = "flows")
      /\ UNCHANGED <<worth, history, moved, today, midnight, balances, flows>>
  BY KillTyped
<1>2. Periods' /\ Entries' /\ Working'
  BY <1>1 DEF Periods, Entries, Follows, Working
<1>3. Together'
  <2> SUFFICES ASSUME ~torn' PROVE Together'
    BY DEF Together
  <2>1. ~torn /\ ~At("flows")
    BY <1>1 DEF At
  <2> QED BY <1>1, <2>1 DEF Together, At
<1> QED BY <1>2, <1>3

-----------------------------------------------------------------------------
\* Whatever failed and however often the job ran: the periods of two days have
\* no moment in common, and one begins where its predecessor's ends.
LEMMA PeriodsChain ==
  ASSUME LedgersTypeOK, Periods, Entries, Together
  PROVE  NeverCountedTwice /\ Contiguous
<1>1. NeverCountedTwice
  <2> SUFFICES ASSUME NEW d \in 1..Days, NEW e \in 1..Days, d < e, flows[d] # None, flows[e] # None
               PROVE  flows[d].end <= flows[e].start
    BY DEF NeverCountedTwice
  <2>1. balances[d] # None /\ flows[d].end <= balances[d].moment
    BY DEF Periods
  <2>2. balances[d].moment <= flows[e].start
    <3>1. d \in 1..e-1
      OBVIOUS
    <3> QED BY <2>1, <3>1 DEF Periods
  <2>3. flows[d].end \in Nat /\ flows[e].start \in Nat /\ balances[d].moment \in Nat
    BY <2>1, JobTyped, RowsTotal DEF Entry
  <2> QED BY <2>1, <2>2, <2>3
<1>2. Contiguous
  <2> SUFFICES ASSUME ~torn, NEW e \in 1..Days, flows[e] # None, ~flows[e].first
               PROVE  /\ flows[flows[e].previous] # None
                      /\ flows[e].start = flows[flows[e].previous].end
                      /\ flows[e].total - flows[e].delta = flows[flows[e].previous].total
    BY DEF Contiguous
  <2>1. PICK d \in 0..Days : d = flows[e].previous
    BY JobTyped DEF Entry
  <2>2. /\ d # 0 /\ d < e /\ balances[d] # None /\ flows[e].start = balances[d].moment
        /\ flows[e].total - flows[e].delta = Total(balances[d].rows)
    BY <2>1 DEF Entries, Follows
  <2>3. e <= today /\ today \in 1..Days
    BY DEF Periods, LedgersTypeOK
  <2>4. d \in 1..Days /\ d # today
    BY <2>2, <2>3
  <2> QED BY <2>1, <2>2, <2>4 DEF Together
<1> QED BY <1>1, <1>2

-----------------------------------------------------------------------------
\* What transactions of the past add up to stays as the history grows.
LEMMA PastAddsUp ==
  ASSUME LedgersTypeOK, LedgersTypeOK', HistoryGrows,
         NEW S \in SUBSET (1..Len(history)), NEW k \in Fields
  PROVE  AddUp(S, k)' = AddUp(S, k)
<1>1. PICK n \in Nat : n = Len(history)
  BY DEF LedgersTypeOK
<1>2. PICK m \in Nat : m = Len(history')
  BY DEF LedgersTypeOK
<1>3. n <= m /\ \A i \in 1..n : history'[i] = history[i]
  BY <1>1, <1>2 DEF HistoryGrows
<1>4. /\ AddUp(S, k) = SumTo(Terms(history, S, k), n)
      /\ \A i \in 1..n : Terms(history, S, k)[i] \in Int
  BY <1>1, TermsTyped
<1>5. /\ AddUp(S, k)' = SumTo(Terms(history', S, k), m)
      /\ \A i \in 1..m : Terms(history', S, k)[i] \in Int
  <2>1. Len(history') \in Nat /\ \A i \in 1..Len(history') : history'[i].type \in Types
    <3>1. history' \in Seq([account : Reported, type : Types])
      BY DEF LedgersTypeOK
    <3>2. \A i \in 1..Len(history') : history'[i] \in [account : Reported, type : Types]
      BY <3>1, ElementOfSeq
    <3> QED BY <3>1, <3>2
  <2>2. AddUp(S, k)' = SumTo(Terms(history', S, k), Len(history'))
    BY DEF AddUp, Terms
  <2>3. \A i \in 1..Len(history') : Terms(history', S, k)[i] \in Int
    BY <2>1, ContributionTyped DEF Terms
  <2> QED BY <1>2, <2>2, <2>3
<1>6. \A i \in n + 1..m : Terms(history', S, k)[i] = 0
  BY <1>1, <1>2, <1>3 DEF Terms
<1>7. \A i \in 1..n : Terms(history', S, k)[i] = Terms(history, S, k)[i]
  BY <1>1, <1>2, <1>3 DEF Terms
<1>8. SumTo(Terms(history', S, k), m) = SumTo(Terms(history', S, k), n)
  BY <1>3, <1>5, <1>6, SumLonger
<1>9. SumTo(Terms(history, S, k), n) = SumTo(Terms(history', S, k), n)
  BY <1>4, <1>7, SumSame
<1> QED BY <1>4, <1>5, <1>8, <1>9

\* Two sets of transactions with none in common add up separately.
LEMMA AddUpBoth ==
  ASSUME LedgersTypeOK, NEW S, NEW T, S \cap T = {}, NEW k \in Fields
  PROVE  AddUp(S \cup T, k) = AddUp(S, k) + AddUp(T, k)
<1> DEFINE n == Len(history)
           f == Terms(history, S, k)
           g == Terms(history, T, k)
           h == Terms(history, S \cup T, k)
<1>1. /\ n \in Nat /\ AddUp(S, k) = SumTo(f, n) /\ AddUp(T, k) = SumTo(g, n) /\ AddUp(S \cup T, k) = SumTo(h, n)
      /\ \A i \in 1..n : f[i] \in Int /\ g[i] \in Int
  BY TermsTyped
<1>2. \A i \in 1..n : h[i] = f[i] + g[i]
  <2> SUFFICES ASSUME NEW i \in 1..n PROVE h[i] = f[i] + g[i]
    OBVIOUS
  <2> DEFINE c == Contribution[history[i].type][k]
  <2>1. f[i] = (IF i \in S THEN c ELSE 0) /\ g[i] = (IF i \in T THEN c ELSE 0)
        /\ h[i] = (IF i \in S \cup T THEN c ELSE 0)
    BY DEF Terms
  <2> HIDE DEF c, f, g, h
  <2>2. f[i] \in Int /\ g[i] \in Int
    BY <1>1
  <2> QED BY <2>1, <2>2
<1> HIDE DEF n, f, g, h
<1> QED BY <1>1, <1>2, SumPlus

\* A set no transaction is in adds up to nothing.
LEMMA AddUpNone ==
  ASSUME LedgersTypeOK, NEW S, \A i \in 1..Len(history) : i \notin S, NEW k \in Fields
  PROVE  AddUp(S, k) = 0
<1>1. /\ Len(history) \in Nat /\ AddUp(S, k) = SumTo(Terms(history, S, k), Len(history))
      /\ \A i \in 1..Len(history) : Terms(history, S, k)[i] = 0
  BY TermsTyped DEF Terms
<1>2. \A i \in 1..Len(history) : Terms(history, S, k)[i] \in Int
  BY <1>1
<1>3. SumTo(Terms(history, S, k), Len(history)) = SumTo(Terms(history, S, k), 0)
  BY <1>1, <1>2, SumLonger
<1>4. SumTo(Terms(history, S, k), 0) = 0
  BY SumNext
<1> QED BY <1>1, <1>3, <1>4

\* Only the transactions there are count.
LEMMA AddUpSame ==
  ASSUME LedgersTypeOK, NEW S, NEW T, NEW k \in Fields,
         \A i \in 1..Len(history) : i \in S <=> i \in T
  PROVE  AddUp(S, k) = AddUp(T, k)
<1>1. /\ Len(history) \in Nat /\ AddUp(S, k) = SumTo(Terms(history, S, k), Len(history))
      /\ AddUp(T, k) = SumTo(Terms(history, T, k), Len(history))
      /\ \A i \in 1..Len(history) : Terms(history, S, k)[i] \in Int
  BY TermsTyped
<1>2. \A i \in 1..Len(history) : Terms(history, T, k)[i] = Terms(history, S, k)[i]
  BY DEF Terms
<1> QED BY <1>1, <1>2, SumSame

\* The flow of a period is that of its parts.
LEMMA FlowSplit ==
  ASSUME LedgersTypeOK, NEW s \in Nat, NEW m \in Nat, NEW e \in Nat, s <= m, m <= e, NEW k \in Fields
  PROVE  /\ Flow(s, e, k) = Flow(s, m, k) + Flow(m, e, k)
         /\ Flow(s, e, k) \in Int
<1>1. (s+1..m) \cap (m+1..e) = {} /\ (s+1..m) \cup (m+1..e) = s+1..e
  OBVIOUS
<1> QED BY <1>1, AddUpBoth, TermsTyped, SMTT(30) DEF Flow

\* A single transaction.
LEMMA FlowOne ==
  ASSUME LedgersTypeOK, NEW n \in 1..Len(history), NEW k \in Fields
  PROVE  Flow(n - 1, n, k) = Contribution[history[n].type][k]
<1>1. /\ Len(history) \in Nat /\ n - 1 + 1 = n
      /\ Flow(n - 1, n, k) = SumTo(Terms(history, n - 1 + 1..n, k), Len(history))
      /\ \A i \in 1..Len(history) : Terms(history, n - 1 + 1..n, k)[i] \in Int
  BY TermsTyped DEF Flow
<1>2. \A i \in 1..Len(history) : i # n => Terms(history, n - 1 + 1..n, k)[i] = 0
  BY <1>1 DEF Terms
<1>3. Terms(history, n - 1 + 1..n, k)[n] = Contribution[history[n].type][k]
  BY <1>1 DEF Terms
<1>4. SumTo(Terms(history, n - 1 + 1..n, k), Len(history)) = Terms(history, n - 1 + 1..n, k)[n]
  <2> DEFINE f == Terms(history, n - 1 + 1..n, k)
  <2>1. \A i \in 1..Len(history) : f[i] \in Int /\ (i # n => f[i] = 0)
    BY <1>1, <1>2
  <2> HIDE DEF f
  <2>2. n \in Int
    BY <1>1
  <2>3. SumTo(f, Len(history)) = IF n \in 1..Len(history) THEN f[n] ELSE 0
    BY <1>1, <2>1, <2>2, SumOne
  <2>4. SumTo(f, Len(history)) = f[n]
    BY <2>3
  <2> QED BY <2>4 DEF f
<1> QED BY <1>1, <1>3, <1>4

\* What the accounts' transactions of a period add up to is the flow of the
\* period: each belongs to one account.
LEMMA FlowOfAccounts ==
  ASSUME LedgersTypeOK, NEW s \in Nat, NEW e \in Nat, NEW k \in Fields
  PROVE  Total([a \in Reported |-> AddUp(Window(a, s, e), k)]) = AddUp({i \in s+1..e : history[i].account \in Reported}, k)
<1> DEFINE f == [a \in Reported |-> AddUp(Window(a, s, e), k)]
           Upto(n) == {i \in s+1..e : history[i].account \in 1..n}
           T == {n \in 0..N : SumTo(f, n) = AddUp(Upto(n), k)}
<1>1. N \in Nat /\ \A n \in 0..N : \A a \in 1..n : f[a] \in Int /\ f[a] = AddUp(Window(a, s, e), k)
  BY TermsTyped, NetFlowAssumption DEF Reported
<1>2. 0 \in T
  <2>1. \A i \in 1..Len(history) : i \notin Upto(0)
    OBVIOUS
  <2>2. AddUp(Upto(0), k) = 0
    BY <2>1, AddUpNone
  <2>3. SumTo(f, 0) = 0
    <3> HIDE DEF f
    <3> QED BY SumNext
  <2> QED BY <1>1, <2>2, <2>3
<1>3. ASSUME NEW n \in 0..N, n \in T, n < N PROVE n + 1 \in T
  <2>1. PICK m \in 1..N : m = n + 1
    BY <1>1, <1>3
  <2>2. SumTo(f, m) = SumTo(f, m - 1) + f[m] /\ m - 1 = n
    BY <1>1, <2>1, SumNext
  <2>3. AddUp(Upto(m), k) = AddUp(Upto(n), k) + AddUp(Window(m, s, e), k)
    <3>1. Upto(n) \cap Window(m, s, e) = {} /\ Upto(n) \cup Window(m, s, e) = Upto(m)
      BY <1>3, <2>1 DEF Window
    <3> HIDE DEF Upto
    <3> QED BY <3>1, AddUpBoth
  <2>4. f[m] = AddUp(Window(m, s, e), k)
    BY <1>1, <2>1
  <2>5. SumTo(f, n) = AddUp(Upto(n), k)
    BY <1>3
  <2>6. SumTo(f, m) = AddUp(Upto(m), k)
    <3> HIDE DEF f, Upto
    <3> QED BY <2>2, <2>3, <2>4, <2>5
  <2>7. m \in T
    <3> HIDE DEF f, Upto
    <3> QED BY <1>1, <2>1, <2>6
  <2> QED BY <2>1, <2>7
<1>4. T \subseteq 0..N
  OBVIOUS
<1> HIDE DEF T
<1>5. 0..N \subseteq T
  BY <1>1, <1>2, <1>3, Inductive
<1>6. N \in T
  BY <1>1, <1>5
<1> USE DEF T
<1> QED BY <1>6 DEF Total, Reported

LEMMA FlowByAccount ==
  ASSUME LedgersTypeOK, NEW s \in Nat, NEW e \in 0..Len(history), NEW k \in Fields
  PROVE  Total([a \in Reported |-> AddUp(Window(a, s, e), k)]) = Flow(s, e, k)
<1>1. \A i \in 1..Len(history) : history[i].account \in Reported
  <2>1. history \in Seq([account : Reported, type : Types])
    BY DEF LedgersTypeOK
  <2>2. \A i \in 1..Len(history) : history[i] \in [account : Reported, type : Types]
    BY <2>1, ElementOfSeq
  <2> QED BY <2>2
<1>2. {i \in s+1..e : history[i].account \in Reported} = s+1..e
  BY <1>1 DEF LedgersTypeOK
<1>3. e \in Nat
  BY DEF LedgersTypeOK
<1> QED BY <1>2, <1>3, FlowOfAccounts DEF Flow

-----------------------------------------------------------------------------
\* What the accounts are worth changes with their transactions and prices only.
LEMMA WorthMoves ==
  ASSUME NEW a \in Reported, NEW w \in [Reported -> Int], NEW x \in Int
  PROVE  Total([w EXCEPT ![a] = w[a] + x]) = Total(w) + x
<1> DEFINE v == [w EXCEPT ![a] = w[a] + x]
<1> DEFINE g == [b \in Reported |-> IF b = a THEN x ELSE 0]
<1>1. N \in Nat /\ Reported = 1..N
  BY NetFlowAssumption DEF Reported
<1>2. \A i \in 1..N : w[i] \in Int /\ g[i] \in Int /\ v[i] = w[i] + g[i]
  BY <1>1
<1>3. \A i \in 1..N : i # a => g[i] = 0
  BY <1>1
<1>4. a \in 1..N /\ g[a] = x
  BY <1>1
<1> HIDE DEF g, v
<1>5. SumTo(v, N) = SumTo(w, N) + SumTo(g, N)
  BY <1>1, <1>2, SumPlus
<1>6. SumTo(g, N) = x
  BY <1>1, <1>2, <1>3, <1>4, SumOne
<1>7. Total(v) = Total(w) + x
  BY <1>5, <1>6 DEF Total
<1> QED BY <1>7 DEF v

LEMMA FlowTyped == LedgersTypeOK => \A s \in Nat, e \in Nat, k \in Fields : Flow(s, e, k) \in Int
BY TermsTyped DEF Flow

LEMMA EarnedNext ==
  ASSUME LedgersTypeOK, NEW n \in 1..Len(history), NEW k \in Fields
  PROVE  Flow(0, n, k) = Flow(0, n - 1, k) + Contribution[history[n].type][k]
BY FlowSplit, FlowOne DEF LedgersTypeOK

OneByOne == \A n \in 1..Len(history), k \in Fields :
  Flow(0, n, k) = Flow(0, n - 1, k) + Contribution[history[n].type][k]

LEMMA EarnedOneByOne == LedgersTypeOK => OneByOne
BY EarnedNext DEF OneByOne

LEMMA FlowOfPast ==
  ASSUME LedgersTypeOK, LedgersTypeOK', HistoryGrows, NEW s \in Nat, NEW e \in 0..Len(history), NEW k \in Fields
  PROVE  Flow(s, e, k)' = Flow(s, e, k)
<1>1. s+1..e \in SUBSET (1..Len(history))
  BY DEF LedgersTypeOK
<1> QED BY <1>1, PastAddsUp DEF Flow

\* The accounts' worth stays what they earned, paid and what prices did.
LEMMA EarningsWorld ==
  ASSUME LedgersTypeOK, Earnings, WorldMoves
  PROVE  Earnings'
<1>1. LedgersTypeOK' /\ HistoryGrows
  BY WorldTyped
<1>2. PICK n \in Nat : n = Len(history)
  BY DEF LedgersTypeOK
<1>3. PICK e \in Int, f \in Int : /\ e = Flow(0, n, "external") /\ f = Flow(0, n, "net")
                                  /\ Flow(0, n, "external")' = e /\ Flow(0, n, "net")' = f
  <2>1. Flow(0, n, "external") \in Int /\ Flow(0, n, "net") \in Int
    BY FlowTyped DEF Fields
  <2>2. "external" \in Fields /\ "net" \in Fields /\ n \in 0..Len(history) /\ 0 \in Nat
    BY <1>2 DEF Fields
  <2>3. Flow(0, n, "external")' = Flow(0, n, "external") /\ Flow(0, n, "net")' = Flow(0, n, "net")
    BY <1>1, <2>2, FlowOfPast
  <2> QED BY <2>1, <2>3
<1>4. Total(worth) = moved + e + f /\ moved \in Int /\ worth \in [Reported -> Int] /\ worth' \in [Reported -> Int]
  BY <1>1, <1>2, <1>3 DEF Earnings, LedgersTypeOK
<1>5. ASSUME NEW m \in Nat, m \in 1..Len(history'), NEW k \in Fields
      PROVE  Flow(0, m, k)' = Flow(0, m - 1, k)' + Contribution[history'[m].type][k]
  <2>1. OneByOne'
    BY <1>1, EarnedOneByOne, PTL
  <2> QED BY <1>5, <2>1 DEF OneByOne
<1>6. Earnings' <=> Total(worth') = moved' + Flow(0, Len(history), "external")' + Flow(0, Len(history), "net")'
  BY DEF Earnings
<1>7. ASSUME NEW k \in Kinds, Transact(k[1], k[2]) PROVE Earnings'
  <2>1. k[1] \in Reported /\ k[2] \in Types
    BY NetFlowAssumption DEF Reported, Types, Contribution
  <2>2. PICK x \in Int, y \in Int : /\ x = Contribution[k[2]].external /\ y = Contribution[k[2]].net
    BY <2>1, ContributionTyped DEF Fields
  <2>3. /\ history' = Append(history, [account |-> k[1], type |-> k[2]]) /\ moved' = moved
        /\ worth' = [worth EXCEPT ![k[1]] = @ + (x + y)]
    BY <1>7, <2>2 DEF Transact, Worth
  <2>9. x + y \in Int /\ worth' = [worth EXCEPT ![k[1]] = worth[k[1]] + (x + y)]
    BY <2>3
  <2>4. Total(worth') = Total(worth) + (x + y)
    BY <1>4, <2>1, <2>9, WorthMoves
  <2>5. PICK m \in Nat : m = n + 1
    OBVIOUS
  <2>6. Len(history') = m /\ m \in 1..Len(history') /\ m - 1 = n /\ history'[m].type = k[2]
    BY <1>2, <2>3, <2>5 DEF LedgersTypeOK
  <2>7. Flow(0, m, "external")' = e + x /\ Flow(0, m, "net")' = f + y
    BY <1>3, <1>5, <2>2, <2>6 DEF Fields
  <2>8. Flow(0, Len(history), "external")' = e + x /\ Flow(0, Len(history), "net")' = f + y
    BY <2>6, <2>7
  <2> QED BY <1>4, <1>6, <2>3, <2>4, <2>8
<1>8. ASSUME NEW a \in Reported, NEW b \in Reported, TransferBetween(a, b) PROVE Earnings'
  <2> PICK c \in Int, d \in Int : c = 1 /\ d = 0 - 1
    OBVIOUS
  <2> DEFINE s == [account |-> a, type |-> "DEBITED"]
             r == [account |-> b, type |-> "CREDITED"]
             w == [worth EXCEPT ![a] = worth[a] + d]
  <2>1. history' = history \o <<s, r>> /\ moved' = moved /\ a # b
        /\ worth' = [worth EXCEPT ![a] = @ - 1, ![b] = @ + 1]
    BY <1>8 DEF TransferBetween
  <2>2. w \in [Reported -> Int] /\ worth' = [w EXCEPT ![b] = w[b] + c]
    <3>1. w \in [Reported -> Int] /\ w[b] = worth[b] /\ w[a] = worth[a] - 1
      BY <1>4, <2>1
    <3>2. \A j \in Reported : worth'[j] = [w EXCEPT ![b] = w[b] + c][j]
      BY <1>4, <2>1, <3>1
    <3> HIDE DEF w
    <3> QED BY <1>4, <3>1, <3>2
  <2>3. Total(w) = Total(worth) + d
    BY <1>4, WorthMoves
  <2>4. Total(worth') = Total(w) + c
    <3> HIDE DEF w
    <3> QED BY <2>2, WorthMoves
  <2>5. PICK m \in Nat, o \in Nat : m = n + 1 /\ o = n + 2
    OBVIOUS
  <2>6. /\ Len(history') = o /\ m \in 1..Len(history') /\ o \in 1..Len(history') /\ m - 1 = n /\ o - 1 = m
        /\ history'[m].type = "DEBITED" /\ history'[o].type = "CREDITED"
    <3>1. Len(history') = o /\ history'[m] = s /\ history'[o] = r
      <4> HIDE DEF s, r
      <4> QED BY <1>2, <2>1, <2>5 DEF LedgersTypeOK
    <3> QED BY <2>5, <3>1
  <2>7. /\ Contribution["DEBITED"]["external"] = -1 /\ Contribution["DEBITED"]["net"] = 0
        /\ Contribution["CREDITED"]["external"] = 1 /\ Contribution["CREDITED"]["net"] = 0
    BY DEF Contribution
  <2>8. Flow(0, m, "external")' = e - 1 /\ Flow(0, m, "net")' = f
    BY <1>3, <1>5, <2>6, <2>7 DEF Fields
  <2>9. Flow(0, o, "external")' = e /\ Flow(0, o, "net")' = f
    BY <1>5, <2>6, <2>7, <2>8, SMTT(30) DEF Fields
  <2>10. Flow(0, Len(history), "external")' = e /\ Flow(0, Len(history), "net")' = f
    BY <2>6, <2>9
  <2>11. Total(worth) \in Int
    BY <1>4
  <2> HIDE DEF w
  <2> QED BY <1>4, <1>6, <2>1, <2>3, <2>4, <2>10, <2>11
<1>9. ASSUME NEW a \in Reported, PriceMoves(a) PROVE Earnings'
  <2>1. history' = history /\ moved' = moved + 1 /\ worth' = [worth EXCEPT ![a] = @ + 1]
    BY <1>9 DEF PriceMoves
  <2>2. Total(worth') = Total(worth) + 1
    <3>1. PICK c \in Int : c = 1
      OBVIOUS
    <3>2. worth' = [worth EXCEPT ![a] = worth[a] + c]
      BY <2>1, <3>1
    <3>3. Total(worth') = Total(worth) + c
      BY <1>4, <3>2, WorthMoves, ZenonT(30)
    <3> QED BY <3>1, <3>3
  <2>3. Flow(0, Len(history), "external")' = e /\ Flow(0, Len(history), "net")' = f
    BY <1>2, <1>3, <2>1
  <2> QED BY <1>4, <1>6, <2>1, <2>2, <2>3
<1> QED BY <1>7, <1>8, <1>9 DEF WorldMoves

-----------------------------------------------------------------------------
Accounted == Earnings /\ Gathered /\ Counted

\* Steps that leave the accounts alone leave alone what they earned.
LEMMA EarningsStay ==
  ASSUME Earnings, UNCHANGED <<worth, history, moved>> PROVE Earnings'
BY DEF Earnings, Flow, AddUp

LEMMA CountedStays ==
  ASSUME LedgersTypeOK, Counted, UNCHANGED <<history, flows>>, outages' = outages \/ outages' = outages + 1
  PROVE  Counted'
<1>1. outages' = 0 => outages = 0
  BY DEF LedgersTypeOK
<1> QED BY <1>1 DEF Counted, Flow, AddUp

\* What a job collected of the past stays right while the accounts move on.
LEMMA AccountedWorld ==
  ASSUME LedgersTypeOK, Periods, Working, Accounted, WorldMoves
  PROVE  Accounted'
<1>1. LedgersTypeOK' /\ HistoryGrows /\ run' = Disturbed
      /\ UNCHANGED <<today, midnight, balances, flows, fetched, outages, torn>>
  BY WorldTyped
<1>2. Earnings'
  BY EarningsWorld DEF Accounted
<1>3. Len(history) \in Nat
  BY DEF LedgersTypeOK
<1>4. Counted'
  <2> SUFFICES ASSUME NEW e \in 1..Days, flows[e] # None
               PROVE  /\ outages = 0 =>
                           /\ flows[e].external = Flow(flows[e].start, flows[e].end, "external")'
                           /\ flows[e].net = Flow(flows[e].start, flows[e].end, "net")'
                      /\ flows[e].clean =>
                           flows[e].total = flows[e].prices + Flow(0, flows[e].end, "external")'
                                                            + Flow(0, flows[e].end, "net")'
    BY <1>1 DEF Counted
  <2>1. PICK s \in Nat, t \in Nat : s = flows[e].start /\ t = flows[e].end
    BY JobTyped DEF Entry
  <2>2. t \in 0..Len(history)
    <3>1. t <= balances[e].moment /\ balances[e].moment <= Len(history) /\ balances[e].moment \in Nat
      BY <2>1, RowsTotal DEF Periods
    <3> QED BY <1>3, <2>1, <3>1
  <2>3. \A k \in Fields : Flow(s, t, k)' = Flow(s, t, k) /\ Flow(0, t, k)' = Flow(0, t, k)
    BY <1>1, <2>2, FlowOfPast
  <2>4. /\ outages = 0 => /\ flows[e].external = Flow(s, t, "external")
                          /\ flows[e].net = Flow(s, t, "net")
        /\ flows[e].clean =>
             flows[e].total = flows[e].prices + Flow(0, t, "external") + Flow(0, t, "net")
    BY <2>1 DEF Accounted, Counted
  <2>5. /\ Flow(s, t, "external")' = Flow(s, t, "external") /\ Flow(s, t, "net")' = Flow(s, t, "net")
        /\ Flow(0, t, "external")' = Flow(0, t, "external") /\ Flow(0, t, "net")' = Flow(0, t, "net")
    BY <2>3 DEF Fields
  <2>6. /\ Flow(s, t, "external")' = Flow(flows[e].start, flows[e].end, "external")'
        /\ Flow(s, t, "net")' = Flow(flows[e].start, flows[e].end, "net")'
        /\ Flow(0, t, "external")' = Flow(0, flows[e].end, "external")'
        /\ Flow(0, t, "net")' = Flow(0, flows[e].end, "net")'
    BY <1>1, <2>1
  <2> QED BY <1>1, <2>4, <2>5, <2>6
<1>5. Gathered'
  <2>1. CASE run = None
    <3>1. run' = None
      BY <1>1, <2>1 DEF Disturbed
    <3> QED BY <1>1, <3>1 DEF Accounted, Gathered
  <2>2. CASE run # None
    <3>1. run \in Job /\ run' = [run EXCEPT !.clean = FALSE]
      BY <1>1, <2>2, JobTyped DEF Disturbed
    <3>2. ~run'.clean /\ run'.account = run.account /\ run'.start = run.start /\ run'.now = run.now
      BY <3>1 DEF Job
    <3>3. run.start \in Nat /\ run.now \in 0..Len(history)
      BY <1>3, <2>2, <3>1 DEF Working, Job
    <3>4. ASSUME NEW a \in Reported, NEW k \in Fields
          PROVE  AddUp(Window(a, run.start, run.now), k)' = AddUp(Window(a, run.start, run.now), k)
      <4>1. PICK s \in Nat, e \in 0..Len(history) : s = run.start /\ e = run.now /\ s = run'.start /\ e = run'.now
        BY <3>2, <3>3
      <4>2. PICK S \in SUBSET (1..Len(history)) : S = Window(a, s, e)
        <5>1. \A i \in s+1..e : i \in 1..Len(history)
          BY <1>3, <4>1
        <5>2. Window(a, s, e) \subseteq s+1..e
          BY DEF Window
        <5>3. Window(a, s, e) \in SUBSET (1..Len(history))
          BY <5>1, <5>2
        <5> QED BY <5>3
      <4>3. S = Window(a, s, e)'
        BY <1>1, <1>3, <4>1, <4>2 DEF Window, HistoryGrows
      <4>4. AddUp(S, k)' = AddUp(S, k)
        BY <1>1, PastAddsUp
      <4> QED BY <4>1, <4>2, <4>3, <4>4
    <3>5. ASSUME outages = 0, NEW a \in Reported, a < run.account
          PROVE  /\ fetched[a].external = AddUp(Window(a, run.start, run.now), "external")'
                 /\ fetched[a].net = AddUp(Window(a, run.start, run.now), "net")'
      BY <2>2, <3>4, <3>5 DEF Accounted, Gathered, Fields
    <3> QED BY <1>1, <3>2, <3>5 DEF Accounted, Gathered
  <2> QED BY <2>1, <2>2
<1> QED BY <1>2, <1>4, <1>5 DEF Accounted

LEMMA AccountedMidnight ==
  ASSUME LedgersTypeOK, Accounted, Midnight PROVE Accounted'
<1>1. run = None /\ UNCHANGED <<worth, history, moved, balances, flows, run, fetched, outages, torn>>
  BY DEF Midnight, world
<1>2. Earnings' /\ Counted'
  BY <1>1, EarningsStay, CountedStays DEF Accounted
<1> QED BY <1>1, <1>2 DEF Accounted, Gathered

LEMMA AccountedBegin ==
  ASSUME LedgersTypeOK, Accounted, Begin PROVE Accounted'
<1>1. UNCHANGED <<worth, history, moved, flows, outages, torn>>
  BY DEF Begin, world
<1>2. PICK p \in 0..Days : run' = NewJob(p)
  BY BeginsAt
<1>3. run'.now = Len(history) /\ run'.account = 1 /\ run'.step = "balance"
  BY <1>2 DEF NewJob
<1>4. Earnings' /\ Counted'
  BY <1>1, EarningsStay, CountedStays DEF Accounted
<1>5. \A a \in Reported : ~(a < 1)
  BY DEF Reported
<1> QED BY <1>1, <1>3, <1>4, <1>5 DEF Accounted, Gathered

LEMMA AccountedFetchBalance ==
  ASSUME LedgersTypeOK, Accounted, FetchBalance PROVE Accounted'
<1>1. /\ LedgersTypeOK' /\ run \in Job /\ run' \in Job /\ run.account \in Reported
      /\ run.step = "balance" /\ run'.step = "transactions"
      /\ \A k \in {"day", "now", "start", "previous", "total", "account"} : run'[k] = run[k]
      /\ UNCHANGED <<worth, history, moved, today, midnight, balances, flows, torn>>
      /\ \/ /\ fetched' = [fetched EXCEPT ![run.account].balance = worth[run.account]]
            /\ run'.clean = run.clean /\ outages' = outages
         \/ fetched' = fetched /\ ~run'.clean /\ outages' = outages + 1
  BY FetchBalanceTyped
<1>2. run # None /\ outages \in Nat /\ fetched \in [Reported -> Account]
  BY <1>1, SomeIsNotNone DEF LedgersTypeOK
<1>3. Earnings' /\ Counted'
  BY <1>1, EarningsStay, CountedStays DEF Accounted
<1>4. run'.now = run.now /\ run'.start = run.start /\ run'.account = run.account
  BY <1>1
<1>5. CASE /\ fetched' = [fetched EXCEPT ![run.account].balance = worth[run.account]]
           /\ run'.clean = run.clean /\ outages' = outages
  <2>1. \A a \in Reported : fetched'[a] = IF a = run.account THEN [fetched[a] EXCEPT !.balance = worth[a]]
                                          ELSE fetched[a]
    BY <1>1, <1>2, <1>5
  <2>2. \A a \in Reported : fetched'[a].external = fetched[a].external /\ fetched'[a].net = fetched[a].net
    BY <1>2, <2>1 DEF Account
  <2>3. \A a \in Reported : a # run.account => fetched'[a].balance = fetched[a].balance
    BY <2>1
  <2>4. fetched'[run.account].balance = worth[run.account]
    BY <1>1, <1>2, <2>1 DEF Account
  <2>5. ASSUME outages = 0, NEW a \in Reported, a < run.account
        PROVE  /\ fetched'[a].external = AddUp(Window(a, run.start, run.now), "external")'
               /\ fetched'[a].net = AddUp(Window(a, run.start, run.now), "net")'
    BY <1>1, <1>2, <1>4, <2>2, <2>5 DEF Accounted, Gathered, Window, AddUp
  <2>6. ASSUME run.clean
        PROVE  /\ run.now = Len(history)
               /\ \A a \in Reported : a < run.account \/ a = run.account => fetched'[a].balance = worth[a]
    <3>1. /\ run.now = Len(history)
          /\ \A a \in Reported : a < run.account => fetched[a].balance = worth[a]
      BY <1>2, <2>6 DEF Accounted, Gathered
    <3> QED BY <2>3, <2>4, <3>1
  <2>7. Gathered'
    BY <1>1, <1>4, <1>5, <2>5, <2>6 DEF Accounted, Gathered
  <2> QED BY <1>3, <2>7 DEF Accounted
<1>6. CASE fetched' = fetched /\ ~run'.clean /\ outages' = outages + 1
  <2>1. outages' # 0 /\ outages' > 0
    BY <1>2, <1>6
  <2>2. Gathered'
    BY <1>6, <2>1 DEF Gathered
  <2> QED BY <1>3, <2>2 DEF Accounted
<1> QED BY <1>1, <1>5, <1>6

LEMMA AccountedFetchTransactions ==
  ASSUME LedgersTypeOK, Accounted, FetchTransactions PROVE Accounted'
<1> DEFINE W == Window(run.account, run.start, run.now)
<1>1. /\ LedgersTypeOK' /\ run \in Job /\ run' \in Job /\ run.account \in Reported
      /\ run.step = "transactions" /\ run'.step \in {"balance", "balances"}
      /\ run'.account = run.account + 1
      /\ \A k \in {"day", "now", "start", "previous", "total"} : run'[k] = run[k]
      /\ UNCHANGED <<worth, history, moved, today, midnight, balances, flows, torn>>
      /\ \/ /\ fetched' = [fetched EXCEPT ![run.account].external = AddUp(W, "external"),
                                          ![run.account].net = AddUp(W, "net")]
            /\ run'.clean = run.clean /\ outages' = outages
         \/ fetched' = fetched /\ ~run'.clean /\ outages' = outages + 1
  BY FetchTransactionsTyped
<1> HIDE DEF W
<1>2. run # None /\ outages \in Nat /\ fetched \in [Reported -> Account]
  BY <1>1, SomeIsNotNone DEF LedgersTypeOK
<1>3. Earnings' /\ Counted'
  BY <1>1, EarningsStay, CountedStays DEF Accounted
<1>4. run'.now = run.now /\ run'.start = run.start
  BY <1>1
<1>5. CASE /\ fetched' = [fetched EXCEPT ![run.account].external = AddUp(W, "external"),
                                         ![run.account].net = AddUp(W, "net")]
           /\ run'.clean = run.clean /\ outages' = outages
  <2>1. \A a \in Reported : a # run.account => fetched'[a] = fetched[a]
    BY <1>1, <1>2, <1>5
  <2>2. /\ fetched'[run.account].balance = fetched[run.account].balance
        /\ fetched'[run.account].external = AddUp(W, "external")
        /\ fetched'[run.account].net = AddUp(W, "net")
    <3>1. fetched[run.account] \in Account
      BY <1>1, <1>2
    <3>2. fetched'[run.account] = [[fetched[run.account] EXCEPT !.external = AddUp(W, "external")]
                                     EXCEPT !.net = AddUp(W, "net")]
      BY <1>1, <1>2, <1>5
    <3> QED BY <3>1, <3>2 DEF Account
  <2>3. \A a \in Reported : a < run.account + 1 <=> a < run.account \/ a = run.account
    BY <1>1 DEF Reported
  <2>4. ASSUME outages = 0, NEW a \in Reported, a < run'.account
        PROVE  /\ fetched'[a].external = AddUp(Window(a, run.start, run.now), "external")'
               /\ fetched'[a].net = AddUp(Window(a, run.start, run.now), "net")'
    <3>1. /\ AddUp(Window(a, run.start, run.now), "external")' = AddUp(Window(a, run.start, run.now), "external")
          /\ AddUp(Window(a, run.start, run.now), "net")' = AddUp(Window(a, run.start, run.now), "net")
      BY <1>1, <1>4 DEF Window, AddUp
    <3>2. CASE a = run.account
      BY <2>2, <3>1, <3>2 DEF W
    <3>3. CASE a < run.account
      <4>1. a # run.account
        BY <1>1, <3>3 DEF Reported
      <4> QED BY <1>2, <2>1, <2>4, <3>1, <3>3, <4>1 DEF Accounted, Gathered
    <3> QED BY <1>1, <2>3, <2>4, <3>2, <3>3
  <2>5. ASSUME run.clean
        PROVE  /\ run.now = Len(history)
               /\ \A a \in Reported : a < run'.account => fetched'[a].balance = worth[a]
    <3>1. /\ run.now = Len(history)
          /\ \A a \in Reported : a < run.account \/ a = run.account => fetched[a].balance = worth[a]
      BY <1>1, <1>2, <2>5 DEF Accounted, Gathered
    <3> QED BY <1>1, <2>1, <2>2, <2>3, <3>1
  <2>6. Gathered'
    BY <1>1, <1>4, <1>5, <2>4, <2>5, ZenonT(30) DEF Accounted, Gathered
  <2> QED BY <1>3, <2>6 DEF Accounted
<1>6. CASE fetched' = fetched /\ ~run'.clean /\ outages' = outages + 1
  <2>1. outages' # 0 /\ outages' > 0
    BY <1>2, <1>6
  <2>2. Gathered'
    BY <1>6, <2>1 DEF Gathered
  <2> QED BY <1>3, <2>2 DEF Accounted
<1> QED BY <1>1, <1>5, <1>6

LEMMA AccountedSaveBalances ==
  ASSUME LedgersTypeOK, Accounted, SaveBalances PROVE Accounted'
<1>1. /\ run \in Job /\ run' \in Job /\ run'.step = "flows"
      /\ \A k \in {"day", "now", "start", "previous", "total", "account", "clean"} : run'[k] = run[k]
      /\ UNCHANGED <<worth, history, moved, flows, fetched, outages, torn>>
  BY SaveBalancesTyped
<1>2. run # None
  BY <1>1, SomeIsNotNone
<1>3. Earnings' /\ Counted'
  BY <1>1, EarningsStay, CountedStays DEF Accounted
<1>4. run'.now = run.now /\ run'.start = run.start /\ run'.account = run.account /\ run'.clean = run.clean
  BY <1>1
<1>5. Gathered'
  BY <1>1, <1>2, <1>4 DEF Accounted, Gathered, Window, AddUp
<1> QED BY <1>3, <1>5 DEF Accounted

LEMMA AccountedKill ==
  ASSUME LedgersTypeOK, Accounted, Kill PROVE Accounted'
<1>1. /\ run' = None /\ outages' = outages + 1
      /\ UNCHANGED <<worth, history, moved, flows>>
  BY KillTyped
<1>2. outages' > 0
  BY <1>1 DEF LedgersTypeOK
<1>3. Earnings' /\ Counted'
  BY <1>1, EarningsStay, CountedStays DEF Accounted
<1> QED BY <1>1, <1>2, <1>3 DEF Accounted, Gathered

\* The entry of a job sums up what it fetched of each account.
LEMMA AccountedSaveFlows ==
  ASSUME LedgersTypeOK, Working, Accounted, SaveFlows PROVE Accounted'
<1>1. /\ LedgersTypeOK' /\ run \in Job /\ run.step = "flows" /\ run.account = N + 1
      /\ run' = None /\ DayEntry \in Entry /\ flows' = [flows EXCEPT ![run.day] = DayEntry]
      /\ UNCHANGED <<worth, history, moved, today, midnight, balances, outages, torn>>
  BY SaveFlowsTyped
<1>2. run # None
  BY <1>1, SomeIsNotNone
<1>3. /\ run.day \in 1..Days /\ run.start \in Nat /\ run.now \in 0..Len(history) /\ N \in Nat
      /\ \A a \in Reported : a < N + 1
  BY <1>1, <1>2, NetFlowAssumption DEF Working, Job, LedgersTypeOK, Reported
<1>4. Earnings'
  BY <1>1, EarningsStay DEF Accounted
<1>5. Gathered'
  BY <1>1 DEF Accounted, Gathered
<1>6. PICK s \in Nat, e \in 0..Len(history) : s = run.start /\ e = run.now
  BY <1>3
<1>7. ASSUME outages = 0
      PROVE  DayEntry.external = Flow(s, e, "external") /\ DayEntry.net = Flow(s, e, "net")
  <2>1. \A a \in Reported : /\ fetched[a].external = AddUp(Window(a, s, e), "external")
                            /\ fetched[a].net = AddUp(Window(a, s, e), "net")
    BY <1>1, <1>2, <1>3, <1>6, <1>7 DEF Accounted, Gathered
  <2>2. [a \in Reported |-> fetched[a].external] = [a \in Reported |-> AddUp(Window(a, s, e), "external")]
        /\ [a \in Reported |-> fetched[a].net] = [a \in Reported |-> AddUp(Window(a, s, e), "net")]
    BY <2>1
  <2>3. Sum("external") = Total([a \in Reported |-> fetched[a].external])
        /\ Sum("net") = Total([a \in Reported |-> fetched[a].net])
    BY DEF Sum
  <2>4. /\ Total([a \in Reported |-> AddUp(Window(a, s, e), "external")]) = Flow(s, e, "external")
        /\ Total([a \in Reported |-> AddUp(Window(a, s, e), "net")]) = Flow(s, e, "net")
    BY FlowByAccount DEF Fields
  <2>5. DayEntry.external = Sum("external") /\ DayEntry.net = Sum("net")
    BY DEF DayEntry
  <2> QED BY <2>2, <2>3, <2>4, <2>5
<1>8. ASSUME run.clean
      PROVE  DayEntry.total = DayEntry.prices + Flow(0, e, "external") + Flow(0, e, "net")
  <2>1. \A a \in Reported : fetched[a].balance = worth[a]
    BY <1>1, <1>2, <1>3, <1>8 DEF Accounted, Gathered
  <2>2. worth = [a \in Reported |-> fetched[a].balance]
    BY <2>1 DEF LedgersTypeOK
  <2>3. Sum("balance") = Total(worth)
    BY <2>2 DEF Sum
  <2>4. e = Len(history)
    BY <1>2, <1>6, <1>8 DEF Accounted, Gathered
  <2> QED BY <2>3, <2>4 DEF DayEntry, Accounted, Earnings
<1>9. DayEntry.start = s /\ DayEntry.end = e /\ DayEntry.clean = run.clean
  BY <1>6 DEF DayEntry
<1>10. flows'[run.day] = DayEntry /\ \A d \in 1..Days : d # run.day => flows'[d] = flows[d]
  BY <1>1, <1>3 DEF LedgersTypeOK
<1>11. Counted'
  <2> SUFFICES ASSUME NEW d \in 1..Days, flows'[d] # None
               PROVE  /\ outages = 0 =>
                           /\ flows'[d].external = Flow(flows'[d].start, flows'[d].end, "external")
                           /\ flows'[d].net = Flow(flows'[d].start, flows'[d].end, "net")
                      /\ flows'[d].clean =>
                           flows'[d].total = flows'[d].prices + Flow(0, flows'[d].end, "external")
                                                              + Flow(0, flows'[d].end, "net")
    BY <1>1 DEF Counted, Flow, AddUp
  <2>1. CASE d = run.day
    BY <1>7, <1>8, <1>9, <1>10, <2>1
  <2>2. CASE d # run.day
    BY <1>10, <2>2 DEF Accounted, Counted
  <2> QED BY <2>1, <2>2
<1> QED BY <1>4, <1>5, <1>11 DEF Accounted

\* Where nothing failed the components are those of the period, and what is left
\* between two undisturbed jobs is what prices did.
LEMMA AccountedInventory ==
  ASSUME LedgersTypeOK, Periods, Entries, Together, Accounted
  PROVE  InventoryIsPrices
<1> SUFFICES ASSUME outages = 0, NEW e \in 1..Days, flows[e] # None
             PROVE  /\ flows[e].external = Flow(flows[e].start, flows[e].end, "external")
                    /\ flows[e].net = Flow(flows[e].start, flows[e].end, "net")
                    /\ ~flows[e].first /\ flows[e].clean /\ flows[flows[e].previous].clean =>
                         flows[e].inventory = flows[e].prices - flows[flows[e].previous].prices
  BY DEF InventoryIsPrices
<1>1. /\ flows[e].external = Flow(flows[e].start, flows[e].end, "external")
      /\ flows[e].net = Flow(flows[e].start, flows[e].end, "net")
  BY DEF Accounted, Counted
<1>2. ASSUME ~flows[e].first, flows[e].clean, flows[flows[e].previous].clean
      PROVE  flows[e].inventory = flows[e].prices - flows[flows[e].previous].prices
  <2>1. ~torn
    BY DEF Accounted, Gathered
  <2>2. PICK d \in 0..Days : d = flows[e].previous
    BY JobTyped DEF Entry
  <2>3. /\ d # 0 /\ d < e /\ balances[d] # None
        /\ flows[e].inventory = flows[e].delta - flows[e].external - flows[e].net
    BY <1>2, <2>2 DEF Entries, Follows
  <2>4. e <= today /\ today \in 1..Days
    BY DEF Periods, LedgersTypeOK
  <2>5. d \in 1..Days /\ d # today
    BY <2>3, <2>4
  <2>6. flows[d] # None
    BY <2>1, <2>3, <2>5 DEF Together
  <2>7. /\ flows[e].start = flows[d].end
        /\ flows[e].total - flows[e].delta = flows[d].total
    BY <1>2, <2>1, <2>2, PeriodsChain DEF Contiguous
  <2>8. PICK s \in Nat, t \in Nat : s = flows[e].start /\ t = flows[e].end /\ s <= t
    BY JobTyped DEF Entry, Periods
  <2>9. /\ flows[e].total = flows[e].prices + Flow(0, t, "external") + Flow(0, t, "net")
        /\ flows[d].total = flows[d].prices + Flow(0, s, "external") + Flow(0, s, "net")
    BY <1>2, <2>2, <2>5, <2>6, <2>7, <2>8 DEF Accounted, Counted
  <2>10. /\ Flow(0, t, "external") = Flow(0, s, "external") + Flow(s, t, "external")
         /\ Flow(0, t, "net") = Flow(0, s, "net") + Flow(s, t, "net")
    <3>1. "external" \in Fields /\ "net" \in Fields /\ 0 \in Nat /\ 0 <= s
      BY DEF Fields
    <3>2. PICK z \in Nat : z = 0
      OBVIOUS
    <3>3. z <= s /\ s <= t
      BY <2>8, <3>2
    <3>4. \A k \in Fields : Flow(z, t, k) = Flow(z, s, k) + Flow(s, t, k)
      BY <3>3, FlowSplit
    <3> QED BY <3>1, <3>2, <3>4
  <2>11. /\ Flow(0, s, "external") \in Int /\ Flow(s, t, "external") \in Int
         /\ Flow(0, s, "net") \in Int /\ Flow(s, t, "net") \in Int
    BY FlowTyped DEF Fields
  <2>12. /\ flows[e].total \in Int /\ flows[e].delta \in Int /\ flows[e].prices \in Int
         /\ flows[d].total \in Int /\ flows[d].prices \in Int
    BY <2>5, <2>6, JobTyped DEF Entry
  <2>13. flows[e].external = Flow(s, t, "external") /\ flows[e].net = Flow(s, t, "net")
    BY <1>1, <2>8
  <2> QED BY <2>2, <2>3, <2>7, <2>9, <2>10, <2>11, <2>12, <2>13
<1> QED BY <1>1, <1>2

-----------------------------------------------------------------------------
\* Some days have a first and a last one.
LEMMA FirstAndLast ==
  ASSUME NEW n \in Nat, NEW D \in SUBSET (1..n), D # {}
  PROVE  /\ \E d \in D : \A e \in D : d <= e
         /\ \E d \in D : \A e \in D : e <= d
<1>1. \E d \in D : \A e \in D : d <= e
  <2>1. D \in SUBSET Nat
    OBVIOUS
  <2> QED BY <2>1, Least
<1>2. \E d \in D : \A e \in D : e <= d
  <2> DEFINE T == {n - e : e \in D}
  <2>1. T \in SUBSET Nat /\ T # {}
    <3>1. \A e \in D : n - e \in Nat
      OBVIOUS
    <3> QED BY <3>1
  <2> HIDE DEF T
  <2>2. PICK t \in T : \A u \in T : t <= u
    BY <2>1, Least
  <2> USE DEF T
  <2>3. PICK d \in D : t = n - d
    BY <2>2
  <2>4. \A e \in D : n - e \in T
    OBVIOUS
  <2>5. \A e \in D : n - d <= n - e
    <3> HIDE DEF T
    <3> QED BY <2>2, <2>3, <2>4
  <2> HIDE DEF T
  <2>6. ASSUME NEW e \in D PROVE e <= d
    <3>1. n \in Int /\ d \in Int /\ e \in Int
      OBVIOUS
    <3>2. n - d <= n - e
      BY <2>5
    <3> QED BY <3>1, <3>2
  <2> QED BY <2>6
<1> QED BY <1>1, <1>2

DaysFlow(D, k) == [d \in 1..Days |-> IF d \in Recorded(D) THEN flows[d][k] ELSE 0]

LEMMA DaysFlowTyped ==
  ASSUME LedgersTypeOK, NEW D \in SUBSET (1..Days), NEW k \in {"delta", "external", "net", "inventory"}
  PROVE  /\ \A d \in 1..Days : DaysFlow(D, k)[d] \in Int
         /\ AddDays(D, k) = SumTo(DaysFlow(D, k), Days)
         /\ AddDays(D, k) \in Int
<1>1. \A d \in Recorded(D) : flows[d][k] \in Int
  BY JobTyped DEF Recorded, Entry
<1>2. \A d \in 1..Days : DaysFlow(D, k)[d] \in Int
  BY <1>1 DEF DaysFlow
<1>3. AddDays(D, k) = SumTo(DaysFlow(D, k), Days)
  BY DEF AddDays, DaysFlow
<1> QED BY <1>2, <1>3, SumNext, NetFlowAssumption

\* The differences of a month add up to the one from its opening to its last
\* total: each day starts from the total of the one before it.
LEMMA DifferencesAddUp ==
  ASSUME LedgersTypeOK, Periods, Entries, Together, ~torn,
         NEW a \in 1..Days, NEW b \in 1..Days, Recorded(a..b) # {},
         \A d \in Recorded(a..b) : ~flows[d].first
  PROVE  AddDays(a..b, "delta") = flows[LastOf(a..b)].total - Opening(a..b)
<1> DEFINE R == Recorded(a..b)
           F == FirstOf(a..b)
           L == LastOf(a..b)
           f == DaysFlow(a..b, "delta")
           base == Opening(a..b)
<1>1. Days \in Nat /\ a..b \in SUBSET (1..Days) /\ R \in SUBSET (1..Days) /\ today \in 1..Days
  BY NetFlowAssumption DEF Recorded, LedgersTypeOK
<1>2. F \in R /\ \A e \in R : F <= e
  BY <1>1, FirstAndLast DEF FirstOf
<1>3. L \in R /\ \A e \in R : e <= L
  BY <1>1, FirstAndLast DEF LastOf
<1>4. \A d \in R : d \in a..b /\ flows[d] # None /\ d \in 1..Days /\ d <= today
  BY <1>1 DEF Recorded, Periods
<1>5. base = Total(balances[flows[F].previous].rows)
  BY DEF Opening
<1>6. \A d \in 1..Days : f[d] \in Int /\ f[d] = IF d \in R THEN flows[d].delta ELSE 0
  BY <1>1, DaysFlowTyped DEF DaysFlow
<1>7. ASSUME NEW m \in R
      PROVE  \E p \in 1..m-1 :
               /\ p = flows[m].previous /\ flows[p] # None /\ flows[p].total = Total(balances[p].rows)
               /\ flows[m].total - flows[m].delta = Total(balances[p].rows)
               /\ \A q \in p+1..m-1 : flows[q] = None
  <2>1. PICK p \in 0..Days : p = flows[m].previous
    BY <1>4, JobTyped DEF Entry
  <2>2. ~flows[m].first
    OBVIOUS
  <2>3. /\ p # 0 /\ p < m /\ balances[p] # None
        /\ flows[m].total - flows[m].delta = Total(balances[p].rows)
        /\ \A q \in p+1..m-1 : balances[q] = None
    BY <1>4, <2>1, <2>2 DEF Entries, Follows
  <2>4. p \in 1..m-1 /\ m \in 1..Days /\ m <= today
    BY <1>4, <2>3
  <2>5. \A q \in 1..m-1 : q \in 1..Days /\ q # today
    BY <1>1, <2>4
  <2>6. \A q \in 1..m-1 : /\ balances[q] # None <=> flows[q] # None
                          /\ flows[q] # None => flows[q].total = Total(balances[q].rows)
    BY <2>5 DEF Together
  <2>7. \A q \in p+1..m-1 : q \in 1..m-1
    BY <2>4
  <2> QED BY <2>1, <2>3, <2>4, <2>6, <2>7
<1>8. \A d \in R : flows[d].total \in Int /\ flows[d].delta \in Int
  BY <1>4, JobTyped DEF Entry
<1> HIDE DEF R, F, L, f, base
<1> DEFINE T == {n \in 0..Days :
                   /\ n < F => SumTo(f, n) = 0
                   /\ \A l \in R : l <= n /\ (\A q \in R : q <= n => q <= l) =>
                        SumTo(f, n) = flows[l].total - base}
<1>9. 0 \in T
  <2>1. SumTo(f, 0) = 0
    BY SumNext
  <2>2. \A l \in R : ~(l <= 0)
    BY <1>4
  <2> QED BY <1>1, <2>1, <2>2
<1>10. ASSUME NEW n \in 0..Days, n \in T, n < Days PROVE n + 1 \in T
  <2>1. PICK m \in 1..Days : m = n + 1
    BY <1>1, <1>10
  <2>2. \A i \in 1..m : f[i] \in Int
    BY <1>1, <1>6, <2>1
  <2>3. SumTo(f, m) = SumTo(f, n) + f[m] /\ SumTo(f, n) \in Int
    <3>1. \A i \in 1..n : f[i] \in Int
      BY <2>1, <2>2
    <3>2. m \in Nat /\ m > 0 /\ m - 1 = n
      BY <2>1
    <3>3. SumTo(f, m) = SumTo(f, m - 1) + f[m]
      BY <2>2, <3>2, SumNext
    <3> QED BY <3>1, <3>2, <3>3, SumNext
  <2>4. CASE m \notin R
    <3>1. SumTo(f, m) = SumTo(f, n)
      BY <1>6, <2>1, <2>3, <2>4
    <3>2. m < F => n < F
      BY <1>2, <1>4, <2>1
    <3>3. \A q \in R : q <= m <=> q <= n
      BY <1>4, <2>1, <2>4
    <3> QED BY <1>10, <2>1, <3>1, <3>2, <3>3
  <2>5. CASE m \in R
    <3>1. ~(m < F)
      BY <1>2, <1>4, <2>5
    <3>2. f[m] = flows[m].delta
      BY <1>6, <2>5
    <3>3. PICK p \in 1..m-1 :
               /\ p = flows[m].previous /\ flows[p] # None /\ flows[p].total = Total(balances[p].rows)
               /\ flows[m].total - flows[m].delta = Total(balances[p].rows)
               /\ \A q \in p+1..m-1 : flows[q] = None
      BY <1>7, <2>5
    <3>4. SumTo(f, m) = flows[m].total - base
      <4>1. CASE m = F
        <5>1. SumTo(f, n) = 0
          BY <1>10, <2>1, <4>1
        <5>2. base = Total(balances[p].rows)
          BY <1>5, <3>3, <4>1
        <5> QED BY <1>8, <2>3, <2>5, <3>2, <3>3, <5>1, <5>2
      <4>2. CASE m # F
        <5>1. F \in 1..m-1
          BY <1>2, <1>4, <2>5, <4>2
        <5>2. F <= p
          <6>1. flows[F] # None
            BY <1>2, <1>4
          <6> QED BY <3>3, <5>1, <6>1
        <5>3. p \in R
          <6>1. p \in a..b
            BY <1>1, <1>2, <1>4, <2>5, <5>2
          <6> QED BY <3>3, <6>1 DEF R, Recorded
        <5>4. p <= n /\ \A q \in R : q <= n => q <= p
          <6>1. ASSUME NEW q \in R, q <= n, q > p PROVE FALSE
            <7>1. q \in p+1..m-1
              BY <1>4, <2>1, <6>1
            <7> QED BY <1>4, <3>3, <7>1
          <6> QED BY <1>4, <2>1, <6>1
        <5>5. SumTo(f, n) = flows[p].total - base
          BY <1>10, <5>3, <5>4
        <5>6. flows[p].total \in Int /\ flows[m].total \in Int /\ flows[m].delta \in Int
          BY <1>8, <2>5, <5>3
        <5>7. base \in Int
          <6>1. PICK g \in 1..F-1 : g = flows[F].previous /\ flows[F].total - flows[F].delta = Total(balances[g].rows)
            BY <1>2, <1>7
          <6>2. base = flows[F].total - flows[F].delta
            BY <1>5, <6>1
          <6> QED BY <1>2, <1>8, <6>2
        <5>8. PICK x \in Int, y \in Int, z \in Int, c \in Int :
                x = flows[p].total /\ y = flows[m].total /\ z = flows[m].delta /\ c = base
          BY <5>6, <5>7
        <5>9. SumTo(f, n) = x - c /\ f[m] = z /\ y - z = x
          BY <3>2, <3>3, <5>5, <5>8
        <5>10. SumTo(f, m) = y - c
          BY <2>3, <5>9
        <5> QED BY <5>8, <5>10
      <4> QED BY <4>1, <4>2
    <3>5. \A l \in R : l <= m /\ (\A q \in R : q <= m => q <= l) => l = m
      BY <1>4, <2>5
    <3>6. m \in T
      BY <2>1, <3>1, <3>4, <3>5
    <3> QED BY <2>1, <3>6
  <2> QED BY <2>4, <2>5
<1> HIDE DEF T
<1>11. Days \in T
  <2>1. 0..Days \subseteq T
    BY <1>1, <1>9, <1>10, Inductive
  <2> QED BY <1>1, <2>1
<1>12. SumTo(f, Days) = flows[L].total - base
  <2>1. L <= Days
    BY <1>3, <1>4
  <2> QED BY <1>3, <1>11, <2>1 DEF T
<1>13. AddDays(a..b, "delta") = SumTo(f, Days)
  BY <1>1, DaysFlowTyped DEF f
<1> QED BY <1>12, <1>13 DEF L, base

\* So a month's inventory movement is the sum of its days'.
LEMMA MonthAddsUp ==
  ASSUME LedgersTypeOK, Periods, Entries, Together
  PROVE  MonthIsItsDays
<1> SUFFICES ASSUME ~torn, NEW a \in 1..Days, NEW b \in 1..Days,
                    Compiles(a..b), \A d \in Recorded(a..b) : ~flows[d].first
             PROVE  MonthInventory(a..b) = AddDays(a..b, "inventory")
  BY DEF MonthIsItsDays
<1> DEFINE D == a..b
           f(k) == DaysFlow(D, k)
           g == [d \in 1..Days |-> DaysFlow(D, "external")[d] + DaysFlow(D, "net")[d]]
<1>1. Days \in Nat /\ D \in SUBSET (1..Days)
  BY NetFlowAssumption
<1> HIDE DEF D
<1>2. \A k \in {"delta", "external", "net", "inventory"} :
        /\ \A d \in 1..Days : DaysFlow(D, k)[d] \in Int
        /\ AddDays(D, k) = SumTo(DaysFlow(D, k), Days) /\ AddDays(D, k) \in Int
  BY <1>1, DaysFlowTyped
<1>3. \A d \in 1..Days : g[d] \in Int /\ g[d] = DaysFlow(D, "external")[d] + DaysFlow(D, "net")[d]
  BY <1>2
<1>4. \A d \in 1..Days : DaysFlow(D, "delta")[d] = DaysFlow(D, "inventory")[d] + g[d]
  <2> SUFFICES ASSUME NEW d \in 1..Days
               PROVE  DaysFlow(D, "delta")[d] = DaysFlow(D, "inventory")[d] + g[d]
    OBVIOUS
  <2>1. CASE d \in Recorded(D)
    <3>1. flows[d] # None /\ ~flows[d].first
      BY <2>1 DEF Recorded, D
    <3>2. flows[d].inventory = flows[d].delta - flows[d].external - flows[d].net
      BY <3>1 DEF Entries
    <3>3. flows[d].delta \in Int /\ flows[d].external \in Int /\ flows[d].net \in Int
      BY <3>1, JobTyped DEF Entry
    <3>4. /\ DaysFlow(D, "delta")[d] = flows[d].delta /\ DaysFlow(D, "inventory")[d] = flows[d].inventory
          /\ DaysFlow(D, "external")[d] = flows[d].external /\ DaysFlow(D, "net")[d] = flows[d].net
      BY <2>1 DEF DaysFlow
    <3> QED BY <1>3, <3>2, <3>3, <3>4
  <2>2. CASE d \notin Recorded(D)
    <3>1. \A k \in {"delta", "external", "net", "inventory"} : DaysFlow(D, k)[d] = 0
      BY <2>2 DEF DaysFlow
    <3> QED BY <1>3, <3>1
  <2> QED BY <2>1, <2>2
<1> HIDE DEF g
<1>5. SumTo(g, Days) = SumTo(DaysFlow(D, "external"), Days) + SumTo(DaysFlow(D, "net"), Days)
  BY <1>1, <1>2, <1>3, SumPlus
<1>6. SumTo(DaysFlow(D, "delta"), Days) = SumTo(DaysFlow(D, "inventory"), Days) + SumTo(g, Days)
  BY <1>1, <1>2, <1>3, <1>4, SumPlus
<1>7. AddDays(D, "delta") = flows[LastOf(D)].total - Opening(D)
  BY DifferencesAddUp DEF Compiles, D
<1>8. MonthInventory(D) = AddDays(D, "delta") - AddDays(D, "external") - AddDays(D, "net")
  BY <1>7 DEF MonthInventory
<1>9. MonthInventory(D) = AddDays(D, "inventory")
  BY <1>2, <1>5, <1>6, <1>8
<1> QED BY <1>9 DEF D

-----------------------------------------------------------------------------
LedgersInv == LedgersTypeOK /\ Periods /\ Entries /\ Working /\ Together /\ Accounted

LEMMA LedgersInit == ReportInit => LedgersInv
<1> SUFFICES ASSUME ReportInit PROVE LedgersInv
  OBVIOUS
<1>1. LedgersTypeOK
  BY ReportTyped
<1>2. Periods /\ Entries /\ Working /\ Together
  BY DEF ReportInit, Periods, Entries, Working, Together
<1>3. Earnings
  <2>1. Total(worth) = 0
    <3>1. N \in Nat /\ \A a \in 1..N : worth[a] = 0
      BY NetFlowAssumption DEF ReportInit, Reported
    <3>2. \A a \in 1..N : worth[a] \in Int
      BY <3>1
    <3>3. SumTo(worth, N) = SumTo(worth, 0) /\ SumTo(worth, 0) = 0
      BY <3>1, <3>2, SumLonger, SumNext
    <3> QED BY <3>3 DEF Total
  <2>2. \A k \in Fields : Flow(0, Len(history), k) = 0
    <3>1. Len(history) = 0
      BY DEF ReportInit
    <3>2. \A k \in Fields : \A S : AddUp(S, k) = 0
      BY <1>1, <3>1, AddUpNone
    <3> QED BY <3>2 DEF Flow
  <2> QED BY <2>1, <2>2 DEF ReportInit, Earnings, Fields
<1>4. Gathered /\ Counted
  BY DEF ReportInit, Gathered, Counted
<1> QED BY <1>1, <1>2, <1>3, <1>4 DEF LedgersInv, Accounted

LEMMA LedgersStep == LedgersInv /\ [ReportNext]_reportVars => LedgersInv'
<1> SUFFICES ASSUME LedgersInv, [ReportNext]_reportVars PROVE LedgersInv'
  OBVIOUS
<1> USE DEF LedgersInv
<1>1. CASE WorldMoves
  BY <1>1, WorldTyped, PeriodsWorld, AccountedWorld
<1>2. CASE Midnight
  BY <1>2, MidnightTyped, PeriodsMidnight, AccountedMidnight
<1>3. CASE Begin
  BY <1>3, BeginTyped, PeriodsBegin, AccountedBegin
<1>4. CASE FetchBalance
  BY <1>4, FetchBalanceTyped, PeriodsFetch, AccountedFetchBalance
<1>5. CASE FetchTransactions
  BY <1>5, FetchTransactionsTyped, PeriodsFetch, AccountedFetchTransactions
<1>6. CASE SaveBalances
  BY <1>6, SaveBalancesTyped, PeriodsSaveBalances, AccountedSaveBalances
<1>7. CASE SaveFlows
  BY <1>7, SaveFlowsTyped, PeriodsSaveFlows, AccountedSaveFlows
<1>8. CASE Kill
  BY <1>8, KillTyped, PeriodsKill, AccountedKill
<1>9. CASE UNCHANGED reportVars
  <2>1. UNCHANGED <<worth, history, moved, today, midnight, balances, flows, run, fetched, outages, torn>>
    BY <1>9 DEF reportVars, world
  <2>2. LedgersTypeOK'
    BY <2>1 DEF LedgersTypeOK
  <2>3. Periods' /\ Entries' /\ Working' /\ Together'
    BY <2>1 DEF Periods, Entries, Follows, Working, Together, At
  <2>4. Earnings' /\ Counted'
    BY <2>1, EarningsStay, CountedStays DEF Accounted
  <2>5. Gathered'
    BY <2>1 DEF Accounted, Gathered, AddUp, Window
  <2> QED BY <2>2, <2>3, <2>4, <2>5 DEF Accounted
<1> QED BY <1>1, <1>2, <1>3, <1>4, <1>5, <1>6, <1>7, <1>8, <1>9 DEF ReportNext, WorldMoves

LEMMA LedgersChained == LedgersInv => LedgersChain
BY PeriodsChain, AccountedInventory, MonthAddsUp DEF LedgersInv, LedgersChain

-----------------------------------------------------------------------------
(* The scripts that move USDT.                                             *)

\* Transfers between two accounts.
Sends == {t \in [from : Accounts, to : Accounts, amount : Nat] : t.from # t.to}

Planned == /\ plan \in [Scripts -> Seq(Sends)]
           /\ \A s \in Scripts : Len(got[s]) <= Len(Reads[s])

\* What a script under which nothing changed has read is still there.
ReadIsThere ==
  \A s \in Scripts : phase[s] = "read" /\ Sound(s) =>
    \A k \in 1..Len(got[s]) : got[s][k] = usdt[Reads[s][k]]

\* What rebalance_usdt has still to do is what it would decide now.
SplitDue ==
  phase["split"] = "move" /\ Sound("split") =>
    plan["split"] = <<>> \/ plan["split"] = SplitPlan(<<usdt["CM1"], usdt["CM2"]>>)

\* What daily_fund_check has still to send: one transfer for an account, which
\* needs it, and all of them leave the main account its buffer.
Dues == [Accounts \ {"main"} -> Nat]
Owes(p, due) ==
  /\ \A i \in 1..Len(p) : /\ p[i].from = "main" /\ p[i].amount = due[p[i].to]
                          /\ usdt[p[i].to] + p[i].amount <= Needed(p[i].to) + 1
                          /\ \A j \in 1..Len(p) : i # j => p[i].to # p[j].to
  /\ usdt["main"] - (due["CM1"] + due["CM2"] + due["CMS1"] + due["CMS2"]) >= MainMin - 2

DailyDue ==
  phase["daily"] = "move" /\ Sound("daily") /\ plan["daily"] # <<>> =>
    \E due \in Dues : Owes(plan["daily"], due)

FundsInv == FundingTypeOK /\ Planned /\ ReadIsThere /\ SplitDue /\ DailyDue

\* The accounts the scripts read.
LEMMA ReadsAre ==
  /\ Reads["split"] = <<"CM1", "CM2">> /\ Reads["fund"] = <<"main">>
  /\ Reads["opening"] = <<"CM1", "CM2", "CMS1", "CMS2">>
  /\ Reads["daily"] \in Seq(Accounts) /\ Len(Reads["daily"]) = 5
  /\ Reads["daily"][1] = "main" /\ \A i \in 1..4 : Reads["daily"][i + 1] = Subs[i]
  /\ \A s \in Scripts : Reads[s] \in Seq(Accounts)
<1>1. Reads["daily"] = <<"main">> \o Subs
  BY DEF Reads
<1>2. <<"main">> \in Seq(Accounts) /\ Subs \in Seq(Accounts) /\ Len(<<"main">>) = 1 /\ Len(Subs) = 4
  BY DEF Subs, Accounts
<1>3. PICK u \in Seq(Accounts), v \in Seq(Accounts) :
        /\ u = <<"main">> /\ v = Subs /\ Len(u) = 1 /\ Len(v) = 4 /\ u[1] = "main"
  BY <1>2
<1>4. /\ u \o v \in Seq(Accounts) /\ Len(u \o v) = 5
      /\ (u \o v)[1] = "main" /\ \A i \in 1..4 : (u \o v)[i + 1] = v[i]
  <2>1. /\ u \o v \in Seq(Accounts) /\ Len(u \o v) = Len(u) + Len(v)
        /\ \A i \in 1..Len(u) + Len(v) : (u \o v)[i] = IF i <= Len(u) THEN u[i] ELSE v[i - Len(u)]
    BY <1>3, ConcatProperties, ZenonT(30)
  <2>2. 1 \in 1..5 /\ \A i \in 1..4 : i + 1 \in 1..5 /\ ~(i + 1 <= 1) /\ (i + 1) - 1 = i
    OBVIOUS
  <2> QED BY <1>3, <2>1, <2>2
<1>5. Reads["split"] = <<"CM1", "CM2">> /\ Reads["fund"] = <<"main">> /\ Reads["opening"] = Subs
  BY DEF Reads
<1>6. <<"CM1", "CM2">> \in Seq(Accounts) /\ <<"main">> \in Seq(Accounts)
  BY DEF Accounts
<1>7. \A s \in Scripts : Reads[s] \in Seq(Accounts)
  <2>1. Reads["daily"] \in Seq(Accounts) /\ Reads["split"] \in Seq(Accounts)
        /\ Reads["fund"] \in Seq(Accounts) /\ Reads["opening"] \in Seq(Accounts)
    BY <1>1, <1>2, <1>3, <1>4, <1>5, <1>6
  <2> QED BY <2>1 DEF Scripts
<1> QED BY <1>1, <1>3, <1>4, <1>5, <1>7, Zenon DEF Subs

\* Sums that are rounded to the cent.
LEMMA Rounded ==
  ASSUME NEW n \in Nat, NEW d \in Nat \ {0}
  PROVE  Round(n, d) \in Nat /\ 2 * d * Round(n, d) <= 2 * n + d
<1>1. PICK x \in Nat, z \in Nat \ {0} : x = 2 * n + d /\ z = 2 * d
  OBVIOUS
<1>2. x \div z \in Int /\ x % z \in 0..z - 1 /\ x = z * (x \div z) + (x % z)
  BY Divided
<1>3. PICK q \in Int, r \in 0..z - 1 : q = x \div z /\ x = z * q + r
  BY <1>2
<1>4. q >= 0
  <2>1. ASSUME q <= -1 PROVE FALSE
    <3>1. q * z <= (-1) * z
      BY <2>1, TimesLarger
    <3>2. q * z = z * q /\ (-1) * z = -z /\ z * q \in Int
      OBVIOUS
    <3> QED BY <1>3, <3>1, <3>2
  <2> QED BY <2>1
<1>5. z * q <= x /\ z * q \in Int
  BY <1>3
<1>6. Round(n, d) = q
  BY <1>1, <1>3 DEF Round
<1> QED BY <1>1, <1>4, <1>5, <1>6

\* What is needed is a number of cents.
LEMMA NeededTyped == \A a : Needed(a) \in Nat
<1>1. 1521 * Notional \in Nat
  BY FundingAssumption
<1>2. (1521 * Notional) \div 10000 \in Nat
  BY <1>1
<1> QED BY <1>2 DEF Needed, SpotMin

\* A transfer that is covered takes from one account what it gives another.
LEMMA PaysTyped ==
  ASSUME usdt \in [Accounts -> Nat], NEW t \in Sends, usdt[t.from] >= t.amount, Pays(t)
  PROVE  /\ usdt' \in [Accounts -> Nat]
         /\ usdt'[t.from] = usdt[t.from] - t.amount
         /\ usdt'[t.to] = usdt[t.to] + t.amount
         /\ \A a \in Accounts : a # t.from /\ a # t.to => usdt'[a] = usdt[a]
<1>1. PICK x \in Accounts, y \in Accounts, n \in Nat :
        x = t.from /\ y = t.to /\ n = t.amount /\ x # y
  BY DEF Sends
<1>2. usdt' = [usdt EXCEPT ![x] = @ - n, ![y] = @ + n]
  BY <1>1 DEF Pays
<1>3. /\ usdt'[x] = usdt[x] - n /\ usdt'[y] = usdt[y] + n
      /\ \A a \in Accounts : a # x /\ a # y => usdt'[a] = usdt[a]
  BY <1>1, <1>2
<1>4. usdt[x] - n \in Nat /\ usdt[y] + n \in Nat
  BY <1>1
<1>5. \A a \in Accounts : usdt'[a] \in Nat
  BY <1>3, <1>4
<1>6. DOMAIN usdt' = Accounts /\ usdt' = [a \in Accounts |-> usdt'[a]]
  BY <1>2
<1> QED BY <1>1, <1>3, <1>5, <1>6

\* What rebalance_usdt moves, if anything: a little less than half of the
\* difference, from the richer account.
Halves(t, x, y) ==
  /\ t \in Sends
  /\ \/ t.from = "CM1" /\ t.to = "CM2" /\ x >= y
     \/ t.from = "CM2" /\ t.to = "CM1" /\ y >= x
  /\ LET gap == IF x >= y THEN x - y ELSE y - x IN
     /\ 95 * gap >= 200 * MinTransfer
     /\ 400 * t.amount <= 190 * gap + 200 /\ 400 * t.amount + 200 > 190 * gap

LEMMA HalfRounded ==
  ASSUME NEW gap \in Nat
  PROVE  LET n == Round(95 * gap, 200) IN
         n \in Nat /\ 400 * n <= 190 * gap + 200 /\ 400 * n + 200 > 190 * gap
<1>1. PICK x \in Nat : x = 95 * gap
  OBVIOUS
<1>2. Round(x, 200) = (2 * x + 200) \div 400
  BY DEF Round
<1>3. PICK q \in Int, r \in 0..399 : q = (2 * x + 200) \div 400 /\ 2 * x + 200 = 400 * q + r
  <2>1. 2 * x + 200 \in Int /\ 400 \in Nat \ {0}
    OBVIOUS
  <2> QED BY <2>1, Divided
<1> QED BY <1>1, <1>2, <1>3

LEMMA SplitTyped ==
  ASSUME NEW x \in Nat, NEW y \in Nat
  PROVE  SplitPlan(<<x, y>>) = <<>> \/ (\E t \in Sends : SplitPlan(<<x, y>>) = <<t>> /\ Halves(t, x, y))
<1>1. CASE x > y
  <2> DEFINE t == Transfer("CM1", "CM2", Round(95 * (x - y), 200))
  <2>1. PICK gap \in Nat : gap = x - y
    BY <1>1
  <2>2. PICK n \in Nat : /\ n = Round(95 * gap, 200)
                         /\ 400 * n <= 190 * gap + 200 /\ 400 * n + 200 > 190 * gap
    BY HalfRounded
  <2>3. t = [from |-> "CM1", to |-> "CM2", amount |-> n]
    BY <2>1, <2>2 DEF Transfer
  <2>4. t \in Sends /\ t.from = "CM1" /\ t.to = "CM2" /\ t.amount = n
    BY <2>2, <2>3 DEF Sends, Accounts
  <2>5. SplitPlan(<<x, y>>) = <<>> \/ (95 * gap >= 200 * MinTransfer /\ SplitPlan(<<x, y>>) = <<t>>)
    <3>1. Reads["split"][1] = "CM1" /\ Reads["split"][2] = "CM2"
      BY ReadsAre
    <3>2. <<x, y>>[1] = x /\ <<x, y>>[2] = y
      OBVIOUS
    <3>3. (IF <<x, y>>[1] > <<x, y>>[2] THEN 1 ELSE 2) = 1 /\ 3 - 1 = 2
      BY <1>1, <3>2
    <3>4. SplitPlan(<<x, y>>) = IF x + y < Dollar \/ 10 * x <= 6 * (x + y) \/ 95 * (x - y) < 200 * MinTransfer
                         THEN <<>> ELSE <<t>>
      BY <3>1, <3>2, <3>3, Zenon DEF SplitPlan
    <3>5. 95 * (x - y) < 200 * MinTransfer <=> ~(95 * gap >= 200 * MinTransfer)
      BY <2>1 DEF MinTransfer
    <3> HIDE DEF t
    <3> QED BY <3>4, <3>5, Zenon
  <2>6. 95 * gap >= 200 * MinTransfer => Halves(t, x, y)
    BY <1>1, <2>1, <2>2, <2>4 DEF Halves
  <2> QED BY <2>4, <2>5, <2>6
<1>2. CASE ~(x > y)
  <2> DEFINE t == Transfer("CM2", "CM1", Round(95 * (y - x), 200))
  <2>1. PICK gap \in Nat : gap = y - x
    BY <1>2
  <2>2. PICK n \in Nat : /\ n = Round(95 * gap, 200)
                         /\ 400 * n <= 190 * gap + 200 /\ 400 * n + 200 > 190 * gap
    BY HalfRounded
  <2>3. t = [from |-> "CM2", to |-> "CM1", amount |-> n]
    BY <2>1, <2>2 DEF Transfer
  <2>4. t \in Sends /\ t.from = "CM2" /\ t.to = "CM1" /\ t.amount = n
    BY <2>2, <2>3 DEF Sends, Accounts
  <2>5. SplitPlan(<<x, y>>) = <<>> \/ (95 * gap >= 200 * MinTransfer /\ SplitPlan(<<x, y>>) = <<t>>)
    <3>1. Reads["split"][1] = "CM1" /\ Reads["split"][2] = "CM2"
      BY ReadsAre
    <3>2. <<x, y>>[1] = x /\ <<x, y>>[2] = y
      OBVIOUS
    <3>3. (IF <<x, y>>[1] > <<x, y>>[2] THEN 1 ELSE 2) = 2 /\ 3 - 2 = 1
      BY <1>2, <3>2
    <3>4. SplitPlan(<<x, y>>) = IF x + y < Dollar \/ 10 * y <= 6 * (x + y) \/ 95 * (y - x) < 200 * MinTransfer
                         THEN <<>> ELSE <<t>>
      BY <3>1, <3>2, <3>3, Zenon DEF SplitPlan
    <3>5. 95 * (y - x) < 200 * MinTransfer <=> ~(95 * gap >= 200 * MinTransfer)
      BY <2>1 DEF MinTransfer
    <3> HIDE DEF t
    <3> QED BY <3>4, <3>5, Zenon
  <2>6. 95 * gap >= 200 * MinTransfer => Halves(t, x, y)
    BY <1>2, <2>1, <2>2, <2>4 DEF Halves, MinTransfer
  <2> QED BY <2>4, <2>5, <2>6
<1> QED BY <1>1, <1>2

\* fund_subaccounts sends halves of what is above its buffer.
LEMMA FundTyped ==
  ASSUME NEW r \in Seq(Nat), Len(r) = 1 PROVE FundPlan(r) \in Seq(Sends)
<1>1. PICK x \in Nat : x = r[1]
  OBVIOUS
<1>2. CASE x < FundBuffer \/ x - FundBuffer < 2 * MinTransfer
  BY <1>1, <1>2 DEF FundPlan
<1>3. CASE ~(x < FundBuffer \/ x - FundBuffer < 2 * MinTransfer)
  <2>1. PICK y \in Nat : y = x - FundBuffer
    BY <1>3 DEF FundBuffer
  <2>2. PICK n \in Nat : n = Round(y, 2)
    <3> 2 \in Nat \ {0}
      OBVIOUS
    <3> QED BY Rounded
  <2>3. Transfer("main", "CM1", n) \in Sends /\ Transfer("main", "CM2", n) \in Sends
    BY DEF Transfer, Sends, Accounts
  <2>4. FundPlan(r) = <<Transfer("main", "CM1", n), Transfer("main", "CM2", n)>>
    BY <1>1, <1>3, <2>1, <2>2 DEF FundPlan
  <2> QED BY <2>3, <2>4
<1> QED BY <1>2, <1>3

\* The first k transfers of daily_fund_check.
Fits(p, share, k) ==
  /\ p \in Seq(Sends)
  /\ \A i \in 1..Len(p) : \E m \in 1..k : /\ p[i] = Transfer("main", Subs[m], share[m])
                                          /\ share[m] >= MinTransfer
  /\ \A i \in 1..Len(p) : \A j \in 1..Len(p) : i # j => p[i].to # p[j].to

LEMMA DueFits ==
  ASSUME NEW share \in [1..4 -> Nat], NEW k \in 1..4, NEW p, Fits(p, share, k - 1)
  PROVE  Fits(p \o Due(k, share), share, k)
<1>1. /\ p \in Seq(Sends)
      /\ \A i \in 1..Len(p) : \E m \in 1..k : /\ p[i] = Transfer("main", Subs[m], share[m])
                                              /\ share[m] >= MinTransfer
  BY DEF Fits
<1>2. CASE Due(k, share) = <<>>
  <2>1. p \o <<>> = p
    BY <1>1
  <2> QED BY <1>1, <1>2, <2>1 DEF Fits
<1>3. CASE Due(k, share) # <<>>
  <2>1. Subs[k] \in Accounts \ {"main"} /\ \A m \in 1..k - 1 : Subs[m] # Subs[k]
    BY DEF Subs, Accounts
  <2>2. PICK t \in Sends : t = Transfer("main", Subs[k], share[k]) /\ t.to = Subs[k]
    <3>1. PICK a \in Accounts \ {"main"}, n \in Nat : a = Subs[k] /\ n = share[k]
      BY <2>1
    <3>2. [from |-> "main", to |-> a, amount |-> n] \in Sends
      BY DEF Sends, Accounts
    <3> QED BY <3>1, <3>2 DEF Transfer
  <2>3. Due(k, share) = <<t>> /\ share[k] >= MinTransfer
    BY <1>3, <2>2, Zenon DEF Due
  <2>4. ASSUME NEW i \in 1..Len(p) PROVE p[i].to # t.to
    <3>1. PICK m \in 1..k - 1 : p[i] = Transfer("main", Subs[m], share[m])
      BY DEF Fits
    <3>2. p[i].to = Subs[m]
      BY <3>1 DEF Transfer
    <3> QED BY <2>1, <2>2, <3>2
  <2>5. PICK q \in Seq(Sends) : /\ q = p \o <<t>> /\ Len(q) = Len(p) + 1 /\ q[Len(p) + 1] = t
                                /\ \A i \in 1..Len(p) : q[i] = p[i]
    <3>1. <<t>> \in Seq(Sends) /\ Len(<<t>>) = 1 /\ <<t>>[1] = t
      OBVIOUS
    <3>2. PICK u \in Seq(Sends) : u = <<t>> /\ Len(u) = 1 /\ u[1] = t
      BY <3>1
    <3>3. /\ p \o u \in Seq(Sends) /\ Len(p \o u) = Len(p) + Len(u)
          /\ \A i \in 1..Len(p) + Len(u) : (p \o u)[i] = IF i <= Len(p) THEN p[i] ELSE u[i - Len(p)]
      BY <1>1, <3>2, ConcatProperties
    <3>4. Len(p) \in Nat /\ \A i \in 1..Len(p) : i \in 1..Len(p) + 1 /\ i <= Len(p)
      BY <1>1
    <3>5. Len(p) + 1 \in 1..Len(p) + 1 /\ ~(Len(p) + 1 <= Len(p)) /\ (Len(p) + 1) - Len(p) = 1
      BY <3>4
    <3>6. /\ Len(p \o u) = Len(p) + 1 /\ (p \o u)[Len(p) + 1] = t
          /\ \A i \in 1..Len(p) : (p \o u)[i] = p[i]
      BY <3>2, <3>3, <3>4, <3>5
    <3> QED BY <3>2, <3>3, <3>6, Zenon
  <2>6. \A i \in 1..Len(q) : i \in 1..Len(p) \/ i = Len(p) + 1
    BY <1>1, <2>5
  <2>7. \A i \in 1..Len(q) : \E m \in 1..k : /\ q[i] = Transfer("main", Subs[m], share[m])
                                              /\ share[m] >= MinTransfer
    BY <1>1, <2>2, <2>3, <2>5, <2>6
  <2>8. ASSUME NEW i \in 1..Len(q), NEW j \in 1..Len(q), i # j PROVE q[i].to # q[j].to
    BY <1>1, <2>4, <2>5, <2>6, <2>8 DEF Fits
  <2>9. Fits(q, share, k)
    BY <2>5, <2>7, <2>8 DEF Fits
  <2> QED BY <2>3, <2>5, <2>9, Zenon
<1> QED BY <1>2, <1>3

LEMMA SentFits ==
  ASSUME NEW share \in [1..4 -> Nat] PROVE Fits(Sent(share), share, 4)
<1>1. Fits(<<>>, share, 0)
  BY DEF Fits
<1>2. Fits(<<>> \o Due(1, share), share, 1)
  <2>1. Fits(<<>>, share, 1 - 1) /\ 1 \in 1..4
    BY <1>1
  <2> QED BY <2>1, DueFits
<1>3. <<>> \o Due(1, share) = Due(1, share)
  BY DEF Due
<1>4. Fits(Due(1, share) \o Due(2, share), share, 2)
  BY <1>2, <1>3, DueFits
<1>5. Fits(Due(1, share) \o Due(2, share) \o Due(3, share), share, 3)
  BY <1>4, DueFits
<1>6. Fits(Due(1, share) \o Due(2, share) \o Due(3, share) \o Due(4, share), share, 4)
  BY <1>5, DueFits
<1> QED BY <1>6 DEF Sent

\* A share of what is there is no more than what is wanted ...
LEMMA ShareBounded ==
  ASSUME NEW free \in Nat, NEW total \in Nat \ {0}, free <= total, NEW s \in Nat
  PROVE  LET n == Round(free * s, total) IN
         n \in Nat /\ n <= s /\ 2 * total * n <= 2 * (free * s) + total
<1>1. PICK x \in Nat : x = free * s
  OBVIOUS
<1>2. PICK n \in Nat : n = Round(x, total) /\ 2 * total * n <= 2 * x + total
  BY Rounded
<1>3. ASSUME s + 1 <= n PROVE FALSE
  <2>1. PICK d \in Nat \ {0} : d = 2 * total
    OBVIOUS
  <2>2. (s + 1) * d <= n * d
    BY <1>3, TimesLarger
  <2>3. free * s <= total * s
    BY TimesLarger
  <2>4. PICK y \in Nat : y = total * s
    OBVIOUS
  <2>5. (s + 1) * d = 2 * y + d /\ n * d = 2 * total * n
    BY <2>1, <2>4
  <2> QED BY <1>1, <1>2, <2>1, <2>2, <2>3, <2>4, <2>5
<1> QED BY <1>1, <1>2, <1>3

\* ... and four shares exceed what is there by two cents at most.
LEMMA SharesBounded ==
  ASSUME NEW free \in Nat, NEW total \in Nat \ {0}, free <= total,
         NEW a \in Nat, NEW b \in Nat, NEW c \in Nat, NEW d \in Nat, total = a + b + c + d
  PROVE  Round(free * a, total) + Round(free * b, total)
           + Round(free * c, total) + Round(free * d, total) <= free + 2
<1>1. PICK k \in Nat, l \in Nat, m \in Nat, n \in Nat :
        /\ k = Round(free * a, total) /\ 2 * total * k <= 2 * (free * a) + total
        /\ l = Round(free * b, total) /\ 2 * total * l <= 2 * (free * b) + total
        /\ m = Round(free * c, total) /\ 2 * total * m <= 2 * (free * c) + total
        /\ n = Round(free * d, total) /\ 2 * total * n <= 2 * (free * d) + total
  BY ShareBounded
<1>2. PICK z \in Nat \ {0} : z = 2 * total
  OBVIOUS
<1>3. free * a + free * b + free * c + free * d = free * total
  OBVIOUS
<1>4. PICK x \in Nat : x = free * total
  OBVIOUS
<1>5. /\ 2 * total * k = k * z /\ 2 * total * l = l * z
      /\ 2 * total * m = m * z /\ 2 * total * n = n * z
  BY <1>2
<1>6. k * z + l * z + m * z + n * z <= 2 * x + 2 * z
  <2>1. free * a \in Nat /\ free * b \in Nat /\ free * c \in Nat /\ free * d \in Nat
    OBVIOUS
  <2>2. k * z \in Nat /\ l * z \in Nat /\ m * z \in Nat /\ n * z \in Nat
    OBVIOUS
  <2> QED BY <1>1, <1>2, <1>3, <1>4, <1>5, <2>1, <2>2
<1>7. (k + l + m + n) * z <= (free + 2) * z
  <2>1. (k + l + m + n) * z = k * z + l * z + m * z + n * z
    OBVIOUS
  <2>2. (free + 2) * z = 2 * x + 2 * z
    BY <1>2, <1>4
  <2> QED BY <1>6, <2>1, <2>2
<1>8. ASSUME free + 2 < k + l + m + n PROVE FALSE
  <2>1. (free + 2) * z < (k + l + m + n) * z
    BY <1>8, TimesLarger
  <2>2. PICK u \in Int, v \in Int : u = (free + 2) * z /\ v = (k + l + m + n) * z
    OBVIOUS
  <2> QED BY <1>7, <2>1, <2>2
<1> QED BY <1>1, <1>8

\* What daily_fund_check sends: no account gets more than it needs, and the main
\* account keeps its buffer but for the two cents.
LEMMA DailyTyped ==
  ASSUME NEW r \in Seq(Nat), Len(r) = 5
  PROVE  DailyPlan(r) = <<>> \/
         \E share \in [1..4 -> Nat] :
           /\ DailyPlan(r) = Sent(share)
           /\ \A i \in 1..4 : share[i] = 0 \/ r[i + 1] + share[i] <= Needed(Subs[i])
           /\ share[1] + share[2] + share[3] + share[4] <= r[1] - MainMin + 2
<1> DEFINE short == [i \in 1..4 |-> IF Needed(Subs[i]) > r[i + 1] THEN Needed(Subs[i]) - r[i + 1] ELSE 0]
           total == short[1] + short[2] + short[3] + short[4]
           free  == r[1] - MainMin
           share == [i \in 1..4 |-> IF free >= total THEN short[i] ELSE Round(free * short[i], total)]
           none  == r[1] < MainMin \/ total < MinTransfer \/ free < MinTransfer
<1>1. DailyPlan(r) = IF none THEN <<>> ELSE Sent(share)
  BY DEF DailyPlan
<1>2. ASSUME NEW i \in 1..4
      PROVE  short[i] \in Nat /\ (short[i] = 0 \/ r[i + 1] + short[i] = Needed(Subs[i]))
             /\ r[i + 1] \in Nat /\ Needed(Subs[i]) \in Nat
  <2>1. PICK a \in Nat, b \in Nat : a = Needed(Subs[i]) /\ b = r[i + 1]
    <3>1. i + 1 \in 1..Len(r)
      OBVIOUS
    <3>2. r[i + 1] \in Nat
      BY <3>1, ElementOfSeq
    <3>3. Needed(Subs[i]) \in Nat
      BY NeededTyped
    <3> QED BY <3>2, <3>3
  <2> QED BY <2>1
<1>3. short \in [1..4 -> Nat]
  BY <1>2
<1>4. PICK a \in Nat, b \in Nat, c \in Nat, d \in Nat :
        a = short[1] /\ b = short[2] /\ c = short[3] /\ d = short[4]
  BY <1>3, SMTT(30)
<1>5. PICK sum \in Nat : sum = total /\ sum = a + b + c + d
  BY <1>4
<1>6. r[1] \in Nat /\ free = r[1] - 2000
  <2>1. 1 \in 1..Len(r)
    OBVIOUS
  <2>2. r[1] \in Nat
    BY <2>1, ElementOfSeq
  <2> QED BY <2>2 DEF MainMin
<1> HIDE DEF short, total, free
<1>7. CASE none
  BY <1>1, <1>7
<1>8. CASE ~none /\ free >= total
  <2>1. \A i \in 1..4 : share[i] = short[i]
    BY <1>8
  <2>2. share \in [1..4 -> Nat]
    BY <1>3, <2>1
  <2>3. ASSUME NEW i \in 1..4 PROVE share[i] = 0 \/ r[i + 1] + share[i] <= Needed(Subs[i])
    <3>1. PICK n \in Nat : n = share[i] /\ n = short[i]
      BY <1>3, <2>1
    <3>2. PICK p \in Nat, q \in Nat :
            p = r[i + 1] /\ q = Needed(Subs[i]) /\ (short[i] = 0 \/ p + short[i] = q)
      BY <1>2
    <3> HIDE DEF share
    <3>3. n = 0 \/ p + n <= q
      BY <3>1, <3>2
    <3> QED BY <3>1, <3>2, <3>3
  <2>4. share[1] + share[2] + share[3] + share[4] <= free + 2
    <3>1. share[1] = a /\ share[2] = b /\ share[3] = c /\ share[4] = d
      BY <1>4, <2>1
    <3>2. a + b + c + d <= free
      BY <1>5, <1>6, <1>8
    <3> HIDE DEF share
    <3> QED BY <1>6, <3>1, <3>2
  <2>5. DailyPlan(r) = Sent(share)
    BY <1>1, <1>8
  <2> HIDE DEF share
  <2> QED BY <2>2, <2>3, <2>4, <2>5 DEF free
<1>9. CASE ~none /\ ~(free >= total)
  <2>1. free \in Nat /\ total \in Nat \ {0} /\ free <= total
    BY <1>5, <1>6, <1>9 DEF MinTransfer
  <2>2. \A i \in 1..4 : share[i] = Round(free * short[i], total)
    BY <1>9
  <2>3. \A i \in 1..4 : share[i] \in Nat /\ share[i] <= short[i]
    BY <1>3, <2>1, <2>2, ShareBounded, ZenonT(30)
  <2>4. share \in [1..4 -> Nat]
    BY <2>3
  <2>5. ASSUME NEW i \in 1..4 PROVE share[i] = 0 \/ r[i + 1] + share[i] <= Needed(Subs[i])
    <3>1. PICK n \in Nat, m \in Nat : n = share[i] /\ m = short[i] /\ n <= m
      BY <1>3, <2>3
    <3>2. PICK p \in Nat, q \in Nat :
            p = r[i + 1] /\ q = Needed(Subs[i]) /\ (short[i] = 0 \/ p + short[i] = q)
      BY <1>2
    <3> HIDE DEF share
    <3>3. n = 0 \/ p + n <= q
      BY <3>1, <3>2
    <3> QED BY <3>1, <3>2, <3>3
  <2>6. share[1] + share[2] + share[3] + share[4] <= free + 2
    <3>1. /\ share[1] = Round(free * a, total) /\ share[2] = Round(free * b, total)
          /\ share[3] = Round(free * c, total) /\ share[4] = Round(free * d, total)
      BY <1>4, <2>2
    <3>2. total = a + b + c + d
      BY <1>5
    <3> HIDE DEF share, none
    <3>3. Round(free * a, total) + Round(free * b, total)
            + Round(free * c, total) + Round(free * d, total) <= free + 2
      BY <2>1, <3>2, SharesBounded
    <3> QED BY <3>1, <3>3
  <2>7. DailyPlan(r) = Sent(share)
    BY <1>1, <1>9
  <2> HIDE DEF share
  <2> QED BY <2>4, <2>5, <2>6, <2>7 DEF free
<1> QED BY <1>7, <1>8, <1>9

\* A script decides on transfers between two accounts.
LEMMA PlanTyped ==
  ASSUME NEW s \in Scripts, NEW r \in Seq(Nat), Len(r) = Len(Reads[s])
  PROVE  PlanOf(s, r) \in Seq(Sends)
<1>1. CASE s = "split"
  <2>1. PICK x \in Nat, y \in Nat : x = r[1] /\ y = r[2]
    <3>1. Len(r) = 2
      BY <1>1, ReadsAre
    <3>2. 1 \in 1..Len(r) /\ 2 \in 1..Len(r)
      BY <3>1
    <3> QED BY <3>2, ElementOfSeq
  <2>2. r = <<x, y>>
    BY <1>1, <2>1, ReadsAre
  <2>3. SplitPlan(<<x, y>>) \in Seq(Sends)
    <3>1. SplitPlan(<<x, y>>) = <<>> \/ \E t \in Sends : SplitPlan(<<x, y>>) = <<t>>
      BY SplitTyped, Zenon
    <3>2. <<>> \in Seq(Sends) /\ \A t \in Sends : <<t>> \in Seq(Sends)
      OBVIOUS
    <3> QED BY <3>1, <3>2, Zenon
  <2> QED BY <1>1, <2>2, <2>3 DEF PlanOf
<1>2. CASE s = "daily"
  <2>1. DailyPlan(r) = <<>> \/ \E share \in [1..4 -> Nat] : DailyPlan(r) = Sent(share)
    BY <1>2, ReadsAre, DailyTyped
  <2>2. DailyPlan(r) \in Seq(Sends)
    <3>1. \A share \in [1..4 -> Nat] : Sent(share) \in Seq(Sends)
      BY SentFits DEF Fits
    <3>2. <<>> \in Seq(Sends)
      OBVIOUS
    <3> QED BY <2>1, <3>1, <3>2, Zenon
  <2> QED BY <1>2, <2>2 DEF PlanOf
<1>3. CASE s = "fund"
  <2>1. FundPlan(r) \in Seq(Sends)
    BY <1>3, ReadsAre, FundTyped
  <2> QED BY <1>3, <2>1 DEF PlanOf
<1>4. CASE s = "opening"
  BY <1>4 DEF PlanOf
<1> QED BY <1>1, <1>2, <1>3, <1>4 DEF Scripts

\* Before a script has run there is nothing to say.
LEMMA FundsInit == FuInit => FundsInv
<1> SUFFICES ASSUME FuInit PROVE FundsInv
  OBVIOUS
<1> USE FundingAssumption DEF FuInit
<1>1. FundingTypeOK
  BY DEF FundingTypeOK, Unsaved
<1>2. Planned
  <2>1. \A s \in Scripts : Len(Reads[s]) \in Nat
    BY ReadsAre
  <2> QED BY <2>1 DEF Planned
<1>3. ReadIsThere /\ SplitDue /\ DailyDue
  BY DEF ReadIsThere, SplitDue, DailyDue, Scripts
<1> QED BY <1>1, <1>2, <1>3 DEF FundsInv

\* The first of the transfers, and what is left of them.
LEMMA NextSend ==
  ASSUME NEW p \in Seq(Sends), p # <<>>
  PROVE  /\ Head(p) \in Sends /\ Head(p) = p[1] /\ 1 \in 1..Len(p)
         /\ Tail(p) \in Seq(Sends) /\ Len(Tail(p)) = Len(p) - 1 /\ Len(p) \in Nat
         /\ \A i \in 1..Len(Tail(p)) : Tail(p)[i] = p[i + 1] /\ i + 1 \in 1..Len(p)
<1>1. Len(p) \in Nat /\ Len(p) # 0
  OBVIOUS
<1>2. 1 \in 1..Len(p)
  BY <1>1
<1>3. Head(p) = p[1] /\ p[1] \in Sends
  BY <1>2, ElementOfSeq
<1>4. /\ Tail(p) \in Seq(Sends) /\ Len(Tail(p)) = Len(p) - 1
      /\ \A i \in 1..Len(Tail(p)) : Tail(p)[i] = p[i + 1]
  BY HeadTailProperties
<1> QED BY <1>1, <1>2, <1>3, <1>4

\* A transfer is the first one planned; it is made, in which case it was covered
\* and crosses every other script that runs, or it is dropped.
LEMMA TransferSteps ==
  ASSUME FundsInv, NEW s \in Scripts, MakeTransfer(s)
  PROVE  /\ plan[s] \in Seq(Sends) /\ plan[s] # <<>> /\ phase[s] = "move"
         /\ plan'[s] \in {Tail(plan[s]), <<>>} /\ plan' = [plan EXCEPT ![s] = plan'[s]]
         /\ \/ usdt' = usdt /\ crossed' = crossed
            \/ /\ usdt[Head(plan[s]).from] >= Head(plan[s]).amount
               /\ Pays(Head(plan[s])) /\ CrossedBy(s)
         /\ faults' \in 0..MaxRefusals
         /\ UNCHANGED <<phase, got, saved, starts, swings, blind>>
<1>1. /\ plan \in [Scripts -> Seq(Sends)] /\ plan[s] # <<>> /\ phase[s] = "move"
      /\ UNCHANGED <<phase, got, saved, starts, swings, blind>>
  BY DEF FundsInv, Planned, MakeTransfer
<1>2. /\ plan' = [plan EXCEPT ![s] = Tail(plan[s])] \/ plan' = [plan EXCEPT ![s] = <<>>]
      /\ \/ usdt' = usdt /\ crossed' = crossed
         \/ /\ usdt[Head(plan[s]).from] >= Head(plan[s]).amount
            /\ Pays(Head(plan[s])) /\ CrossedBy(s)
  BY DEF MakeTransfer
<1>3. faults' = faults \/ (faults < MaxRefusals /\ faults' = faults + 1)
  BY DEF MakeTransfer
<1>4. faults' \in 0..MaxRefusals
  BY <1>3, FundingAssumption DEF FundsInv, FundingTypeOK
<1> QED BY <1>1, <1>2, <1>4

\* Steps of another script, or of the bots, leave alone what a script has read
\* and planned; if it is still sound, they have not touched the accounts.
Apart(s) ==
  /\ phase'[s] = phase[s] /\ got'[s] = got[s] /\ plan'[s] = plan[s]
  /\ phase[s] # "idle" /\ Sound(s)' => Sound(s) /\ usdt' = usdt

Own(s) == \/ Start(s) \/ ReadBalance(s) \/ Decide(s) \/ MakeTransfer(s) \/ Finish(s)
          \/ (s = "opening" /\ SaveOpening)

LEMMA OwnOrApart ==
  ASSUME FundsInv, [FuNext]_fundVars, NEW s \in Scripts
  PROVE  Own(s) \/ Apart(s)
<1> USE DEF FundsInv, FundingTypeOK, Planned
<1>1. CASE UNCHANGED fundVars
  BY <1>1 DEF fundVars, Apart, Sound
<1>2. ASSUME BotChanges PROVE Apart(s)
  <2>1. crossed'[s] = (crossed[s] \/ (s # "bot" /\ Busy(s)))
    BY <1>2, Zenon DEF BotChanges, CrossedBy
  <2>2. s # "bot"
    BY DEF Scripts
  <2> QED BY <1>2, <2>1, <2>2 DEF BotChanges, Apart, Sound, Busy
<1>3. ASSUME NEW x \in Scripts, x # s, Start(x) \/ ReadBalance(x) \/ Decide(x) \/ Finish(x)
      PROVE  Apart(s)
  <2>1. CASE Start(x)
    BY <1>3, <2>1 DEF Start, Apart, Sound
  <2>2. CASE ReadBalance(x)
    BY <1>3, <2>2 DEF ReadBalance, Apart, Sound
  <2>3. CASE Decide(x) \/ Finish(x)
    BY <1>3, <2>3 DEF Decide, Finish, Apart, Sound
  <2> QED BY <1>3, <2>1, <2>2, <2>3
<1>4. ASSUME NEW x \in Scripts, x # s, MakeTransfer(x) PROVE Apart(s)
  <2>1. /\ plan' = [plan EXCEPT ![x] = plan'[x]] /\ UNCHANGED <<phase, got, saved, starts, swings, blind>>
        /\ (usdt' = usdt /\ crossed' = crossed) \/ CrossedBy(x)
    BY <1>4, TransferSteps
  <2>2. CASE CrossedBy(x)
    <3>1. crossed'[s] = (crossed[s] \/ (s # x /\ Busy(s)))
      BY <2>2, Zenon DEF CrossedBy
    <3> QED BY <1>4, <2>1, <3>1 DEF Apart, Sound, Busy
  <2>3. CASE usdt' = usdt /\ crossed' = crossed
    BY <1>4, <2>1, <2>3 DEF Apart, Sound
  <2> QED BY <2>1, <2>2, <2>3
<1>5. ASSUME SaveOpening, s # "opening" PROVE Apart(s)
  BY <1>5 DEF SaveOpening, Apart, Sound
<1> QED BY <1>1, <1>2, <1>3, <1>4, <1>5 DEF FuNext, Own

\* What a step does to the accounts, the plans and the balances read.
LEMMA FundsTypedStep == FundsInv /\ [FuNext]_fundVars => FundingTypeOK' /\ Planned'
<1> SUFFICES ASSUME FundsInv, [FuNext]_fundVars PROVE FundingTypeOK' /\ Planned'
  OBVIOUS
<1> USE FundingAssumption
<1>0. /\ FundingTypeOK /\ Planned
      /\ plan \in [Scripts -> Seq(Sends)]
  BY DEF FundsInv, Planned
<1> DEFINE Amounts == \A s \in Scripts : \A i \in DOMAIN plan[s] : plan[s][i].amount \in Nat
<1>1. ASSUME plan' \in [Scripts -> Seq(Sends)] PROVE Amounts'
  <2>1. ASSUME NEW s \in Scripts, NEW i \in DOMAIN plan'[s] PROVE plan'[s][i].amount \in Nat
    <3>1. plan'[s] \in Seq(Sends)
      BY <1>1
    <3>2. i \in 1..Len(plan'[s])
      BY <3>1
    <3>3. plan'[s][i] \in Sends
      BY <3>1, <3>2, ElementOfSeq
    <3> QED BY <3>3 DEF Sends
  <2> QED BY <2>1
<1> HIDE DEF Amounts
<1>2. CASE UNCHANGED fundVars
  BY <1>0, <1>2 DEF fundVars, FundingTypeOK, Planned
<1>3. CASE BotChanges
  <2>1. /\ usdt' \in [Accounts -> Nat] /\ swings' \in 0..MaxSwings
        /\ UNCHANGED <<phase, got, plan, saved, starts, faults, blind>>
    <3>1. PICK a \in Accounts, d \in {-500, 500} :
            usdt[a] + d >= 0 /\ usdt' = [usdt EXCEPT ![a] = @ + d]
      BY <1>3, ZenonT(30) DEF BotChanges, MinTransfer
    <3>2. usdt[a] + d \in Nat
      BY <1>0, <3>1 DEF FundingTypeOK
    <3>3. usdt' \in [Accounts -> Nat]
      BY <1>0, <3>1, <3>2 DEF FundingTypeOK
    <3> QED BY <1>0, <1>3, <3>3 DEF BotChanges, FundingTypeOK
  <2>2. crossed' \in [Scripts -> BOOLEAN]
    BY <1>3, Zenon DEF BotChanges, CrossedBy, Busy
  <2>3. Amounts'
    BY <1>0, <1>1, <2>1
  <2> QED BY <1>0, <2>1, <2>2, <2>3 DEF FundingTypeOK, Planned, Amounts
<1>4. ASSUME NEW s \in Scripts, Start(s) PROVE FundingTypeOK' /\ Planned'
  <2>1. /\ phase' \in [Scripts -> {"idle", "read", "move"}]
        /\ got' \in [Scripts -> Seq(Nat)] /\ got' = [got EXCEPT ![s] = <<>>]
        /\ plan' \in [Scripts -> Seq(Sends)]
        /\ starts' \in 0..MaxRuns
        /\ UNCHANGED <<usdt, saved, swings, faults>>
    BY <1>0, <1>4 DEF Start, FundingTypeOK
  <2>2. blind' \in [Scripts -> BOOLEAN] /\ crossed' \in [Scripts -> BOOLEAN]
    BY <1>0, <1>4 DEF Start, FundingTypeOK
  <2>3. Amounts'
    BY <1>1, <2>1
  <2>4. \A x \in Scripts : Len(got'[x]) <= Len(Reads[x])
    <3>1. Len(Reads[s]) \in Nat
      BY ReadsAre
    <3> QED BY <1>0, <2>1, <3>1 DEF Planned, FundingTypeOK
  <2> QED BY <1>0, <2>1, <2>2, <2>3, <2>4 DEF FundingTypeOK, Planned, Amounts
<1>5. ASSUME NEW s \in Scripts, ReadBalance(s) PROVE FundingTypeOK' /\ Planned'
  <2>1. Len(got[s]) < Len(Reads[s]) /\ got[s] \in Seq(Nat) /\ Reads[s] \in Seq(Accounts)
    BY <1>0, <1>5, ReadsAre DEF ReadBalance, Reading, FundingTypeOK
  <2>2. PICK n \in Nat : n = usdt[Reads[s][Len(got[s]) + 1]]
    <3>1. Len(got[s]) + 1 \in 1..Len(Reads[s])
      BY <2>1
    <3>2. Reads[s][Len(got[s]) + 1] \in Accounts
      BY <2>1, <3>1, ElementOfSeq
    <3> QED BY <1>0, <3>2 DEF FundingTypeOK
  <2>3. /\ got' \in {got, [got EXCEPT ![s] = Append(@, n)], [got EXCEPT ![s] = Append(@, 0)]}
        /\ phase' \in {phase, [phase EXCEPT ![s] = "idle"]}
        /\ blind' \in {blind, [blind EXCEPT ![s] = TRUE]}
        /\ faults' = faults \/ (faults < MaxRefusals /\ faults' = faults + 1)
        /\ UNCHANGED <<usdt, plan, saved, starts, swings, crossed>>
    BY <1>5, <2>2 DEF ReadBalance
  <2>4. /\ got' \in [Scripts -> Seq(Nat)]
        /\ \A x \in Scripts : Len(got'[x]) <= Len(Reads[x])
    <3>1. got \in [Scripts -> Seq(Nat)] /\ \A x \in Scripts : Len(got[x]) <= Len(Reads[x])
      BY <1>0 DEF FundingTypeOK, Planned
    <3>2. ASSUME NEW m \in Nat, got' = [got EXCEPT ![s] = Append(@, m)]
          PROVE  /\ got' \in [Scripts -> Seq(Nat)]
                 /\ \A x \in Scripts : Len(got'[x]) <= Len(Reads[x])
      <4>1. /\ Append(got[s], m) \in Seq(Nat) /\ Len(Append(got[s], m)) = Len(got[s]) + 1
            /\ Len(got[s]) \in Nat /\ Len(Reads[s]) \in Nat
        BY <2>1
      <4>2. Len(Append(got[s], m)) <= Len(Reads[s])
        BY <2>1, <4>1
      <4> QED BY <3>1, <3>2, <4>1, <4>2
    <3> QED BY <2>2, <2>3, <3>1, <3>2
  <2>5. phase' \in [Scripts -> {"idle", "read", "move"}] /\ faults' \in 0..MaxRefusals
    <3>1. phase \in [Scripts -> {"idle", "read", "move"}] /\ faults \in 0..MaxRefusals
      BY <1>0 DEF FundingTypeOK
    <3>2. phase' \in [Scripts -> {"idle", "read", "move"}]
      BY <2>3, <3>1
    <3>3. faults' \in 0..MaxRefusals
      BY <2>3, <3>1
    <3> QED BY <3>2, <3>3
  <2>6. blind' \in [Scripts -> BOOLEAN]
    BY <1>0, <2>3 DEF FundingTypeOK
  <2>7. Amounts'
    BY <1>0, <1>1, <2>3
  <2> QED BY <1>0, <2>3, <2>4, <2>5, <2>6, <2>7 DEF FundingTypeOK, Planned, Amounts
<1>6. ASSUME NEW s \in Scripts, Decide(s) PROVE FundingTypeOK' /\ Planned'
  <2>1. PlanOf(s, got[s]) \in Seq(Sends)
    <3>1. got[s] \in Seq(Nat) /\ Len(got[s]) = Len(Reads[s])
      <4>1. Len(got[s]) <= Len(Reads[s]) /\ got[s] \in Seq(Nat) /\ Reads[s] \in Seq(Accounts)
        BY <1>0, ReadsAre DEF FundingTypeOK, Planned
      <4>2. ~(Len(got[s]) < Len(Reads[s]))
        BY <1>6 DEF Decide, Reading
      <4> QED BY <4>1, <4>2
    <3> QED BY <3>1, PlanTyped
  <2>2. /\ plan' \in [Scripts -> Seq(Sends)] /\ phase' \in [Scripts -> {"idle", "read", "move"}]
        /\ UNCHANGED <<usdt, got, saved, starts, swings, faults, blind, crossed>>
    BY <1>0, <1>6, <2>1 DEF Decide, FundingTypeOK
  <2>3. Amounts'
    BY <1>1, <2>2
  <2> QED BY <1>0, <2>2, <2>3 DEF FundingTypeOK, Planned, Amounts
<1>7. CASE SaveOpening
  <2>1. saved' \in Nat
    <3>1. got["opening"] \in Seq(Nat) /\ Len(got["opening"]) = 4
      <4>1. /\ Len(got["opening"]) <= Len(Reads["opening"]) /\ got["opening"] \in Seq(Nat)
            /\ Len(Reads["opening"]) = 4
        BY <1>0, ReadsAre DEF FundingTypeOK, Planned, Scripts
      <4>2. ~(Len(got["opening"]) < Len(Reads["opening"]))
        BY <1>7 DEF SaveOpening, Reading
      <4>3. PICK n \in Nat, m \in Nat : n = Len(got["opening"]) /\ m = Len(Reads["opening"]) /\ m = 4
        BY <4>1
      <4>4. n <= 4 /\ ~(n < 4)
        BY <4>1, <4>2, <4>3, Zenon
      <4>5. n = 4
        BY <4>4
      <4> QED BY <4>1, <4>3, <4>5, Zenon
    <3>2. PICK r \in Seq(Nat) : r = got["opening"] /\ Len(r) = 4
      BY <3>1
    <3>3. \A i \in 1..4 : r[i] \in Nat
      BY <3>2, ElementOfSeq
    <3>4. PICK a \in Nat, b \in Nat, c \in Nat, d \in Nat :
            a = r[1] /\ b = r[2] /\ c = r[3] /\ d = r[4]
      BY <3>3, SMTT(30)
    <3>5. saved' = a + b + c + d
      BY <1>7, <3>2, <3>4, Zenon DEF SaveOpening
    <3> QED BY <3>5
  <2>2. /\ phase' \in [Scripts -> {"idle", "read", "move"}]
        /\ UNCHANGED <<usdt, got, plan, starts, swings, faults, blind, crossed>>
    BY <1>0, <1>7 DEF SaveOpening, FundingTypeOK
  <2>3. Amounts'
    BY <1>0, <1>1, <2>2
  <2> QED BY <1>0, <2>1, <2>2, <2>3 DEF FundingTypeOK, Planned, Amounts
<1>8. ASSUME NEW s \in Scripts, MakeTransfer(s) PROVE FundingTypeOK' /\ Planned'
  <2>1. /\ plan[s] \in Seq(Sends) /\ plan[s] # <<>>
        /\ plan'[s] \in {Tail(plan[s]), <<>>} /\ plan' = [plan EXCEPT ![s] = plan'[s]]
        /\ \/ usdt' = usdt /\ crossed' = crossed
           \/ /\ usdt[Head(plan[s]).from] >= Head(plan[s]).amount
              /\ Pays(Head(plan[s])) /\ CrossedBy(s)
        /\ faults' \in 0..MaxRefusals
        /\ UNCHANGED <<phase, got, saved, starts, swings, blind>>
    BY <1>8, TransferSteps
  <2>2. Head(plan[s]) \in Sends /\ Tail(plan[s]) \in Seq(Sends)
    BY <2>1, NextSend
  <2>3. usdt' \in [Accounts -> Nat]
    BY <1>0, <2>1, <2>2, PaysTyped DEF FundingTypeOK
  <2>4. plan' \in [Scripts -> Seq(Sends)]
    <3>1. plan'[s] \in Seq(Sends)
      <4> <<>> \in Seq(Sends)
        OBVIOUS
      <4> QED BY <2>1, <2>2
    <3> QED BY <1>0, <2>1, <3>1
  <2>5. crossed' \in [Scripts -> BOOLEAN]
    <3>1. CASE CrossedBy(s)
      BY <3>1, Zenon DEF CrossedBy, Busy
    <3>2. CASE crossed' = crossed
      BY <1>0, <3>2 DEF FundingTypeOK
    <3> QED BY <2>1, <3>1, <3>2
  <2>6. Amounts'
    BY <1>1, <2>4
  <2> QED BY <1>0, <2>1, <2>3, <2>4, <2>5, <2>6 DEF FundingTypeOK, Planned, Amounts
<1>9. ASSUME NEW s \in Scripts, Finish(s) PROVE FundingTypeOK' /\ Planned'
  <2>1. /\ phase' \in [Scripts -> {"idle", "read", "move"}]
        /\ UNCHANGED <<usdt, got, plan, saved, starts, swings, faults, blind, crossed>>
    BY <1>0, <1>9 DEF Finish, FundingTypeOK
  <2>2. Amounts'
    BY <1>0, <1>1, <2>1
  <2> QED BY <1>0, <2>1, <2>2 DEF FundingTypeOK, Planned, Amounts
<1> QED BY <1>2, <1>3, <1>4, <1>5, <1>6, <1>7, <1>8, <1>9 DEF FuNext

\* What was read is still there as long as nothing has changed.
LEMMA ReadIsThereStep == FundsInv /\ [FuNext]_fundVars => ReadIsThere'
<1> SUFFICES ASSUME FundsInv, [FuNext]_fundVars, NEW s \in Scripts, phase'[s] = "read", Sound(s)',
                    NEW k \in 1..Len(got'[s])
             PROVE  got'[s][k] = usdt'[Reads[s][k]]
  BY DEF ReadIsThere
<1>0. /\ phase \in [Scripts -> {"idle", "read", "move"}] /\ got \in [Scripts -> Seq(Nat)]
      /\ blind \in [Scripts -> BOOLEAN]
      /\ phase[s] = "read" /\ Sound(s) => \A j \in 1..Len(got[s]) : got[s][j] = usdt[Reads[s][j]]
  BY DEF FundsInv, FundingTypeOK, ReadIsThere
<1>1. CASE Apart(s)
  BY <1>0, <1>1 DEF Apart
<1>2. CASE Start(s)
  <2>1. got'[s] = <<>>
    BY <1>0, <1>2 DEF Start
  <2> QED BY <2>1
<1>3. CASE ReadBalance(s)
  <2>1. /\ phase[s] = "read" /\ usdt' = usdt /\ crossed' = crossed
        /\ got' = got \/ got' = [got EXCEPT ![s] = Append(@, usdt[Reads[s][Len(got[s]) + 1]])]
           \/ blind' = [blind EXCEPT ![s] = TRUE]
    BY <1>3 DEF ReadBalance, Reading
  <2>2. ~blind'[s] /\ ~crossed'[s]
    BY DEF Sound
  <2>3. blind'[s] = blind[s]
    <3>1. blind' = blind \/ blind' = [blind EXCEPT ![s] = TRUE]
      BY <1>3 DEF ReadBalance
    <3> QED BY <1>0, <2>2, <3>1
  <2>4. Sound(s)
    BY <2>1, <2>2, <2>3 DEF Sound
  <2>5. \A j \in 1..Len(got[s]) : got[s][j] = usdt[Reads[s][j]]
    BY <1>0, <2>1, <2>4
  <2>6. CASE got' = got
    BY <2>1, <2>5, <2>6
  <2>7. CASE got' = [got EXCEPT ![s] = Append(@, usdt[Reads[s][Len(got[s]) + 1]])]
    <3>1. PICK x : x = usdt[Reads[s][Len(got[s]) + 1]]
      OBVIOUS
    <3>2. got'[s] = Append(got[s], x) /\ got[s] \in Seq(Nat)
      BY <1>0, <2>7, <3>1
    <3>3. /\ Len(got'[s]) = Len(got[s]) + 1 /\ got'[s][Len(got[s]) + 1] = x
          /\ \A j \in 1..Len(got[s]) : got'[s][j] = got[s][j]
      BY <3>2
    <3>4. k \in 1..Len(got[s]) \/ k = Len(got[s]) + 1
      BY <3>2, <3>3
    <3> QED BY <2>1, <2>5, <3>1, <3>3, <3>4
  <2>8. CASE blind' = [blind EXCEPT ![s] = TRUE]
    BY <1>0, <2>2, <2>8
  <2> QED BY <2>1, <2>6, <2>7, <2>8
<1>4. CASE Decide(s) \/ Finish(s) \/ (s = "opening" /\ SaveOpening)
  BY <1>0, <1>4 DEF Decide, Finish, SaveOpening
<1>5. CASE MakeTransfer(s)
  BY <1>0, <1>5 DEF MakeTransfer
<1> QED BY <1>1, <1>2, <1>3, <1>4, <1>5, OwnOrApart DEF Own

\* When a script decides, it has read all of its balances.
LEMMA AllRead ==
  ASSUME FundsInv, NEW s \in Scripts, phase[s] = "read", ~Reading(s)
  PROVE  /\ got[s] \in Seq(Nat) /\ Len(got[s]) = Len(Reads[s])
         /\ Sound(s) => \A k \in 1..Len(Reads[s]) : got[s][k] = usdt[Reads[s][k]]
<1>1. got[s] \in Seq(Nat) /\ Reads[s] \in Seq(Accounts) /\ Len(got[s]) <= Len(Reads[s])
  BY ReadsAre DEF FundsInv, FundingTypeOK, Planned
<1>2. ~(Len(got[s]) < Len(Reads[s]))
  BY DEF Reading
<1>3. Len(got[s]) = Len(Reads[s])
  BY <1>1, <1>2
<1>4. Sound(s) => \A k \in 1..Len(got[s]) : got[s][k] = usdt[Reads[s][k]]
  BY DEF FundsInv, ReadIsThere
<1> QED BY <1>1, <1>3, <1>4

\* rebalance_usdt decides on what is there, and has one transfer to make.
LEMMA SplitDueStep == FundsInv /\ [FuNext]_fundVars => SplitDue'
<1> SUFFICES ASSUME FundsInv, [FuNext]_fundVars, phase'["split"] = "move", Sound("split")'
             PROVE  plan'["split"] = <<>> \/ plan'["split"] = SplitPlan(<<usdt'["CM1"], usdt'["CM2"]>>)
  BY DEF SplitDue
<1>0. /\ "split" \in Scripts /\ phase \in [Scripts -> {"idle", "read", "move"}]
      /\ plan \in [Scripts -> Seq(Sends)] /\ usdt \in [Accounts -> Nat]
      /\ phase["split"] = "move" /\ Sound("split") =>
           (plan["split"] = <<>> \/ plan["split"] = SplitPlan(<<usdt["CM1"], usdt["CM2"]>>))
  BY DEF Scripts, FundsInv, FundingTypeOK, Planned, SplitDue
<1>1. CASE Apart("split")
  BY <1>0, <1>1 DEF Apart
<1>2. CASE Start("split") \/ ReadBalance("split") \/ Finish("split")
  BY <1>0, <1>2 DEF Start, ReadBalance, Reading, Finish
<1>3. CASE Decide("split")
  <2>1. Sound("split") /\ usdt' = usdt /\ plan'["split"] = PlanOf("split", got["split"])
    BY <1>0, <1>3 DEF Decide, Sound
  <2>2. /\ got["split"] \in Seq(Nat) /\ Len(got["split"]) = 2
        /\ got["split"][1] = usdt["CM1"] /\ got["split"][2] = usdt["CM2"]
    <3>1. /\ got["split"] \in Seq(Nat) /\ Len(got["split"]) = Len(Reads["split"])
          /\ \A k \in 1..Len(Reads["split"]) : got["split"][k] = usdt[Reads["split"][k]]
      BY <1>0, <1>3, <2>1, AllRead DEF Decide
    <3>2. /\ Len(Reads["split"]) = 2 /\ Reads["split"][1] = "CM1" /\ Reads["split"][2] = "CM2"
          /\ 1 \in 1..2 /\ 2 \in 1..2
      BY ReadsAre
    <3> QED BY <3>1, <3>2, Zenon
  <2>3. got["split"] = <<usdt["CM1"], usdt["CM2"]>>
    BY <2>2
  <2>4. PlanOf("split", got["split"]) = SplitPlan(got["split"])
    BY DEF PlanOf
  <2> QED BY <2>1, <2>3, <2>4
<1>4. CASE MakeTransfer("split")
  <2>1. /\ plan'["split"] \in {Tail(plan["split"]), <<>>} /\ plan["split"] # <<>> /\ phase["split"] = "move"
        /\ plan["split"] \in Seq(Sends)
        /\ crossed'["split"] = crossed["split"] /\ blind' = blind
    <3>1. /\ plan'["split"] \in {Tail(plan["split"]), <<>>} /\ plan["split"] # <<>> /\ phase["split"] = "move"
          /\ plan["split"] \in Seq(Sends) /\ blind' = blind
          /\ crossed' = crossed \/ CrossedBy("split")
      BY <1>0, <1>4, TransferSteps
    <3>2. crossed \in [Scripts -> BOOLEAN]
      BY DEF FundsInv, FundingTypeOK
    <3>3. CrossedBy("split") => crossed'["split"] = crossed["split"]
      BY <1>0, <3>2, Zenon DEF CrossedBy
    <3> QED BY <3>1, <3>3
  <2>2. Sound("split")
    BY <2>1 DEF Sound
  <2>3. PICK t \in Sends : plan["split"] = <<t>>
    <3>1. usdt["CM1"] \in Nat /\ usdt["CM2"] \in Nat
      BY <1>0 DEF Accounts
    <3> QED BY <1>0, <2>1, <2>2, <3>1, SplitTyped, Zenon
  <2>4. Tail(plan["split"]) = <<>>
    BY <2>3
  <2> QED BY <2>1, <2>4
<1> QED BY <1>0, <1>1, <1>2, <1>3, <1>4, OwnOrApart DEF Own


\* A transfer that is made or dropped is owed no more, and the others still are.
LEMMA OwesLess ==
  ASSUME usdt \in [Accounts -> Nat], NEW p \in Seq(Sends), p # <<>>,
         NEW due \in Dues, Owes(p, due),
         \/ usdt' = usdt
         \/ usdt[Head(p).from] >= Head(p).amount /\ Pays(Head(p))
  PROVE  \E rest \in Dues :
           /\ \A i \in 1..Len(Tail(p)) :
                /\ Tail(p)[i].from = "main" /\ Tail(p)[i].amount = rest[Tail(p)[i].to]
                /\ usdt'[Tail(p)[i].to] + Tail(p)[i].amount <= Needed(Tail(p)[i].to) + 1
                /\ \A j \in 1..Len(Tail(p)) : i # j => Tail(p)[i].to # Tail(p)[j].to
           /\ usdt'["main"] - (rest["CM1"] + rest["CM2"] + rest["CMS1"] + rest["CMS2"]) >= MainMin - 2
<1>1. PICK t \in Sends : t = Head(p) /\ t = p[1]
  BY NextSend
<1>2. PICK a \in Accounts \ {"main"}, n \in Nat :
        a = t.to /\ n = t.amount /\ n = due[a] /\ t.from = "main"
  <2>1. t.from = "main" /\ t.amount = due[t.to]
    BY <1>1, NextSend DEF Owes
  <2> QED BY <2>1 DEF Sends
<1>3. /\ usdt' \in [Accounts -> Nat]
      /\ \A b \in Accounts \ {"main", a} : usdt'[b] = usdt[b]
      /\ usdt'["main"] = usdt["main"] \/ usdt'["main"] = usdt["main"] - n
  <2>1. CASE usdt' = usdt
    BY <2>1
  <2>2. CASE usdt[t.from] >= t.amount /\ Pays(t)
    BY <1>2, <2>2, PaysTyped
  <2> QED BY <1>1, <2>1, <2>2
<1> DEFINE rest == [due EXCEPT ![a] = 0]
<1>4. /\ rest \in Dues /\ rest[a] = 0
      /\ \A b \in Accounts \ {"main", a} : rest[b] = due[b]
  BY DEF Dues
<1> HIDE DEF rest
<1>5. ASSUME NEW i \in 1..Len(Tail(p))
      PROVE  /\ Tail(p)[i].from = "main" /\ Tail(p)[i].amount = rest[Tail(p)[i].to]
             /\ usdt'[Tail(p)[i].to] + Tail(p)[i].amount <= Needed(Tail(p)[i].to) + 1
             /\ \A j \in 1..Len(Tail(p)) : i # j => Tail(p)[i].to # Tail(p)[j].to
  <2>1. Tail(p)[i] = p[i + 1] /\ i + 1 \in 1..Len(p) /\ 1 \in 1..Len(p) /\ i \in Nat \ {0}
    BY NextSend
  <2>2. /\ p[i + 1].from = "main" /\ p[i + 1].amount = due[p[i + 1].to]
        /\ usdt[p[i + 1].to] + p[i + 1].amount <= Needed(p[i + 1].to) + 1
        /\ \A j \in 1..Len(p) : i + 1 # j => p[i + 1].to # p[j].to
    BY <2>1 DEF Owes
  <2>3. i + 1 # 1
    BY <2>1
  <2>4. p[i + 1].to \in Accounts \ {"main", a}
    <3>1. p[i + 1] \in Sends
      BY <2>1, ElementOfSeq
    <3>2. p[i + 1].to # p[1].to
      BY <2>1, <2>2, <2>3
    <3>3. p[i + 1].to \in Accounts /\ p[i + 1].from # p[i + 1].to
      BY <3>1 DEF Sends
    <3> QED BY <1>1, <1>2, <2>2, <3>2, <3>3
  <2>5. usdt'[p[i + 1].to] = usdt[p[i + 1].to] /\ rest[p[i + 1].to] = due[p[i + 1].to]
    BY <1>3, <1>4, <2>4
  <2>6. ASSUME NEW j \in 1..Len(Tail(p)), i # j PROVE Tail(p)[i].to # Tail(p)[j].to
    <3>1. Tail(p)[j] = p[j + 1] /\ j + 1 \in 1..Len(p) /\ i + 1 # j + 1
      BY <2>6, NextSend
    <3> QED BY <2>1, <2>2, <3>1
  <2> QED BY <2>1, <2>2, <2>5, <2>6
<1>6. usdt'["main"] - (rest["CM1"] + rest["CM2"] + rest["CMS1"] + rest["CMS2"]) >= MainMin - 2
  <2>1. PICK w \in Nat, x \in Nat, y \in Nat, z \in Nat, m \in Nat, k \in Nat :
          /\ w = due["CM1"] /\ x = due["CM2"] /\ y = due["CMS1"] /\ z = due["CMS2"]
          /\ m = usdt["main"] /\ k = usdt'["main"]
    BY <1>3 DEF Dues, Accounts
  <2>2. m - (w + x + y + z) >= 2000 - 2
    BY <2>1 DEF Owes, MainMin
  <2>3. k = m \/ k = m - n
    BY <1>3, <2>1
  <2>4. PICK wl \in Nat, xl \in Nat, yl \in Nat, zl \in Nat :
          /\ wl = rest["CM1"] /\ xl = rest["CM2"] /\ yl = rest["CMS1"] /\ zl = rest["CMS2"]
    BY <1>4 DEF Dues, Accounts
  <2>5. \/ n = w /\ wl = 0 /\ xl = x /\ yl = y /\ zl = z
        \/ n = x /\ wl = w /\ xl = 0 /\ yl = y /\ zl = z
        \/ n = y /\ wl = w /\ xl = x /\ yl = 0 /\ zl = z
        \/ n = z /\ wl = w /\ xl = x /\ yl = y /\ zl = 0
    <3>1. a \in {"CM1", "CM2", "CMS1", "CMS2"}
      BY DEF Accounts
    <3> QED BY <1>2, <1>4, <2>1, <2>4, <3>1 DEF Accounts
  <2>6. k - (wl + xl + yl + zl) >= 2000 - 2
    BY <2>2, <2>3, <2>5
  <2> QED BY <2>1, <2>4, <2>6 DEF MainMin
<1> QED BY <1>4, <1>5, <1>6

\* daily_fund_check owes what it decides on, and less with each transfer.
LEMMA DailyDueStep == FundsInv /\ [FuNext]_fundVars => DailyDue'
<1> SUFFICES ASSUME FundsInv, [FuNext]_fundVars,
                    phase'["daily"] = "move", Sound("daily")', plan'["daily"] # <<>>
             PROVE  (\E due \in Dues : Owes(plan["daily"], due))'
  BY DEF DailyDue
<1>0. /\ "daily" \in Scripts /\ phase \in [Scripts -> {"idle", "read", "move"}]
      /\ plan \in [Scripts -> Seq(Sends)] /\ usdt \in [Accounts -> Nat]
      /\ phase["daily"] = "move" /\ Sound("daily") /\ plan["daily"] # <<>> =>
           \E due \in Dues : Owes(plan["daily"], due)
  BY DEF Scripts, FundsInv, FundingTypeOK, Planned, DailyDue
<1>1. CASE Apart("daily")
  <2>1. PICK due \in Dues : Owes(plan["daily"], due)
    BY <1>0, <1>1 DEF Apart
  <2>2. Owes(plan["daily"], due)'
    BY <1>0, <1>1, <2>1 DEF Apart, Owes
  <2> QED BY <2>2
<1>2. CASE Start("daily") \/ ReadBalance("daily") \/ Finish("daily")
  BY <1>0, <1>2 DEF Start, ReadBalance, Reading, Finish
<1>3. CASE Decide("daily")
  <2>1. /\ Sound("daily") /\ usdt' = usdt /\ plan'["daily"] = DailyPlan(got["daily"])
    BY <1>0, <1>3 DEF Decide, Sound, PlanOf
  <2>2. PICK r \in Seq(Nat) :
          /\ r = got["daily"] /\ Len(r) = 5 /\ r[1] = usdt["main"]
          /\ \A i \in 1..4 : r[i + 1] = usdt[Subs[i]]
    <3>1. /\ got["daily"] \in Seq(Nat) /\ Len(got["daily"]) = Len(Reads["daily"])
          /\ \A k \in 1..Len(Reads["daily"]) : got["daily"][k] = usdt[Reads["daily"][k]]
      BY <1>0, <1>3, <2>1, AllRead DEF Decide
    <3>2. /\ Len(Reads["daily"]) = 5 /\ Reads["daily"][1] = "main"
          /\ \A i \in 1..4 : Reads["daily"][i + 1] = Subs[i]
      BY ReadsAre
    <3>3. 1 \in 1..5 /\ \A i \in 1..4 : i + 1 \in 1..5
      OBVIOUS
    <3>4. got["daily"][1] = usdt["main"] /\ Len(got["daily"]) = 5
      BY <3>1, <3>2, <3>3, Zenon
    <3>5. ASSUME NEW i \in 1..4 PROVE got["daily"][i + 1] = usdt[Subs[i]]
      BY <3>1, <3>2, <3>3, Zenon
    <3> QED BY <3>1, <3>4, <3>5, Zenon
  <2>3. PICK share \in [1..4 -> Nat] :
          /\ DailyPlan(r) = Sent(share)
          /\ \A i \in 1..4 : share[i] = 0 \/ r[i + 1] + share[i] <= Needed(Subs[i])
          /\ share[1] + share[2] + share[3] + share[4] <= r[1] - MainMin + 2
    BY <2>1, <2>2, DailyTyped
  <2>4. PICK q : q = plan'["daily"]
    OBVIOUS
  <2>5. Fits(q, share, 4)
    BY <2>1, <2>2, <2>3, <2>4, SentFits
  <2> DEFINE due == [a \in Accounts \ {"main"} |->
                       share[CHOOSE i \in 1..4 : Subs[i] = a]]
  <2>6. /\ due \in Dues /\ \A i \in 1..4 : Subs[i] \in Accounts \ {"main"} /\ due[Subs[i]] = share[i]
    <3>1. \A a \in Accounts \ {"main"} : \E i \in 1..4 : Subs[i] = a
      BY DEF Subs, Accounts
    <3>2. \A i, j \in 1..4 : Subs[i] = Subs[j] => i = j
      BY DEF Subs
    <3>3. \A i \in 1..4 : Subs[i] \in Accounts \ {"main"}
      BY DEF Subs, Accounts
    <3>4. \A i \in 1..4 : (CHOOSE j \in 1..4 : Subs[j] = Subs[i]) = i
      BY <3>2
    <3>5. \A a \in Accounts \ {"main"} : (CHOOSE i \in 1..4 : Subs[i] = a) \in 1..4
      BY <3>1
    <3>6. due \in Dues
      BY <3>5 DEF Dues
    <3> QED BY <3>3, <3>4, <3>6
  <2> HIDE DEF due
  <2>7. ASSUME NEW i \in 1..Len(q)
        PROVE  /\ q[i].from = "main" /\ q[i].amount = due[q[i].to]
               /\ usdt'[q[i].to] + q[i].amount <= Needed(q[i].to) + 1
               /\ \A j \in 1..Len(q) : i # j => q[i].to # q[j].to
    <3>1. PICK m \in 1..4 : q[i] = Transfer("main", Subs[m], share[m]) /\ share[m] >= MinTransfer
      BY <2>5 DEF Fits
    <3>2. q[i].from = "main" /\ q[i].to = Subs[m] /\ q[i].amount = share[m]
      BY <3>1 DEF Transfer
    <3>3. PICK u \in Nat, n \in Nat, k \in Nat :
            u = usdt[Subs[m]] /\ n = share[m] /\ k = Needed(Subs[m])
      BY <1>0, <2>6, NeededTyped
    <3>4. n >= 500 /\ (n = 0 \/ u + n <= k)
      BY <2>2, <2>3, <3>1, <3>3 DEF MinTransfer
    <3>5. u + n <= k + 1
      BY <3>4
    <3> QED BY <2>1, <2>5, <2>6, <3>2, <3>3, <3>5 DEF Fits
  <2>8. usdt'["main"] - (due["CM1"] + due["CM2"] + due["CMS1"] + due["CMS2"]) >= MainMin - 2
    <3>1. due["CM1"] = share[1] /\ due["CM2"] = share[2] /\ due["CMS1"] = share[3] /\ due["CMS2"] = share[4]
      <4>1. Subs[1] = "CM1" /\ Subs[2] = "CM2" /\ Subs[3] = "CMS1" /\ Subs[4] = "CMS2"
        BY DEF Subs
      <4>2. 1 \in 1..4 /\ 2 \in 1..4 /\ 3 \in 1..4 /\ 4 \in 1..4
        OBVIOUS
      <4> QED BY <2>6, <4>1, <4>2, Zenon
    <3>2. PICK a \in Nat, b \in Nat, c \in Nat, d \in Nat, u \in Nat :
            /\ a = share[1] /\ b = share[2] /\ c = share[3] /\ d = share[4] /\ u = usdt["main"]
      <4>1. share[1] \in Nat /\ share[2] \in Nat /\ share[3] \in Nat /\ share[4] \in Nat
        OBVIOUS
      <4>2. usdt["main"] \in Nat
        BY <1>0 DEF Accounts
      <4> QED BY <4>1, <4>2
    <3>3. a + b + c + d <= u - 2000 + 2
      BY <2>2, <2>3, <3>2 DEF MainMin
    <3>4. u - (a + b + c + d) >= 2000 - 2
      BY <3>3
    <3> QED BY <2>1, <3>1, <3>2, <3>4 DEF MainMin
  <2>9. Owes(plan["daily"], due)'
    BY <2>4, <2>7, <2>8 DEF Owes
  <2> QED BY <2>6, <2>9
<1>4. CASE MakeTransfer("daily")
  <2>1. PICK p \in Seq(Sends) :
          /\ p = plan["daily"] /\ p # <<>> /\ phase["daily"] = "move" /\ blind' = blind
          /\ plan'["daily"] = Tail(p)
          /\ \/ usdt' = usdt
             \/ usdt[Head(p).from] >= Head(p).amount /\ Pays(Head(p))
          /\ crossed' = crossed \/ CrossedBy("daily")
    BY <1>0, <1>4, TransferSteps
  <2>2. Sound("daily")
    <3>1. crossed \in [Scripts -> BOOLEAN]
      BY DEF FundsInv, FundingTypeOK
    <3>2. CrossedBy("daily") => crossed'["daily"] = crossed["daily"]
      BY <1>0, <3>1, Zenon DEF CrossedBy
    <3> QED BY <2>1, <3>2 DEF Sound
  <2>3. PICK due \in Dues : Owes(p, due)
    BY <1>0, <2>1, <2>2
  <2>4. PICK rest \in Dues :
           /\ \A i \in 1..Len(Tail(p)) :
                /\ Tail(p)[i].from = "main" /\ Tail(p)[i].amount = rest[Tail(p)[i].to]
                /\ usdt'[Tail(p)[i].to] + Tail(p)[i].amount <= Needed(Tail(p)[i].to) + 1
                /\ \A j \in 1..Len(Tail(p)) : i # j => Tail(p)[i].to # Tail(p)[j].to
           /\ usdt'["main"] - (rest["CM1"] + rest["CM2"] + rest["CMS1"] + rest["CMS2"]) >= MainMin - 2
    BY <1>0, <2>1, <2>3, OwesLess
  <2>5. Owes(plan["daily"], rest)'
    BY <2>1, <2>4 DEF Owes
  <2> QED BY <2>5
<1> QED BY <1>0, <1>1, <1>2, <1>3, <1>4, OwnOrApart DEF Own

LEMMA FundsStep == FundsInv /\ [FuNext]_fundVars => FundsInv'
  BY FundsTypedStep, ReadIsThereStep, SplitDueStep, DailyDueStep DEF FundsInv

\* What a transfer of daily_fund_check starts from.
LEMMA DailySends ==
  ASSUME FundsInv, [FuNext]_fundVars,
         plan'["daily"] # plan["daily"], phase["daily"] = "move", Sound("daily")
  PROVE  /\ usdt \in [Accounts -> Nat]
         /\ plan["daily"] \in Seq(Sends) /\ plan["daily"] # <<>>
         /\ \/ usdt' = usdt
            \/ usdt[Head(plan["daily"]).from] >= Head(plan["daily"]).amount /\ Pays(Head(plan["daily"]))
         /\ \E due \in Dues : Owes(plan["daily"], due)
<1>1. "daily" \in Scripts /\ phase \in [Scripts -> {"idle", "read", "move"}] /\ usdt \in [Accounts -> Nat]
  BY DEF Scripts, FundsInv, FundingTypeOK
<1>2. MakeTransfer("daily")
  <2>1. ~Apart("daily")
    BY DEF Apart
  <2>2. ~(Start("daily") \/ ReadBalance("daily") \/ Decide("daily"))
    BY DEF Start, Busy, ReadBalance, Reading, Decide
  <2>3. ~Finish("daily")
    BY DEF Finish
  <2> QED BY <1>1, <2>1, <2>2, <2>3, OwnOrApart DEF Own
<1>3. /\ plan["daily"] \in Seq(Sends) /\ plan["daily"] # <<>>
      /\ \/ usdt' = usdt
         \/ usdt[Head(plan["daily"]).from] >= Head(plan["daily"]).amount /\ Pays(Head(plan["daily"]))
  BY <1>1, <1>2, TransferSteps
<1>4. \E due \in Dues : Owes(plan["daily"], due)
  BY <1>3 DEF FundsInv, DailyDue
<1> QED BY <1>1, <1>3, <1>4

\* The four things the scripts keep to, as steps.
BufferStep ==
  plan'["daily"] # plan["daily"] /\ phase["daily"] = "move" /\ Sound("daily")
    /\ usdt'["main"] < usdt["main"]
  => usdt'["main"] >= MainMin - 2

NeedStep ==
  \A a \in Accounts \ {"main"} :
    plan'["daily"] # plan["daily"] /\ phase["daily"] = "move" /\ Sound("daily")
      /\ usdt'[a] > usdt[a]
    => usdt'[a] <= Needed(a) + 1

SplitStep ==
  phase["split"] = "move" /\ plan["split"] # <<>> /\ Sound("split")
    /\ usdt'["CM1"] # usdt["CM1"] /\ plan'["split"] # plan["split"]
  => LET t == Head(plan["split"])
         total == usdt["CM1"] + usdt["CM2"]
     IN usdt'[t.from] >= usdt'[t.to] /\ 10 * usdt'[t.from] <= 6 * total

OpeningStep ==
  saved' # saved /\ Sound("opening")
  => saved' = usdt["CM1"] + usdt["CM2"] + usdt["CMS1"] + usdt["CMS2"]

LEMMA KeepsBuffer == FundsInv /\ [FuNext]_fundVars => BufferStep
<1> SUFFICES ASSUME FundsInv, [FuNext]_fundVars,
                    plan'["daily"] # plan["daily"], phase["daily"] = "move", Sound("daily")
             PROVE  usdt'["main"] >= MainMin - 2
  BY DEF BufferStep
<1>1. PICK p \in Seq(Sends), due \in Dues :
        /\ p # <<>> /\ Owes(p, due) /\ usdt \in [Accounts -> Nat]
        /\ usdt' = usdt \/ (usdt[Head(p).from] >= Head(p).amount /\ Pays(Head(p)))
  BY DailySends
<1>2. PICK rest \in Dues :
        usdt'["main"] - (rest["CM1"] + rest["CM2"] + rest["CMS1"] + rest["CMS2"]) >= MainMin - 2
  BY <1>1, OwesLess
<1>3. PICK w \in Nat, x \in Nat, y \in Nat, z \in Nat :
        w = rest["CM1"] /\ x = rest["CM2"] /\ y = rest["CMS1"] /\ z = rest["CMS2"]
  BY DEF Dues, Accounts
<1>4. PICK k \in Nat : k = usdt'["main"]
  <2>1. usdt' \in [Accounts -> Nat]
    BY FundsTypedStep DEF FundingTypeOK
  <2> QED BY <2>1 DEF Accounts
<1>5. k - (w + x + y + z) >= 2000 - 2
  BY <1>2, <1>3, <1>4 DEF MainMin
<1>6. k >= 2000 - 2
  BY <1>5
<1> QED BY <1>4, <1>6 DEF MainMin

LEMMA SendsWhatIsNeeded == FundsInv /\ [FuNext]_fundVars => NeedStep
<1> SUFFICES ASSUME FundsInv, [FuNext]_fundVars, NEW a \in Accounts \ {"main"},
                    plan'["daily"] # plan["daily"], phase["daily"] = "move", Sound("daily"),
                    usdt'[a] > usdt[a]
             PROVE  usdt'[a] <= Needed(a) + 1
  BY DEF NeedStep
<1>1. PICK p \in Seq(Sends), due \in Dues :
        /\ p # <<>> /\ Owes(p, due) /\ usdt \in [Accounts -> Nat]
        /\ usdt' = usdt \/ (usdt[Head(p).from] >= Head(p).amount /\ Pays(Head(p)))
  BY DailySends
<1>2. usdt[Head(p).from] >= Head(p).amount /\ Pays(Head(p))
  BY <1>1
<1>3. PICK t \in Sends : t = Head(p) /\ t.from = "main" /\ usdt[t.to] + t.amount <= Needed(t.to) + 1
  BY <1>1, NextSend DEF Owes
<1>4. /\ usdt'[t.to] = usdt[t.to] + t.amount
      /\ \A b \in Accounts : b # t.from /\ b # t.to => usdt'[b] = usdt[b]
  BY <1>1, <1>2, <1>3, PaysTyped
<1>5. a = t.to
  BY <1>1, <1>3, <1>4
<1> QED BY <1>3, <1>4, <1>5

\* Moving a little less than half of the difference leaves the richer account the
\* richer one, with 60 % at most.
LEMMA HalfMoved ==
  ASSUME NEW hi \in Nat, NEW lo \in Nat, NEW n \in Nat, NEW gap \in Nat, gap = hi - lo,
         95 * gap >= 100000, 400 * n <= 190 * gap + 200, 400 * n + 200 > 190 * gap
  PROVE  hi - n >= lo + n /\ 10 * (hi - n) <= 6 * (hi + lo)
<1>1. gap >= 1000
  OBVIOUS
<1>2. 2 * n <= gap
  BY <1>1
<1>3. 10 * n >= 4 * gap
  BY <1>1
<1>4. hi = lo + gap
  OBVIOUS
<1> QED BY <1>2, <1>3, <1>4

LEMMA RestoresSplit == FundsInv /\ [FuNext]_fundVars => SplitStep
<1> SUFFICES ASSUME FundsInv, [FuNext]_fundVars,
                    phase["split"] = "move", plan["split"] # <<>>, Sound("split"),
                    usdt'["CM1"] # usdt["CM1"], plan'["split"] # plan["split"]
             PROVE  LET t == Head(plan["split"])
                        total == usdt["CM1"] + usdt["CM2"]
                    IN usdt'[t.from] >= usdt'[t.to] /\ 10 * usdt'[t.from] <= 6 * total
  BY DEF SplitStep
<1>0. "split" \in Scripts /\ phase \in [Scripts -> {"idle", "read", "move"}] /\ usdt \in [Accounts -> Nat]
  BY DEF Scripts, FundsInv, FundingTypeOK
<1>1. MakeTransfer("split")
  <2>1. ~Apart("split")
    BY DEF Apart
  <2>2. ~(Start("split") \/ ReadBalance("split") \/ Decide("split"))
    BY DEF Start, Busy, ReadBalance, Reading, Decide
  <2>3. ~Finish("split")
    BY DEF Finish
  <2> QED BY <1>0, <2>1, <2>2, <2>3, OwnOrApart DEF Own
<1>2. PICK x \in Nat, y \in Nat : x = usdt["CM1"] /\ y = usdt["CM2"]
  BY <1>0 DEF Accounts
<1>3. PICK t \in Sends : plan["split"] = <<t>> /\ Halves(t, x, y)
  <2>1. plan["split"] = SplitPlan(<<x, y>>)
    BY <1>2 DEF FundsInv, SplitDue
  <2> QED BY <2>1, SplitTyped, Zenon
<1>4. Head(plan["split"]) = t
  BY <1>3
<1>5. usdt[t.from] >= t.amount /\ Pays(t)
  BY <1>0, <1>1, <1>4, TransferSteps
<1>6. usdt'[t.from] = usdt[t.from] - t.amount /\ usdt'[t.to] = usdt[t.to] + t.amount
  BY <1>0, <1>5, PaysTyped
<1>7. PICK n \in Nat : n = t.amount
  BY DEF Sends
<1>8. ASSUME NEW hi \in Nat, NEW lo \in Nat, hi = usdt[t.from], lo = usdt[t.to], hi >= lo,
             hi + lo = x + y,
             LET gap == IF x >= y THEN x - y ELSE y - x IN gap = hi - lo
      PROVE  usdt'[t.from] >= usdt'[t.to] /\ 10 * usdt'[t.from] <= 6 * (x + y)
  <2>1. PICK gap \in Nat :
          /\ gap = hi - lo /\ gap = IF x >= y THEN x - y ELSE y - x
    BY <1>8
  <2>2. 95 * gap >= 100000 /\ 400 * n <= 190 * gap + 200 /\ 400 * n + 200 > 190 * gap
    BY <1>3, <1>7, <2>1 DEF Halves, MinTransfer
  <2>3. hi - n >= lo + n /\ 10 * (hi - n) <= 6 * (hi + lo)
    BY <2>1, <2>2, HalfMoved
  <2>4. usdt'[t.from] = hi - n /\ usdt'[t.to] = lo + n
    BY <1>6, <1>7, <1>8
  <2> QED BY <1>8, <2>3, <2>4
<1>9. usdt'[t.from] >= usdt'[t.to] /\ 10 * usdt'[t.from] <= 6 * (x + y)
  <2>1. CASE t.from = "CM1" /\ t.to = "CM2" /\ x >= y
    <3>1. x + y = x + y /\ (LET gap == IF x >= y THEN x - y ELSE y - x IN gap = x - y)
      BY <2>1
    <3> QED BY <1>2, <1>8, <2>1, <3>1
  <2>2. CASE t.from = "CM2" /\ t.to = "CM1" /\ y >= x
    <3>1. y + x = x + y /\ (LET gap == IF x >= y THEN x - y ELSE y - x IN gap = y - x)
      BY <2>2
    <3> QED BY <1>2, <1>8, <2>2, <3>1
  <2> QED BY <1>3, <2>1, <2>2 DEF Halves
<1> QED BY <1>2, <1>4, <1>9, Zenon

LEMMA SavesWhatIsHeld == FundsInv /\ [FuNext]_fundVars => OpeningStep
<1> SUFFICES ASSUME FundsInv, [FuNext]_fundVars, saved' # saved, Sound("opening")
             PROVE  saved' = usdt["CM1"] + usdt["CM2"] + usdt["CMS1"] + usdt["CMS2"]
  BY DEF OpeningStep
<1>1. SaveOpening
  <2>1. ASSUME NEW s \in Scripts
        PROVE  ~(Start(s) \/ ReadBalance(s) \/ Decide(s) \/ MakeTransfer(s) \/ Finish(s))
    BY DEF Start, ReadBalance, Decide, MakeTransfer, Finish
  <2> QED BY <2>1 DEF FuNext, BotChanges, fundVars
<1>2. PICK r : r = got["opening"] /\ Len(r) = Len(Reads["opening"])
                /\ \A k \in 1..Len(Reads["opening"]) : r[k] = usdt[Reads["opening"][k]]
  <2>1. "opening" \in Scripts /\ phase["opening"] = "read" /\ ~Reading("opening")
    BY <1>1 DEF Scripts, SaveOpening
  <2> QED BY <2>1, AllRead
<1>3. r[1] = usdt["CM1"] /\ r[2] = usdt["CM2"] /\ r[3] = usdt["CMS1"] /\ r[4] = usdt["CMS2"]
  <2>1. /\ Len(Reads["opening"]) = 4
        /\ Reads["opening"][1] = "CM1" /\ Reads["opening"][2] = "CM2"
        /\ Reads["opening"][3] = "CMS1" /\ Reads["opening"][4] = "CMS2"
    BY ReadsAre
  <2>2. 1 \in 1..4 /\ 2 \in 1..4 /\ 3 \in 1..4 /\ 4 \in 1..4
    OBVIOUS
  <2> QED BY <1>2, <2>1, <2>2, Zenon
<1> QED BY <1>1, <1>2, <1>3, Zenon DEF SaveOpening

-----------------------------------------------------------------------------
(* The scripts that close positions.                                       *)

\* A change of m brings a position of n nearer to zero, and not past it.
Towards(m, n) == \/ m = 0
                 \/ n > 0 /\ m < 0 /\ -m <= n
                 \/ n < 0 /\ m > 0 /\ m <= -n

LEMMA ReducesOnly ==
  ASSUME NEW d \in Int, NEW n \in Int
  PROVE  Reducing(d, n) \in Int /\ Towards(Reducing(d, n), n)
<1>1. CASE Sign(d) = Sign(n) \/ n = 0
  BY <1>1 DEF Reducing, Towards
<1>2. CASE n > 0 /\ d <= 0
  <2>1. Sign(n) = 1 /\ Away(n) = n /\ Away(d) = -d
    BY <1>2 DEF Sign, Away
  <2>2. CASE d = 0
    BY <1>2, <2>1, <2>2 DEF Reducing, Towards, Sign, Away
  <2>3. CASE d < 0
    <3>1. Sign(d) = -1
      BY <2>3 DEF Sign
    <3>2. PICK k \in Nat : k = IF Away(d) < Away(n) THEN Away(d) ELSE Away(n)
      BY <1>2, <2>1, <2>3
    <3>3. Reducing(d, n) = -k /\ k <= n /\ k > 0
      BY <1>2, <2>1, <2>3, <3>1, <3>2 DEF Reducing
    <3> QED BY <1>2, <3>3 DEF Towards
  <2> QED BY <1>2, <2>2, <2>3
<1>3. CASE n < 0 /\ d >= 0
  <2>1. Sign(n) = -1 /\ Away(n) = -n /\ Away(d) = d
    BY <1>3 DEF Sign, Away
  <2>2. CASE d = 0
    BY <1>3, <2>1, <2>2 DEF Reducing, Towards, Sign, Away
  <2>3. CASE d > 0
    <3>1. Sign(d) = 1
      BY <2>3 DEF Sign
    <3>2. PICK k \in Nat : k = IF Away(d) < Away(n) THEN Away(d) ELSE Away(n)
      BY <1>3, <2>1, <2>3
    <3>3. Reducing(d, n) = k /\ k <= -n /\ k > 0
      BY <1>3, <2>1, <2>3, <3>1, <3>2 DEF Reducing
    <3> QED BY <1>3, <3>3 DEF Towards
  <2> QED BY <1>3, <2>2, <2>3
<1> QED BY <1>1, <1>2, <1>3 DEF Sign

LEMMA ClosesOnly == ASSUME NEW n \in Int PROVE Towards(-n, n)
BY DEF Towards

\* Nor does a part of such a change bring it past zero.
LEMMA PartsTowards ==
  ASSUME NEW m \in Int, NEW n \in Int, Towards(m, n), NEW part \in 0..Away(m)
  PROVE  /\ Sign(m) * part \in Int
         /\ Away(n + Sign(m) * part) <= Away(n)
         /\ Sign(n + Sign(m) * part) \in {0, Sign(n)}
         /\ part >= Away(m) => Sign(m) * part = m
<1>1. CASE m = 0
  <2>1. part = 0 /\ Sign(m) = 0 /\ Sign(m) * part = 0
    BY <1>1 DEF Away, Sign
  <2>2. n + Sign(m) * part = n /\ Away(n) \in Int /\ Away(m) \in Int
    BY <2>1 DEF Away
  <2> QED BY <1>1, <2>1, <2>2
<1>2. CASE n > 0 /\ m < 0 /\ -m <= n
  <2>1. Sign(m) = -1 /\ Away(m) = -m
    BY <1>2 DEF Away, Sign
  <2>2. PICK k \in Nat : k = part /\ k <= -m /\ Sign(m) * part = -k
    BY <2>1
  <2>3. n + -k >= 0 /\ n + -k <= n
    BY <1>2, <2>2
  <2>4. Away(n + -k) <= Away(n) /\ Sign(n + -k) \in {0, Sign(n)}
    BY <1>2, <2>3 DEF Away, Sign
  <2> QED BY <1>2, <2>1, <2>2, <2>4
<1>3. CASE n < 0 /\ m > 0 /\ m <= -n
  <2>1. Sign(m) = 1 /\ Away(m) = m
    BY <1>3 DEF Away, Sign
  <2>2. PICK k \in Nat : k = part /\ k <= m /\ Sign(m) * part = k
    BY <2>1
  <2>3. n + k <= 0 /\ n + k >= n
    BY <1>3, <2>2
  <2>4. Away(n + k) <= Away(n) /\ Sign(n + k) \in {0, Sign(n)}
    BY <1>3, <2>3 DEF Away, Sign
  <2> QED BY <1>3, <2>1, <2>2, <2>4
<1> QED BY <1>1, <1>2, <1>3 DEF Towards

\* The positions, and a trade in one of them.
Positions == [FuturesAccounts -> [Pairs -> Int]]

LEMMA TradeMoves ==
  ASSUME position \in Positions, NEW a \in FuturesAccounts, NEW p \in Pairs, NEW d \in Int, Moves(a, p, d)
  PROVE  /\ position' \in Positions /\ position'[a][p] = position[a][p] + d
         /\ \A b \in FuturesAccounts, q \in Pairs :
              b # a \/ q # p => position'[b][q] = position[b][q]
<1>1. position' = [position EXCEPT ![a] = [position[a] EXCEPT ![p] = position[a][p] + d]]
  BY DEF Moves
<1>2. position[a] \in [Pairs -> Int] /\ position[a][p] + d \in Int
  BY DEF Positions
<1>3. PICK row \in [Pairs -> Int] :
        /\ row = [position[a] EXCEPT ![p] = position[a][p] + d] /\ row[p] = position[a][p] + d
        /\ \A q \in Pairs : q # p => row[q] = position[a][q]
  <2> DEFINE row == [position[a] EXCEPT ![p] = position[a][p] + d]
  <2>1. row \in [Pairs -> Int] /\ row[p] = position[a][p] + d
    BY <1>2
  <2>2. \A q \in Pairs : q # p => row[q] = position[a][q]
    BY <1>2
  <2> HIDE DEF row
  <2> QED BY <2>1, <2>2 DEF row
<1>4. position' = [position EXCEPT ![a] = row]
  BY <1>1, <1>3
<1> QED BY <1>3, <1>4 DEF Positions

\* Orders, and what becomes of them.
LEMMA OrderFields ==
  ASSUME NEW a \in FuturesAccounts, NEW p \in Pairs, NEW d \in Int, NEW m \in BOOLEAN
  PROVE  /\ Order(a, p, d, m) \in Orders
         /\ Order(a, p, d, m).account = a /\ Order(a, p, d, m).pair = p /\ Order(a, p, d, m).delta = d
         /\ Order(a, p, d, m).mine = m /\ Order(a, p, d, m).gone = FALSE
BY DEF Order, Orders

LEMMA OrderChanged ==
  ASSUME NEW o \in Orders
  PROVE  /\ [o EXCEPT !.gone = TRUE] \in Orders /\ [o EXCEPT !.gone = TRUE].gone
         /\ [o EXCEPT !.gone = TRUE].account = o.account /\ [o EXCEPT !.gone = TRUE].pair = o.pair
         /\ [o EXCEPT !.gone = TRUE].mine = o.mine
BY DEF Orders

LEMMA OrderShrinks ==
  ASSUME NEW o \in Orders, NEW d \in Int, ~o.gone, o.mine
  PROVE  [o EXCEPT !.delta = @ - d] = Order(o.account, o.pair, o.delta - d, TRUE)
<1>1. o.mine = TRUE /\ o.gone = FALSE /\ o.delta - d \in Int
  BY DEF Orders
<1>2. PICK e \in Int : e = o.delta - d
  BY <1>1
<1>3. PICK u : u = [o EXCEPT !.delta = e]
  OBVIOUS
<1>4. /\ u \in Orders /\ u.account = o.account /\ u.pair = o.pair /\ u.delta = e
      /\ u.mine = TRUE /\ u.gone = FALSE
  BY <1>1, <1>3 DEF Orders
<1>5. u = [account |-> u.account, pair |-> u.pair, delta |-> u.delta, mine |-> u.mine, gone |-> u.gone]
  BY <1>4 DEF Orders
<1> QED BY <1>2, <1>3, <1>4, <1>5 DEF Order

\* The course of a script: when it reads, and what it ends with.
Course ==
  /\ bad <= failures
  /\ at \in {"start", "cancel"} /\ closer # "sweeping" => left = Pairs
  /\ at = "cancel" => closer = "bybit"
  /\ at # "end" => said = "nothing"
  /\ closer = "sweeping" /\ at = "end" => said = "done"
  /\ said = "none" => closer \in {"crossing", "resting"}
  /\ said = "done" => closer = "sweeping"

\* Only the resting script puts orders on the book, once it has read, and
\* nobody cancels them.
OwnOrders == \A o \in book : o.mine => closer = "resting" /\ at \in {"close", "end"} /\ said # "none" /\ ~o.gone

\* A position that was read and is still to be closed is the one that was read,
\* unless it moved by itself or reading it failed; no order closes it yet.
Ahead(a, p) ==
  \/ at = "start" /\ closer \in {"crossing", "resting"} /\ turn = "CM2" /\ a = "CM1"
  \/ at = "close" /\ closer # "bybit" /\ a = turn /\ p \in left
  \/ at = "close" /\ closer \in {"crossing", "resting"} /\ turn = "CM1" /\ a = "CM2"
Known(a, p) == position[a][p] = seen[a][p] \/ (failures > 0 /\ seen[a][p] = 0)
Behind == \A o \in book : o.mine => ~Ahead(o.account, o.pair)
Fresh == ~stale => \A a \in FuturesAccounts, p \in Pairs : Ahead(a, p) => Known(a, p)

\* The sweep of an account: cancelled pair by pair, then closed pair by pair.
Unhindered == failures = 0 /\ trades = 0 /\ ~thin /\ ~rushed
Emptied(a) == (\A p \in Pairs : position[a][p] = 0) /\ \A o \in book : o.account # a
Sweeps ==
  /\ turn = "CM2" \/ at = "end" => Emptied("CM1")
  /\ at = "end" => Emptied("CM2")
  /\ at = "start" => \A o \in book : o.account = turn => o.pair \in left \/ o.gone
  /\ at = "close" => /\ \A o \in book : o.account # turn
                     /\ \A p \in Pairs : position[turn][p] = IF p \in left THEN seen[turn][p] ELSE 0
Swept == closer = "sweeping" /\ Unhindered => Sweeps

\* What is left of a position that was handled is what its resting order has
\* still to do.
Rests ==
  closer = "resting" /\ failures = 0 /\ ~stale /\ at \in {"close", "end"} =>
    /\ \A a \in FuturesAccounts, p \in Pairs :
         position[a][p] # 0 => Ahead(a, p) \/ Order(a, p, -position[a][p], TRUE) \in book
    /\ \A o \in book : o.mine =>
         /\ o = Order(o.account, o.pair, -position[o.account][o.pair], TRUE)
         /\ position[o.account][o.pair] # 0

CloseInv == CloseTypeOK /\ Course /\ OwnOrders /\ Behind /\ Fresh /\ Swept /\ Rests /\ NoneMeansFlat

\* Nothing has been read or placed when a script starts.
LEMMA CloseInit == ClInit => CloseInv
<1> SUFFICES ASSUME ClInit PROVE CloseInv
  OBVIOUS
<1> USE CloseAssumption DEF ClInit
<1>1. CloseTypeOK
  <2>1. position \in [FuturesAccounts -> [Pairs -> Int]]
    BY DEF FuturesAccounts
  <2>2. book \subseteq Orders
    <3>1. PICK a \in Holders(closer), p \in Pairs, d \in {-1, 1} : book \in {{}, {Order(a, p, d, FALSE)}}
      OBVIOUS
    <3>2. a \in FuturesAccounts /\ d \in Int /\ FALSE \in BOOLEAN
      BY DEF Holders, FuturesAccounts
    <3>3. Order(a, p, d, FALSE) \in Orders
      BY <3>2, OrderFields
    <3> QED BY <3>1, <3>3
  <2>3. seen \in [FuturesAccounts -> [Pairs -> Int]]
    BY DEF Flat
  <2>4. turn \in Holders(closer)
    BY DEF Holders, FuturesAccounts
  <2>5. /\ bad \in 0..MaxFaults /\ trades \in 0..MaxTrades /\ failures \in 0..MaxFaults
        /\ at \in {"start", "cancel", "close", "end"} /\ left \subseteq Pairs
        /\ said \in {"nothing", "none", "done", "closed", "open"}
    OBVIOUS
  <2>6. waits \in BOOLEAN /\ thin \in BOOLEAN /\ stale \in BOOLEAN /\ rushed \in BOOLEAN
    OBVIOUS
  <2> QED BY <2>1, <2>2, <2>3, <2>4, <2>5, <2>6, Zenon DEF CloseTypeOK
<1>2. \A o \in book : ~o.mine
  <2>1. PICK a \in Holders(closer), p \in Pairs, d \in {-1, 1} : book \in {{}, {Order(a, p, d, FALSE)}}
    OBVIOUS
  <2> QED BY <2>1 DEF Order
<1>3. Course /\ OwnOrders
  BY <1>2 DEF Course, OwnOrders
<1>7. Behind
  BY <1>2 DEF Behind
<1>4. Fresh
  BY DEF Fresh, Ahead
<1>5. Swept
  <2>1. \A o \in book : o.pair \in left
    BY <1>1 DEF CloseTypeOK, Orders
  <2> QED BY <2>1 DEF Swept, Sweeps
<1>6. Rests /\ NoneMeansFlat
  BY DEF Rests, NoneMeansFlat
<1> QED BY <1>1, <1>3, <1>4, <1>5, <1>6, <1>7 DEF CloseInv

\* Requests that fail are counted.
LEMMA Requests ==
  ASSUME CloseTypeOK, Fails \/ Answers
  PROVE  /\ failures' \in 0..MaxFaults /\ failures <= failures'
         /\ Fails => failures' > 0 /\ failures' = failures + 1
         /\ failures' = 0 => failures = 0 /\ ~Fails
BY CloseAssumption DEF CloseTypeOK, Fails, Answers

\* What reading the positions of an account yields.
LEMMA ReadYields ==
  ASSUME CloseTypeOK, NEW a \in FuturesAccounts, Read(a)
  PROVE  /\ seen' \in [FuturesAccounts -> [Pairs -> Int]]
         /\ failures' \in 0..MaxFaults /\ failures <= failures'
         /\ seen'[a] = position[a] \/ (seen'[a] = Flat /\ failures' > 0)
         /\ \A b \in FuturesAccounts : b # a => seen'[b] = seen[b]
<1>1. Fails \/ Answers
  BY DEF Read
<1>2. Flat \in [Pairs -> Int] /\ position[a] \in [Pairs -> Int]
  BY DEF Flat, CloseTypeOK
<1>3. CASE Answers /\ seen' = [seen EXCEPT ![a] = position[a]]
  BY <1>1, <1>2, <1>3, Requests DEF CloseTypeOK
<1>4. CASE Fails /\ seen' = [seen EXCEPT ![a] = Flat]
  BY <1>1, <1>2, <1>4, Requests DEF CloseTypeOK
<1> QED BY <1>3, <1>4 DEF Read

\* A script turns to the second account, or stays with the one it has.
LEMMA Turns ==
  ASSUME CloseTypeOK
  PROVE  /\ NextTurn \in Holders(closer)
         /\ NextTurn # turn => turn = "CM1" /\ NextTurn = "CM2"
         /\ closer # "bybit" /\ NextTurn = turn => turn = "CM2"
BY DEF CloseTypeOK, NextTurn, Holders, FuturesAccounts, Closers

\* What an order that closes the position that was read does.
LEMMA PlacedYields ==
  ASSUME CloseTypeOK, NEW p \in Pairs,
         IF closer = "resting" THEN Resting(turn, p, CloseDelta(turn, p))
                               ELSE Immediate(turn, p, CloseDelta(turn, p))
  PROVE  /\ turn \in FuturesAccounts /\ CloseDelta(turn, p) = -seen[turn][p]
         /\ -seen[turn][p] \in Int /\ seen[turn][p] \in Int
         /\ thin' \in BOOLEAN
         /\ \/ closer = "resting" /\ position' = position /\ thin' = thin
               /\ book' = book \cup {Order(turn, p, -seen[turn][p], TRUE)}
            \/ closer # "resting" /\ book' = book
               /\ \E part \in 0..Away(Effect(-seen[turn][p], position[turn][p])) :
                    /\ Moves(turn, p, Sign(Effect(-seen[turn][p], position[turn][p])) * part)
                    /\ thin' = (thin \/ part < Away(-seen[turn][p]))
<1>1. turn \in FuturesAccounts
  BY DEF CloseTypeOK, Holders, FuturesAccounts, Closers
<1>2. CloseDelta(turn, p) = -seen[turn][p] /\ seen[turn][p] \in Int /\ -seen[turn][p] \in Int
  BY <1>1 DEF CloseDelta, CloseTypeOK
<1>3. PICK d : d = CloseDelta(turn, p) /\ d = -seen[turn][p]
  BY <1>2
<1>4. CASE closer = "resting"
  <2>1. Resting(turn, p, d)
    BY <1>3, <1>4
  <2>2. thin' = thin /\ position' = position /\ book' = book \cup {Order(turn, p, d, TRUE)}
    BY <2>1 DEF Resting
  <2>3. thin' \in BOOLEAN
    BY <2>2 DEF CloseTypeOK
  <2> QED BY <1>1, <1>2, <1>3, <1>4, <2>2, <2>3
<1>5. CASE closer # "resting"
  <2>1. Immediate(turn, p, d)
    BY <1>3, <1>5
  <2>2. PICK e : e = Effect(d, position[turn][p])
    OBVIOUS
  <2>3. PICK k \in 0..Away(e) :
          Moves(turn, p, Sign(e) * k) /\ thin' = (thin \/ k < Away(d)) /\ book' = book
    BY <2>1, <2>2 DEF Immediate
  <2>4. thin' \in BOOLEAN
    BY <2>3, Zenon
  <2>5. \E part \in 0..Away(Effect(d, position[turn][p])) :
           Moves(turn, p, Sign(Effect(d, position[turn][p])) * part) /\ thin' = (thin \/ part < Away(d))
    BY <2>2, <2>3
  <2>6. \E part \in 0..Away(Effect(-seen[turn][p], position[turn][p])) :
           /\ Moves(turn, p, Sign(Effect(-seen[turn][p], position[turn][p])) * part)
           /\ thin' = (thin \/ part < Away(-seen[turn][p]))
    BY <1>3, <2>5
  <2> QED BY <1>1, <1>2, <1>5, <2>3, <2>4, <2>6, Zenon
<1> QED BY <1>4, <1>5

\* The steps of the scripts, of the bot and of the exchange keep to the types.
LEMMA CloseTyped == CloseInv /\ [ClNext]_closeVars => CloseTypeOK'
<1> SUFFICES ASSUME CloseTypeOK, Course, [ClNext]_closeVars PROVE CloseTypeOK'
  BY DEF CloseInv
<1> USE CloseAssumption
<1>0. turn \in FuturesAccounts /\ Flat \in [Pairs -> Int]
  BY DEF CloseTypeOK, Holders, FuturesAccounts, Flat
<1>1. CASE UNCHANGED closeVars
  BY <1>1 DEF closeVars, CloseTypeOK
<1>2. CASE ReadBoth
  <2>1. /\ seen' \in [FuturesAccounts -> [Pairs -> Int]] /\ failures' \in 0..MaxFaults
    BY <1>0, <1>2, ReadYields DEF ReadBoth
  <2>2. stale' \in BOOLEAN
    BY <1>2, Zenon DEF ReadBoth
  <2>3. /\ turn' \in Holders(closer) /\ at' \in {"start", "cancel", "close", "end"}
        /\ said' \in {"nothing", "none", "done", "closed", "open"}
    BY <1>2 DEF ReadBoth, CloseTypeOK, Holders, FuturesAccounts
  <2> QED BY <1>2, <2>1, <2>2, <2>3 DEF ReadBoth, CloseTypeOK
<1>3. CASE CancelPair
  <2>1. failures' \in 0..MaxFaults
    BY <1>3, Requests DEF CancelPair
  <2>2. book' \subseteq Orders /\ left' \subseteq Pairs
    <3>1. PICK open \in SUBSET book :
            book' = book \/ book' = (book \ open) \cup {[o EXCEPT !.gone = TRUE] : o \in open}
      BY <1>3 DEF CancelPair
    <3>2. \A o \in book : o \in Orders /\ [o EXCEPT !.gone = TRUE] \in Orders
      BY OrderChanged DEF CloseTypeOK
    <3> QED BY <1>3, <3>1, <3>2 DEF CancelPair, CloseTypeOK
  <2>3. waits' \in BOOLEAN
    BY <1>3 DEF CancelPair, CloseTypeOK
  <2> QED BY <1>3, <2>1, <2>2, <2>3 DEF CancelPair, CloseTypeOK
<1>4. CASE ReadAfterCancel
  <2>1. failures' \in 0..MaxFaults
    BY <1>4, Requests DEF ReadAfterCancel
  <2>2. seen' \in [FuturesAccounts -> [Pairs -> Int]]
    BY <1>0, <1>4 DEF ReadAfterCancel, CloseTypeOK
  <2>3. rushed' \in BOOLEAN
    BY <1>4, Zenon DEF ReadAfterCancel
  <2>4. /\ turn' \in Holders(closer) /\ at' \in {"start", "cancel", "close", "end"}
        /\ said' \in {"nothing", "none", "done", "closed", "open"} /\ waits' \in BOOLEAN
    BY <1>4, Turns DEF ReadAfterCancel, CloseTypeOK
  <2> QED BY <1>4, <2>1, <2>2, <2>3, <2>4 DEF ReadAfterCancel, CloseTypeOK
<1>5. CASE ReadBybit
  <2>1. /\ seen' \in [FuturesAccounts -> [Pairs -> Int]] /\ failures' \in 0..MaxFaults
    BY <1>5, ReadYields DEF ReadBybit, FuturesAccounts
  <2> QED BY <1>5, <2>1 DEF ReadBybit, CloseTypeOK
<1>6. CASE CancelAll
  <2>1. failures' \in 0..MaxFaults
    BY <1>6, Requests DEF CancelAll
  <2> QED BY <1>6, <2>1 DEF CancelAll, CloseTypeOK
<1>7. CASE ClosePosition
  <2>1. PICK p \in left :
          /\ left' = left \ {p}
          /\ \/ Answers /\ bad' = bad /\ IF closer = "resting" THEN Resting(turn, p, CloseDelta(turn, p))
                                                              ELSE Immediate(turn, p, CloseDelta(turn, p))
             \/ Fails /\ bad' = bad + 1 /\ UNCHANGED <<exchange, thin>>
             \/ Fails /\ bad' = bad + 1 /\ IF closer = "resting" THEN Resting(turn, p, CloseDelta(turn, p))
                                                              ELSE Immediate(turn, p, CloseDelta(turn, p))
    BY <1>7 DEF ClosePosition
  <2>2. failures' \in 0..MaxFaults /\ bad' \in 0..MaxFaults
    BY <2>1, Requests DEF Answers, Fails, CloseTypeOK, Course
  <2>3. position' \in [FuturesAccounts -> [Pairs -> Int]] /\ book' \subseteq Orders /\ thin' \in BOOLEAN
    <3>1. CASE UNCHANGED <<exchange, thin>>
      BY <3>1 DEF CloseTypeOK, exchange
    <3>2. CASE IF closer = "resting" THEN Resting(turn, p, CloseDelta(turn, p))
                                     ELSE Immediate(turn, p, CloseDelta(turn, p))
      <4>1. p \in Pairs
        BY DEF CloseTypeOK
      <4>2. -seen[turn][p] \in Int /\ thin' \in BOOLEAN
        BY <3>2, <4>1, PlacedYields
      <4>3. CASE position' = position /\ book' = book \cup {Order(turn, p, -seen[turn][p], TRUE)}
        <5>1. Order(turn, p, -seen[turn][p], TRUE) \in Orders
          BY <1>0, <4>1, <4>2, OrderFields
        <5> QED BY <4>2, <4>3, <5>1 DEF CloseTypeOK
      <4>4. ASSUME book' = book,
                   NEW part \in 0..Away(Effect(-seen[turn][p], position[turn][p])),
                   Moves(turn, p, Sign(Effect(-seen[turn][p], position[turn][p])) * part)
            PROVE  position' \in [FuturesAccounts -> [Pairs -> Int]] /\ book' \subseteq Orders
        <5>1. Sign(Effect(-seen[turn][p], position[turn][p])) * part \in Int
          <6>1. PICK m : m = Effect(-seen[turn][p], position[turn][p])
            OBVIOUS
          <6>2. Sign(m) \in Int /\ part \in Int
            BY <4>4, <6>1 DEF Sign
          <6> QED BY <6>1, <6>2
        <5>2. position' \in Positions
          BY <1>0, <4>1, <4>4, <5>1, TradeMoves DEF CloseTypeOK, Positions
        <5> QED BY <4>4, <5>2 DEF Positions, CloseTypeOK
      <4> QED BY <3>2, <4>1, <4>2, <4>3, <4>4, PlacedYields
    <3> QED BY <2>1, <3>1, <3>2
  <2>4. left' \subseteq Pairs /\ UNCHANGED <<closer, at, turn, seen, waits, said, trades, stale, rushed>>
    BY <1>7, <2>1 DEF ClosePosition, CloseTypeOK
  <2> QED BY <2>2, <2>3, <2>4 DEF CloseTypeOK
<1>8. CASE EndAccount
  <2>1. /\ turn' \in Holders(closer) /\ at' \in {"start", "cancel", "close", "end"}
        /\ said' \in {"nothing", "none", "done", "closed", "open"}
    BY <1>8, Turns DEF EndAccount, CloseTypeOK, Verdict
  <2> QED BY <1>8, <2>1 DEF EndAccount, CloseTypeOK
<1>9. CASE CheckBybit
  <2>1. seen' \in [FuturesAccounts -> [Pairs -> Int]] /\ failures' \in 0..MaxFaults
    BY <1>9, ReadYields, Requests DEF CheckBybit, CloseTypeOK, FuturesAccounts
  <2>2. said' \in {"nothing", "none", "done", "closed", "open"}
    BY <1>9 DEF CheckBybit, CloseTypeOK
  <2> QED BY <1>9, <2>1, <2>2 DEF CheckBybit, CloseTypeOK
<1>10. CASE BotTrades
  <2>1. PICK a \in Holders(closer), p \in Pairs, d \in {-1, 1} : Moves(a, p, d)
    BY <1>10 DEF BotTrades
  <2>2. a \in FuturesAccounts /\ d \in Int
    BY DEF Holders, FuturesAccounts
  <2>3. position' \in Positions
    BY <2>1, <2>2, TradeMoves DEF CloseTypeOK, Positions
  <2>4. trades' \in 0..MaxTrades
    BY <1>10 DEF BotTrades, CloseTypeOK
  <2> QED BY <1>10, <2>3, <2>4 DEF BotTrades, CloseTypeOK, Positions
<1>11. CASE BotFills
  <2>1. PICK o \in BotOrders : Moves(o.account, o.pair, o.delta) /\ book' = book \ {o}
    BY <1>11 DEF BotFills
  <2>2. o.account \in FuturesAccounts /\ o.pair \in Pairs /\ o.delta \in Int
    BY DEF BotOrders, CloseTypeOK, Orders
  <2>3. position' \in Positions
    BY <2>1, <2>2, TradeMoves DEF CloseTypeOK, Positions
  <2> QED BY <1>11, <2>1, <2>3 DEF BotFills, CloseTypeOK, Positions
<1>12. CASE CloseFills
  <2>0. PICK o \in book :
          LET d == Effect(Sign(o.delta), position[o.account][o.pair]) IN
          /\ Moves(o.account, o.pair, d)
          /\ book' = book \ {o} \/ book' = (book \ {o}) \cup {[o EXCEPT !.delta = @ - d]}
    BY <1>12 DEF CloseFills
  <2>1. PICK d :
          /\ d = Effect(Sign(o.delta), position[o.account][o.pair])
          /\ Moves(o.account, o.pair, d)
          /\ book' = book \ {o} \/ book' = (book \ {o}) \cup {[o EXCEPT !.delta = @ - d]}
    BY <2>0
  <2>2. /\ o \in Orders /\ o.account \in FuturesAccounts /\ o.pair \in Pairs /\ o.delta \in Int
        /\ position[o.account][o.pair] \in Int /\ Sign(o.delta) \in Int
    BY DEF CloseTypeOK, Orders, Sign
  <2>3. d \in Int
    BY <2>1, <2>2, ReducesOnly DEF Effect
  <2>4. position' \in Positions
    BY <2>1, <2>2, <2>3, TradeMoves DEF CloseTypeOK, Positions
  <2>5. [o EXCEPT !.delta = @ - d] \in Orders
    BY <2>2, <2>3 DEF Orders
  <2>6. book' \subseteq Orders
    BY <2>1, <2>5 DEF CloseTypeOK
  <2> QED BY <1>12, <2>4, <2>6 DEF CloseFills, CloseTypeOK, Positions
<1>13. CASE CancelSettles
  <2>1. book' \subseteq Orders
    BY <1>13 DEF CancelSettles, CloseTypeOK
  <2> QED BY <1>13, <2>1 DEF CancelSettles, CloseTypeOK
<1> QED BY <1>1, <1>2, <1>3, <1>4, <1>5, <1>6, <1>7, <1>8, <1>9, <1>10, <1>11, <1>12, <1>13
       DEF ClNext, ClSteps

\* The course of a script, and whose orders are on the book.
LEMMA CourseStep == CloseInv /\ [ClNext]_closeVars => Course'
<1> SUFFICES ASSUME CloseTypeOK, Course, [ClNext]_closeVars PROVE Course'
  BY DEF CloseInv
<1>1. CASE UNCHANGED closeVars
  BY <1>1 DEF closeVars, Course
<1>2. CASE ReadBoth
  BY <1>2, Requests DEF ReadBoth, Read, Course, CloseTypeOK
<1>3. CASE CancelPair
  <2>1. failures <= failures' /\ failures \in Int /\ failures' \in Int /\ bad \in Int
    <3>1. failures' \in 0..MaxFaults /\ failures <= failures'
      BY <1>3, Requests DEF CancelPair
    <3> QED BY <3>1, CloseAssumption DEF CloseTypeOK
  <2>2. UNCHANGED <<closer, at, said, bad>> /\ closer = "sweeping" /\ at = "start"
    BY <1>3 DEF CancelPair
  <2> QED BY <2>1, <2>2 DEF Course
<1>4. CASE ReadAfterCancel
  BY <1>4, Requests DEF ReadAfterCancel, Course, CloseTypeOK
<1>5. CASE ReadBybit
  BY <1>5, Requests DEF ReadBybit, Read, Course, CloseTypeOK
<1>6. CASE CancelAll
  BY <1>6, Requests DEF CancelAll, Course, CloseTypeOK
<1>7. CASE ClosePosition
  <2>1. bad' <= failures'
    BY <1>7 DEF ClosePosition, Fails, Answers, Course, CloseTypeOK
  <2>2. UNCHANGED <<closer, at, said>> /\ at = "close"
    BY <1>7 DEF ClosePosition
  <2> QED BY <2>1, <2>2 DEF Course
<1>8. CASE EndAccount
  BY <1>8, Turns DEF EndAccount, Course, CloseTypeOK, Verdict
<1>9. CASE CheckBybit
  BY <1>9, Requests DEF CheckBybit, Read, Course, CloseTypeOK
<1>10. CASE BotTrades
  BY <1>10 DEF BotTrades, Course
<1>11. CASE BotFills
  BY <1>11 DEF BotFills, Course
<1>12. CASE CloseFills
  BY <1>12 DEF CloseFills, Course
<1>13. CASE CancelSettles
  BY <1>13 DEF CancelSettles, Course
<1> QED BY <1>1, <1>2, <1>3, <1>4, <1>5, <1>6, <1>7, <1>8, <1>9, <1>10, <1>11, <1>12, <1>13
       DEF ClNext, ClSteps

LEMMA OwnOrdersStep == CloseInv /\ [ClNext]_closeVars => OwnOrders'
<1> SUFFICES ASSUME CloseTypeOK, Course, OwnOrders, [ClNext]_closeVars PROVE OwnOrders'
  BY DEF CloseInv
<1>0. turn \in FuturesAccounts
  BY DEF CloseTypeOK, Holders, FuturesAccounts
<1>1. CASE UNCHANGED closeVars
  BY <1>1 DEF closeVars, OwnOrders
<1>2. CASE ReadBoth
  BY <1>2 DEF ReadBoth, OwnOrders
<1>3. CASE CancelPair
  <2>1. \A o \in book : ~o.mine
    BY <1>3 DEF CancelPair, OwnOrders
  <2>2. PICK open \in SUBSET book :
          book' = book \/ book' = (book \ open) \cup {[o EXCEPT !.gone = TRUE] : o \in open}
    BY <1>3 DEF CancelPair
  <2>3. \A o \in book : ~[o EXCEPT !.gone = TRUE].mine
    BY <2>1, OrderChanged DEF CloseTypeOK
  <2>4. ASSUME NEW o \in book' PROVE ~o.mine
    <3>1. o \in book \/ \E x \in book : o = [x EXCEPT !.gone = TRUE]
      BY <2>2
    <3> QED BY <2>1, <2>3, <3>1
  <2> QED BY <2>4 DEF OwnOrders
<1>4. CASE ReadAfterCancel \/ ReadBybit \/ CancelAll
  BY <1>4 DEF ReadAfterCancel, ReadBybit, CancelAll, OwnOrders
<1>5. CASE ClosePosition
  <2>1. UNCHANGED <<closer, at, said>> /\ at = "close" /\ said # "none"
    BY <1>5 DEF ClosePosition, Course
  <2>2. book' = book \/ \E p \in Pairs, d \in Int : closer = "resting" /\ book' = book \cup {Order(turn, p, d, TRUE)}
    <3>1. PICK p \in left :
            \/ UNCHANGED exchange
            \/ IF closer = "resting" THEN Resting(turn, p, CloseDelta(turn, p))
                                     ELSE Immediate(turn, p, CloseDelta(turn, p))
      BY <1>5 DEF ClosePosition, exchange
    <3>2. p \in Pairs
      BY DEF CloseTypeOK
    <3> QED BY <3>1, <3>2, PlacedYields DEF exchange
  <2>3. \A p \in Pairs, d \in Int : ~Order(turn, p, d, TRUE).gone
    <3>1. TRUE \in BOOLEAN
      OBVIOUS
    <3> QED BY <1>0, <3>1, OrderFields
  <2>4. ASSUME NEW o \in book', o.mine PROVE closer = "resting" /\ ~o.gone
    <3>1. CASE o \in book
      BY <2>4, <3>1 DEF OwnOrders
    <3>2. CASE \E p \in Pairs, d \in Int : closer = "resting" /\ o = Order(turn, p, d, TRUE)
      BY <2>3, <3>2
    <3>3. o \in book \/ \E p \in Pairs, d \in Int : closer = "resting" /\ o = Order(turn, p, d, TRUE)
      <4>1. ASSUME NEW p \in Pairs, NEW d \in Int, closer = "resting",
                   book' = book \cup {Order(turn, p, d, TRUE)}
            PROVE  o \in book \/ (closer = "resting" /\ o = Order(turn, p, d, TRUE))
        BY <4>1
      <4> QED BY <2>2, <4>1
    <3> QED BY <3>1, <3>2, <3>3
  <2> QED BY <2>1, <2>4 DEF OwnOrders
<1>6. CASE EndAccount
  BY <1>6 DEF EndAccount, OwnOrders, Verdict
<1>7. CASE CheckBybit
  BY <1>7 DEF CheckBybit, OwnOrders
<1>8. CASE BotTrades \/ BotFills
  BY <1>8 DEF BotTrades, BotFills, OwnOrders
<1>9. CASE CloseFills
  <2>1. UNCHANGED <<closer, at, said>>
    BY <1>9 DEF CloseFills
  <2>2. PICK o \in book : o.mine /\ \E d : book' \subseteq book \cup {[o EXCEPT !.delta = @ - d]}
    BY <1>9 DEF CloseFills
  <2>3. PICK d : book' \subseteq book \cup {[o EXCEPT !.delta = @ - d]}
    BY <2>2
  <2>4. PICK u : u = [o EXCEPT !.delta = @ - d] /\ u.mine = o.mine /\ u.gone = o.gone
    <3>1. o \in Orders
      BY DEF CloseTypeOK
    <3>2. [o EXCEPT !.delta = @ - d].mine = o.mine /\ [o EXCEPT !.delta = @ - d].gone = o.gone
      BY <3>1 DEF Orders
    <3> QED BY <3>2
  <2>5. \A x \in book' : x \in book \/ x = u
    BY <2>3, <2>4
  <2> QED BY <2>1, <2>2, <2>4, <2>5 DEF OwnOrders
<1>10. CASE CancelSettles
  BY <1>10 DEF CancelSettles, OwnOrders
<1> QED BY <1>1, <1>2, <1>3, <1>4, <1>5, <1>6, <1>7, <1>8, <1>9, <1>10 DEF ClNext, ClSteps

\* What is still to be closed was so before, unless the script still read.
LEMMA Onward ==
  ASSUME CloseTypeOK, Course, [ClNext]_closeVars, NEW a \in FuturesAccounts, NEW p \in Pairs, Ahead(a, p)'
  PROVE  Ahead(a, p) \/ at = "start"
<1>1. CASE UNCHANGED closeVars
  BY <1>1 DEF closeVars, Ahead
<1>2. CASE ReadBoth \/ CancelPair \/ ReadAfterCancel \/ ReadBybit
  BY <1>2 DEF ReadBoth, CancelPair, ReadAfterCancel, ReadBybit
<1>3. CASE CancelAll
  BY <1>3 DEF CancelAll, Course, Ahead
<1>4. CASE ClosePosition
  <2>1. UNCHANGED <<closer, at, turn>> /\ left' \subseteq left
    BY <1>4 DEF ClosePosition
  <2> QED BY <2>1 DEF Ahead
<1>5. CASE EndAccount
  BY <1>5, Turns DEF EndAccount, Ahead, CloseTypeOK, Closers
<1>6. CASE CheckBybit
  BY <1>6 DEF CheckBybit, Ahead
<1>7. CASE BotTrades \/ BotFills \/ CloseFills \/ CancelSettles
  BY <1>7 DEF BotTrades, BotFills, CloseFills, CancelSettles, Ahead
<1> QED BY <1>1, <1>2, <1>3, <1>4, <1>5, <1>6, <1>7 DEF ClNext, ClSteps

\* An order is placed for one pair, which is then handled.
LEMMA PlacesOne ==
  ASSUME CloseTypeOK, ClosePosition
  PROVE  \E p \in Pairs :
           /\ p \in left /\ left' = left \ {p} /\ turn \in FuturesAccounts
           /\ seen[turn][p] # 0 /\ seen[turn][p] \in Int /\ -seen[turn][p] \in Int
           /\ failures' \in Int /\ failures <= failures'
           /\ \/ failures' > 0 /\ position' = position /\ book' = book /\ thin' = thin
              \/ closer = "resting" /\ position' = position /\ thin' = thin
                 /\ book' = book \cup {Order(turn, p, -seen[turn][p], TRUE)}
              \/ closer # "resting" /\ book' = book
                 /\ \E part \in 0..Away(Effect(-seen[turn][p], position[turn][p])) :
                      /\ Moves(turn, p, Sign(Effect(-seen[turn][p], position[turn][p])) * part)
                      /\ thin' = (thin \/ part < Away(-seen[turn][p]))
<1>1. PICK p \in left :
        /\ seen[turn][p] # 0 /\ left' = left \ {p}
        /\ \/ Answers /\ IF closer = "resting" THEN Resting(turn, p, CloseDelta(turn, p))
                                               ELSE Immediate(turn, p, CloseDelta(turn, p))
           \/ Fails /\ UNCHANGED <<exchange, thin>>
           \/ Fails /\ IF closer = "resting" THEN Resting(turn, p, CloseDelta(turn, p))
                                             ELSE Immediate(turn, p, CloseDelta(turn, p))
  BY DEF ClosePosition
<1>2. p \in Pairs /\ turn \in FuturesAccounts /\ seen[turn][p] \in Int /\ -seen[turn][p] \in Int
  BY DEF CloseTypeOK, Holders, FuturesAccounts
<1>3. failures' \in Int /\ failures <= failures' /\ (Fails => failures' > 0)
  <2>1. failures' \in 0..MaxFaults /\ failures <= failures' /\ (Fails => failures' > 0)
    BY <1>1, Requests
  <2> QED BY <2>1, CloseAssumption
<1>4. CASE Fails /\ UNCHANGED <<exchange, thin>>
  BY <1>1, <1>2, <1>3, <1>4, Zenon DEF exchange
<1>5. CASE IF closer = "resting" THEN Resting(turn, p, CloseDelta(turn, p))
                                 ELSE Immediate(turn, p, CloseDelta(turn, p))
  BY <1>1, <1>2, <1>3, <1>5, PlacedYields, Zenon
<1> QED BY <1>1, <1>4, <1>5

\* What an order fills at once, and what is left of a resting one.
LEMMA FillsTowards ==
  ASSUME CloseTypeOK, NEW a \in FuturesAccounts, NEW p \in Pairs, NEW d \in Int, NEW part \in Nat,
         closer \notin ReduceOnly => d = -position[a][p],
         part \in 0..Away(Effect(d, position[a][p])),
         Moves(a, p, Sign(Effect(d, position[a][p])) * part)
  PROVE  /\ position' \in Positions
         /\ \A b \in FuturesAccounts, q \in Pairs : b # a \/ q # p => position'[b][q] = position[b][q]
         /\ Away(position'[a][p]) <= Away(position[a][p])
         /\ Sign(position'[a][p]) \in {0, Sign(position[a][p])}
         /\ closer \notin ReduceOnly /\ part >= Away(d) => position'[a][p] = 0
<1>1. PICK n \in Int : n = position[a][p] /\ position \in Positions
  BY DEF CloseTypeOK, Positions
<1>2. PICK m \in Int : m = Effect(d, n) /\ Towards(m, n) /\ (closer \notin ReduceOnly => m = d /\ d = -n)
  BY <1>1, ReducesOnly, ClosesOnly DEF Effect
<1>3. PICK k \in Int :
        /\ k = Sign(m) * part
        /\ Away(n + k) <= Away(n) /\ Sign(n + k) \in {0, Sign(n)} /\ (part >= Away(m) => k = m)
  BY <1>1, <1>2, PartsTowards
<1>4. /\ position' \in Positions /\ position'[a][p] = n + k
      /\ \A b \in FuturesAccounts, q \in Pairs : b # a \/ q # p => position'[b][q] = position[b][q]
  BY <1>1, <1>2, <1>3, TradeMoves
<1>5. closer \notin ReduceOnly /\ part >= Away(d) => n + k = 0
  BY <1>2, <1>3
<1> QED BY <1>1, <1>3, <1>4, <1>5

\* An order that rests is for a pair that was handled.
LEMMA BehindStep == CloseInv /\ [ClNext]_closeVars => Behind'
<1> SUFFICES ASSUME CloseInv, [ClNext]_closeVars,
                    NEW o \in book', o.mine, Ahead(o.account, o.pair)'
             PROVE  FALSE
  BY DEF Behind
<1> USE DEF CloseInv
<1>0. o.account \in FuturesAccounts /\ o.pair \in Pairs /\ o \in Orders
  <2>1. CloseTypeOK'
    BY CloseTyped
  <2> QED BY <2>1 DEF CloseTypeOK, Orders
<1>1. Ahead(o.account, o.pair) \/ at = "start"
  BY <1>0, Onward
<1>2. ASSUME NEW x \in book, x.mine, x.account = o.account, x.pair = o.pair PROVE FALSE
  BY <1>1, <1>2 DEF OwnOrders, Behind
<1>3. CASE ClosePosition
  <2>1. PICK p \in Pairs :
          /\ left' = left \ {p} /\ turn \in FuturesAccounts /\ -seen[turn][p] \in Int
          /\ book' = book \/ book' = book \cup {Order(turn, p, -seen[turn][p], TRUE)}
    BY <1>3, PlacesOne
  <2>2. CASE o = Order(turn, p, -seen[turn][p], TRUE)
    <3>1. o.account = turn /\ o.pair = p
      <4>1. PICK d \in Int : d = -seen[turn][p]
        BY <2>1
      <4>2. Order(turn, p, d, TRUE).account = turn /\ Order(turn, p, d, TRUE).pair = p
        BY DEF Order
      <4> QED BY <2>2, <4>1, <4>2
    <3>2. UNCHANGED <<closer, at, turn>> /\ at = "close"
      BY <1>3 DEF ClosePosition
    <3> QED BY <2>1, <3>1, <3>2 DEF Ahead
  <2> QED BY <1>2, <2>1, <2>2
<1>4. CASE CancelPair
  <2>1. \A x \in book : ~x.mine
    BY <1>4 DEF CancelPair, OwnOrders
  <2>2. PICK open \in SUBSET book :
          book' = book \/ book' = (book \ open) \cup {[x EXCEPT !.gone = TRUE] : x \in open}
    BY <1>4 DEF CancelPair
  <2>3. \A x \in book : ~[x EXCEPT !.gone = TRUE].mine
    BY <2>1, OrderChanged DEF CloseTypeOK
  <2>4. o \in book \/ \E x \in book : o = [x EXCEPT !.gone = TRUE]
    BY <2>2
  <2> QED BY <2>1, <2>3, <2>4
<1>5. CASE CloseFills
  <2>1. PICK x \in book : x.mine /\ \E d : book' \subseteq book \cup {[x EXCEPT !.delta = @ - d]}
    BY <1>5 DEF CloseFills
  <2>2. PICK d : book' \subseteq book \cup {[x EXCEPT !.delta = @ - d]}
    BY <2>1
  <2>3. PICK u : u = [x EXCEPT !.delta = @ - d] /\ u.account = x.account /\ u.pair = x.pair
    <3>1. x \in Orders
      BY DEF CloseTypeOK
    <3>2. [x EXCEPT !.delta = @ - d].account = x.account /\ [x EXCEPT !.delta = @ - d].pair = x.pair
      BY <3>1 DEF Orders
    <3> QED BY <3>2
  <2>4. o \in book \/ o = u
    BY <2>2, <2>3
  <2> QED BY <1>2, <2>1, <2>3, <2>4
<1>6. CASE UNCHANGED closeVars
  BY <1>2, <1>6 DEF closeVars
<1>7. CASE ReadBoth \/ ReadAfterCancel \/ ReadBybit \/ CancelAll \/ EndAccount \/ CheckBybit
  BY <1>2, <1>7 DEF ReadBoth, ReadAfterCancel, ReadBybit, CancelAll, EndAccount, CheckBybit
<1>8. CASE BotTrades \/ BotFills \/ CancelSettles
  BY <1>2, <1>8 DEF BotTrades, BotFills, CancelSettles
<1> QED BY <1>3, <1>4, <1>5, <1>6, <1>7, <1>8 DEF ClNext, ClSteps

\* What was read and is still to be closed is still there.
LEMMA FreshStep == CloseInv /\ [ClNext]_closeVars => Fresh'
<1> SUFFICES ASSUME CloseInv, [ClNext]_closeVars, ~stale',
                    NEW a \in FuturesAccounts, NEW p \in Pairs, Ahead(a, p)'
             PROVE  Known(a, p)'
  BY DEF Fresh
<1>0. /\ CloseTypeOK /\ Course /\ OwnOrders /\ Behind
      /\ failures \in Int /\ (~stale /\ Ahead(a, p) => Known(a, p))
      /\ \A b \in FuturesAccounts, q \in Pairs : position[b][q] \in Int /\ seen[b][q] \in Int
      /\ turn \in FuturesAccounts
  BY DEF CloseInv, Fresh, CloseTypeOK, Holders, FuturesAccounts
<1>1. CASE UNCHANGED closeVars
  BY <1>0, <1>1 DEF closeVars, Ahead, Known
<1>2. CASE ReadBoth
  <2>1. /\ failures' \in Int /\ failures <= failures' /\ position' = position
        /\ seen'[turn] = position[turn] \/ (seen'[turn] = Flat /\ failures' > 0)
        /\ \A b \in FuturesAccounts : b # turn => seen'[b] = seen[b]
    <3>1. failures' \in 0..MaxFaults
      BY <1>0, <1>2, ReadYields DEF ReadBoth
    <3> QED BY <1>0, <1>2, <3>1, ReadYields, CloseAssumption DEF ReadBoth
  <2>2. CASE a = turn
    <3>1. Flat[p] = 0
      BY DEF Flat
    <3> QED BY <2>1, <2>2, <3>1 DEF Known
  <2>3. CASE a # turn
    <3>1. turn = "CM2" /\ a = "CM1"
      BY <1>0, <1>2, <2>3 DEF ReadBoth, Ahead, FuturesAccounts
    <3>2. ~stale /\ Ahead(a, p)
      BY <1>2, <3>1 DEF ReadBoth, Ahead
    <3> QED BY <1>0, <2>1, <2>3, <3>2 DEF Known
  <2> QED BY <2>2, <2>3
<1>3. CASE CancelPair
  BY <1>3 DEF CancelPair, Ahead
<1>4. CASE ReadAfterCancel
  <2>1. at' = "close" /\ a = turn /\ position' = position /\ seen' = [seen EXCEPT ![turn] = position[turn]]
    BY <1>4 DEF ReadAfterCancel, Ahead
  <2> QED BY <1>0, <2>1 DEF Known, CloseTypeOK
<1>5. CASE ReadBybit
  BY <1>5 DEF ReadBybit, Ahead
<1>6. CASE CancelAll
  BY <1>0, <1>6 DEF CancelAll, Ahead, Course
<1>7. CASE ClosePosition
  <2>1. /\ UNCHANGED <<closer, at, turn, seen, stale>> /\ at = "close"
    BY <1>7 DEF ClosePosition
  <2>2. Ahead(a, p)
    BY <1>0, <2>1, Onward
  <2>3. PICK q \in Pairs :
          /\ q \in left /\ left' = left \ {q}
          /\ failures' \in Int /\ failures <= failures' /\ -seen[turn][q] \in Int
          /\ \/ position' = position
             \/ /\ closer # "resting"
                /\ \E part \in 0..Away(Effect(-seen[turn][q], position[turn][q])) :
                     Moves(turn, q, Sign(Effect(-seen[turn][q], position[turn][q])) * part)
    BY <1>0, <1>7, PlacesOne
  <2>4. a # turn \/ p # q
    BY <2>1, <2>3 DEF Ahead
  <2>5. position'[a][p] = position[a][p]
    <3>1. ASSUME NEW part \in 0..Away(Effect(-seen[turn][q], position[turn][q])),
                 Moves(turn, q, Sign(Effect(-seen[turn][q], position[turn][q])) * part)
          PROVE  position'[a][p] = position[a][p]
      <4>1. PICK m : m = Effect(-seen[turn][q], position[turn][q])
        OBVIOUS
      <4>2. Sign(m) \in Int /\ part \in Int
        BY <3>1, <4>1 DEF Sign
      <4>3. Sign(m) * part \in Int /\ position \in Positions
        BY <1>0, <4>2 DEF CloseTypeOK, Positions
      <4> QED BY <1>0, <2>4, <3>1, <4>1, <4>3, TradeMoves
    <3> QED BY <2>3, <3>1
  <2> QED BY <1>0, <2>1, <2>2, <2>3, <2>5 DEF Known
<1>8. CASE EndAccount
  <2>1. Ahead(a, p)
    BY <1>0, <1>8, Onward DEF EndAccount
  <2>2. UNCHANGED <<position, seen, failures, stale>>
    BY <1>8 DEF EndAccount
  <2> QED BY <1>0, <2>1, <2>2 DEF Known
<1>9. CASE CheckBybit
  BY <1>9 DEF CheckBybit, Ahead
<1>10. CASE BotTrades \/ BotFills
  BY <1>10 DEF BotTrades, BotFills
<1>11. CASE CloseFills
  <2>1. /\ UNCHANGED <<closer, at, turn, left, seen, failures, stale>>
    BY <1>11 DEF CloseFills
  <2>2. Ahead(a, p)
    BY <2>1 DEF Ahead
  <2>3. PICK o \in book : o.mine /\ Moves(o.account, o.pair, Effect(Sign(o.delta), position[o.account][o.pair]))
    BY <1>11 DEF CloseFills
  <2>4. /\ o.account \in FuturesAccounts /\ o.pair \in Pairs /\ Sign(o.delta) \in Int
        /\ position \in Positions
    BY <1>0 DEF CloseTypeOK, Orders, Sign, Positions
  <2>5. Effect(Sign(o.delta), position[o.account][o.pair]) \in Int
    BY <1>0, <2>4, ReducesOnly DEF Effect
  <2>6. a # o.account \/ p # o.pair
    BY <1>0, <2>2, <2>3 DEF Behind
  <2>7. position'[a][p] = position[a][p]
    BY <2>3, <2>4, <2>5, <2>6, TradeMoves
  <2> QED BY <1>0, <2>1, <2>2, <2>7 DEF Known
<1>12. CASE CancelSettles
  BY <1>0, <1>12 DEF CancelSettles, Ahead, Known
<1> QED BY <1>1, <1>2, <1>3, <1>4, <1>5, <1>6, <1>7, <1>8, <1>9, <1>10, <1>11, <1>12 DEF ClNext, ClSteps

\* What a step of a script does to a position, and the market to its orders.
TowardsStep ==
  (ClSteps \/ CloseFills) /\ (closer \in {"resting", "bybit"} \/ ~stale)
  => \A a \in FuturesAccounts, p \in Pairs :
       /\ Away(position'[a][p]) <= Away(position[a][p])
       /\ Sign(position'[a][p]) \in {0, Sign(position[a][p])}

\* The market takes one unit of an order of a script that reduces only.
LEMMA UnitFilled ==
  ASSUME CloseTypeOK, OwnOrders, NEW o \in book, o.mine,
         Moves(o.account, o.pair, Effect(Sign(o.delta), position[o.account][o.pair]))
  PROVE  /\ o.account \in FuturesAccounts /\ o.pair \in Pairs
         /\ Effect(Sign(o.delta), position[o.account][o.pair]) = Reducing(Sign(o.delta), position[o.account][o.pair])
         /\ position' \in Positions
         /\ position'[o.account][o.pair] =
              position[o.account][o.pair] + Reducing(Sign(o.delta), position[o.account][o.pair])
         /\ \A b \in FuturesAccounts, q \in Pairs :
              b # o.account \/ q # o.pair => position'[b][q] = position[b][q]
         /\ Away(position'[o.account][o.pair]) <= Away(position[o.account][o.pair])
         /\ Sign(position'[o.account][o.pair]) \in {0, Sign(position[o.account][o.pair])}
<1>1. /\ o.account \in FuturesAccounts /\ o.pair \in Pairs /\ Sign(o.delta) \in Int
      /\ position \in Positions /\ closer = "resting"
  BY DEF CloseTypeOK, OwnOrders, Orders, Sign, Positions
<1>2. PICK n \in Int, m \in Int :
        /\ n = position[o.account][o.pair] /\ m = Effect(Sign(o.delta), n)
        /\ m = Reducing(Sign(o.delta), n) /\ Towards(m, n)
  BY <1>1, ReducesOnly DEF Effect, ReduceOnly, Positions
<1>3. Away(n + m) <= Away(n) /\ Sign(n + m) \in {0, Sign(n)}
  <2>1. Away(m) \in 0..Away(m) /\ Away(m) >= Away(m)
    BY DEF Away
  <2>2. PICK k \in 0..Away(m) : k = Away(m) /\ k >= Away(m)
    BY <2>1
  <2> QED BY <1>2, <2>2, PartsTowards
<1>4. /\ position' \in Positions /\ position'[o.account][o.pair] = n + m
      /\ \A b \in FuturesAccounts, q \in Pairs :
           b # o.account \/ q # o.pair => position'[b][q] = position[b][q]
  BY <1>1, <1>2, TradeMoves
<1> QED BY <1>1, <1>2, <1>3, <1>4

LEMMA MovesTowards == CloseInv /\ [ClNext]_closeVars => TowardsStep
<1> SUFFICES ASSUME CloseInv, [ClNext]_closeVars, ClSteps \/ CloseFills,
                    closer \in {"resting", "bybit"} \/ ~stale,
                    NEW a \in FuturesAccounts, NEW p \in Pairs
             PROVE  /\ Away(position'[a][p]) <= Away(position[a][p])
                    /\ Sign(position'[a][p]) \in {0, Sign(position[a][p])}
  BY DEF TowardsStep
<1>0. /\ CloseTypeOK /\ OwnOrders /\ Fresh /\ position[a][p] \in Int
  BY DEF CloseInv, CloseTypeOK
<1>1. ASSUME position'[a][p] = position[a][p]
      PROVE  /\ Away(position'[a][p]) <= Away(position[a][p])
             /\ Sign(position'[a][p]) \in {0, Sign(position[a][p])}
  BY <1>0, <1>1 DEF Away
<1>2. CASE ReadBoth \/ CancelPair \/ ReadAfterCancel \/ ReadBybit \/ CancelAll \/ EndAccount \/ CheckBybit
  BY <1>1, <1>2 DEF ReadBoth, CancelPair, ReadAfterCancel, ReadBybit, CancelAll, EndAccount, CheckBybit
<1>3. CASE CloseFills
  <2>1. PICK o \in book : o.mine /\ Moves(o.account, o.pair, Effect(Sign(o.delta), position[o.account][o.pair]))
    BY <1>3 DEF CloseFills
  <2>2. CASE a = o.account /\ p = o.pair
    BY <1>0, <2>1, <2>2, UnitFilled
  <2>3. CASE ~(a = o.account /\ p = o.pair)
    BY <1>0, <1>1, <2>1, <2>3, UnitFilled
  <2> QED BY <2>2, <2>3
<1>4. CASE ClosePosition
  <2>1. PICK q \in Pairs :
          /\ q \in left /\ seen[turn][q] # 0 /\ seen[turn][q] \in Int /\ -seen[turn][q] \in Int
          /\ turn \in FuturesAccounts
          /\ \/ position' = position
             \/ \E part \in 0..Away(Effect(-seen[turn][q], position[turn][q])) :
                  Moves(turn, q, Sign(Effect(-seen[turn][q], position[turn][q])) * part)
    BY <1>0, <1>4, PlacesOne
  <2>2. CASE position' = position
    BY <1>1, <2>2
  <2>3. ASSUME NEW part \in 0..Away(Effect(-seen[turn][q], position[turn][q])),
               Moves(turn, q, Sign(Effect(-seen[turn][q], position[turn][q])) * part)
        PROVE  /\ Away(position'[a][p]) <= Away(position[a][p])
               /\ Sign(position'[a][p]) \in {0, Sign(position[a][p])}
    <3>1. closer \notin ReduceOnly => -seen[turn][q] = -position[turn][q]
      <4>1. ASSUME closer \notin ReduceOnly PROVE position[turn][q] = seen[turn][q]
        <5>1. ~stale /\ closer # "bybit"
          BY <4>1 DEF ReduceOnly
        <5>2. Ahead(turn, q)
          BY <1>4, <2>1, <5>1 DEF Ahead, ClosePosition
        <5> QED BY <1>0, <2>1, <5>1, <5>2 DEF Fresh, Known
      <4> QED BY <4>1
    <3>2. part \in Nat
      <4>1. Effect(-seen[turn][q], position[turn][q]) \in Int
        BY <1>0, <2>1, ReducesOnly DEF Effect, CloseTypeOK
      <4> QED BY <2>3, <4>1 DEF Away
    <3>3. PICK d \in Int : d = -seen[turn][q]
      BY <2>1
    <3>4. /\ \A b \in FuturesAccounts, x \in Pairs : b # turn \/ x # q => position'[b][x] = position[b][x]
          /\ Away(position'[turn][q]) <= Away(position[turn][q])
          /\ Sign(position'[turn][q]) \in {0, Sign(position[turn][q])}
      BY <1>0, <2>1, <2>3, <3>1, <3>2, <3>3, FillsTowards
    <3> QED BY <1>1, <2>1, <3>4
  <2> QED BY <2>1, <2>2, <2>3
<1> QED BY <1>2, <1>3, <1>4 DEF ClSteps

\* The last reading of close-position is what it says.
BybitStep ==
  closer = "bybit" /\ said' = "closed" /\ said # "closed" /\ failures' = 0 => position["CM1"] = Flat

LEMMA SaysWhatIsThere == CloseInv /\ [ClNext]_closeVars => BybitStep
<1> SUFFICES ASSUME CloseInv, [ClNext]_closeVars, closer = "bybit", said' = "closed", said # "closed", failures' = 0
             PROVE  position["CM1"] = Flat
  BY DEF BybitStep
<1>0. CloseTypeOK /\ "CM1" \in FuturesAccounts
  BY DEF CloseInv, FuturesAccounts
<1>1. CheckBybit /\ ~(bad > 0)
  <2>1. ~ReadAfterCancel
    BY DEF ReadAfterCancel
  <2>2. ~(ReadBoth \/ CancelPair \/ ReadBybit \/ CancelAll \/ ClosePosition \/ EndAccount)
    BY DEF ReadBoth, CancelPair, ReadBybit, CancelAll, ClosePosition, EndAccount
  <2>3. ~(BotTrades \/ BotFills \/ CloseFills \/ CancelSettles) /\ ~(UNCHANGED closeVars)
    BY DEF BotTrades, BotFills, CloseFills, CancelSettles, closeVars
  <2>4. CheckBybit
    BY <2>1, <2>2, <2>3 DEF ClNext, ClSteps
  <2> QED BY <2>4 DEF CheckBybit
<1>2. Read("CM1") /\ seen'["CM1"] = Flat
  BY <1>1 DEF CheckBybit
<1>3. seen'["CM1"] = position["CM1"]
  <2>1. ~(failures' > 0)
    OBVIOUS
  <2> QED BY <1>0, <1>2, <2>1, ReadYields
<1> QED BY <1>2, <1>3

\* What hindered a sweep has not gone away.
LEMMA StaysUnhindered ==
  ASSUME CloseTypeOK, [ClNext]_closeVars, Unhindered', closer' = "sweeping"
  PROVE  Unhindered /\ closer = "sweeping" /\ ~Fails
<1>0. failures \in Nat /\ trades \in Nat
  BY CloseAssumption DEF CloseTypeOK
<1>1. ~Fails
  BY <1>0 DEF Fails, Unhindered
<1>2. CASE UNCHANGED closeVars
  BY <1>1, <1>2 DEF closeVars, Unhindered
<1>3. CASE ReadBoth \/ ReadBybit
  BY <1>1, <1>3 DEF ReadBoth, ReadBybit, Read, Answers, Unhindered
<1>4. CASE CancelPair
  BY <1>1, <1>4 DEF CancelPair, Answers, Unhindered
<1>5. CASE ReadAfterCancel
  <2>1. Answers /\ UNCHANGED <<closer, trades, thin>> /\ rushed' = (rushed \/ \E o \in book : o.gone /\ o.account = turn)
    BY <1>1, <1>5 DEF ReadAfterCancel
  <2> QED BY <1>1, <2>1 DEF Answers, Unhindered
<1>6. CASE CancelAll \/ EndAccount \/ CheckBybit
  BY <1>1, <1>6 DEF CancelAll, EndAccount, CheckBybit, Read, Answers, Unhindered
<1>7. CASE ClosePosition
  <2>1. UNCHANGED <<closer, trades, rushed>>
    BY <1>7 DEF ClosePosition
  <2>2. Answers
    BY <1>1, <1>7 DEF ClosePosition
  <2>3. thin => thin'
    <3>1. PICK p : IF closer = "resting" THEN Resting(turn, p, CloseDelta(turn, p))
                                         ELSE Immediate(turn, p, CloseDelta(turn, p))
      BY <1>1, <1>7 DEF ClosePosition
    <3>2. ~Resting(turn, p, CloseDelta(turn, p)) => Immediate(turn, p, CloseDelta(turn, p))
      BY <3>1
    <3>3. CASE Resting(turn, p, CloseDelta(turn, p))
      BY <3>3 DEF Resting
    <3>4. CASE Immediate(turn, p, CloseDelta(turn, p))
      BY <3>4, Zenon DEF Immediate
    <3> QED BY <3>2, <3>3, <3>4
  <2> QED BY <1>1, <2>1, <2>2, <2>3 DEF Answers, Unhindered
<1>8. CASE BotTrades
  BY <1>0, <1>8 DEF BotTrades, Unhindered
<1>9. CASE BotFills \/ CloseFills \/ CancelSettles
  BY <1>1, <1>9 DEF BotFills, CloseFills, CancelSettles, Unhindered
<1> QED BY <1>2, <1>3, <1>4, <1>5, <1>6, <1>7, <1>8, <1>9 DEF ClNext, ClSteps

\* close_positions empties the accounts one after the other.
LEMMA SweptStep == CloseInv /\ [ClNext]_closeVars => Swept'
<1> SUFFICES ASSUME CloseInv, [ClNext]_closeVars, closer' = "sweeping", Unhindered'
             PROVE  Sweeps'
  BY DEF Swept
<1>0. CloseTypeOK /\ Course /\ OwnOrders /\ CloseTypeOK'
  BY CloseTyped DEF CloseInv
<1>1. closer = "sweeping" /\ Unhindered /\ ~Fails /\ Sweeps
  BY <1>0, StaysUnhindered DEF CloseInv, Swept
<1>2. turn \in FuturesAccounts /\ position \in Positions
  BY <1>0 DEF CloseTypeOK, Holders, FuturesAccounts, Positions
<1>3. CASE UNCHANGED closeVars
  BY <1>1, <1>3 DEF closeVars, Sweeps, Emptied
<1>4. CASE CancelPair
  <2>1. PICK p \in left :
          /\ left' = left \ {p}
          /\ LET open == {o \in book : o.account = turn /\ o.pair = p} IN
             book' = (book \ open) \cup {[o EXCEPT !.gone = TRUE] : o \in open}
    BY <1>1, <1>4 DEF CancelPair
  <2>2. at = "start" /\ UNCHANGED <<position, at, turn>>
    BY <1>4 DEF CancelPair
  <2>3. ASSUME NEW o \in book'
        PROVE  \/ o \in book /\ ~(o.account = turn /\ o.pair = p)
               \/ o.gone /\ o.account = turn /\ \E x \in book : x.account = turn
    <3>1. \/ o \in book /\ ~(o.account = turn /\ o.pair = p)
          \/ \E x \in book : x.account = turn /\ o = [x EXCEPT !.gone = TRUE]
      BY <2>1
    <3>2. \A x \in book : [x EXCEPT !.gone = TRUE].gone /\ [x EXCEPT !.gone = TRUE].account = x.account
      BY <1>0, OrderChanged DEF CloseTypeOK
    <3> QED BY <3>1, <3>2
  <2>4. turn = "CM2" => Emptied("CM1")'
    BY <1>1, <2>2, <2>3 DEF Sweeps, Emptied
  <2>5. \A o \in book' : o.account = turn => o.pair \in left' \/ o.gone
    BY <1>1, <2>1, <2>2, <2>3 DEF Sweeps
  <2> QED BY <2>2, <2>4, <2>5 DEF Sweeps
<1>5. CASE ReadAfterCancel
  <2>1. /\ at = "start" /\ left = {} /\ left' = Pairs /\ at' = "close"
        /\ UNCHANGED <<position, book, turn>> /\ seen' = [seen EXCEPT ![turn] = position[turn]]
        /\ \A o \in book : ~(o.gone /\ o.account = turn)
    BY <1>1, <1>5 DEF ReadAfterCancel, Unhindered
  <2>2. seen'[turn] = position[turn]
    BY <1>0, <1>2, <2>1 DEF CloseTypeOK
  <2>3. \A o \in book : o.account # turn
    BY <1>1, <2>1 DEF Sweeps
  <2>4. turn = "CM2" => Emptied("CM1")'
    BY <1>1, <2>1 DEF Sweeps, Emptied
  <2> QED BY <2>1, <2>2, <2>3, <2>4 DEF Sweeps
<1>6. CASE ClosePosition
  <2>1. at = "close" /\ UNCHANGED <<at, turn, seen>> /\ failures' = 0 /\ thin' = FALSE /\ closer # "resting"
    BY <1>0, <1>1, <1>6 DEF ClosePosition, Unhindered, CloseTypeOK
  <2>2. PICK p \in Pairs :
          /\ p \in left /\ left' = left \ {p} /\ book' = book /\ -seen[turn][p] \in Int
          /\ \E part \in 0..Away(Effect(-seen[turn][p], position[turn][p])) :
               /\ Moves(turn, p, Sign(Effect(-seen[turn][p], position[turn][p])) * part)
               /\ thin' = (thin \/ part < Away(-seen[turn][p]))
    <3>1. PICK p \in Pairs :
            /\ p \in left /\ left' = left \ {p} /\ -seen[turn][p] \in Int
            /\ \/ failures' > 0
               \/ closer = "resting"
               \/ book' = book
                  /\ \E part \in 0..Away(Effect(-seen[turn][p], position[turn][p])) :
                       /\ Moves(turn, p, Sign(Effect(-seen[turn][p], position[turn][p])) * part)
                       /\ thin' = (thin \/ part < Away(-seen[turn][p]))
      BY <1>0, <1>6, PlacesOne, Zenon
    <3>2. ~(failures' > 0)
      BY <2>1
    <3> QED BY <2>1, <3>1, <3>2, Zenon
  <2>3. PICK d \in Int : d = -seen[turn][p] /\ d = -position[turn][p]
    BY <1>1, <2>1, <2>2 DEF Sweeps
  <2>4. PICK part \in 0..Away(Effect(d, position[turn][p])) :
          /\ Moves(turn, p, Sign(Effect(d, position[turn][p])) * part)
          /\ thin' = (thin \/ part < Away(d))
    BY <2>2, <2>3
  <2>5. Effect(d, position[turn][p]) \in Int /\ closer \notin ReduceOnly
    BY <1>1, <2>3 DEF Effect, ReduceOnly
  <2>6. part \in Nat /\ part >= Away(d)
    <3>1. part \in Int /\ part >= 0 /\ Away(d) \in Int
      BY <2>4, <2>5 DEF Away
    <3>2. ~(part < Away(d))
      BY <2>1, <2>4, Zenon
    <3> QED BY <3>1, <3>2
  <2>7. /\ position'[turn][p] = 0
        /\ \A b \in FuturesAccounts, q \in Pairs : b # turn \/ q # p => position'[b][q] = position[b][q]
    BY <1>0, <1>2, <2>3, <2>4, <2>5, <2>6, FillsTowards
  <2>8. \A q \in Pairs : position'[turn][q] = IF q \in left' THEN seen[turn][q] ELSE 0
    BY <1>1, <1>2, <2>1, <2>2, <2>7 DEF Sweeps
  <2>9. turn = "CM2" => Emptied("CM1")'
    BY <1>1, <2>1, <2>2, <2>7 DEF Sweeps, Emptied, FuturesAccounts
  <2> QED BY <1>1, <2>1, <2>2, <2>8, <2>9 DEF Sweeps
<1>7. CASE EndAccount
  <2>1. /\ at = "close" /\ turn' = NextTurn /\ left' = Pairs /\ UNCHANGED <<position, book>>
        /\ \A p \in left : seen[turn][p] = 0
        /\ at' = IF turn' = turn THEN "end" ELSE "start"
    BY <1>1, <1>7 DEF EndAccount
  <2>2. Emptied(turn)
    BY <1>1, <2>1 DEF Sweeps, Emptied
  <2>3. CASE turn' = turn
    <3>1. turn = "CM2" /\ Emptied("CM1") /\ Emptied("CM2")
      BY <1>0, <1>1, <2>1, <2>2, <2>3, Turns DEF Sweeps
    <3> QED BY <2>1, <2>3, <3>1 DEF Sweeps, Emptied
  <2>4. CASE turn' # turn
    <3>1. turn = "CM1" /\ turn' = "CM2"
      BY <1>0, <2>1, <2>4, Turns
    <3>2. \A o \in book : o.pair \in Pairs
      BY <1>0 DEF CloseTypeOK, Orders
    <3> QED BY <2>1, <2>2, <2>4, <3>1, <3>2 DEF Sweeps, Emptied
  <2> QED BY <2>3, <2>4
<1>8. CASE BotTrades
  BY <1>0, <1>8, CloseAssumption DEF BotTrades, Unhindered, CloseTypeOK
<1>9. CASE BotFills /\ at # "end"
  <2>1. PICK o \in book : Moves(o.account, o.pair, o.delta) /\ book' = book \ {o}
    BY <1>9 DEF BotFills, BotOrders
  <2>2. o.account \in FuturesAccounts /\ o.pair \in Pairs /\ o.delta \in Int
    BY <1>0 DEF CloseTypeOK, Orders
  <2>3. \A b \in FuturesAccounts, q \in Pairs : b # o.account => position'[b][q] = position[b][q]
    BY <1>2, <2>1, <2>2, TradeMoves
  <2>4. UNCHANGED <<at, turn, left, seen>>
    BY <1>9 DEF BotFills
  <2>5. turn = "CM2" => Emptied("CM1")'
    BY <1>1, <2>1, <2>3 DEF Sweeps, Emptied, FuturesAccounts
  <2>6. at = "start" => \A x \in book' : x.account = turn => x.pair \in left \/ x.gone
    BY <1>1, <2>1 DEF Sweeps
  <2>7. at = "close" => /\ \A x \in book' : x.account # turn
                        /\ \A q \in Pairs : position'[turn][q] = IF q \in left THEN seen[turn][q] ELSE 0
    BY <1>1, <1>2, <2>1, <2>3 DEF Sweeps
  <2> QED BY <1>9, <2>4, <2>5, <2>6, <2>7 DEF Sweeps
<1>10. CASE CloseFills
  BY <1>0, <1>1, <1>10 DEF CloseFills, OwnOrders
<1>11. CASE CancelSettles
  <2>1. book' \subseteq book /\ UNCHANGED <<position, at, turn, left, seen>>
    BY <1>11 DEF CancelSettles
  <2> QED BY <1>1, <2>1 DEF Sweeps, Emptied
<1>12. CASE ReadBoth \/ ReadBybit \/ CancelAll \/ CheckBybit
  BY <1>0, <1>1, <1>12 DEF ReadBoth, ReadBybit, CancelAll, CheckBybit, Course
<1> QED BY <1>3, <1>4, <1>5, <1>6, <1>7, <1>8, <1>9, <1>10, <1>11, <1>12 DEF ClNext, ClSteps

\* No script says that nothing is open while something is.
LEMMA NoneStep == CloseInv /\ [ClNext]_closeVars => NoneMeansFlat'
<1> SUFFICES ASSUME CloseInv, [ClNext]_closeVars, said' = "none", failures' = 0, ~stale'
             PROVE  position' = [a \in FuturesAccounts |-> Flat]
  BY DEF NoneMeansFlat
<1>0. CloseTypeOK /\ Course /\ OwnOrders /\ Fresh /\ NoneMeansFlat /\ position \in Positions
  BY DEF CloseInv, CloseTypeOK, Positions
<1>1. CASE said = "none"
  <2>1. at = "end" /\ closer # "sweeping" /\ \A o \in book : ~o.mine
    BY <1>0, <1>1 DEF Course, OwnOrders
  <2>2. UNCHANGED <<position, failures, stale>>
    <3>1. ~(ReadBoth \/ CancelPair \/ ReadAfterCancel \/ ReadBybit \/ CancelAll \/ ClosePosition \/ EndAccount
            \/ CheckBybit)
      BY <2>1 DEF ReadBoth, CancelPair, ReadAfterCancel, ReadBybit, CancelAll, ClosePosition, EndAccount, CheckBybit
    <3>2. ~CloseFills
      BY <2>1 DEF CloseFills
    <3>3. CASE CancelSettles
      BY <3>3 DEF CancelSettles
    <3>4. CASE UNCHANGED closeVars
      BY <3>4 DEF closeVars
    <3> QED BY <2>1, <3>1, <3>2, <3>3, <3>4 DEF ClNext, ClSteps
  <2> QED BY <1>0, <1>1, <2>2 DEF NoneMeansFlat
<1>2. CASE said # "none"
  <2>1. ReadBoth /\ turn = "CM2" /\ \A a \in Holders(closer) : seen'[a] = Flat
    <3>1. ~ReadAfterCancel
      BY <1>2 DEF ReadAfterCancel
    <3>2. ~(CancelPair \/ ReadBybit \/ CancelAll \/ ClosePosition \/ CheckBybit)
      BY <1>2 DEF CancelPair, ReadBybit, CancelAll, ClosePosition, CheckBybit
    <3>3. ~EndAccount
      BY <1>2 DEF EndAccount, Verdict
    <3>4. ~(BotTrades \/ BotFills \/ CloseFills \/ CancelSettles) /\ ~(UNCHANGED closeVars)
      BY <1>2 DEF BotTrades, BotFills, CloseFills, CancelSettles, closeVars
    <3>5. ReadBoth
      BY <3>1, <3>2, <3>3, <3>4 DEF ClNext, ClSteps
    <3>6. turn # "CM1"
      BY <1>2, <3>5 DEF ReadBoth
    <3>7. turn = "CM2"
      BY <1>0, <3>6 DEF CloseTypeOK, Holders, FuturesAccounts
    <3> QED BY <1>2, <3>5, <3>7 DEF ReadBoth
  <2>2. /\ closer \in {"crossing", "resting"} /\ Read("CM2") /\ position' = position /\ ~stale /\ at = "start"
        /\ Holders(closer) = {"CM1", "CM2"} /\ FuturesAccounts = {"CM1", "CM2"}
    BY <2>1 DEF ReadBoth, Holders, FuturesAccounts
  <2>3. ~(failures' > 0) /\ failures = 0
    <3>1. Fails \/ Answers
      BY <2>2 DEF Read
    <3>2. failures' = 0 => failures = 0
      BY <1>0, <3>1, Requests
    <3> QED BY <3>2
  <2>4. seen'["CM2"] = position["CM2"] /\ seen'["CM1"] = seen["CM1"]
    BY <1>0, <2>2, <2>3, ReadYields
  <2>5. \A p \in Pairs : position["CM2"][p] = 0
    BY <2>1, <2>2, <2>4 DEF Flat
  <2>6. \A p \in Pairs : position["CM1"][p] = 0
    <3>1. ASSUME NEW p \in Pairs PROVE position["CM1"][p] = seen["CM1"][p]
      <4>1. Ahead("CM1", p)
        BY <2>1, <2>2 DEF Ahead
      <4> QED BY <1>0, <2>2, <2>3, <4>1 DEF Fresh, Known
    <3>2. \A p \in Pairs : seen["CM1"][p] = 0
      BY <2>1, <2>2, <2>4 DEF Flat
    <3> QED BY <3>1, <3>2
  <2>7. position["CM1"] = Flat /\ position["CM2"] = Flat
    BY <1>0, <2>2, <2>5, <2>6 DEF Positions, Flat
  <2> QED BY <1>0, <2>2, <2>7 DEF Positions
<1> QED BY <1>1, <1>2

\* The market takes one unit of an order that would close the position.
LEMMA TakesUnit ==
  ASSUME NEW n \in Int, n # 0
  PROVE  Reducing(Sign(-n), n) = IF n > 0 THEN -1 ELSE 1
<1>1. CASE n > 0
  <2>1. Sign(-n) = -1 /\ Sign(n) = 1
    BY <1>1 DEF Sign
  <2>2. PICK e \in Int : e = -1 /\ Sign(e) = -1 /\ Away(e) = 1 /\ Away(n) = n
    BY <1>1 DEF Sign, Away
  <2>3. Reducing(e, n) = Sign(e) * (IF Away(e) < Away(n) THEN Away(e) ELSE Away(n))
    BY <1>1, <2>1, <2>2 DEF Reducing
  <2>4. (IF Away(e) < Away(n) THEN Away(e) ELSE Away(n)) = 1
    BY <1>1, <2>2
  <2>5. Reducing(e, n) = -1
    BY <2>2, <2>3, <2>4
  <2> QED BY <1>1, <2>1, <2>2, <2>5
<1>2. CASE n < 0
  <2>1. Sign(-n) = 1 /\ Sign(n) = -1
    BY <1>2 DEF Sign
  <2>2. PICK e \in Int : e = 1 /\ Sign(e) = 1 /\ Away(e) = 1 /\ Away(n) = -n
    BY <1>2 DEF Sign, Away
  <2>3. Reducing(e, n) = Sign(e) * (IF Away(e) < Away(n) THEN Away(e) ELSE Away(n))
    BY <1>2, <2>1, <2>2 DEF Reducing
  <2>4. (IF Away(e) < Away(n) THEN Away(e) ELSE Away(n)) = 1
    BY <1>2, <2>2
  <2>5. Reducing(e, n) = 1
    BY <2>2, <2>3, <2>4
  <2> QED BY <1>2, <2>1, <2>2, <2>5
<1> QED BY <1>1, <1>2

\* The resting orders cover what is left of the positions.
Covers ==
  /\ \A a \in FuturesAccounts, p \in Pairs :
       position[a][p] # 0 => Ahead(a, p) \/ Order(a, p, -position[a][p], TRUE) \in book
  /\ \A o \in book : o.mine =>
       /\ o = Order(o.account, o.pair, -position[o.account][o.pair], TRUE)
       /\ position[o.account][o.pair] # 0

LEMMA CoveredWhen ==
  Rests <=> (closer = "resting" /\ failures = 0 /\ ~stale /\ at \in {"close", "end"} => Covers)
BY DEF Rests, Covers

LEMMA RestsStep == CloseInv /\ [ClNext]_closeVars => Rests'
<1> SUFFICES ASSUME CloseInv, [ClNext]_closeVars,
                    closer' = "resting", failures' = 0, ~stale', at' \in {"close", "end"}
             PROVE  Covers'
  BY DEF Rests, Covers
<1>0. /\ CloseTypeOK /\ Course /\ OwnOrders /\ Fresh /\ Behind /\ position \in Positions /\ failures \in Nat
      /\ turn \in FuturesAccounts
      /\ closer = "resting" /\ failures = 0 /\ ~stale /\ at \in {"close", "end"} => Covers
  BY CoveredWhen, CloseAssumption DEF CloseInv, CloseTypeOK, Positions, Holders, FuturesAccounts
<1>1. CASE UNCHANGED closeVars
  BY <1>0, <1>1 DEF closeVars, Covers, Ahead
<1>2. CASE ReadBoth
  <2>1. /\ \A o \in book' : ~o.mine
        /\ turn = "CM2" /\ closer = "resting" /\ left' = Pairs /\ turn' = "CM1" /\ at = "start" /\ position' = position
    BY <1>0, <1>2 DEF ReadBoth, OwnOrders, Course, Holders, FuturesAccounts
  <2>2. CASE at' = "close"
    <3>1. \A a \in FuturesAccounts, p \in Pairs : Ahead(a, p)'
      BY <1>2, <2>1, <2>2 DEF Ahead, ReadBoth, FuturesAccounts
    <3> QED BY <2>1, <3>1 DEF Covers
  <2>3. CASE at' = "end"
    <3>1. said' = "none"
      BY <1>2, <2>1, <2>3 DEF ReadBoth
    <3>2. \A a \in FuturesAccounts, p \in Pairs : position'[a][p] = 0
      BY <3>1, NoneStep DEF NoneMeansFlat, Flat
    <3> QED BY <2>1, <3>2 DEF Covers
  <2> QED BY <2>2, <2>3
<1>3. CASE ClosePosition
  <2>1. /\ at = "close" /\ UNCHANGED <<closer, at, turn, seen, stale>> /\ ~(failures' > 0)
    BY <1>3 DEF ClosePosition
  <2>2. PICK p \in Pairs :
          /\ p \in left /\ left' = left \ {p} /\ seen[turn][p] # 0 /\ -seen[turn][p] \in Int
          /\ position' = position /\ book' = book \cup {Order(turn, p, -seen[turn][p], TRUE)}
          /\ failures' \in Int /\ failures <= failures'
    <3>1. closer = "resting"
      BY <2>1
    <3> QED BY <1>0, <1>3, <2>1, <3>1, PlacesOne
  <2>3. failures = 0 /\ Covers
    BY <1>0, <2>1, <2>2
  <2>4. PICK d \in Int : d = -seen[turn][p] /\ d = -position[turn][p] /\ position[turn][p] # 0
    <3>1. Ahead(turn, p)
      BY <1>3, <2>1, <2>2 DEF Ahead
    <3>2. position[turn][p] = seen[turn][p]
      BY <1>0, <2>1, <2>3, <3>1 DEF Fresh, Known
    <3> QED BY <2>2, <3>2
  <2>5. ASSUME NEW a \in FuturesAccounts, NEW q \in Pairs, position'[a][q] # 0
        PROVE  Ahead(a, q)' \/ Order(a, q, -position'[a][q], TRUE) \in book'
    <3>1. CASE a = turn /\ q = p
      BY <2>2, <2>4, <3>1
    <3>2. CASE ~(a = turn /\ q = p)
      <4>1. Ahead(a, q) \/ Order(a, q, -position[a][q], TRUE) \in book
        BY <2>2, <2>3, <2>5 DEF Covers
      <4>2. Ahead(a, q) => Ahead(a, q)'
        BY <2>1, <2>2, <3>2 DEF Ahead
      <4> QED BY <2>2, <4>1, <4>2
    <3> QED BY <3>1, <3>2
  <2>6. ASSUME NEW o \in book', o.mine
        PROVE  o = Order(o.account, o.pair, -position'[o.account][o.pair], TRUE)
               /\ position'[o.account][o.pair] # 0
    <3>1. CASE o \in book
      BY <2>2, <2>3, <2>6, <3>1 DEF Covers
    <3>2. CASE o = Order(turn, p, d, TRUE)
      <4>1. o.account = turn /\ o.pair = p
        BY <3>2 DEF Order
      <4> QED BY <2>2, <2>4, <3>2, <4>1
    <3> QED BY <2>2, <2>4, <3>1, <3>2
  <2> QED BY <2>5, <2>6 DEF Covers
<1>4. CASE EndAccount
  <2>1. /\ at = "close" /\ turn' = NextTurn /\ left' = Pairs /\ closer = "resting" /\ closer' = closer
        /\ UNCHANGED <<position, book, seen, failures, stale>>
        /\ \A p \in left : seen[turn][p] = 0
        /\ at' = IF turn' = turn THEN "end" ELSE "close"
    BY <1>4 DEF EndAccount
  <2>2. Covers
    BY <1>0, <2>1
  <2>3. ASSUME NEW a \in FuturesAccounts, NEW p \in Pairs, Ahead(a, p), position[a][p] # 0
        PROVE  Ahead(a, p)'
    <3>1. position[a][p] = seen[a][p]
      BY <1>0, <2>1, <2>3 DEF Fresh, Known
    <3>2. ~(a = turn /\ p \in left)
      BY <2>1, <2>3, <3>1
    <3>3. turn = "CM1" /\ a = "CM2"
      BY <2>1, <2>3, <3>2 DEF Ahead
    <3>4. turn' = "CM2"
      BY <2>1, <3>3 DEF NextTurn, Holders, FuturesAccounts
    <3> QED BY <2>1, <3>3, <3>4 DEF Ahead
  <2> QED BY <2>1, <2>2, <2>3 DEF Covers
<1>5. CASE CloseFills
  <2>1. UNCHANGED <<closer, at, turn, left, seen, failures, stale>> /\ Covers
    BY <1>0, <1>5 DEF CloseFills
  <2>2. PICK o \in book :
          LET d == Effect(Sign(o.delta), position[o.account][o.pair]) IN
          /\ o.mine /\ Moves(o.account, o.pair, d)
          /\ book' = IF d = 0 \/ o.delta = d THEN book \ {o}
                     ELSE (book \ {o}) \cup {[o EXCEPT !.delta = @ - d]}
    BY <1>5 DEF CloseFills
  <2>10. PICK a \in FuturesAccounts, p \in Pairs : a = o.account /\ p = o.pair
    BY <1>0 DEF CloseTypeOK, Orders
  <2>11. PICK n \in Int : n = position[a][p]
    BY <1>0 DEF Positions
  <2>12. o = Order(a, p, -n, TRUE) /\ n # 0 /\ o.delta = -n
    <3>1. o = Order(a, p, -n, TRUE) /\ n # 0
      BY <2>1, <2>2, <2>10, <2>11 DEF Covers
    <3> QED BY <3>1 DEF Order
  <2>13. PICK m \in Int : m = Reducing(Sign(-n), n) /\ m = IF n > 0 THEN -1 ELSE 1
    BY <2>12, TakesUnit
  <2>14. /\ Effect(Sign(o.delta), n) = m /\ position' \in Positions /\ position'[a][p] = n + m
         /\ \A b \in FuturesAccounts, q \in Pairs : b # a \/ q # p => position'[b][q] = position[b][q]
    <3>1. o.mine /\ Moves(o.account, o.pair, Effect(Sign(o.delta), position[o.account][o.pair]))
      BY <2>2
    <3>2. /\ Effect(Sign(o.delta), position[o.account][o.pair]) = Reducing(Sign(o.delta), position[o.account][o.pair])
          /\ position' \in Positions
          /\ position'[o.account][o.pair] =
               position[o.account][o.pair] + Reducing(Sign(o.delta), position[o.account][o.pair])
          /\ \A b \in FuturesAccounts, q \in Pairs :
               b # o.account \/ q # o.pair => position'[b][q] = position[b][q]
      BY <1>0, <3>1, UnitFilled
    <3>3. position[o.account][o.pair] = n /\ Sign(o.delta) = Sign(-n)
      BY <2>10, <2>11, <2>12
    <3>4. Reducing(Sign(o.delta), position[o.account][o.pair]) = m
      BY <2>13, <3>3, Zenon
    <3>5. Effect(Sign(o.delta), n) = m
      BY <3>2, <3>3, <3>4, Zenon
    <3>6. position'[a][p] = n + m
      BY <2>10, <3>2, <3>3, <3>4, Zenon
    <3> QED BY <2>10, <3>2, <3>5, <3>6, Zenon
  <2>3. /\ a = o.account /\ p = o.pair /\ n = position[a][p] /\ m = Effect(Sign(o.delta), n)
        /\ o.delta = -n /\ n # 0 /\ o = Order(a, p, -n, TRUE)
        /\ position' \in Positions /\ position'[a][p] = n + m
        /\ \A b \in FuturesAccounts, q \in Pairs : b # a \/ q # p => position'[b][q] = position[b][q]
    BY <2>10, <2>11, <2>12, <2>14
  <2>4. m # 0
    BY <2>13
  <2>5. \/ n + m = 0 /\ book' = book \ {o}
        \/ n + m # 0 /\ book' = (book \ {o}) \cup {Order(a, p, -(n + m), TRUE)}
    <3>1. o.mine /\ ~o.gone /\ o \in Orders
      BY <1>0, <2>2 DEF OwnOrders, CloseTypeOK
    <3>2. [o EXCEPT !.delta = @ - m] = Order(a, p, o.delta - m, TRUE)
      BY <2>3, <3>1, OrderShrinks
    <3>3. o.delta - m = -(n + m) /\ (o.delta = m <=> n + m = 0)
      <4>1. PICK e \in Int : e = o.delta /\ e = -n
        <5>1. -n \in Int
          OBVIOUS
        <5> QED BY <2>12, <5>1
      <4>2. e - m = -(n + m) /\ (e = m <=> n + m = 0)
        BY <4>1
      <4> QED BY <4>1, <4>2
    <3>4. book' = IF m = 0 \/ o.delta = m THEN book \ {o}
                  ELSE (book \ {o}) \cup {[o EXCEPT !.delta = @ - m]}
      BY <2>2, <2>3
    <3> QED BY <2>4, <3>2, <3>3, <3>4
  <2>6. ASSUME NEW x \in book, x.mine, x.account = a, x.pair = p PROVE x = o
    BY <2>1, <2>3, <2>6 DEF Covers
  <2>7. ASSUME NEW b \in FuturesAccounts, NEW q \in Pairs, position'[b][q] # 0
        PROVE  Ahead(b, q)' \/ Order(b, q, -position'[b][q], TRUE) \in book'
    <3>1. CASE b = a /\ q = p
      BY <2>3, <2>5, <2>7, <3>1
    <3>2. CASE ~(b = a /\ q = p)
      <4>1. position'[b][q] = position[b][q]
        BY <2>3, <3>2
      <4>2. Ahead(b, q) \/ Order(b, q, -position[b][q], TRUE) \in book
        BY <2>1, <2>7, <4>1 DEF Covers
      <4>3. Ahead(b, q) => Ahead(b, q)'
        BY <2>1 DEF Ahead
      <4>4. Order(b, q, -position[b][q], TRUE) # o
        <5>1. Order(b, q, -position[b][q], TRUE).account = b /\ Order(b, q, -position[b][q], TRUE).pair = q
          BY DEF Order
        <5> QED BY <2>3, <3>2, <5>1
      <4> QED BY <2>5, <4>1, <4>2, <4>3, <4>4
    <3> QED BY <3>1, <3>2
  <2>8. ASSUME NEW x \in book', x.mine
        PROVE  x = Order(x.account, x.pair, -position'[x.account][x.pair], TRUE)
               /\ position'[x.account][x.pair] # 0
    <3>1. CASE x \in book /\ x # o
      <4>1. x.account # a \/ x.pair # p
        BY <2>6, <2>8, <3>1
      <4>2. position'[x.account][x.pair] = position[x.account][x.pair]
        BY <1>0, <2>3, <3>1, <4>1 DEF CloseTypeOK, Orders
      <4> QED BY <2>1, <2>8, <3>1, <4>2 DEF Covers
    <3>2. CASE n + m # 0 /\ x = Order(a, p, -(n + m), TRUE)
      <4>1. x.account = a /\ x.pair = p
        BY <3>2 DEF Order
      <4> QED BY <2>3, <3>2, <4>1
    <3> QED BY <2>5, <3>1, <3>2
  <2> QED BY <2>7, <2>8 DEF Covers
<1>6. CASE CancelSettles
  <2>1. PICK o \in book : o.gone /\ book' = book \ {o}
    BY <1>6 DEF CancelSettles
  <2>2. UNCHANGED <<closer, position, at, turn, left, seen, failures, stale>> /\ Covers
    BY <1>0, <1>6 DEF CancelSettles
  <2>3. \A a, p, d : Order(a, p, d, TRUE) # o
    BY <2>1 DEF Order
  <2>4. ASSUME NEW a \in FuturesAccounts, NEW p \in Pairs, position[a][p] # 0
        PROVE  Ahead(a, p)' \/ Order(a, p, -position[a][p], TRUE) \in book'
    <3>1. Ahead(a, p) => Ahead(a, p)'
      BY <2>2 DEF Ahead
    <3> QED BY <2>1, <2>2, <2>3, <2>4, <3>1 DEF Covers
  <2> QED BY <2>1, <2>2, <2>4 DEF Covers
<1>7. CASE BotTrades \/ BotFills
  BY <1>7 DEF BotTrades, BotFills
<1>8. CASE CancelPair \/ ReadAfterCancel \/ ReadBybit \/ CheckBybit
  BY <1>8 DEF CancelPair, ReadAfterCancel, ReadBybit, CheckBybit
<1>9. CASE CancelAll
  BY <1>0, <1>9 DEF CancelAll, Course
<1> QED BY <1>1, <1>2, <1>3, <1>4, <1>5, <1>6, <1>7, <1>8, <1>9 DEF ClNext, ClSteps

LEMMA CloseStep == CloseInv /\ [ClNext]_closeVars => CloseInv'
  BY CloseTyped, CourseStep, OwnOrdersStep, BehindStep, FreshStep, SweptStep, RestsStep, NoneStep DEF CloseInv

\* What the scripts say when they are done.
LEMMA SaysRight == CloseInv => SweptIsFlat /\ RestingCovers /\ NoneMeansFlat
<1> SUFFICES ASSUME CloseInv PROVE SweptIsFlat /\ RestingCovers
  BY DEF CloseInv
<1>0. CloseTypeOK /\ Course /\ position \in Positions
  BY DEF CloseInv, CloseTypeOK, Positions
<1>1. SweptIsFlat
  <2> SUFFICES ASSUME closer = "sweeping", said = "done", failures = 0, trades = 0, ~thin, ~rushed
               PROVE  position = [a \in FuturesAccounts |-> Flat] /\ book = {}
    BY DEF SweptIsFlat
  <2>1. at = "end"
    BY <1>0 DEF Course
  <2>2. Emptied("CM1") /\ Emptied("CM2")
    BY <2>1 DEF CloseInv, Swept, Unhindered, Sweeps
  <2>3. book = {}
    <3>1. ASSUME NEW o \in book PROVE FALSE
      BY <1>0, <2>2 DEF CloseTypeOK, Orders, FuturesAccounts, Emptied
    <3> QED BY <3>1
  <2>4. position["CM1"] = Flat /\ position["CM2"] = Flat
    BY <1>0, <2>2 DEF Positions, Flat, Emptied, FuturesAccounts
  <2> QED BY <1>0, <2>3, <2>4 DEF Positions, FuturesAccounts
<1>2. RestingCovers
  <2> SUFFICES ASSUME closer = "resting", said = "closed", failures = 0, ~stale,
                      NEW a \in FuturesAccounts, NEW p \in Pairs, position[a][p] # 0
               PROVE  Order(a, p, -position[a][p], TRUE) \in book
    BY DEF RestingCovers
  <2>1. at = "end"
    BY <1>0 DEF Course
  <2>2. ~Ahead(a, p)
    BY <2>1 DEF Ahead
  <2> QED BY <2>1, <2>2 DEF CloseInv, Rests
<1> QED BY <1>1, <1>2

-----------------------------------------------------------------------------
(* The tools together: a step of one of them leaves the others alone.      *)

\* A step of the tools is one of the backtester, or it leaves its state alone.
LEMMA BacktestSteps == [Next]_vars => [TestNext]_testVars
BY DEF Next, vars

\* And one of the reports, or it leaves their state alone.
LEMMA ReportSteps == [Next]_vars => [ReportNext]_reportVars
BY DEF Next, vars

\* And one of the scripts that move USDT, or it leaves their state alone.
LEMMA FundingSteps == [Next]_vars => [FuNext]_fundVars
BY DEF Next, vars

\* And one of those that close positions, or it leaves their state alone.
LEMMA ClosingSteps == [Next]_vars => [ClNext]_closeVars
BY DEF Next, vars

\* No level of the backtester's grid dies and none is held twice, whatever the
\* candles, and although a stop closes the position and leaves the orders where
\* they were (run, execute_stop_loss).
THEOREM GridStaysSound == Spec => []GridSound
<1>1. Init => GridKept
  BY InitSound DEF Init
<1>2. GridKept /\ [Next]_vars => GridKept'
  BY StepSound, BacktestSteps
<1>3. GridKept => GridSound
  BY DEF GridKept
<1> QED BY <1>1, <1>2, <1>3, PTL DEF Spec

\* The profit a backtest reports is the money its orders took in, less that of the
\* orders that found a residue of rounding; its drawdown is the largest fall of
\* its equity, and its stop lies beyond the grid, also the stop of a residue (run,
\* execute_buy, execute_sell, _compile_results, generate_param_grid): however many
\* levels there are, whichever quantities leave a residue, and however fine the
\* prices are.
THEOREM FiguresStayTrue == Spec => [](PnlIsCash /\ DrawdownIsWorst /\ StopBeyondGrid)
<1>1. Init => Kept
  BY InitKept DEF Init
<1>2. Kept /\ [Next]_vars => Kept'
  BY StepKept, BacktestSteps
<1>3. Kept => PnlIsCash /\ DrawdownIsWorst /\ StopBeyondGrid
  <2>1. Kept => curve \in Seq(Int)
    BY DEF Kept, GridKept, GridSound, TestTypeOK
  <2> QED BY <2>1, ProfitIsCash, PassFindsWorst, StopsBeyond
<1> QED BY <1>1, <1>2, <1>3, PTL DEF Spec

\* Hence the figures hold wherever average entry prices come out whole.
THEOREM MetricsStayTrue == Spec => [](WholeAverages => MetricsHold)
<1>1. PnlIsCash /\ DrawdownIsWorst /\ StopBeyondGrid => (WholeAverages => MetricsHold)
  BY DEF MetricsHold
<1> QED BY <1>1, FiguresStayTrue, PTL

\* The ledgers of the reports form a chain: the period of a day begins where
\* that of the day before it ended, its inventory is what the account earned by
\* prices, and a month is the sum of its days (balance_history.json,
\* net_flow_history.json), although scripts are killed between the two files.
THEOREM LedgersStayChained == Spec => []LedgersChain
<1>1. Init => LedgersInv
  BY LedgersInit DEF Init
<1>2. LedgersInv /\ [Next]_vars => LedgersInv'
  BY LedgersStep, ReportSteps
<1> QED BY <1>1, <1>2, LedgersChained, PTL DEF Spec

\* The scripts that move USDT overdraw no account; daily_fund_check leaves the
\* main account its buffer and sends no subaccount more than it needs,
\* rebalance_usdt ends with 60 % at most on either side, and the opening balance
\* is what the subaccounts held, whenever nothing moved under the script that
\* read one account after another (main of the scripts).
THEOREM FundsStayWithin == Spec => FundsWithinBounds
<1>1. Init => FundsInv
  BY FundsInit DEF Init
<1>2. FundsInv /\ [Next]_vars => FundsInv'
  BY FundsStep, FundingSteps
<1>3. FundsInv => FundingTypeOK
  BY DEF FundsInv
<1>4. FundsInv /\ [Next]_vars => [BufferStep]_fundVars
  BY KeepsBuffer, FundingSteps
<1>5. FundsInv /\ [Next]_vars => [NeedStep]_fundVars
  BY SendsWhatIsNeeded, FundingSteps
<1>6. FundsInv /\ [Next]_vars => [SplitStep]_fundVars
  BY RestoresSplit, FundingSteps
<1>7. FundsInv /\ [Next]_vars => [OpeningStep]_fundVars
  BY SavesWhatIsHeld, FundingSteps
<1>8. Spec => []FundingTypeOK /\ [][BufferStep]_fundVars /\ [][NeedStep]_fundVars
              /\ [][SplitStep]_fundVars /\ [][OpeningStep]_fundVars
  BY <1>1, <1>2, <1>3, <1>4, <1>5, <1>6, <1>7, PTL DEF Spec
<1> QED BY <1>8 DEF FundsWithinBounds, BufferKept, NeverTooMuch, SplitRestored, OpeningIsHeld,
             BufferStep, NeedStep, SplitStep, OpeningStep

\* The scripts that close positions bring them nearer to zero and never past it,
\* and what they say when they end is what the exchange holds: a sweep has left
\* nothing behind, resting orders cover what is open, and "none" and "closed"
\* are true (close_position and main of the four scripts).
THEOREM VerdictsStayTrue == Spec => VerdictsHold
<1>1. Init => CloseInv
  BY CloseInit DEF Init
<1>2. CloseInv /\ [Next]_vars => CloseInv'
  BY CloseStep, ClosingSteps
<1>3. CloseInv => CloseTypeOK /\ SweptIsFlat /\ RestingCovers /\ NoneMeansFlat
  BY SaysRight DEF CloseInv
<1>4. CloseInv /\ [Next]_vars => [TowardsStep]_closeVars
  BY MovesTowards, ClosingSteps
<1>5. CloseInv /\ [Next]_vars => [BybitStep]_closeVars
  BY SaysWhatIsThere, ClosingSteps
<1>6. Spec => /\ []CloseTypeOK /\ []SweptIsFlat /\ []RestingCovers /\ []NoneMeansFlat
              /\ [][TowardsStep]_closeVars /\ [][BybitStep]_closeVars
  BY <1>1, <1>2, <1>3, <1>4, <1>5, PTL DEF Spec
<1> QED BY <1>6 DEF VerdictsHold, TowardsFlat, BybitVerdict, TowardsStep, BybitStep
================================================================================
