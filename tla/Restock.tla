------------------------------ MODULE Restock -------------------------------
(***************************************************************************)
(* The scripts that buy base currencies on the main account and split them *)
(* between the two subaccounts of a bucket (cm-bot-spot-py/scripts):        *)
(*   auto     auto_restock.py        all      restock_all.py               *)
(*   jul10    restock_jul10.py       triple   restock_3x.py                *)
(*   thin     restock_thin.py        execute  restock_execute.py           *)
(*   zar      restock_zar.py                                               *)
(* Two or three pairs stand for the lists of each script.  XAUT is traded   *)
(* in rand and in USDT, in two buckets; the ZAR bucket also trades USDC.    *)
(* A dry run prints the plan and stops; the model runs with --execute.      *)
(***************************************************************************)
EXTENDS Wallet

RestockScripts == {"auto", "all", "jul10", "triple", "thin", "execute", "zar"}

ZarPairs  == <<Pair("BTC", "ZAR", ZarSubs), Pair("XAUT", "ZAR", ZarSubs)>>
UsdtPairs == <<Pair("JUP", "USDT", UsdtSubs), Pair("XAUT", "USDT", UsdtSubs)>>
UsdcPair  == Pair("USDC", "ZAR", ZarSubs)

-----------------------------------------------------------------------------
(* auto_restock.py *)

\* is_starved, over what parse_latest_summary found in the last summary: a
\* pair may be absent, refused for its spread, out of funds, skipping often
\* without a print, or trading.
LogClasses == {"absent", "spread", "insufficient", "skipping", "trading"}
Starved(p) == log[<<p.base, p.quote>>] \in {"insufficient", "skipping"}

MinBuy == D(1)
\* The starved pairs and what each lacks of $35, by bucket and cost.
Findings(v) ==
  LET need(p)  == Over(D(35) - Get(v, "main", p.base))
      item(p)  == When(Starved(p) /\ Price(p.base, p.quote) /\ need(p) >= MinBuy,
                       <<[pair |-> p, need |-> need(p)]>>)
      list(ps) == IF need(ps[2]) > need(ps[1]) THEN item(ps[2]) \o item(ps[1])
                  ELSE item(ps[1]) \o item(ps[2])
  IN  list(UsdtPairs) \o list(ZarPairs)

Budget == D(100)
MainWorth(v) == Get(v, "main", "USDC") + Get(v, "main", "USDT") + Get(v, "main", "ZAR") \div Rate
EffectiveBudget == Less(Budget, MainWorth(old) - D(5))

\* Mutant of Within: the budget is not reduced by what was taken before.
WithinAll(costs, budget, least) == IF budget >= least THEN Len(costs) ELSE 0
\* How many items are taken: each while "least" is left of the budget before it.
Within(costs, budget, least) ==
  Cardinality({i \in DOMAIN costs : budget - SumOf(SubSeq(costs, 1, i - 1)) >= least})

Costs(fs) == [i \in DOMAIN fs |-> fs[i].need]
Capped ==
  LET f == Findings(old) IN SubSeq(f, 1, Within(Costs(f), EffectiveBudget, MinBuy))

\* What the subaccounts lack of their quote buffers; one whose balances could
\* not be read is left out.
Gaps ==
  LET target == [ZAR |-> D(2500), USDT |-> D(50), USDC |-> D(3)]
      gap(a, c) == When(seen[a] # Unread /\ target[c] > Get(seen, a, c),
                        <<[sub |-> a, cur |-> c, need |-> target[c] - Get(seen, a, c)]>>)
      gaps(subs, c) == gap(subs[1], c) \o gap(subs[2], c)
  IN  gaps(ZarSubs, "ZAR") \o gaps(UsdtSubs, "USDT") \o gaps(UsdcSubs, "USDC")
CappedGaps ==
  LET costs == [i \in DOMAIN Gaps |-> Convert(Gaps[i].need, Gaps[i].cur, "USDC")]
  IN  SubSeq(Gaps, 1, Within(costs, EffectiveBudget - SumOf(Costs(Capped)), 50))

\* A buy; in rand it first tops up a small margin from USDT, by an order whose
\* amount is in USDT where the exchange takes it in rand.
AutoBuy(f) ==
  LET cost  == Convert(f.need, "USDT", f.pair.quote)
      short == Part(cost, 105, 100) - Main("ZAR")
      sell  == short \div Rate
      tops  == Main("ZAR") < Part(cost, 110, 100) /\ short > D(1) /\ Main("USDT") > sell + D(1)
      buy   == Counting(Trade("main", f.pair.quote, f.pair.base, cost))
  IN  IF f.pair.quote = "ZAR" /\ Main("ZAR") < cost THEN <<Tick>>
      ELSE When(f.pair.quote = "ZAR" /\ tops,
                <<Else(Counting(Want("main", "USDT", "ZAR", sell)), 2), Lenient(LookFor("main", {"ZAR"}))>>)
             \o <<buy>>

\* Mutant of AutoMove: a refused transfer is printed and not counted.
Uncounted(a, c, n) == Picky(Move("main", a, c, n))
AutoMove(a, c, n) == Counting(Picky(Move("main", a, c, n)))

AutoTransfers ==
  LET bases(f) == When(Main(f.pair.base) > 0,
                       Each(f.pair.subs, LAMBDA a : <<AutoMove(a, f.pair.base, Part(Main(f.pair.base), 499, 1000))>>))
      buffer(g) == LET n == Less(g.need, Part(Main(g.cur), 49, 100))
                   IN  When(Main(g.cur) >= g.need \div 2 /\ n > 0, <<AutoMove(g.sub, g.cur, n)>>)
  IN  Each(Capped, bases) \o Each(CappedGaps, buffer)

AutoRestock(k) ==
  CASE k = 1 -> <<Or(Look("main"), "2")>>
    [] k = 2 -> IF Findings(seen) = <<>> THEN <<End("0")>>
                ELSE Each(ZarSubs \o UsdtSubs \o UsdcSubs, LAMBDA a : <<Lenient(Look(a))>>)
    [] k = 3 -> When(EffectiveBudget < MinBuy, <<End("0")>>)
    [] k \in 4..7 -> IF k - 3 \in DOMAIN Capped THEN AutoBuy(Capped[k - 3]) ELSE <<>>
    [] k = 8 -> <<Lenient(Look("main"))>>
    [] k = 9 -> AutoTransfers
    [] OTHER -> <<End(IF counted > 0 THEN "2" ELSE "0")>>

-----------------------------------------------------------------------------
(* restock_all.py: a refused request is not noticed. *)

AllNeeds(pairs, target, least) ==
  Each(pairs, LAMBDA p : LET cost == Convert(Over(target - Main(p.base)), "USDT", p.quote)
                         IN  When(Price(p.base, p.quote) /\ cost > least, <<[pair |-> p, cost |-> cost]>>))
AllBuys(pairs, target, least) ==
  Each(AllNeeds(pairs, target, least), LAMBDA n : <<Trade("main", n.pair.quote, n.pair.base, n.cost)>>)

ZarPer == D(700)
AllConversion ==
  LET needs == AllNeeds(ZarPairs, ZarPer \div Rate, 0)
      lacks == Over(SumOf([i \in DOMAIN needs |-> needs[i].cost]) + 2 * D(2500) - Main("ZAR")) \div Rate
  IN  When(lacks > 50, <<Want("main", "USDT", "ZAR", Part(lacks, 101, 100)), LookFor("main", {})>>)

AllBuffer(subs, c, keep, n, least) ==
  LET b == Less(keep, Part(Main(c), n, 100)) IN When(b > least, Both(subs, c, b))
AllTransfers ==
  SplitHeld(ZarPairs \o UsdtPairs \o <<Pair("EURC", "USDC", UsdcSubs)>>, 0, 9998, 10000)
    \o AllBuffer(ZarSubs, "ZAR", D(2500), 49, D(1))
    \o AllBuffer(UsdtSubs, "USDT", D(50), 24, 50)
    \o AllBuffer(UsdcSubs, "USDC", D(3), 49, 1)

RestockAll(k) ==
  CASE k = 1 -> <<Look("main")>>
    [] k = 2 -> AllConversion
    [] k = 3 -> AllBuys(ZarPairs, ZarPer \div Rate, D(1)) \o AllBuys(UsdtPairs, D(100), 50)
                  \o When(D(10) - Main("EURC") > 1, <<Trade("main", "USDC", "EURC", D(10))>>)
                  \o <<Look("main")>>
    [] k = 4 -> AllTransfers
    [] OTHER -> <<End("0")>>

-----------------------------------------------------------------------------
(* restock_jul10.py *)

Buys(pairs, n) == Each(pairs, LAMBDA p : <<Want("main", p.quote, p.base, n)>>)

Jul10(k) ==
  CASE k = 1 -> <<Look("main"), Look("Z1"), Look("Z2")>>
    [] k = 2 -> Each(ZarSubs, LAMBDA a : LET n == Get(seen, a, "USDC") - D(2)
                                         IN  When(n > 0, <<Move(a, "main", "USDC", n)>>))
                  \o <<Look("main")>>
    [] k = 3 -> <<Or(Trade("main", "USDC", "ZAR", D(6 * 35) \div Rate), "0"), Look("main")>>
    [] k = 4 -> LET n == Main("USDC") - D(1)
                IN  When(n > 0, <<Trade("main", "USDC", "USDT", n), Look("main")>>)
    [] k = 5 -> Buys(ZarPairs, D(35)) \o Buys(UsdtPairs, D(35)) \o <<Look("main")>>
    [] k = 6 -> Split(ZarPairs \o UsdtPairs, 1, 1)
                  \o When(Main("ZAR") > D(10), Both(ZarSubs, "ZAR", Main("ZAR") \div 2))
                  \o When(Main("USDT") > D(1), Both(UsdtSubs, "USDT", Main("USDT") \div 2))
    [] OTHER -> <<End("0")>>

-----------------------------------------------------------------------------
(* restock_3x.py *)

TripleZar  == Append(ZarPairs, UsdcPair)
TripleUsdt == <<Pair("JUP", "USDT", UsdtSubs)>>
Spend3     == D(72)

Triple(k) ==
  LET lacks == InZar(Spend3) * Len(TripleZar) - Main("ZAR")
      sell  == lacks \div Rate + D(10)
      each(ps) == Each(ps, LAMBDA p : <<Trade("main", p.quote, p.base, Convert(Spend3, "USDT", p.quote))>>)
  IN CASE k = 1 -> <<Look("main")>>
       [] k = 2 -> When(lacks > 0, IF Main("USDT") < sell THEN <<End("1")>>
                                   ELSE <<Or(Trade("main", "USDT", "ZAR", sell), "1"), Look("main")>>)
       [] k = 3 -> each(TripleZar) \o each(TripleUsdt) \o <<Look("main")>>
       [] k = 4 -> SplitHeld(TripleZar \o TripleUsdt, 0, 1, 1)
       [] OTHER -> <<End("0")>>

-----------------------------------------------------------------------------
(* restock_thin.py: anything but status 200 is a failure, and a mistyped id *)
(* names a subaccount that does not exist.                                  *)

ThinPairs == <<Pair("XAUT", "ZAR", ZarSubs), UsdcPair, Pair("XAUT", "USDT", <<"U1?", "U2">>)>>

Thin(k) ==
  LET lacks == D(750) - Main("ZAR")
      spend(p) == IF p.quote = "ZAR" THEN D(90) ELSE D(35)
      half(p)  == Convert(spend(p), p.quote, p.base) \div 2
  IN CASE k = 1 -> <<Look("main")>>
       [] k = 2 -> When(lacks > 0, <<Picky(Trade("main", "USDT", "ZAR", lacks \div Rate + D(5)))>>)
       [] k = 3 -> Each(ThinPairs, LAMBDA p : <<Picky(Else(Trade("main", p.quote, p.base, spend(p)), 2))>>
                                                 \o Both(p.subs, p.base, half(p)))
       [] OTHER -> <<End("0")>>

-----------------------------------------------------------------------------
(* restock_execute.py: the first failed buy ends it, with nothing moved.    *)

Execute(k) ==
  LET pairs == <<ZarPairs[1], UsdcPair, ZarPairs[2]>> \o UsdtPairs
  IN CASE k = 1 -> <<Look("main")>>
       [] k = 2 -> Each(Buys(pairs, D(35)), LAMBDA r : <<Or(r, "0")>>) \o <<Look("main")>>
       [] k = 3 -> Split(pairs, 1, 1)
       [] OTHER -> <<End("0")>>

-----------------------------------------------------------------------------
(* restock_zar.py: sells USDT up to R5400 by an amount of USDT that the     *)
(* exchange takes in rand, and spends an eighth of the rand on each pair.   *)

RestockZar(k) ==
  LET lacks  == Over(D(5400) - Main("ZAR"))
      sell   == LET n == Less(lacks \div Rate, Main("USDT")) IN IF n < D(10) THEN Main("USDT") ELSE n
      eighth == (Main("ZAR") - D(200)) \div 8
      spend  == IF eighth < D(10) THEN D(50) ELSE eighth
      again  == Blank(Look("main"))
  IN CASE k = 1 -> <<again>>
       [] k = 2 -> When(lacks > 0, <<Want("main", "USDT", "ZAR", sell)>>) \o <<again>>
       [] k = 3 -> Each(ZarPairs, LAMBDA p : <<Trade("main", "ZAR", p.base, spend)>>) \o <<again>>
       [] k = 4 -> Both(ZarSubs, "ZAR", (Main("ZAR") - D(50)) \div 2) \o <<again>>
       [] k = 5 -> SplitHeld(ZarPairs, 1, 1, 1)
       [] OTHER -> <<End("0")>>

-----------------------------------------------------------------------------

RestockPlan(k) ==
  CASE script = "auto" -> AutoRestock(k)      [] script = "all" -> RestockAll(k)
    [] script = "jul10" -> Jul10(k)    [] script = "triple" -> Triple(k)
    [] script = "thin" -> Thin(k)      [] script = "execute" -> Execute(k)
    [] script = "zar" -> RestockZar(k)
RestockNext == script \in RestockScripts /\ Advance(RestockPlan(stage + 1))
=============================================================================
