------------------------------- MODULE Topup --------------------------------
(***************************************************************************)
(* The scripts that seed one pair or move fixed amounts                     *)
(* (cm-bot-spot-py/scripts):                                                *)
(*   quick   quick_restock.py        pair      seed_pair.py                *)
(*   usdpc   seed_usdpc.py           btc       seed_btc_bucket.py          *)
(*   push    push_zar.py             fund      fund_quote_currency.py      *)
(*   reseed  reseed_usdt_pairs.py    sends     transfers_only.py           *)
(*   retry   retry_transfers.py      retryUsdt retry_usdt_transfers.py     *)
(*   phase2  normalize_phase2.py                                           *)
(* Balances that are read only to be printed are left out.                  *)
(***************************************************************************)
EXTENDS Wallet

TopupScripts == {"quick", "pair", "usdpc", "btc", "push", "fund", "reseed", "sends", "retry",
                 "retryUsdt", "phase2"}

-----------------------------------------------------------------------------
(* quick_restock.py: buys on the subaccounts themselves, without a look.    *)

Quick(k) ==
  LET buy(subs, quote, base, n) == Each(subs, LAMBDA a : <<Trade(a, quote, base, n)>>)
  IN  IF k = 1 THEN buy(ZarSubs, "ZAR", "BTC", D(196)) \o buy(ZarSubs, "ZAR", "ETH", D(292))
                      \o buy(UsdtSubs, "USDT", "JUP", 1750)
      ELSE <<End("0")>>

-----------------------------------------------------------------------------
(* seed_pair.py and seed_usdpc.py: buy for qa on the main account, if it    *)
(* has that; give half of the base to the first subaccount and, after       *)
(* another look, the rest to the second.                                    *)

Seed(step, p, qa) ==
  LET bought == Main(p.quote) >= qa
  IN CASE step = 1 -> <<LookFor("main", {p.quote})>>
       [] step = 2 -> When(bought, <<Trade("main", p.quote, p.base, qa), LookFor("main", {p.base})>>)
       [] step = 3 -> When(bought, <<Move("main", p.subs[1], p.base, Main(p.base) \div 2),
                                     LookFor("main", {p.base})>>)
       [] OTHER    -> When(bought, <<Move("main", p.subs[2], p.base, Main(p.base))>>)

SeedPairs == <<Pair("BTC", "ZAR", ZarSubs), Pair("ETH", "ZAR", ZarSubs)>>
SeedPair(k) ==
  IF k \in 1..(4 * Len(SeedPairs)) THEN Seed(1 + ((k - 1) % 4), SeedPairs[1 + (k - 1) \div 4], InZar(D(35)))
  ELSE <<End("0")>>
SeedUsdpc(k) == IF k \in 1..4 THEN Seed(k, Pair("JUP", "USDT", UsdtSubs), D(35)) ELSE <<End("0")>>

-----------------------------------------------------------------------------
(* seed_btc_bucket.py *)

Cushion == D(5)
\* Mutant of BtcSpend: scales to all there is.
SpendsCushion(n) == IF Main("USDT") < D(75) THEN Part(Main("USDT"), n, 75) ELSE D(n)
\* n of the 75 dollars, scaled down to what is above the cushion.
BtcSpend(n) ==
  LET avail == Over(Main("USDT") - Cushion) IN IF avail < D(75) THEN Part(avail, n, 75) ELSE D(n)

SeedBtc(k) ==
  CASE k = 1 -> <<LookFor("main", {"USDT"})>>
    [] k = 2 -> IF BtcSpend(35) < D(5) THEN <<End("0")>>
                ELSE <<Trade("main", "USDT", "ETH", BtcSpend(35)), Trade("main", "USDT", "BTC", BtcSpend(40)),
                       Look("main")>>
    [] k = 3 -> SplitHeld(<<Pair("ETH", "BTC", BtcSubs), Pair("BTC", "BTC", BtcSubs)>>, 0, 9998, 10000)
    [] OTHER -> <<End("0")>>

-----------------------------------------------------------------------------
(* push_zar.py and fund_quote_currency.py: fixed transfers.                 *)

Push(k) == IF k = 1 THEN Both(ZarSubs, "ZAR", 5790) ELSE <<End("0")>>
Fund(k) ==
  IF k = 1 THEN Both(ZarSubs, "ZAR", D(2000)) \o Both(UsdtSubs, "USDT", D(100)) \o Both(UsdcSubs, "USDC", D(2))
  ELSE <<End("0")>>

-----------------------------------------------------------------------------
(* reseed_usdt_pairs.py *)

SeedBases == <<"JUP", "XAUT">>
TargetUsd == D(6)
BufferUsd == 30
MinOrder  == D(1)
\* Mutant of ReseedOne: the deficit is that of the first account.
OneDeficit(a, b) ==
  LET deficit == Over(TargetUsd - Get(seen, UsdtSubs[1], b))
  IN  When(deficit >= MinOrder, <<Ioc(Trade(a, "USDT", b, deficit + BufferUsd)), Look(a)>>)
ReseedOne(a, b) ==
  LET deficit == Over(TargetUsd - Get(seen, a, b))
  IN  When(deficit >= MinOrder, <<Ioc(Trade(a, "USDT", b, deficit + BufferUsd)), Look(a)>>)
\* One pair and account after the other; without a market summary it raises, and
\* it passes over a pair that takes no market orders.
Reseed(k) ==
  LET a == UsdtSubs[1 + (k % 2)]   b == SeedBases[k \div 2]
  IN CASE k = 1 -> Each(UsdtSubs, LAMBDA s : <<Look(s)>>)
       [] k \in 2..5 -> IF Price(b, "USDT") THEN When(ByMarket(b, "USDT"), ReseedOne(a, b))
                          ELSE <<End("1")>>
       [] k = 6 -> Each(UsdtSubs, LAMBDA s : <<Look(s)>>)
       [] OTHER -> <<End("0")>>

-----------------------------------------------------------------------------
(* transfers_only.py, retry_transfers.py, retry_usdt_transfers.py           *)

Sends(k) ==
  CASE k = 1 -> <<Look("main")>>
    [] k = 2 -> SplitHeld(<<Pair("BTC", "ZAR", ZarSubs), Pair("XAUT", "ZAR", ZarSubs),
                            Pair("USDC", "ZAR", ZarSubs), Pair("JUP", "USDT", UsdtSubs)>>, 0, 1, 1)
    [] OTHER -> <<End("0")>>

\* 45 % to each; the rest stays.
RetrySplit(k, subs, cs) ==
  CASE k = 1 -> <<Or(Look("main"), "0")>>
    [] k = 2 -> Each(cs, LAMBDA c : When(Main(c) > 0, Both(subs, c, Part(Main(c), 45, 100))))
    [] OTHER -> <<End("0")>>
Retry(k)     == RetrySplit(k, ZarSubs, <<"BTC", "USDC", "XAUT">>)
RetryUsdt(k) == RetrySplit(k, UsdtSubs, <<"JUP", "XAUT">>)

-----------------------------------------------------------------------------
(* normalize_phase2.py: sweep what is above the buffers to the main         *)
(* account, buy there, split as above; a failed read counts as nothing.     *)

Keep == [ZAR |-> D(2500), USDT |-> D(50), USDC |-> D(3)]
SweptSubs == ZarSubs \o UsdtSubs \o UsdcSubs
Bucket(a) == IF a \in Zar THEN "ZAR" ELSE IF a \in Usdt THEN "USDT" ELSE "USDC"
\* Mutant of Sweep: everything goes.
SweepAll(a) ==
  LET q == Get(seen, a, Bucket(a)) IN When(q > D(1), <<Move(a, "main", Bucket(a), q)>>)
Sweep(a) ==
  LET excess == Get(seen, a, Bucket(a)) - Keep[Bucket(a)]
  IN  When(excess > D(1), <<Move(a, "main", Bucket(a), excess)>>)

PhaseBuys == <<Pair("ETH", "ZAR", ZarSubs), Pair("XAUT", "USDT", UsdtSubs), Pair("EURC", "USDC", UsdcSubs)>>
Spend(p) == Convert([ETH |-> D(32), XAUT |-> D(19), EURC |-> D(20)][p.base], "USDT", p.quote)
Bought(p) == Main(p.quote) >= Spend(p)
Peek(c)  == Blank(LookFor("main", {c}))

Phase2(k) ==
  LET sub(i) == SweptSubs[i]   pair(i) == PhaseBuys[i]   n == Len(SweptSubs)
      i == k - n - 1           j == (k - n - 3) \div 2
      moves(least) == Bought(pair(j)) /\ Main(pair(j).base) > least
  IN CASE k \in 1..(n + 1) -> When(k > 1, Sweep(sub(k - 1)))
                                \o When(k <= n, <<Blank(LookFor(sub(k), {Bucket(sub(k))}))>>)
                                \o When(k = n + 1, <<Peek(pair(1).quote)>>)
       [] i \in 1..3 -> When(Bought(pair(i)), <<Trade("main", pair(i).quote, pair(i).base, Spend(pair(i)))>>)
                          \o When(i < 3, <<Peek(pair(i + 1).quote)>>) \o When(i = 3, <<Peek(pair(1).base)>>)
       [] i \in 4..9 /\ k % 2 = 1 ->
            When(moves(1), <<Move("main", pair(j).subs[1], pair(j).base, Main(pair(j).base) \div 2),
                             Peek(pair(j).base)>>)
       [] i \in 4..9 /\ k % 2 = 0 ->
            When(moves(0), <<Move("main", pair(j).subs[2], pair(j).base, Main(pair(j).base))>>)
              \o When(j < 3, <<Peek(pair(j + 1).base)>>)
       [] OTHER -> <<End("0")>>

-----------------------------------------------------------------------------

TopupPlan(k) ==
  CASE script = "quick" -> Quick(k)       [] script = "pair" -> SeedPair(k)
    [] script = "usdpc" -> SeedUsdpc(k)   [] script = "btc" -> SeedBtc(k)
    [] script = "push" -> Push(k)         [] script = "fund" -> Fund(k)
    [] script = "reseed" -> Reseed(k)     [] script = "sends" -> Sends(k)
    [] script = "retry" -> Retry(k)       [] script = "retryUsdt" -> RetryUsdt(k)
    [] script = "phase2" -> Phase2(k)
TopupNext == script \in TopupScripts /\ Advance(TopupPlan(stage + 1))
=============================================================================
