----------------------------- MODULE Replenish ------------------------------
(***************************************************************************)
(* The scripts that even out what the trading accounts hold.  In            *)
(* cm-bot-spot-py/scripts/: buffers rebuild_quote_buffers.py, inventory     *)
(* rebuild_inventory.py, normalize normalize_inventory.py, execReb          *)
(* execute_rebalance.py, execRetry execute_retry.py.  In scripts/:          *)
(* replenish quote_replenish.py, buyBase buy_base_inventory.py, bulk        *)
(* bulk_buy_inventory.py, evens spot_rebalance_manual.py.                   *)
(* U1 and U2 also stand for CMS1 and CMS2, the accounts of the last six.    *)
(***************************************************************************)
EXTENDS Wallet

ReplenishScripts == {"buffers", "inventory", "normalize", "execReb", "execRetry", "replenish",
                     "buyBase", "bulk", "evens"}

QuoteOf(a)  == IF a \in Zar THEN "ZAR" ELSE IF a \in Usdt THEN "USDT" ELSE "USDC"
BufferOf    == [ZAR |-> D(2500), USDT |-> D(50), USDC |-> D(3)]
BucketSubs  == ZarSubs \o UsdtSubs \o UsdcSubs
\* What an account was found to hold of a currency, in dollars.
Value(v, a, c) == Convert(Get(v, a, c), c, "USDT")

-----------------------------------------------------------------------------
(* rebuild_quote_buffers.py.  EURCUSDC is never sold, and the amounts of    *)
(* the BTC bucket are far too small for its thresholds, which are meant for *)
(* dollars: those subaccounts are only read.                                *)

BufferBases(a) == CASE a \in Zar -> <<"BTC", "ETH", "USDC", "XAUT">>
                    [] a \in Usdt -> <<"JUP", "XAUT">>  [] OTHER -> <<>>
\* Half of a holding, or nearly all of one whose half is worth less than 0.5.
MaxSell(a, b) ==
  LET half == Get(seen, a, b) \div 2
  IN  IF Convert(half, b, QuoteOf(a)) < 50 THEN Part(Get(seen, a, b), 99, 100) ELSE half

\* Mutant of BufferSells: only the first base that can be sold.
OneBase(a, need) ==
  LET q == QuoteOf(a)
      bs == Each(BufferBases(a), LAMBDA b : When(Price(b, q) /\ MaxSell(a, b) > 0, <<b>>))
  IN  When(bs # <<>>, <<Trade(a, bs[1], q, Less(MaxSell(a, bs[1]), Part(Convert(need, q, bs[1]), 98, 100)))>>)
\* One base more, unless the need is covered; the last of them gives 98 % of
\* what is missing.
Raise(a, need, acc, b) ==
  LET q      == QuoteOf(a)   rest == need - acc.raised
      most   == MaxSell(a, b)   value == Convert(most, b, q)
      amount == IF value >= rest THEN Part(Convert(rest, q, b), 98, 100) ELSE most
  IN  IF acc.raised >= need \/ ~Price(b, q) \/ value < 10 \/ amount <= 0 THEN acc
      ELSE [raised |-> acc.raised + Convert(amount, b, q),
            sells |-> Append(acc.sells, Trade(a, b, q, amount))]
\* One base after the other.
BufferSells(a, need) ==
  LET after[n \in 0..Len(BufferBases(a))] ==
        IF n = 0 THEN [raised |-> 0, sells |-> <<>>] ELSE Raise(a, need, after[n - 1], BufferBases(a)[n])
  IN  after[Len(BufferBases(a))].sells

\* A subaccount that could not be read is left out.
Buffers(k) ==
  LET need(a) == Over(BufferOf[QuoteOf(a)] - Get(seen, a, QuoteOf(a)))
      short(a) == seen[a] # Unread /\ need(a) >= Part(BufferOf[QuoteOf(a)], 5, 100)
  IN CASE k = 1 -> Each(BucketSubs, LAMBDA a : <<Lenient(Look(a))>>)
       [] k = 2 -> Each(BucketSubs, LAMBDA a : When(short(a), BufferSells(a, need(a))))
       [] OTHER -> <<End("0")>>

-----------------------------------------------------------------------------
(* rebuild_inventory.py.  The pairs are those some subaccount holds.        *)

PerSub == 1750
HeldPairs ==
  <<Pair("BTC", "ZAR", ZarSubs), Pair("JUP", "USDT", UsdtSubs), Pair("XAUT", "USDT", UsdtSubs)>>
Holds(v, a, p) == Get(v, a, p.base) > 0
\* Without a price a holding is worth nothing.
Usd(v, a, p) == IF Price(p.base, p.quote) THEN Get(v, a, p.base) ELSE 0

InventorySells ==
  Each(HeldPairs, LAMBDA p : Each(p.subs, LAMBDA a :
    When(Holds(seen, a, p) /\ Usd(seen, a, p) > PerSub + D(5),
         <<Trade(a, p.base, p.quote, Usd(seen, a, p) - PerSub)>>)))
\* A pair that both subaccounts are short of is bought twice.
InventoryBuys ==
  Each(HeldPairs, LAMBDA p : Each(p.subs, LAMBDA a :
    When(Holds(old, a, p) /\ Usd(old, a, p) < PerSub - D(5),
         <<[pair |-> p, short |-> PerSub - Usd(old, a, p)]>>)))

\* What is above the buffer goes to the main account.
SweepExcess(a) ==
  LET excess == Get(seen, a, QuoteOf(a)) - BufferOf[QuoteOf(a)]
  IN  When(excess > D(1), <<Move(a, "main", QuoteOf(a), excess)>>)
\* The need is in dollars and compared with rand.
InventoryConversion ==
  LET needed == SumOf([i \in DOMAIN InventoryBuys |->
                        IF InventoryBuys[i].pair.quote = "ZAR" THEN InventoryBuys[i].short ELSE 0])
      cvt    == Less(Main("USDT"), Part(InZar(needed - Main("ZAR")), 11, 10))
  IN  When(needed > Main("ZAR") /\ Main("USDT") > D(5),
           <<Trade("main", "USDT", "ZAR", cvt), Blank(Look("main"))>>)

\* Buy, share the base, share the quote currency that is left.
InventoryBuy(n, step) ==
  LET p == n.pair   spend == Convert(n.short, "USDT", p.quote)   bought == Main(p.quote) >= spend \div 2
      some == Part(Main(p.quote), 9, 20)
  IN CASE step = 0 -> When(bought, <<Trade("main", p.quote, p.base, spend), Blank(Look("main"))>>)
                        \o When(~bought, <<Jump(2)>>)
       [] step = 1 -> When(Main(p.base) > 0, Both(p.subs, p.base, Part(Main(p.base), 999, 2000)))
                        \o <<Blank(Look("main"))>>
       [] OTHER    -> When(Main(p.quote) > D(10) /\ some > D(5), Both(p.subs, p.quote, some))

Inventory(k) ==
  LET n == Len(BucketSubs)   i == k - n - 5
      blank(a) == Blank(Look(a))
  IN CASE k = 1 -> Each(Append(BucketSubs, "main"), LAMBDA a : <<blank(a)>>)
       [] k = 2 -> InventorySells
       [] k \in 3..(n + 3) -> When(k > 3, SweepExcess(BucketSubs[k - 3]))
                                \o <<blank(IF k - 2 \in 1..n THEN BucketSubs[k - 2] ELSE "main")>>
       [] k = n + 4 -> InventoryConversion
       [] i \div 3 + 1 \in DOMAIN InventoryBuys -> InventoryBuy(InventoryBuys[i \div 3 + 1], i % 3)
       [] OTHER -> <<End("0")>>

-----------------------------------------------------------------------------
(* normalize_inventory.py: sells what each subaccount has above its half of *)
(* a pair that is worth too much; what it would buy it only prints.         *)

NormalPairs == <<Pair("BTC", "ZAR", ZarSubs), Pair("USDC", "ZAR", ZarSubs), Pair("JUP", "USDT", UsdtSubs),
                 Pair("XAUT", "USDT", UsdtSubs), Pair("EURC", "USDC", UsdcSubs)>>
\* Mutant of Surplus: the whole holding.
SurplusAll(a, b) == Get(seen, a, b)
Surplus(a, b) == Get(seen, a, b) - PerSub
Normalize(k) ==
  LET rich(p) == Price(p.base, p.quote)
                   /\ Get(seen, p.subs[1], p.base) + Get(seen, p.subs[2], p.base) > D(35) + D(5)
      sells(p) == Each(p.subs, LAMBDA a : When(Surplus(a, p.base) > D(2),
                                               <<Trade(a, p.base, p.quote, Surplus(a, p.base))>>))
  IN CASE k = 1 -> Each(BucketSubs, LAMBDA a : <<Blank(Look(a))>>)
       [] k = 2 -> Each(NormalPairs, LAMBDA p : When(rich(p), sells(p)))
       [] OTHER -> <<End("0")>>

-----------------------------------------------------------------------------
(* execute_rebalance.py and execute_retry.py: the orders of a plan file, and *)
(* of two lists, in amounts of the base.  An order that is taken and then    *)
(* cancelled is a success.                                                   *)

\* Without an order book it raises.
PlanOrder(r) == Ioc(IF Price(r.give, r.get) /\ Price(r.get, r.give) THEN r ELSE Or([r EXCEPT !.amount = 0], "1"))
PlanSells == <<PlanOrder(Trade("U1", "XAUT", "USDT", D(4))), PlanOrder(Trade("U2", "JUP", "USDT", D(30)))>>
PlanZar   == <<PlanOrder(Trade("U1", "USDT", "ZAR", D(20)))>>
PlanBuys  == <<PlanOrder(Want("U1", "ZAR", "BTC", D(7))), PlanOrder(Want("U2", "USDT", "JUP", D(8)))>>
BothLook  == Each(UsdtSubs, LAMBDA a : <<Look(a)>>)
\* Mutant of Phase: a failed sale is passed over.
PassesOver(rs) == rs \o BothLook
\* A phase that has to succeed before the next one.
Phase(rs) == Each(rs, LAMBDA r : <<Or(r, "1")>>) \o BothLook

ExecReb(k) ==
  CASE k = 1 -> Phase(PlanSells)
    [] k = 2 -> Phase(PlanZar)
    [] k = 3 -> PlanBuys \o BothLook
    [] OTHER -> <<End("0")>>

ExecRetry(k) ==
  CASE k = 1 -> <<PlanOrder(Trade("U2", "XAUT", "USDT", D(98))), PlanOrder(Trade("U2", "JUP", "USDT", D(39)))>>
                  \o <<Look("U2"), Look("U1")>>
    [] k = 2 -> IF Get(seen, "U2", "USDT") < D(40) THEN <<End("0")>>
                ELSE <<Or(Move("U2", "U1", "USDT", D(40)), "0"), PlanOrder(Want("U1", "USDT", "JUP", D(12))),
                       PlanOrder(Want("U1", "ZAR", "ETH", D(6))), PlanOrder(Want("U2", "ZAR", "ETH", D(7)))>>
                     \o BothLook
    [] OTHER -> <<End("0")>>

-----------------------------------------------------------------------------
(* quote_replenish.py: both accounts are read first, and each is put right  *)
(* from that read alone.                                                    *)

QuoteOrder == <<"USDT", "USDC", "ZAR">>
MinBalance    == D(20)
TargetBalance == D(50)
Low(a)     == Each(QuoteOrder, LAMBDA c : When(Value(seen, a, c) < MinBalance, <<c>>))
Lacks(a, c) == Over(TargetBalance - Value(seen, a, c))
Spare(a, c) == Over(Value(seen, a, c) - MinBalance)

\* Half of each surplus for each currency that is low; rand are offered in the
\* number of dollars they should be worth.
Conversions(a) ==
  LET convert(c, d) == LET n == Less(Spare(a, c) \div 2, Lacks(a, d))
                       IN  When(Spare(a, c) > D(5) /\ n >= D(1), <<Trade(a, c, d, n)>>)
  IN  Each(Low(a), LAMBDA d : Each(QuoteOrder, LAMBDA c : convert(c, d)))

\* Half of each base, the dearest first, until what is missing is raised; the
\* orders that follow depend on whether one is taken.
\* One of two courses, according to whether an order is taken.
Either(r, taken, refusal) == <<Else(r, Len(taken) + 1)>> \o taken \o <<Hop(Len(refusal))>> \o refusal
HalfSell(a, quote, b, rest, Then(_)) ==
  LET half == Get(seen, a, b) \div 2
  IN  IF rest <= 0 THEN <<>>
      ELSE IF half < 50 \/ half < Part(rest, 3, 10) THEN Then(rest)
      ELSE Either(Trade(a, b, quote, half), Then(rest - half), Then(rest))
HalfSells(a, quote, bases, rest) ==
  LET third(r)  == HalfSell(a, quote, bases[3], r, LAMBDA n : <<>>)
      second(r) == HalfSell(a, quote, bases[2], r, third)
  IN  HalfSell(a, quote, bases[1], rest, second)
Dearest(a) ==
  LET dearer(b, c) == Get(seen, a, b) > Get(seen, a, c)
      first  == IF dearer("JUP", "BTC") THEN "JUP" ELSE "BTC"
      second == IF dearer("JUP", "BTC") THEN "BTC" ELSE "JUP"
  IN  CASE dearer("XAUT", first) -> <<"XAUT", first, second>>
        [] dearer("XAUT", second) /\ ~dearer("XAUT", first) -> <<first, "XAUT", second>>
        [] OTHER -> <<first, second, "XAUT">>
BaseSells(a) == Each(Low(a), LAMBDA c : HalfSells(a, c, Dearest(a), Lacks(a, c)))

\* The bases that are bought for a quote currency, those one has least of first.
CyclePairs(a, quote) ==
  LET least == Get(seen, a, "BTC") <= Get(seen, a, "USDC")
  IN  CASE quote = "USDT" -> <<"JUP">>  [] quote = "USDC" -> <<"EURC">>
        [] OTHER -> IF least THEN <<"BTC", "USDC">> ELSE <<"USDC", "BTC">>
\* What is short of five cycles is bought up to ten, a cycle being a dollar,
\* from the surplus that was read; dollars are again offered as rand.
CycleBuy(a, quote, b, rest, Then(_)) ==
  LET have == Get(seen, a, b)   n == Less(D(10) - have, rest)
  IN  IF rest <= 0 THEN <<>>
      ELSE IF have >= D(5) \/ n < D(1) THEN Then(rest)
      ELSE Either(Trade(a, quote, b, n), Then(rest - n), Then(rest))
CycleBuys(a, quote, bases, rest) ==
  LET second(r) == IF Len(bases) = 1 THEN <<>> ELSE CycleBuy(a, quote, bases[2], r, LAMBDA n : <<>>)
  IN  CycleBuy(a, quote, bases[1], rest, second)
BaseBuys(a) ==
  Each(QuoteOrder, LAMBDA q : When(Spare(a, q) >= D(2), CycleBuys(a, q, CyclePairs(a, q), Spare(a, q))))

Replenish(k) ==
  LET pass(a) == IF seen[a] = Unread THEN <<End("1")>>
                 ELSE Conversions(a) \o BaseSells(a) \o BaseBuys(a)
  IN CASE k = 1 -> Each(UsdtSubs, LAMBDA a : <<Lenient(Look(a))>>)
       [] k \in 2..3 -> pass(UsdtSubs[k - 1])
       [] OTHER -> <<End("0")>>

-----------------------------------------------------------------------------
(* buy_base_inventory.py and bulk_buy_inventory.py                          *)

ProblemPairs == Each(<<"JUP", "XAUT">>, LAMBDA b : When(Price(b, "USDT"), <<b>>))
PerAccount   == D(3)
BuyBase(k) ==
  LET need(a, b)   == Over(PerAccount - Get(seen, a, b))
      amount(a, b) == IF need(a, b) < 50 THEN 55 ELSE need(a, b)
      buy(a, b)    == When(need(a, b) > 0, <<Ioc(Want(a, "USDT", b, amount(a, b)))>>)
  IN CASE k = 1 -> BothLook
       [] k = 2 -> Each(ProblemPairs, LAMBDA b : Each(UsdtSubs, LAMBDA a : buy(a, b)))
       [] OTHER -> <<End("0")>>
Bulk(k) ==
  IF k = 1 THEN Each(ProblemPairs, LAMBDA b : Each(UsdtSubs, LAMBDA a : <<Ioc(Want(a, "USDT", b, D(5)))>>))
  ELSE <<End("0")>>

-----------------------------------------------------------------------------
(* spot_rebalance_manual.py: what one account has above half of the total   *)
(* goes to the other, if it has more than 60 %.                             *)

EvenAssets == <<"EURC", "JUP", "USDC", "USDT", "XAUT">>
\* Mutant of Moved: the difference of the two, not half of it.
MovesDifference(c) == LET x == Get(seen, "U1", c)  y == Get(seen, "U2", c) IN IF x > y THEN x - y ELSE y - x
Moved(c) ==
  LET x == Get(seen, "U1", c)  y == Get(seen, "U2", c) IN (IF x > y THEN x ELSE y) - (x + y) \div 2
Evens(k) ==
  LET x(c) == Get(seen, "U1", c)   y(c) == Get(seen, "U2", c)
      lopsided(c) == \E n \in {x(c), y(c)} : 5 * n > 3 * (x(c) + y(c))
      send(c) == IF x(c) > y(c) THEN Move("U1", "U2", c, Moved(c)) ELSE Move("U2", "U1", c, Moved(c))
  IN CASE k = 1 -> BothLook
       [] k = 2 -> Each(EvenAssets, LAMBDA c : When(lopsided(c) /\ Moved(c) >= D(1), <<send(c)>>))
       [] OTHER -> <<End("0")>>

-----------------------------------------------------------------------------

ReplenishPlan(k) ==
  CASE script = "buffers" -> Buffers(k)      [] script = "inventory" -> Inventory(k)
    [] script = "normalize" -> Normalize(k)  [] script = "execReb" -> ExecReb(k)
    [] script = "execRetry" -> ExecRetry(k)  [] script = "replenish" -> Replenish(k)
    [] script = "buyBase" -> BuyBase(k)      [] script = "bulk" -> Bulk(k)
    [] script = "evens" -> Evens(k)
ReplenishNext == script \in ReplenishScripts /\ Advance(ReplenishPlan(stage + 1))
=============================================================================
