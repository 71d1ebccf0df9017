----------------------------- MODULE Liquidate ------------------------------
(***************************************************************************)
(* The scripts that turn base currencies into quote currency and empty      *)
(* subaccounts.  In bots/: toZar sell-to-zar.py, rest liquidate-rest.py,    *)
(* sellAll sell-all.py, simple sell-simple.py, final liquidate-final.py,    *)
(* spot liquidate-spot.py.  In cm-bot-spot-py/scripts/: liqAll              *)
(* liquidate_all.py, convert convert_to_usdt.py, sweep sweep_all_subs.py,   *)
(* dust sweep_dust.py, drain drain_eurc_usdc.py.                            *)
(* Open orders are not part of the model: balances are what is available.   *)
(***************************************************************************)
EXTENDS Wallet

LiquidateScripts == {"toZar", "rest", "sellAll", "simple", "final", "spot", "liqAll", "convert",
                     "sweep", "dust", "drain"}

\* Sell n/d of what an account was last seen to hold, in the given markets.
Sells(a, cs, quote, n, d) ==
  Each(cs, LAMBDA c : When(Get(seen, a, c) > 0, <<Ioc(Trade(a, c, quote, Part(Get(seen, a, c), n, d)))>>))
\* Mutant of Sweeps: the amounts are those of the first read, before the sales.
SweepsStale(a, cs, n, d) ==
  Each(cs, LAMBDA c : When(Get(old, a, c) > 0, <<Move(a, "main", c, Part(Get(old, a, c), n, d))>>))
\* Send n/d of it to the main account.
Sweeps(a, cs, n, d) ==
  Each(cs, LAMBDA c : When(Get(seen, a, c) > 0, <<Move(a, "main", c, Part(Get(seen, a, c), n, d))>>))
LookAll(as) == Each(as, LAMBDA a : <<Look(a)>>)

-----------------------------------------------------------------------------
(* The sellers of bots/: every base of the main account, as read once, by   *)
(* an immediate-or-cancel order at the best bid of the first quote currency *)
(* that has one.                                                            *)

Sellers == {"toZar", "rest", "sellAll", "simple", "final"}
MainBases == <<"BTC", "ETH", "EURC", "JUP", "XAUT">>
ToZarQuotes == [c \in Range(MainBases) |-> IF c \in {"JUP", "EURC"} THEN <<"USDC", "ZAR">> ELSE <<"ZAR", "USDC">>]
OtherQuotes ==
  [c \in Range(MainBases) |->
     CASE c = "JUP" -> <<"USDC">>          [] c = "EURC" -> <<"USDC", "ZAR">>
       [] c = "XAUT" -> <<"ZAR", "USDT">>  [] OTHER -> <<"ZAR", "USDT", "USDC">>]
\* sell-all.py looks for "bids" where the exchange says "Bids", so for it no
\* market has a bid.
NoQuotes == [c \in Range(MainBases) |-> <<>>]
Bids(c, quotes) == {i \in DOMAIN quotes[c] : Price(c, quotes[c][i])}

SellMain(quotes) ==
  Each(MainBases, LAMBDA c : When(Bids(c, quotes) # {},
                                  Sells("main", <<c>>, quotes[c][Min(Bids(c, quotes))], 1, 1)))
Seller(k, quotes) ==
  CASE k = 1 -> <<Blank(Look("main"))>>
    [] k = 2 -> SellMain(quotes)
    [] OTHER -> <<End("0")>>
ToZar(k)   == Seller(k, ToZarQuotes)
Rest(k)    == Seller(k, OtherQuotes)
SellAll(k) == Seller(k, NoQuotes)
Simple(k)  == Seller(k, OtherQuotes)
Final(k)   == Seller(k, OtherQuotes)

\* liquidate-spot.py: everything but the rand, from two subaccounts.
LiqSpot(k) ==
  CASE k = 1 -> Each(ZarSubs, LAMBDA a : <<Blank(Look(a))>>)
    [] k = 2 -> Each(ZarSubs, LAMBDA a : Sweeps(a, MainBases \o <<"USDC", "USDT">>, 9999, 10000))
    [] OTHER -> <<End("0")>>

-----------------------------------------------------------------------------
(* liquidate_all.py *)

ZarBases  == <<"BTC", "ETH", "XAUT">>
UsdtBases == Each(<<"JUP", "XAUT">>, LAMBDA c : When(Price(c, "USDT"), <<c>>))
SixSubs   == ZarSubs \o UsdtSubs \o UsdcSubs
Away      == <<"USDT", "USDC", "EURC", "ZAR">>
\* The rand of an account for USDT, if it is worth the order.
BuyUsdt(a, least, n, d) ==
  LET zar == Get(seen, a, "ZAR") IN When(zar >= least, <<Ioc(Trade(a, "ZAR", "USDT", Part(zar, n, d)))>>)

LiqAll(k) ==
  CASE k = 1 -> LookAll(SixSubs)
    [] k = 2 -> Each(ZarSubs, LAMBDA a : Sells(a, ZarBases, "ZAR", 98, 100)) \o LookAll(ZarSubs)
    [] k = 3 -> Each(ZarSubs, LAMBDA a : BuyUsdt(a, D(10), 98, 100)) \o <<Look("U1")>>
    [] k = 4 -> Sells("U1", UsdtBases, "USDT", 98, 100) \o <<Look("U2")>>
    [] k = 5 -> Sells("U2", UsdtBases, "USDT", 98, 100) \o <<Look("C1")>>
    [] k = 6 -> When(Get(seen, "C1", "EURC") > 1, Sells("C1", <<"EURC">>, "USDC", 98, 100)) \o <<Look("C2")>>
    [] k = 7 -> When(Get(seen, "C2", "EURC") > 1, Sells("C2", <<"EURC">>, "USDC", 98, 100)) \o LookAll(SixSubs)
    [] k = 8 -> Each(SixSubs, LAMBDA a : Sweeps(a, Away, 99, 100))
    [] OTHER -> <<End("0")>>

-----------------------------------------------------------------------------
(* convert_to_usdt.py: EURC to USDC to rand to USDT, 95 % at each step.     *)

Convert95(k) ==
  LET sell(c, q) == Each(UsdcSubs, LAMBDA a : Sells(a, <<c>>, q, 95, 100)) \o LookAll(UsdcSubs)
  IN CASE k = 1 -> LookAll(UsdcSubs)
       [] k = 2 -> sell("EURC", "USDC")
       [] k = 3 -> sell("USDC", "ZAR")
       [] k = 4 -> Each(UsdcSubs, LAMBDA a : BuyUsdt(a, D(1), 95, 100)) \o LookAll(UsdcSubs)
       [] OTHER -> <<End("0")>>

-----------------------------------------------------------------------------
(* sweep_all_subs.py: everything but USDT and USDC goes to the main         *)
(* account, and what is not rand there is sold for USDT.                    *)

EightSubs == SixSubs \o BtcSubs
SweepSubs(k) ==
  CASE k = 1 -> LookAll(EightSubs)
    [] k = 2 -> Each(EightSubs, LAMBDA a : Sweeps(a, <<"ZAR">> \o MainBases, 9999, 10000)) \o <<Look("main")>>
    [] k = 3 -> Sells("main", MainBases, "USDT", 1, 1)
    [] OTHER -> <<End("0")>>

-----------------------------------------------------------------------------
(* sweep_dust.py: one subaccount after the other.                           *)

DustOf(a, step) ==
  LET bases == IF a \in Zar THEN ZarBases ELSE <<"JUP", "XAUT">>
  IN CASE step = 1 -> <<Look(a)>>
       [] step = 2 /\ a \notin Usdc -> Sells(a, bases, IF a \in Zar THEN "ZAR" ELSE "USDT", 99, 100) \o <<Look(a)>>
       [] step = 3 /\ a \in Zar /\ Get(seen, a, "ZAR") >= D(10) -> BuyUsdt(a, D(10), 99, 100) \o <<Look(a)>>
       [] step = 4 -> Sweeps(a, IF a \in Usdc THEN <<"USDC", "EURC">> ELSE Away, 99, 100)
       [] OTHER -> <<>>
Dust(k) ==
  IF k \in 1..(4 * Len(SixSubs)) THEN DustOf(SixSubs[1 + ((k - 1) \div 4)], 1 + ((k - 1) % 4))
  ELSE <<End("0")>>

-----------------------------------------------------------------------------
(* drain_eurc_usdc.py: what is above the reserves of each subaccount; a     *)
(* refused order ends that subaccount.                                      *)

ReserveEurc == D(15)
ReserveUsdc == D(25)
DrainOf(a, step) ==
  LET excess(c, keep) == Over(Get(seen, a, c) - keep)
      eurc == excess("EURC", ReserveEurc)   usdc == excess("USDC", ReserveUsdc)
      order(give, get, n, least) == When(n >= least, <<Quits(Ioc(Trade(a, give, get, Part(n, 98, 100))), 1)>>)
  IN CASE step = 1 -> <<LookFor(a, {"EURC", "USDC"})>>
       [] step = 2 /\ (eurc >= D(1) \/ usdc >= D(1)) -> order("EURC", "USDC", eurc, D(1)) \o <<LookFor(a, {"USDC"})>>
       [] step = 3 /\ usdc >= D(5) -> order("USDC", "ZAR", usdc, D(5)) \o <<LookFor(a, {"ZAR"})>>
       [] step = 4 -> order("ZAR", "USDT", Get(seen, a, "ZAR"), D(10))
       [] OTHER -> <<>>
Drain(k) == IF k \in 1..8 THEN DrainOf(UsdcSubs[1 + ((k - 1) \div 4)], 1 + ((k - 1) % 4)) ELSE <<End("0")>>

-----------------------------------------------------------------------------

LiquidatePlan(k) ==
  CASE script = "toZar" -> ToZar(k)         [] script = "rest" -> Rest(k)
    [] script = "sellAll" -> SellAll(k)     [] script = "simple" -> Simple(k)
    [] script = "final" -> Final(k)         [] script = "spot" -> LiqSpot(k)
    [] script = "liqAll" -> LiqAll(k)       [] script = "convert" -> Convert95(k)
    [] script = "sweep" -> SweepSubs(k)     [] script = "dust" -> Dust(k)
    [] script = "drain" -> Drain(k)
LiquidateNext == script \in LiquidateScripts /\ Advance(LiquidatePlan(stage + 1))
=============================================================================
