--------------------------- MODULE AccountScripts ---------------------------
(***************************************************************************)
(* One run of one of the account scripts, and what they have to guarantee.  *)
(* The main account is shared with whoever else trades on it, so a property *)
(* says whether it holds in spite of lost requests and foreign trades or    *)
(* only when the script is left alone.                                      *)
(***************************************************************************)
EXTENDS Restock, Topup, Liquidate, Replenish

CONSTANT Setups  \* a script with the balances, prices and logs it is run on

Scripts == RestockScripts \cup TopupScripts \cup LiquidateScripts \cup ReplenishScripts
ASSUME SetupsAssumption ==
  \A s \in Setups :
    /\ s.script \in Scripts /\ s.held \in [Accounts -> [Currencies -> Nat]]
    /\ s.dark \subseteq Currencies \X Currencies /\ s.limitOnly \subseteq Bases \X Quotes
    /\ s.log \in [Bases \X Quotes -> LogClasses]

Init ==
  /\ \E s \in Setups : script = s.script /\ held = s.held /\ dark = s.dark
                      /\ limitOnly = s.limitOnly /\ log = s.log
  /\ WalletInit
Next == WalletStep \/ RestockNext \/ TopupNext \/ LiquidateNext \/ ReplenishNext
Spec == Init /\ [][Next]_walletVars

-----------------------------------------------------------------------------

\* Balances are never negative, and what a script believes of an account is a
\* set of non-negative amounts.
TypeOK ==
  /\ \A a \in Accounts, c \in Currencies : bal[a][c] \in Nat
  /\ \A a \in Accounts : DOMAIN seen[a] \subseteq Currencies
                           /\ \A c \in DOMAIN seen[a] : seen[a][c] \in Nat
  /\ exit \in {"no", "0", "1", "2"} /\ refused \subseteq Currencies
  /\ faults + trades <= MaxTroubles

Gained(a, c) == bal[a][c] - held[a][c]
Buckets == {ZarSubs, UsdtSubs, UsdcSubs, BtcSubs}

\* Scripts that buy or fetch for both subaccounts of a bucket.
Splitters == RestockScripts \cup (TopupScripts \ {"quick", "reseed", "phase2"})

\* restock_thin.py:17 names the first USDT subaccount by a mistyped id, so that
\* what it sends there is refused: XAUT is the base that it splits in that bucket.
Mistyped(subs, c) == script = "thin" /\ subs = UsdtSubs /\ c = "XAUT"

\* Undisturbed, a script leaves the two subaccounts of a bucket with the same
\* gain in every base but for a cent, whichever of its orders the exchange
\* turned down: the bot trades between the two and needs both sides.  All
\* scripts, buckets and bases are meant but the one that goes astray (Mistyped).
EvenSplit ==
  script \in Splitters /\ Ended /\ Quiet =>
    \A s \in Buckets, c \in Bases :
      Mistyped(s, c) \/ Gained(s[1], c) - Gained(s[2], c) \in -1..1

\* restock_thin.py:2 says "splitting 50/50 to subs".
ThinSplitsEvenly ==
  script = "thin" /\ Ended /\ Quiet =>
    \A s \in Buckets, c \in Bases : Gained(s[1], c) - Gained(s[2], c) \in -1..1

\* Undisturbed and with every order paid for, nothing of what a script buys
\* stays on the main account, but for cents.  The retries send 45 % to each
\* subaccount and keep the rest; of restock_thin the half with the mistyped id
\* stays.
Delivered ==
  script \in Splitters \cup {"phase2"} /\ script \notin {"retry", "retryUsdt"}
    /\ Ended /\ Quiet /\ idle = 0 /\ refused \cap Quotes = {} =>
      \A c \in Bases : \/ bal["main"][c] <= D(1) \/ bal["main"][c] <= held["main"][c]
                       \/ Mistyped(UsdtSubs, c)

\* What a script means to leave where it is.
Reserve(a, c) ==
  CASE script = "jul10" /\ a \in Zar /\ c = "USDC" -> D(2)
    [] script = "btc" /\ a = "main" /\ c = "USDT" -> Cushion
    [] script = "phase2" /\ a # "main" /\ c = Bucket(a) -> Keep[c]
    [] script \in Sellers /\ c \in Quotes -> held[a][c]
    [] script = "spot" /\ c = "ZAR" -> held[a][c]
    [] script = "sweep" /\ c \in {"USDT", "USDC"} -> held[a][c]
    [] script = "drain" /\ c = "EURC" -> ReserveEurc
    [] script = "drain" /\ c = "USDC" -> ReserveUsdc
    [] script = "buffers" /\ held[a][c] >= D(1) -> held[a][c] \div 2
    [] script = "normalize" /\ c # "ZAR" -> PerSub
    [] script = "inventory" /\ a # "main" -> IF c = QuoteOf(a) THEN BufferOf[c] ELSE PerSub
    [] OTHER -> 0

\* Whatever requests are lost, a script never takes a balance below the
\* reserve it means to leave there, unless somebody else spends it too.
ReservesKept ==
  trades = 0 => \A a \in Accounts, c \in Currencies : bal[a][c] >= Less(held[a][c], Reserve(a, c))

\* reseed_usdt_pairs: a run that is not turned down ends with every account
\* holding the target of every base to a dollar, and never above the buffer.  The
\* exit code is 0 also when a pair without market orders was passed over; then
\* both accounts keep of that base what they had.
Reseeded ==
  script = "reseed" /\ exit = "0" /\ Quiet /\ refused = {} =>
    \A a \in Usdt, b \in Range(SeedBases) :
      IF ByMarket(b, "USDT")
      THEN bal[a][b] > TargetUsd - MinOrder
             /\ (bal[a][b] <= TargetUsd + BufferUsd \/ bal[a][b] = held[a][b])
      ELSE bal[a][b] = held[a][b]

\* The quote currencies a seller of the main account accepts for a base.
Wanted == IF script = "toZar" THEN ToZarQuotes ELSE OtherQuotes

\* The currencies that liquidate_all and sweep_dust sell or move, by account; what
\* else an account holds (BTC on a USDT subaccount) they do not look at.
Handled(a) ==
  CASE a \in Zar       -> Range(ZarBases) \cup Range(Away)
    [] a \in Usdt      -> {"JUP", "XAUT"} \cup Range(Away)
    [] script = "dust" -> {"USDC", "EURC"}
    [] OTHER           -> Range(Away)

\* What the liquidations leave behind when nobody interferes and the exchange
\* turns nothing down, whatever the purse: on the main account no base that has a
\* market, on the subaccounts three per cent of what they handle there.
Worth(v, a, cs) == FoldSet(LAMBDA c, n : n + Convert(v[a][c], c, "USDC"), 0, cs)
Emptied ==
  script \in LiquidateScripts \ {"convert", "drain", "sellAll"} /\ Ended /\ Quiet /\ refused = {} =>
    /\ script \in Sellers => \A c \in Range(MainBases) : Bids(c, Wanted) # {} => bal["main"][c] = 0
    /\ script = "sweep" => \A c \in Bases : bal["main"][c] = 0
    /\ script \in {"liqAll", "dust"} /\ dark = {} => \A a \in Range(SixSubs) :
         Worth(bal, a, Handled(a)) <= (3 * Worth(held, a, Handled(a))) \div 100 + D(1)

\* auto_restock: exit code 0 means that no request of the run was refused.
HonestExit == script = "auto" /\ exit = "0" => refused = {}

\* The dearest item: a quote buffer, in dollars.
LastItem == IF D(2500) \div Rate > D(50) THEN D(2500) \div Rate ELSE D(50)

\* auto_restock: whatever requests are lost, what leaves the main account in
\* quote currency exceeds the budget by no more than the dearest item.
BudgetNearlyKept ==
  script = "auto" /\ trades = 0 => MainWorth(held) - MainWorth(bal) <= EffectiveBudget + LastItem

\* rebuild_quote_buffers: undisturbed, a subaccount ends within five per cent
\* of its quote buffer, or half of every base it may sell is gone.
BuffersRaised ==
  script = "buffers" /\ Ended /\ Quiet /\ refused = {} =>
    \A a \in Range(BucketSubs) :
      \/ bal[a][QuoteOf(a)] >= Part(BufferOf[QuoteOf(a)], 95, 100) - D(1)
      \/ \A b \in Range(BufferBases(a)) :
           Price(b, QuoteOf(a)) /\ held[a][b] > 10 => 2 * bal[a][b] <= held[a][b] + 1

\* spot_rebalance_manual: undisturbed, neither account ends with more than 60 %
\* of an asset, unless it is a matter of a dollar.
Evened ==
  script = "evens" /\ exit = "0" /\ Quiet =>
    \A c \in Range(EvenAssets), a \in Usdt :
      LET all == bal["U1"][c] + bal["U2"][c]
      IN  5 * bal[a][c] <= 3 * all \/ 2 * bal[a][c] - all < 2 * D(1)

\* execute_rebalance: when a sale of the plan was turned down nothing was bought.
AbortsInTime ==
  script = "execReb" /\ refused \cap {"XAUT", "JUP"} # {} =>
    \A a \in Usdt, b \in {"BTC", "JUP"} : bal[a][b] <= held[a][b]

\* quote_replenish.py calls $20 the "floor per quote currency": undisturbed, it
\* takes no quote currency of an account from above that to below it.
FloorHeld ==
  script = "replenish" /\ Ended /\ Quiet =>
    \A a \in Usdt, c \in Quotes : Value(held, a, c) >= MinBalance => Value(bal, a, c) >= MinBalance

\* What is bought for two subaccounts reaches both evenly, and stays nowhere
\* else on the way.
SplitDelivered == EvenSplit /\ Delivered

\* Nobody is overdrawn, the reserves stay, and the budget is exceeded by no more
\* than the dearest item.
SpendingBounded == TypeOK /\ ReservesKept /\ BudgetNearlyKept

\* A script that ends well has reached what it is run for, and one that was
\* turned down stops in time and says so.
OutcomeHolds ==
  /\ Reseeded /\ BuffersRaised /\ Evened /\ Emptied
  /\ HonestExit /\ AbortsInTime
=============================================================================
