# Verification of valr-grid-bot-v2

TLA+ models of the programs in this repository, the TLC runs that check them on
small instances and the TLAPS proofs of what holds for every instance. Paths
below are relative to the repository (`src/app/main.ts`, `README.md`).

    tlc -config Orders.cfg MCOrderManager.tla      # a run: module and cfg are in PROJECT.json
    tlapm OrderManager_proofs.tla                  # the proofs of a module

## 1. Inventory

The repository is a collection of programs around one exchange account. Its own
program is the perpetual-futures grid bot in `src/` (TypeScript, one Node
process); the others live in `bots/`, `scripts/` and `backtester/`, each with a
process of its own.

| Component | State it keeps | Operations | Talks to |
|---|---|---|---|
| Order manager (`strategy/orderManager.ts`, `state/store.ts`) | table `grid_orders` (SQLite), failure count and breaker in memory | `placeGrid`, `placeSingleOrder`, `cancelAll`, `handleOrderStatusUpdate`, `isCircuitOpen` | REST (place, batch, cancel), account socket (order events) |
| Reconciliation (`strategy/reconciliation.ts`) | none; writes `grid_orders`, `position_state` | `reconcile`, once at startup | REST (positions, open orders) |
| TPSL manager (`strategy/tpslManager.ts`) | table `tpsl_state`, one row | `rebuild`, `cancelAll` | REST (conditional orders) |
| Position manager (`strategy/positionManager.ts`) | the position, in memory and in `position_state` | `updateFromRest`, `updateFromWs`, `handlePositionClosed` | – |
| Risk manager (`strategy/riskManager.ts`) | `cooldown_until` in `bot_state` | `checkCooldown`, `enterCooldown`; `checkMaxPosition` and `checkActiveOrderCount` have no caller | – |
| Grid builder (`strategy/gridBuilder.ts`, `exchange/pairMetadata.ts`) | none | levels, replenishment, stop and profit prices, rounding | – |
| Main program (`app/main.ts`) | phase of startup, reconcile result | start, handlers of fills, position updates and POSITION_CLOSED, periodic check, exit | everything |
| Socket clients (`exchange/wsAccountClient.ts`, `wsTradeClient.ts`) | socket, timers, backoff delay, last prices | connect, stop, reconnect, stale check, dispatch | exchange |
| REST client (`exchange/restClient.ts`, `auth.ts`) | none | one method per call; `cancelConditionalOrder` and `cancelAllConditionalsForPair` swallow errors | exchange |
| Joint savings bot (`bots/joint-savings-bot`) | `state.json`: seen deposits, last balances and reward, running totals | poll: detect deposits, buy, stake, notice rewards | exchange, Telegram |
| Accounting bot (`bots/jess-accounting-bot`) | sessions in memory, audit log (SQLite), workbook | upload, edit, preview, confirm, cancel, undo, export | Telegram, OCR |
| Net-flow reports (`bots/balance-report`) | balance ledger and flow ledger (JSON) | daily job, monthly compilation | exchange |
| Spot bot (`bots/cm-bot-spot-py`) | balance cache, cooldowns, last error per pair | per pair: cycle, preflight, rebalance, heal quote, heal base | exchange |
| Account scripts (`bots/cm-bot-spot-py/scripts`, `bots/*.py`, `scripts/*.py`) | what they have read | buy, sell, transfer; about forty scripts | exchange |
| Scripts beside the futures bots (`bots/cm-bot-v2/scripts`, `bots/bybit-trading`) | what they have read; `recon_state.json` | close positions; move USDT | exchange |
| Backtester (`backtester/src/backtest.py`) | grid, position, trades, equity curve | run over candles, compile results | – |
| Rust bots (`bots/cm-bot-v2`, `bots/chart-maintenance-rust`, `bots/valr-common`) | cycle state | not modelled, section 7 | exchange |
| Monitors, configuration, logging | time of the last alert | read, format, print | – |

**What is hard here.** Node runs the code between two awaits without
interruption, and nothing keeps two handlers from interleaving at their awaits:
no lock, queue or busy flag exists. A fill handler has five or more awaits, and
events are dispatched without waiting for it. REST answers time out after 15 s
while the request may be carried out; a placement is answered with 202 (accepted)
before the order rests, so its events may overtake its answer; events sent while
the socket is down are lost; the process may exit anywhere and a service manager
starts it again (`README.md:305`). The spot bot runs a task per pair that share a
cache and cooldowns. The scripts decide on balances they have read some requests
earlier, of accounts on which bots trade. The savings bot, the accounting bot and
the reports write two or more stores that a kill can separate.

**What makes each component correct.**

- Order manager: the table never claims more than the exchange knows; no order
  that rests is forgotten; the breaker counts real failures; every placement is
  resolved.
- Reconciliation: afterwards the active rows are the open orders.
- TPSL manager: an open position has exactly one stop, for its entry price, and a
  closed position has none; a failed placement is repaired.
- Main program and risk manager: the position stays within a bound that follows
  from the configuration; every fill is replaced exactly once; nothing is placed
  in cooldown; after it the grid comes back.
- Socket clients: one socket or one timer until stopped; silence is detected.
- Grid arithmetic: what is sent from one reference price keeps its order when it is
  rounded, and is apart and on the right side where the spacing is a tick or more.
- Savings bot: every deposit is reported once and spent, what is recorded as
  staked is staked, no unit is entered twice but through purchases below `min_stake`.
- Accounting bot: a receipt is posted once, as a preview showed it; workbook, totals and
  log agree; an undo takes the row it means.
- Reports: periods chain without gap or overlap; a month is the sum of its days.
- Spot bot: the cache does not lie; a shortage is neither sold for twice nor left
  alone.
- Scripts: purchases are split evenly and delivered, reserves are kept, a budget is
  exceeded by no more than one item,
  positions only move towards zero, verdicts and exit codes are honest.
- Backtester: no level dies; profits are cash, but for orders that find a residue of
  rounding; the drawdown is the worst one.

## 2. Plan

The order was that of the harm a defect would do, and is done but for what
section 7 names.

| Step | Modules | State |
|---|---|---|
| 1 | `OrderManager`: orders, table, breaker, reconciliation, faults | checked, six properties proved |
| 2 | `StopBook` (abstract), `TpslManager` (implements it): the stop of the position | checked, refinement, bound and settling proved |
| 3 | `GridExposure`, `GridPrices`: fills, position, cap, cooldown, restart; levels and rounding | checked; shape of the grid, bound of the position and order of the levels proved |
| 4 | `WsClient`: socket, stale check, backoff, stop: what stands behind the link that steps 1 and 2 assume | checked, safety proved |
| 5 | `JointSavings`, `Accounting`: bots that keep books | checked; records of the savings bot, sessions and books of the accounting bot proved |
| 6 | `NetFlow`, `ClosePositions`, `Funding`, `Backtest`, composed in `FuturesTools` | checked; ledgers, transfers, verdicts, grid and figures of the backtester proved |
| 7 | `Wallet`, `Restock`, `Topup`, `Liquidate`, `Replenish`, composed in `AccountScripts` | checked; payers, reserves and the budget of the auto-restock proved |
| 8 | `SpotFunds`: the balances behind the spot bot | checked; truth of the cache and bound of the sales proved |

What would be worth proving next: that the scripts of `AccountScripts` split evenly
and deliver for every purse (the pairing of transfers that section 7 sketches), and
their honest exit codes one by one.

The modules of the grid bot share code but not state: each keeps the part of a
handler that changes *its* state and every await of it, and leaves the other
parts as steps that may succeed or fail. One module with all of it would have a
state space out of reach; what couples the parts is kept on both sides (a fill is
an event in all three, `cancelAll` is `sweep` in `OrderManager`, `Sweep` in
`GridExposure` and an await of the closing handler in `TpslManager`).

## 3. Modules

### OrderManager

One grid order from the row to the book. `row`, `hasId`, `side` are
`grid_orders`; `book` is the order at the exchange, with `"sent"` for a request on
its way; `feed` holds per order the ORDER_STATUS_UPDATE events not yet handled;
`awaiting`, `todo`, `batch` are the calls the process waits for; `fillers` the
filled orders whose fill handler has not decided yet; `failureCount`, `breaker`
the circuit breaker (`"elapsed"` is open for more than a minute, which the next
check resets); `sweep` the `cancelAll` in progress; `phase`, `openOrders`,
`needsGrid` are `main()` and `reconcile`. Every await is a step boundary.

| Actions | Code |
|---|---|
| `PlaceSingleOrder`, `SinglePlaced`, `SingleFailed`, `NoReplenishment` | `placeSingleOrder` and the handler that calls it |
| `PlaceGrid`, `BatchAnswered`, `BatchFailed` (with `NextChunk`), `StartWithoutGrid` | `placeGrid`, startup |
| `HandleFilled`, `HandleCancelled`, `HandleFailed`, `HandlePlaced` | `handleOrderStatusUpdate` |
| `CancelAll`, `ExchangeCancelsAll`, `CancelAllReturns`, `CancelAllFails` | `cancelAll` and its request |
| `Start`, `FetchOpenOrders`, `Reconcile` | startup and `reconcile` |
| `ExchangeReceives`, `Rests`, `FailsLater`, `Fills` | the exchange (external) |
| `WsConnect`, `WsDrop`, `BreakerElapses`, `Crash` | socket, time, exit |

`refused` also stands for a request that never reached the exchange. Partial fills
are left out: the handler ignores them (`README.md:227`). Orphans that do not
carry the `grid-` prefix are not the bot's own and are left out.

### TpslManager and StopBook

`stops` are the conditional orders at the exchange, `row` the single row of
`tpsl_state`, `local` the bot's position, `pos` the true one. A position is
abstracted to the *version* of its entry price, from which the prices of a stop
follow. `pc[t]` is the await a handler is at; `kind[t]` says which of the five
handlers it is (fill, position update, closing, periodic check, startup), which
share `rebuild` and `_cancelExisting`. Failing calls are separate actions:
`ReadFails`, `CancelFails` (the REST client swallows the error, so the handler goes
on), `PlaceFails` (refused, or carried out and the answer lost).

`StopBook` is what all of this promises as seen from the exchange: at most K stops
at a time, each with an id of its own and for an entry price the position has or
had. `TpslManager` implements it (`BookSpec`, an INSTANCE with K = handlers +
tolerated cancel failures), checked by TLC and proved.

### GridExposure and GridPrices

Positions are counted in units of `quantityPerLevel`. `order`, `plan`, `known`,
`active` abstract what `OrderManager` models in detail; `net` is the position at
the exchange, `local` the bot's copy (`netQuantity` is a *size*, hence `Abs`);
`task` the await of the fill handler of each order; `closing` the awaits of
POSITION_CLOSED; `cooling`, `phase`, `needsGrid` cooldown and startup. Both modes
of the grid are modelled: neutral with both `Sides` (the side of the fill is
counted, the stop comes after the replenishment) and directional with one (all
orders are counted, the stop comes first, a flat position ends the handler).
Events of orders and positions share one queue, because their order matters here.
A fill that happens while the bot is not done with an earlier event is counted as
a `burst`.

`GridPrices` extends `GridExposure` by the level prices and the rounding to ticks:
`LevelsApart` compares the prices of the orders that *one step sends*, the grid at the
start or a single replenishment, with each other and with the reference price they are
computed from, for all references, spacings and ticks of the sets it is given. They
never change places; they stay apart, and on their side of the reference, if they are a
tick apart before rounding, which `schema.ts:11` does not ask for. A spacing in per
cent is supposed to be below 100: at 100 % there is no buy level above zero. Orders of
different moments are not compared. A replenishment is priced at the reference of its
own moment (`main.ts:168`), so that its price may coincide with that of an order that
rests.
`MCGridExposure` gives the bounded box for TLC.

### WsClient

The life of one socket client. `wsAccountClient.ts` and `wsTradeClient.ts` are the
same program but for the stale window (`max(wsStaleTimeoutSecs, 5 min)` looked at
every minute; `wsStaleTimeoutSecs` looked at every half of it) and for what they do
with a message, so one module with `StaleAfter` and `CheckEvery` stands for both.
`conn` is the socket, `"closing"` between `terminate()` and the `close` event;
`wait` and `check` are what is left of `reconnectTimer` and `staleTimer` (`Off`:
not set); `silence` is the age of `lastMessageAt`; `alive` says whether the
exchange still serves an open socket. `rested` and `age` are history. Time is a
`Tick` that waits for timers that are due, so a callback may be late only by
what else happens at that tick. Pings are left out: they are sent, and no handler
listens for the pong, so they change nothing that the client looks at. After
`stop()` nothing more is modelled: `main()` calls it as the process ends.

`OrderManager` and `TpslManager` use of all this only that a socket may drop,
losing the events meanwhile, and come back.

### JointSavings

A poll is a sequence of HTTP calls and each call is a step (`pc`), so that
deposits, rewards and fills come between any two. `zar`, `sol`, `staked`, `order`
are the exchange; `credited`, `listed`, `rewards`, `shown` say what it has and what
it shows already; `seen` to `rewarded` are `state.json`, with `file` torn by a kill
in the middle of a save; `small` sums the purchases entered that were too small to be staked. `Fail` is a call that raises, at the place its `try`
catches it; a lost answer is carried out; `Kill` starts again from the file.

### Accounting

`log` is the audit log, `sheet` and `covered` the workbook and the range of its
totals, `pending`, `queue`, `missing`, `editing`, `candidate`, `completed`, `dry`
the `UserSession` of each user. A handler is synchronous and runs to its end, so an
action is a handler; what interleaves are the users' messages, the buttons of all
earlier messages, edits of the workbook by hand, restarts, and an error between the
two saves of `confirm_pending` and `confirm_undo`. What a handler did stays done when
its reply cannot be sent: `Show` sends the preview (`shown`, with the values in it) or
fails (`unsent`).

### NetFlow

The daily job fetch by fetch (`run`, `fetched`), the two ledgers it writes
(`balances`, then `flows`), the choice of the previous snapshot, and what
`compile_month` adds up. A moment is the number of transactions made before it.
Fetches may fail, the job be killed between the writes, repeated or skipped.

### ClosePositions, Funding, Backtest, FuturesTools

`ClosePositions` has the four scripts that close positions, request by request,
with the bot trading (`BotTrades`, `BotFills`) and requests failing between them.
`Funding` has the scripts that move USDT; two runs interleave at every read and
transfer. `Backtest` is the simulator with its loops as steps (`loop`, `level`), in
ticks and lots, and `_compile_results`. The code adds lots up as floats and closes a
position when its quantity is at or below zero (`backtest.py:186`, 221). One quantity
and its double are exact; from three lots on (`rounded`) a residue may be left above
zero, or not, so that `CloseLot` has both outcomes. A residue keeps the side, the
average entry (`entry`) and the stop, and is worth nothing; `missed` is the money of
the orders that closed only a residue. `FuturesTools` composes them with
`NetFlow`: they share no state, and a behaviour follows one of them.

### Wallet, Restock, Topup, Liquidate, Replenish, AccountScripts

A script is a sequence of stages. A stage is computed from what has been read
(`seen`) and queues requests; each request says what the script does when the
exchange refuses it (skip the next ones, give up with an exit code, go on blindly).
`Wallet` has the accounts, the requests and their outcomes (carried out, refused, lost, filled
in part, price unavailable) and trades of the bot in between; the four others have
the stages of forty scripts; `AccountScripts` states what they guarantee. Amounts
are cents of a dollar, and one price is left, the dollar in rand. A run starts from
one of `Setups`: a script with the balances, the missing prices and the log it meets.
A loop of the code that carries something from one pass to the next (`Raise`,
`HalfSell`, `CycleBuy`) is a function of the pass, or is unrolled where it has at most
three.

### SpotFunds

One task per pair (`task`), the cache of `InventoryClient` (`cache`), the cooldowns
of `QuoteHealer` (`cooling`). A balance is asked for, answered and received in steps
of their own (`way`), because an answer that was under way when the cache was
invalidated is kept. The preflight, the reactive and periodic rebalancing, `heal`
(sell base for quote) and `heal_base` (buy base with surplus quote) are modelled;
what a cycle trades is one step of chance (`Trade`), see section 7. Its maker order
may outlive it (`resting`): the cancellation fails and is passed over
(`cycle.py:212`), or the placement is carried out and its answer lost, after which
there is none (`cycle.py:193`, `valr_account_ws.py:220`). Such an order is filled
whenever the exchange likes (`MakerFills`), and the bot is not told. Prices are one.
The code reads the base balances one by one and consults the cache twice before a
transfer; one reading stands for both.

The `MC` modules name budgets, purses and small sets for TLC.

## 4. Runs

Ids are minted in ascending order (as the millisecond seeds are), so no symmetry is
lost by giving none. Deadlock is checked in the two stop runs; elsewhere a
behaviour may really stop: the bounded supply of ids or of inputs is used up, a
client was stopped, a script ended.

A property of a run may be the conjunction of several that concern the same
question; the conjuncts are definitions of their own, and several mutants break
different ones.

| Run | Properties | Bounds |
|---|---|---|
| `Orders` | `LiveIsTracked`: a live order is in the table unless an answer was lost, the process restarted or the position closed. `RowsAreTruthful`, `FailuresAreReal`: table and breaker are not ahead of the exchange. `RestoredAtRestart`: what is open is active after `reconcile`. `FillUndoneOnlyByLateAnswer` | 4 orders when nothing goes wrong, 3 with one lost answer, restart, drop and closed position; batches of 2, so that one has mixed outcomes |
| `OrdersLiveness` | `TypeOK`; `PlacementResolves`: every placement is answered and `placeGrid` gets through its chunks | 3 orders, chunks of one, one lost answer |
| `Stop` | `OneFailureIsCovered`, `SettlesOnPosition`; `GapIsRepaired`: the periodic check repairs a stop that failed to be placed. All three are promised of handlers that do not overlap (`Serial`) | one handler at a time, each fault once, two versions of the position |
| `StopOverlap` | `StopsBoundedByOverlap`; `BookSpec` (refinement of `StopBook`) | 2 handlers interleaving at every await, each call failing once, 6 ids |
| `ExposureFaults` | `TypeOK`; `ExposureBounded`: cap, plus the levels that rest, plus one grid per restart | 5 orders, 2 levels, cap 1, one refusal, error, stop and restart: the bound is 4, one below what five orders could reach |
| `ExposureNeutral` | `GridKeepsShape`: each fill is replaced exactly once, no level beyond the grid. `LevelsApart`: what is sent together keeps its order in price | 6 orders, 2 levels a side, one burst; prices 20–90, spacings 1–12, ticks 1–6, both modes |
| `WsClient` | `SocketOrTimer`, `SilenceBounded`, `NewConnectionSpared`, `AttemptsSpaced`; `DeadIsReplaced` | base delay 2 and maximum 7 ticks (the doubling 2, 4, 7 is cut), window 4, check every 3 (which does not divide it) |
| `JointSavings` | `RecordsSound` (types, `RecordsAreReal`, `ReportedOnce`), `AttributedOnce`; `SpentUnlessDisturbed`, `NewDepositSweeps` | 2 deposits, 1 reward, amounts 1 and 2 below and at both minima, one id kept, one failure or kill |
| `Accounting` | `BooksAgree` (`DifferencesExplained`, `FormulasCover`), `SessionsSound` (types, `HeldOnce`, `NotStranded`, `PostedWasShown`), `UndoTakesOwnRow`, `LogMovesForward` | 2 users, 2 uploads, 2 values (users and values symmetric: the module compares them only for equality), one error, restart or reply that fails, one edit by hand |
| `FuturesTools` | `LedgersChain` (types, `NeverCountedTwice`, `Contiguous`, `InventoryIsPrices`, `MonthIsItsDays`), `GridSound` (types, `LotsWithinLevels`, `LevelAlive`), `MetricsHold` (`PnlIsCash`, `DrawdownIsWorst`, `StopBeyondGrid`), `VerdictsHold` (types, `TowardsFlat`, `SweptIsFlat`, `RestingCovers`, `NoneMeansFlat`, `BybitVerdict`), `FundsWithinBounds` (types, `BufferKept`, `NeverTooMuch`, `SplitRestored`, `OpeningIsHeld`) | 2 pairs, 1 trade, 1 failed request; balances on both sides of each threshold, 2 runs of scripts; 3 days, 2 transactions, 1 price move, 1 outage; 4 levels, 4 candles over 4 prices below, inside and above the grid: three lots leave a residue while an order of the other side is still there to find it, which two or three levels cannot reach |
| `AccountScripts` | `SplitDelivered` (`EvenSplit`, `Delivered`), `SpendingBounded` (types, `ReservesKept`, `BudgetNearlyKept`), `OutcomeHolds` (`Reseeded`, `BuffersRaised`, `Evened`, `Emptied`, `HonestExit`, `AbortsInTime`) | each script over purses that do and do not cover it, pairs without a price or without market orders, one lost request or foreign trade |
| `SpotFunds` | `CacheTruthful`; `HealsBounded` (types, no more sales than pairs per cooldown); `RemedyTried`: what can be transferred, sold or bought for a shortage is | two pairs with two cycles between them, short of quote or of base; one pair alone, short of quote, of base or of neither; one fault or filled leg |

`ExposureBounded` is tight: with one unit taken off, or without the term for bursts
or for restarts, TLC finds it violated. In `Orders` the constraint of
`MCOrderManager` cuts only the fourth order of behaviours with a fault.

**Fairness.** Steps of a handler are weakly fair because a REST call is answered
or throws after its 15 s timeout (`restClient.ts`), the event loop runs every
callback, the interval timer fires and the service manager restarts the process
(`Restart=on-failure`, `README.md:305`). Strong fairness is used only for events
and the periodic check in `TpslManager`, which may be disabled again and again
while another handler occupies the bounded set of tasks; the event loop itself
has no such bound. Nothing is assumed of fills, faults or a handler's decisions.
In `WsClient` time, its timers and the `close` of a terminated socket are fair; an
attempt is not, because the code gives a handshake no limit, and `DeadIsReplaced`
therefore promises a new attempt and not a connection. In `JointSavings` the loop of
`main.py` keeps polling, the exchange lists what was credited and carries out what
it accepted; `NewDepositSweeps` speaks of the state once the budget of faults is
spent. In `SpotFunds` each enabled pair's task goes on (the event loop, and the
timeouts of its requests) and cooldowns run out; a transfer, sale or purchase is
not assumed to succeed: failures are bounded by a budget that each setup gives.

## 5. Proofs

For every value of the constants that satisfies the modules' assumptions (the
`ASSUME` of each module, which TLC evaluates in a run):

| Theorem | What it establishes |
|---|---|
| `OrderManager_proofs!TypeCorrect` | `TypeOK` |
| `OrderManager_proofs!TableIsTruthful` | `RowsAreTruthful`: the table is never ahead of the exchange |
| `OrderManager_proofs!FillsStayRecorded` | `FillUndoneOnlyByLateAnswer` |
| `OrderManager_proofs!LiveStaysTracked` | `LiveIsTracked`: no order that rests is forgotten |
| `OrderManager_proofs!FailuresStayReal` | `FailuresAreReal`: the breaker counts only what the exchange refused or failed |
| `OrderManager_proofs!OpenIsRestored` | `RestoredAtRestart`: what reconciliation is told is open is active when the start goes on |
| `TpslManager_proofs!TypeCorrect` | `TypeOK` |
| `TpslManager_proofs!StopsBounded` | `StopsBoundedByOverlap` |
| `TpslManager_proofs!KeepsBook` | `BookSpec`: `TpslManager` implements `StopBook` |
| `TpslManager_proofs!FailureStaysCovered` | `OneFailureIsCovered` |
| `TpslManager_proofs!StopSettles` | `SettlesOnPosition`, for any number of positions |
| `GridExposure_proofs!TypeCorrect` | `TypeOK` |
| `GridExposure_proofs!ShapeIsKept` | `GridKeepsShape`, for any grid and any number of fills at a time |
| `GridExposure_proofs!ExposureStaysBounded` | `ExposureBounded`, for any cap and number of disturbances |
| `GridExposure_proofs!LevelsStayApart` | `LevelsApart`: order of the prices sent together, for any references, spacings, ticks and depth |
| `OrderManager_proofs!OneSocketOrTimer` | `SocketOrTimer` |
| `OrderManager_proofs!SilenceFoundOut` | `SilenceBounded` |
| `OrderManager_proofs!NewSpared` | `NewConnectionSpared` |
| `OrderManager_proofs!Spaced` | `AttemptsSpaced` |
| `SpotFunds_proofs!CacheStaysTruthful` | `CacheTruthful`, for any number of pairs |
| `SpotFunds_proofs!HealsStayBounded` | `HealsBounded`: types, and no more sales per cooldown than enabled pairs |
| `JointSavings_proofs!TypeCorrect` | `TypeOK`, the rewards shown were paid, an accepted order is covered |
| `JointSavings_proofs!RecordsAreSound` | `RecordsSound`, for any number of faults |
| `JointSavings_proofs!NothingEnteredTwice` | `AttributedOnce`, for any amounts and minima |
| `Accounting_proofs!TypeCorrect` | `TypeOK` and `Sessions`: what waits or is shown is in the log as such |
| `Accounting_proofs!SessionsStaySound` | `SessionsSound`: no receipt is held twice or stranded, what is posted was shown so, or its preview could not be sent |
| `Accounting_proofs!LogStaysDecided` | `LogMovesForward` |
| `Accounting_proofs!BooksStayInStep` | `BooksAgree`, for any number of receipts, faults and edits by hand |
| `Accounting_proofs!UndoIsOwn` | `UndoTakesOwnRow` |
| `FuturesTools_proofs!LedgersStayChained` | `LedgersChain`, for any accounts, days, transactions and outages |
| `FuturesTools_proofs!FundsStayWithin` | `FundsWithinBounds`, for any balances and number of runs at once |
| `FuturesTools_proofs!VerdictsStayTrue` | `VerdictsHold`, for any pairs, positions, trades and faults |
| `FuturesTools_proofs!GridStaysSound` | `GridSound`: no level dies, none is held twice |
| `FuturesTools_proofs!FiguresStayTrue` | `PnlIsCash`, `DrawdownIsWorst`, `StopBeyondGrid`, for any grid, losses, candles and residues |
| `FuturesTools_proofs!MetricsStayTrue` | `MetricsHold`, where average entry prices are whole (`WholeAverages`) |
| `AccountScripts_proofs!WalletTyped` | `Typed`: at every stage of every script only the accounts and currencies of that stage pay |
| `AccountScripts_proofs!WalletTypeOK` | `TypeOK` |
| `AccountScripts_proofs!WalletKept` | `Kept`: what is still queued is on top of the reserve |
| `AccountScripts_proofs!WalletReservesKept` | `ReservesKept`, for any balances, prices and refusals |
| `AccountScripts_proofs!AutoBudgetKept` | `BudgetNearlyKept` (budget and dearest item), for any scan, log and balances |
| `AccountScripts_proofs!WalletSpendingBounded` | `SpendingBounded`: types, reserves and that bound together |

*Truthful table.* `RowsAreTruthful` is not inductive: a row becomes "filled"
because of an event, gets its id from an answer or from the list of open orders.
`Causal` adds what is true while these are on their way: an event `Filled` waits
only for an order that is filled, an awaited id has been sent, an id in
`openOrders` was live, an order in a chunk not yet sent is absent. The exchange
moves an order only forward (`BookStep`), so what was true when a message was sent
is true when it arrives; `CausalStep` and `TruthStep` go through the actions.

*No live order lost.* Undisturbed, the list of open orders is taken before the first
order exists, and no row is deleted. So a row can become final only through an event
or an answer, and these tell what has happened to the order: `Seen` is inductive
together with `Causal`.

*Real failures.* `Counted` are the orders refused or failed of which no news is on its
way any more, neither an answer nor an event. It only grows, and each count of the
breaker goes with an order that joins it.

*Stops bounded.* A handler between its cancellation of everything and its own
placement has seen the exchange without a stop. The proof counts handlers by the
await they are at: stops at the exchange plus handlers about to place never exceed
all handlers plus the cancellations that failed.

*One failure covered.* Between two handlers the only stop is that of the row. A rebuild
cancels it by its id and then everything of the pair, so two cancellations have to
fail for a second stop.

*Settling.* A handler that used a stale answer has left in the feed the news that
corrects it. `Right` says what stop, row and position are at each await when the feed
holds no news (`Told`), and that the last news in it is of the position as it is.

*Implementation.* Each action maps to `Change`, `Close`, `Place`, `Cancel` or a
stutter of `StopBook`; `Place` is enabled by the bound above.

*Shape of the grid.* The number of *active* orders of a side dips with every fill
and is no invariant. What is one is the number of orders a side *works on*: those
with an active row and those whose fill handler is at work (`Work`). A handler
counts active orders while its own is not among them, so what it finds is at least one
short (`CountedFewer`), and its end puts the new order in the place of its own
(`WorkReplaced`). Around it: a fill is told once and handled once, while its row is
active (`Flow`), and the position of a grid with one side is never seen as flat by
the handler of a fill, however old the answer it uses (`OneWay`).

*Bound of the position.* Position plus resting orders of a side is what fills cannot
change. A replenishment adds to it, and looks at a position that is behind the true
one by bursts only (`Aware`); what rests afterwards is bounded because an order that
is replaced is under way no more (`UnderwayReplaced`), so that only the grid of a
process that starts adds to the orders under way (`Capped`).

*Sockets.* The bounds of `WsClient` are sums that only time moves: `Silent` says that
the silence so far and the ticks left to the next check stay within window and
period, `Older` that an open connection is as old as its silence (so that the
silence that ends it is its own), `Paced` that the time since the last attempt and
what is left of the pause reach the base delay. Together with `TypeOK` and
`SocketOrTimer`, which says which timers are set, they are inductive.

*Cache.* `CacheTruthful` needs besides itself only where answers are under way:
`Awaited` says that an answer belongs to a task that reads balances, so that the
step that receives it is the one that may overwrite the cache. A step that moves
funds drops the entry, or records why it does not: an order carried out that counts
as failed, an answer overtaken by an order, a maker order filled after its cycle.
`Closing` names the task that has traded and is about to drop the entry, of both
subaccounts, or of the maker's where its placement counts as refused.

*Savings.* `Typed` adds to the types that the rewards only grow and that an
accepted order is covered. For `RecordsSound` the strengthening is that what was
reported and is no longer in `seen` needs more ids than the state keeps
(`NoneForgotten`); for `AttributedOnce` that what is entered is staked, or about
to be, or was too small to be staked, and that nothing takes SOL between the
measurement of a purchase and its stake (`Entered`). Without the small purchases
it is false (`AttributedExactly`): a reward below `min_stake` that arrives before the
order is carried out is taken for the purchase, is not staked, and is entered once
more with the SOL the order brings. A reward that arrives while a purchase is
measured and is large enough, or comes on top of the purchase, is staked with it, so that
its SOL is not there to be entered again.

*Restart.* `RestoredAtRestart` speaks of one step: only `Reconcile` leads from
"fetched" to "starting", and it activates every order in `openOrders`.

*Prices.* A percentage price is a power. `Closest` bounds the difference of two
neighbours from below: buy levels inherit their distance upwards from the deepest
pair, sell levels downwards from the first (induction over the levels). Prices in
order do not change places when cut to ticks, and prices a tick apart stay apart; every
order sent is on a level from 1 on (`OnALevel`).

*Sales of the healer.* A task that has passed the cooldown check sells once at most.
`Counted` adds the tasks past the check for a subaccount (`Sellers`) to the sales since
its cooldown began: together they never exceed the enabled pairs, because a sale takes
its task out of `Sellers`, and with the first one the cooldown is marked and nobody new
passes.

*Books.* `Sessions` says of each receipt that waits, is shown, or was completed what
the log has of it, and that a user holds it in one place (`HeldWait`, `WaitingHeld`,
`ChosenDone`, `ExportedDone`, `PendingShown`: the pending receipt was shown with its
present value, or the sending of its preview failed). `BookStep` sorts what a step does to
workbook and log into few cases: an entry is posted or undone, or half of it before an
error; a row is added or overwritten by hand; or the written entries stay. `DifferencesStep` then charges each difference that appears
to the fault or the edit of that step. For `UndoTakesOwnRow` the content of a row is
followed while nobody edits it (`RowsKept`). That property was at first stated
without the last disjunct; the proof did not go through and the reason was a
behaviour: two edits by hand can overwrite a row and write its content again.

*Ledgers.* Periods chain because the snapshot a day starts from is the newest in
`balances`, and the flows are written for the same day or not at all (`Periods`,
`Entries`, `Working`, `Together`). What a period holds is a difference of running sums
(`Earnings`, `Gathered`, `Counted`), and a month telescopes.

*Transfers.* While nothing has moved under a script, what it read is still there
(`ReadIsThere`), so the plan of the split is what it would decide now (`SplitDue`), and
what `daily_fund_check` has still to send is within need and leaves the buffer
(`DailyDue`, `Owes`). The proportional shares are rounded; this costs two cents.

*Verdicts.* Of what was read before and is still `Ahead` of a script, everything is
known, unless the bot traded since (`Fresh`); resting orders of its own are behind it
and equal what is left of their position (`Rests`, `Covers`); a sweep that was not
hindered has emptied account by account (`Sweeps`). `Towards` says that no closing
order on its way passes zero.

*Backtester.* `GridSound` with `LevelOK` (the loop is at a level of the grid) is
inductive: an order filled enables the opposite one of its level, and each lot held
has taken one order of its side away. `Kept` adds that the profit is the cash taken in,
less that of orders that found a residue, plus the cost of the open lots (`Settled`),
and that this cost, and the average entry of a residue, stay within what lots can have
cost (`CostOK`); from it and the parameters follows that the stop lies
beyond the grid. `_compile_results` finds the worst drawdown in one pass, by induction
over peak and largest fall. `DrawdownIsWorst` was first stated of any two
points, and the proof showed where that is false: once more than everything is lost, a
fall from a lower point can be the larger share (132 to -48 after 168). `WholeAverages` is no invariant
but a condition on `Unit`: TLC checks it on the grid of the run.

*Payers.* Each of the forty scripts has a table of who may pay at which stage
(`Payers`), and a lemma of its own (`Jul10In`, `LiqAllIn`, ...) shows that what the
stage plans keeps to it, from any read whatever. `Typed` carries this for the queue,
however many of its requests are refused, skipped or dropped.

*Reserves.* That a balance ends above its reserve is not inductive: the plan is made
once and carried out later. `Kept` sets aside what the queue may still take (`Total` of
`Weigh`). A request that is carried out takes what was set aside, one that is refused or
dropped frees it. When a stage plans, the plan is no larger than what was read exceeds
the reserve (`Jul10Keeps`, `BuffersKeep`, ...), and what was read is still there, because
a balance with a reserve is paid from at one stage only (`Once`) and until then nothing
has been taken (`Untouched`). Without `trades = 0` it is false: the bot spends the same
balances.

*Budget.* Money moves between three quotes and is counted in cents of rand (`Rands`).
`Sinks` weighs what a request takes from main for good: a purchase and a transfer do, the
top-up of rand from USDT does not, since what it pays it gets. `Frugal` says that what is
gone and what is still queued is no more than what is `Due` at the stage: the needs bought
so far, then the gaps. The needs of the items inside the budget stay within it
but for the last one (`WithinCost`), and that one costs at most 50 dollars or 2500 rand
(`LastItem`); `auto_restock.py:313` adds an item before it looks at the sum, which is
why the bound is not the budget itself.

Sums, powers and the pass over the equity curve are recursive *functions*; what they
compute is proved for every input by induction through the least argument for which it
would fail. Liveness, ENABLED and what RECURSIVE operators compute are outside the
prover and stay with TLC.

## 6. Where code and documentation disagree

Each of these was found while modelling, and the definition named states what the
documentation says. They are no regular runs: to see the counterexample run the
`V` config with the module in the table, or put the definition in place of the
properties of the config named.

| Config and module | Property | What happens |
|---|---|---|
| `VHardCap`, `MCGridExposure` | `HardCap` | `maxNetPosition` is documented as a hard cap; the code compares it with one more order while a whole side rests, so levels that fill carry the position past it. `ExposureBounded` is what does hold |
| `VNoGrid`, `MCGridExposure` | `GridFollowsCooldown` | a process started during the cooldown says it waits for its end, does not wait, and never places the grid |
| `VDeeper`, `MCGridExposure` | `ReplenishedDeeper` | the replenishment repeats the deepest level instead of going deeper (`README.md:218`) |
| `ExposureNeutral.cfg`, `MCGridExposure` | `SellsAboveReference` | a spacing below a tick is accepted, and a sell order is then rounded down to the reference or below it (`gridBuilder.ts:10` says sell orders lie above it); `LevelsApart` asks for a tick |
| `VCooldown`, `MCGridExposure` | `CooldownPauses` | a fill handler under way places an order during the cooldown (`README.md:203`) |
| `VUnprotected`, `MCTpslManager` | `PositionHasStop` | two overlapping handlers leave an open position without a stop although no call failed: the position used behind an await was replaced by a stale REST answer |
| `VStopAfterClose`, `MCTpslManager` | `ClosedLeavesNoStop` | a rebuild that overlaps the closing of the position leaves a stop |
| `VRestart`, `MCTpslManager` | `RestartProtects` | the row of a stop that is gone keeps a restart from placing one (`README.md:178`); a crash behind the first cancellation leaves such a row, which is why `GapIsRepaired` excepts crashes. Two handlers that overlap leave one too, without any fault: one writes the row of a stop that the other, which took the position for closed, has cancelled meanwhile, and the periodic check does not look behind a row; so `GapIsRepaired` is promised under `Serial` only |
| `Orders.cfg`, `MCOrderManager` | `FilledIsFinal` | the answer to a placement marks its row placed, also when the fill was handled before it arrived, and the row counts as a resting order |
| `VStaleRows`, `OrderManager` | `StaleRowsAreMarked` | a row without an exchange id is never marked stale (`README.md:149`) |
| `VOverfull`, `OrderManager` | `GridNeverOverfull` | an incomplete side is placed as a whole (`README.md:153`) |
| `VCrashRestore`, `OrderManager` | `CrashedPlacementIsRestored` | an accepted order that does not rest yet when a restarted process fetches the open orders is marked cancelled (`README.md:181`) |
| `VEquity`, `MCFuturesTools` | `EquityIsTotal` | the equity curve leaves out realized profits (`backtest.py:302`, docstring at 293), and its daily points are the first candles instead of every 288th (line 394) |
| `AccountScripts.cfg`, `MCAccountScripts` | `FloorHeld` | the floor of 20 dollars per quote currency (`quote_replenish.py:33`) is not kept: several low currencies take from one surplus (line 411) |
| `AccountScripts.cfg`, `MCAccountScripts` | `ThinSplitsEvenly` | `restock_thin.py` says it splits 50/50 (line 2); the id of the first USDT subaccount is mistyped (line 17, a digit off the one all other scripts use), so XAUT bought there reaches one subaccount and half of it stays on main. `EvenSplit` and `Delivered` except this one case (`Mistyped`) |
| `Accounting.cfg`, `MCAccounting` | `NothingPostedUnseen` | a receipt is pending before its preview is sent; if that fails (`telegram_handlers.py:278`, 294, 317, 329), a button of an earlier message posts it unseen, although `README.md:11` of the bot wants explicit confirmation. `PostedWasShown` excepts this case |
| `FuturesTools.cfg`, `MCFuturesTools` | `EveryOrderCounts` | the profit is not all the money of the trades (`backtest.py:383`): once three lots were held, rounding may leave a residue (`quantity <= 0` fails, lines 186 and 221) that keeps the side, and the next order of the other side is recorded as a trade of a full lot, with a profit of nothing, and opens nothing. `PnlIsCash` excepts these orders |
| `FuturesTools.cfg`, `MCFuturesTools` | `ClosedIsClosed` | "All positions closed!" (`close_all_positions.py:257`) is said of orders accepted, not of positions closed |
| `SpotFunds.cfg`, `MCSpotFunds` | `HealedOnce` | two tasks pass the cooldown check (`quote_healer.py:48`) before either marks it |
| | `ReserveKept` | two tasks spend the same surplus below the reserve (`quote_healer.py:282`) |
| | `NoFlapping` | buying base down to half of the target leaves less than the six tenths below which base is sold again (`quote_healer.py:42`) |
| | `MovesTowardsEven` | two tasks transfer for the same difference (`inventory.py:94`) |
| | `ReactsToItsCycle` | `last_error` outlives the cycle that failed (`orchestrator.py:271`) |
| | `BoughtAtThreshold` | at exactly the threshold a transfer counts as possible (`orchestrator.py:398`) and is then not made (`inventory.py:151`) |

Read in the code while modelling it, without a property:

- Grid bot: replenishments are priced at the reference of their moment, so that orders
  of different moments may have one price (`main.ts:168`); a quantity below the
  decimals of the pair is cut to zero, and `validateOrderQty`, which would refuse it, is
  called by nothing (`pairMetadata.ts:100`); later chunks of `placeGrid` are sent while the breaker is open;
  `cancelAll` deletes the row of an order placed meanwhile; two rebuilds that
  overlap leave two stops; a healthy account socket on which nothing happens is
  replaced, pings or not (`wsAccountClient.ts:211`).
- Spot bot: the USDC bucket asks for orders larger than the threshold below which it
  heals; the BTC bucket compares a minimum meant for dollars with bitcoins;
  `min_transfer_value_usd` is never used (DESIGN, 4.6).
- Spot bot: a maker order that outlives its cycle stays until the next start, when
  all orders are cancelled (`orchestrator.py:181`). Its fill changes balances under
  an entry of the cache that counts as fresh, one of the exceptions of
  `CacheTruthful`.
- Savings bot: a failed purchase waits for the next deposit; `state.json` is
  rewritten in place; rewards below the minimum between two polls are never staked, and
  one that is taken for a purchase is entered twice (`AttributedExactly` in place of the
  properties of `JointSavings.cfg` shows it).
- Accounting bot: an old button confirms whatever is pending now, although
  `README.md:11` of the bot wants explicit confirmation; a receipt without date
  and amount blocks edits until a restart; a second one overwrites the first;
  "Undo cancelled" does not clear the candidate.
- Reports: the monthly "Check" is an identity (`monthly_report.py:126`, 145); the
  first month fails for want of an opening total; a kill between the ledgers loses
  the transactions of a period.
- Scripts that close positions: `api_delete` reads a response twice, so that a
  cancellation counts as failed and the wait for it may be skipped
  (`close_positions.py:86`); a failed fetch looks like no positions; without
  `reduceOnly` a stale quantity turns a position over.
- Account scripts: units are confused in several (`auto_restock.py:353`,
  `restock_zar.py:100`, `rebuild_quote_buffers.py`, `quote_replenish.py`);
  `restock_thin.py` takes 202 for a refusal and leaves the coins where they are;
  `sell-all.py` looks for "bids" and never sells; `execute_rebalance.py` prints
  what its docstring says it verifies.

## 7. What is only model-checked, and what is not modelled

Only model-checked:

- Liveness, which is outside the prover: `PlacementResolves`, `GapIsRepaired`,
  `DeadIsReplaced`, `SpentUnlessDisturbed`, `NewDepositSweeps`, `RemedyTried`.
- `SplitDelivered` of `AccountScripts`. A proof needs, for each of the splitting
  scripts, that the two transfers of a half are asked for one after the other and
  refused or carried out alike, and that bases leave main at the splitting stage only.
  `Payers` does not tell that much.
- `OutcomeHolds` of `AccountScripts`. Its parts say how a whole run of one script
  ends; each would need an invariant of its own that follows the run stage by stage.
  `Emptied` counts only what a script handles on an account (`liquidate_all` neither
  sells nor moves the BTC of a USDT subaccount), and `Reseeded` leaves out the pairs
  that take no market orders, which the script passes over with exit code 0.

Not modelled:

- In the grid bot: the prices of stop and profit, the rounding of quantities, the
  order in which `getReferencePrice` looks for a price, the last prices of the trade
  client, `dryRun`, configuration, logging, signing.
- The trading cycle of the spot bot (`cycle.py`, `maker_selector.py`) and the Rust
  bots of the same purpose (`cm-bot-v2/src`, `chart-maintenance-rust`,
  `valr-common`): they trade between two accounts of one owner, which the source
  itself calls wash trading (`bot.py:2`). The models cover what manages the
  balances and leave to chance what a cycle trades.
- `buy.py`, `rebuild_plan.py`, `setup_ethbtc_bucket`: they stop with an error before
  they do anything. Scripts that only report (`check_*`, `balance_audit`,
  `inventory_plan`, monitors).
- `offset_positions`, `net_positions` and `offset_all_positions`.
- Extraction and classification of receipts, the rate limit and the batch flag of
  the accounting bot: what they return is an arbitrary receipt.
- Synthetic candles, the ranking and the export of the backtester: they draw, sort
  and print. Its fees, which it subtracts from nothing.
- Requests that reach the exchange after the bot gave up on their answer, in the
  models of the spot bot: such a placement is carried out before the cycle ends, or
  never.
- Conversions between currencies in `NetFlow`, several prices in the account
  scripts and in `SpotFunds`, the rate limit of requests.

Two hazards listed in PROJECT.json have no property that holds; their notes name
the config above that shows them.
