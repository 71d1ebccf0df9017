------------------------------ MODULE SpotFunds ------------------------------
(***************************************************************************)
(* The balances behind the spot bot (bots/cm-bot-spot-py): the cache of    *)
(* InventoryClient, the preflight of a cycle, the Rebalancer that evens    *)
(* the two subaccounts and the QuoteHealer that sells base for quote or    *)
(* buys base with surplus quote.  One task per pair runs all of them with  *)
(* nothing but the cache and the cooldowns in common, so that two tasks    *)
(* interleave at every request.  The pairs of a bucket share their quote   *)
(* currency and are named by their base.  Amounts are counted in quote     *)
(* units at a price of one.  What a cycle trades is left to chance.        *)
(***************************************************************************)
EXTENDS Integers, FiniteSets, Sequences

CONSTANTS
  Bases,      \* the pairs, that is tasks, of the bucket
  Setups,     \* pairs that are enabled, with what the subaccounts hold first and
              \* a bound: legs of cycles that are filled and requests that go wrong
  Lot,        \* what a cycle needs, margin included
  Target,     \* target_buffer of the quote currency
  BaseTarget, \* base_target_usd
  MinSell,    \* min_sell_usd
  MinOrder,   \* minimum order size of the exchange
  MaxCycles   \* bound: cycles of all tasks, where there are several

Subs == {"A", "B"}
Other(s) == IF s = "A" THEN "B" ELSE "A"
Quote == "quote"
Currencies == Bases \cup {Quote}

ASSUME SpotAssumption ==
  /\ IsFiniteSet(Bases) /\ Quote \notin Bases /\ "none" \notin Bases
  /\ Setups \subseteq (SUBSET Bases) \X [Subs -> [Currencies -> Nat]] \X Nat
  /\ {Lot, Target, BaseTarget, MinSell, MinOrder} \subseteq Nat \ {0}
  /\ MaxCycles \in Nat

VARIABLES
  enabled,  \* the pairs that are enabled: each has a task
  funds,    \* exchange: available balances of the subaccounts
  cache,    \* InventoryClient._cache: balances, and are they within the ttl
  cooling,  \* QuoteHealer._cooldowns that have not run out: <<sub, currency>>
  task,     \* the tasks of the pairs, with CycleStats.last_error
  way,      \* the answer of the exchange that is on its way to a task
  resting,  \* exchange: maker orders of cycles that have ended, by what they trade
  cycles,   \* cycles begun by several tasks
  troubles, \* how often something may still go wrong
  excused,  \* history: the cache missed a change since it took its last answer
  healed    \* history: sales by heal on a subaccount since its last cooldown

vars == <<enabled, funds, cache, cooling, task, way, resting, cycles, troubles, excused, healed>>

\* Where a task reads balances: forced past the cache, or through it.
Forced == {"look", "need", "again", "surplus"}
Cached == {"seller", "buyer", "judge", "value", "weigh"}

Zero == [c \in Currencies |-> 0]
NoEntry  == [funds |-> Zero, fresh |-> FALSE]
Entry(f) == [funds |-> f, fresh |-> TRUE]
NoAnswer == [funds |-> Zero, here |-> FALSE, good |-> FALSE]

\* An order of a cycle: on a subaccount, which gives one currency for another.
Legs == Subs \X Currencies \X Currencies

\* "short" is the currency that last_error calls insufficient; "held", "offer"
\* and "orders" are what a task keeps from one request to the next.
Idle(e) == [at |-> "cycle", short |-> e, sub |-> "A", cur |-> Quote, held |-> 0,
            offer |-> {}, orders |-> <<>>, periodic |-> FALSE]

Init ==
  /\ \E setup \in Setups : enabled = setup[1] /\ funds = setup[2] /\ troubles = setup[3]
  /\ cycles = 0
  /\ cache = [s \in Subs |-> NoEntry] /\ cooling = {}
  /\ task = [p \in Bases |-> Idle("none")] /\ way = [p \in Bases |-> NoAnswer]
  /\ resting = [leg \in Legs |-> 0]
  /\ excused = [s \in Subs |-> FALSE] /\ healed = [s \in Subs |-> 0]

------------------------------------------------------------------------------
\* What a task does with the balances f of its subaccount: the set of what it
\* may be next.
Done(t) == {Idle(t.short)}
Failed(t, c) == {[t EXCEPT !.at = "after", !.short = c]}

\* preflight: the seller's base, then the buyer's quote; both are read before
\* either is judged, and the maker's shortage is the one reported.
Seller(p, t, f) == {[t EXCEPT !.at = "buyer", !.held = f[p], !.sub = Other(t.sub)]}
Buyer(p, t, f) ==
  LET lacking == (IF t.held < Lot THEN {p} ELSE {}) \cup (IF f[Quote] < Lot THEN {Quote} ELSE {})
  IN  IF lacking = {} THEN {[t EXCEPT !.at = "trade"]}
      ELSE UNION {Failed(t, c) : c \in lacking}

\* _try_rebalance_on_failure: a shortage of quote is healed first.  Its mutant
\* ignores one of base.
ReactToQuote(p, t) == IF t.short = Quote THEN {[Idle(t.short) EXCEPT !.at = "look"]} ELSE Done(t)
React(p, t) ==
  CASE t.short = "none" -> Done(t)
    [] t.short = Quote  -> {[Idle(t.short) EXCEPT !.at = "look"]}
    [] OTHER            -> {[Idle(t.short) EXCEPT !.at = "again"]}

Low(amount) == 10 * amount < 6 * Target
NextSub(t) ==
  {IF t.sub = "A" THEN [t EXCEPT !.at = "judge", !.sub = "B"]
   ELSE [Idle(t.short) EXCEPT !.at = "again"]}

Look(t) == {IF t.sub = "A" THEN [t EXCEPT !.sub = "B"] ELSE [t EXCEPT !.at = "judge", !.sub = "A"]}
\* Mutant of Judge: sales without a cooldown.
JudgeWarm(t, f) ==
  LET held == {c \in Bases : f[c] > 0}
  IN  IF Low(f[Quote]) /\ held # {} THEN {[t EXCEPT !.at = "need", !.offer = held]} ELSE NextSub(t)
Judge(t, f) ==
  LET held == {c \in Bases : f[c] > 0}
  IN  IF Low(f[Quote]) /\ held # {} /\ <<t.sub, Quote>> \notin cooling
      THEN {[t EXCEPT !.at = "need", !.offer = held]} ELSE NextSub(t)
Need(t, f) ==
  IF Low(f[Quote]) THEN {[t EXCEPT !.at = "value", !.held = Target - f[Quote]]} ELSE NextSub(t)

\* heal: half of a base at most, and two percent less than is needed.
SellAmount(have, need) ==
  LET half == have \div 2 IN IF half >= need THEN (need * 49) \div 50 ELSE half
Value(t, f) ==
  LET amount(b) == SellAmount(f[b], t.held)
      worth == {b \in t.offer : amount(b) >= MinSell}
      best  == {b \in worth : \A c \in worth : amount(c) <= amount(b)}
  IN  IF best = {} THEN NextSub(t)
      ELSE {[t EXCEPT !.at = "sell", !.orders = <<[cur |-> b, from |-> t.sub, amount |-> amount(b)]>>] : b \in best}

\* Rebalancer: half of what one subaccount has more, beyond 60 to 40.  The code
\* reads the cache once to see that it can and again to see how much; one
\* reading stands for both.
Away(a, b) == IF a > b THEN (a - b) \div 2 ELSE (b - a) \div 2
Uneven(a, b) == 10 * a > 6 * (a + b) \/ 10 * a < 4 * (a + b)
Transfers(c, a, b) ==
  IF Uneven(a, b) /\ Away(a, b) > 0
  THEN <<[cur |-> c, from |-> IF a > b THEN "A" ELSE "B", amount |-> Away(a, b)]>>
  ELSE <<>>
CanTransfer(a, b) == a + b > 0 /\ (10 * a >= 6 * (a + b) \/ 10 * b >= 6 * (a + b))

Again(t) ==
  {IF t.sub = "A" THEN [t EXCEPT !.sub = "B"]
   ELSE [t EXCEPT !.at = "weigh", !.sub = "A", !.cur = t.short]}

\* What a task does with the balances of both subaccounts in "cur".
Moving(p, t) ==
  IF t.orders # <<>> THEN {[t EXCEPT !.at = "move"]} ELSE IF t.periodic THEN React(p, t) ELSE Done(t)
Weighed(p, t, a, b) ==
  LET moved == [t EXCEPT !.held = 0, !.orders = @ \o Transfers(t.cur, a, b)]
  IN  IF t.periodic
      THEN IF t.cur = p THEN {[moved EXCEPT !.sub = "A", !.cur = Quote]} ELSE Moving(p, moved)
      ELSE IF CanTransfer(a, b) THEN Moving(p, moved)
      ELSE IF t.cur = p THEN {[Idle(t.short) EXCEPT !.at = "surplus"]} ELSE Done(t)
Weigh(p, t, f) ==
  IF t.sub = "A" THEN {[t EXCEPT !.sub = "B", !.held = f[t.cur]]} ELSE Weighed(p, t, t.held, f[t.cur])

\* heal_base on one subaccount after the other, out of what is above half of
\* the target, for as much as is missing and no less than the minimum.
NextBuy(t) == IF t.sub = "A" THEN {[t EXCEPT !.at = "surplus", !.sub = "B", !.orders = <<>>]} ELSE Done(t)
Spend(p, f) ==
  LET spendable == f[Quote] - Target \div 2
      missing == BaseTarget - f[p]
      wanted == IF missing <= spendable THEN missing ELSE spendable
      spent == IF wanted < MinOrder THEN MinOrder ELSE wanted
  IN  IF spendable >= MinOrder /\ missing >= MinSell /\ spent >= MinSell THEN spent ELSE 0
Surplus(p, t, f) ==
  IF Spend(p, f) > 0
  THEN {[t EXCEPT !.at = "buy", !.orders = <<[cur |-> p, from |-> t.sub, amount |-> Spend(p, f)]>>]}
  ELSE NextBuy(t)

Proceed(p, t, f) ==
  CASE t.at = "seller" -> Seller(p, t, f)  [] t.at = "buyer" -> Buyer(p, t, f)
    [] t.at = "look"   -> Look(t)          [] t.at = "judge" -> Judge(t, f)
    [] t.at = "need"   -> Need(t, f)       [] t.at = "value" -> Value(t, f)
    [] t.at = "again"  -> Again(t)         [] t.at = "weigh" -> Weigh(p, t, f)
    [] t.at = "surplus" -> Surplus(p, t, f)

------------------------------------------------------------------------------
Now(p, ts) == \E t \in ts : task' = [task EXCEPT ![p] = t]
At(p) == task[p].at
Quiet == UNCHANGED <<funds, cache, cooling, way, resting, troubles, excused, healed>>

Trouble == troubles > 0 /\ troubles' = troubles - 1

\* A cycle: the market has no room, which overwrites last_error, or the
\* balances of a seller and a buyer are looked at.
Begins(p) == /\ At(p) = "cycle" /\ Quiet
             /\ IF enabled = {p} THEN UNCHANGED cycles ELSE cycles < MaxCycles /\ cycles' = cycles + 1
StartCycle(p) == /\ Begins(p)
                 /\ \E s \in Subs : Now(p, {[task[p] EXCEPT !.at = "seller", !.sub = s]})
NoRoom(p)     == /\ Begins(p)
                 /\ Now(p, Failed(task[p], "none"))

\* get_balance from the cache.
Read(p) ==
  /\ At(p) \in Cached /\ ~way[p].here /\ cache[task[p].sub].fresh /\ Quiet
  /\ Now(p, Proceed(p, task[p], cache[task[p].sub].funds))

\* get_balance past it, or get_balance_forced: the exchange answers.
Asks(p) ==
  /\ ~way[p].here
  /\ \/ At(p) \in Forced
     \/ At(p) \in Cached /\ ~cache[task[p].sub].fresh
  /\ At(p) = "surplus" => <<task[p].sub, p>> \notin cooling
  /\ UNCHANGED <<funds, cache, cooling, task, resting, excused, healed>>
Ask(p) ==
  /\ Asks(p) /\ UNCHANGED troubles
  /\ way' = [way EXCEPT ![p] = [funds |-> funds[task[p].sub], here |-> TRUE, good |-> TRUE]]
AskFails(p) ==
  /\ Asks(p) /\ Trouble
  /\ way' = [way EXCEPT ![p] = [funds |-> cache[task[p].sub].funds, here |-> TRUE, good |-> FALSE]]

\* The answer is kept, whatever became of the balances or the cache meanwhile;
\* an error falls back on the entry there was, and ends get_balance_forced.
Answer(p) ==
  LET s == task[p].sub IN
  /\ way[p].here
  /\ way' = [way EXCEPT ![p] = NoAnswer]
  /\ IF way[p].good
     THEN /\ cache' = [cache EXCEPT ![s] = Entry(way[p].funds)]
          /\ excused' = [excused EXCEPT ![s] = way[p].funds # funds[s]]
     ELSE UNCHANGED <<cache, excused>>
  /\ IF ~way[p].good /\ At(p) = "look" THEN Now(p, {Idle("none")})
     ELSE Now(p, Proceed(p, task[p], way[p].funds))
  /\ UNCHANGED <<funds, cooling, resting, troubles, healed>>

Invalidated(subs) ==
  /\ cache' = [s \in Subs |-> IF s \in subs THEN NoEntry ELSE cache[s]]
  /\ excused' = [s \in Subs |-> IF s \in subs THEN FALSE ELSE excused[s]]

\* A subaccount gives "out" for "in".
Give(f, s, out, in, n) == [f EXCEPT ![s][out] = @ - n, ![s][in] = @ + n]

\* The maker's and the taker's order of a cycle.  Balances are available ones: an
\* order left resting has taken what it gives and not yet got anything.
Leg(p, s) == IF s = task[p].sub THEN <<s, Quote, p>> ELSE <<s, p, Quote>>
Covered(leg) == funds[leg[1]][leg[2]] >= Lot
Carry(f, leg, fate) ==
  CASE fate = "filled" -> Give(f, leg[1], leg[2], leg[3], Lot)
    [] fate = "left"   -> [f EXCEPT ![leg[1]][leg[2]] = @ - Lot]
    [] OTHER           -> f

\* A cycle trades: each order is gone with nothing done, or filled, by the other
\* one or by an outsider; the maker's, which is good till cancelled, is left
\* resting where its cancellation fails or its placement was carried out and the
\* answer lost.  Then both balances are dropped; or the maker's placement counts
\* as refused, no taker is sent and only the maker's balances are; or an error
\* ends the cycle after all, and none is.
Trade(p) ==
  /\ At(p) = "trade"
  /\ \E s \in Subs, maker \in {"gone", "filled", "left"}, taker \in {"gone", "filled"} :
       LET closes == {[task[p] EXCEPT !.at = "settle"]} \cup
                       {[task[p] EXCEPT !.at = "refused", !.sub = s] : x \in {taker} \cap {"gone"}}
       IN
       /\ maker # "gone" => Covered(Leg(p, s))
       /\ taker # "gone" => Covered(Leg(p, Other(s)))
       /\ funds' = Carry(Carry(funds, Leg(p, s), maker), Leg(p, Other(s)), taker)
       /\ resting' = IF maker = "left" THEN [resting EXCEPT ![Leg(p, s)] = @ + 1] ELSE resting
       /\ \/ maker = "gone" /\ taker = "gone" /\ UNCHANGED <<troubles, excused>> /\ Now(p, closes)
          \/ Trouble /\ UNCHANGED excused /\ Now(p, closes)
          \/ Trouble /\ excused' = [x \in Subs |-> TRUE] /\ Now(p, {Idle("none")})
  /\ UNCHANGED <<cache, cooling, way, healed>>
Refused(p) ==
  /\ At(p) = "refused" /\ Invalidated({task[p].sub})
  /\ Now(p, Failed(task[p], "none"))
  /\ UNCHANGED <<funds, cooling, way, resting, troubles, healed>>
\* Mutant of Settle: only the maker's balances are dropped.
SettleMaker(p) ==
  /\ At(p) = "settle" /\ \E s \in Subs : Invalidated({s})
  /\ Now(p, Failed(task[p], task[p].short))
  /\ UNCHANGED <<funds, cooling, way, resting, troubles, healed>>
Settle(p) ==
  /\ At(p) = "settle" /\ Invalidated(Subs)
  /\ Now(p, Failed(task[p], task[p].short))
  /\ UNCHANGED <<funds, cooling, way, resting, troubles, healed>>

\* After a cycle: the rebalancing of every N cycles, and the reaction to
\* last_error, which a cycle that trades does not clear.
AfterCycle(p) ==
  /\ At(p) = "after" /\ Quiet
  /\ Now(p, React(p, task[p]) \cup
            {[Idle(task[p].short) EXCEPT !.at = "weigh", !.cur = p, !.periodic = TRUE]})

\* The order a task has decided on: carried out and accepted, refused, failed,
\* or carried out although its answer is lost.
Sent(p) == Head(task[p].orders)
Order(p, after, accepted, refusable, failed) ==
  \/ /\ ~refusable /\ funds' = after /\ accepted
     /\ UNCHANGED troubles
  \/ /\ refusable /\ failed /\ UNCHANGED <<funds, troubles, cache, excused, cooling, healed>>
  \/ /\ ~refusable /\ Trouble /\ failed
     /\ \/ UNCHANGED <<funds, excused>>
        \/ funds' = after /\ excused' = [s \in Subs |-> TRUE]
     /\ UNCHANGED <<cache, cooling, healed>>

Sell(p) ==
  LET o == Sent(p)  s == o.from IN
  /\ At(p) = "sell"
  /\ Order(p, Give(funds, s, o.cur, Quote, o.amount),
           /\ cooling' = cooling \cup {<<s, Quote>>} /\ Invalidated({s})
           /\ healed' = [healed EXCEPT ![s] = @ + 1] /\ Now(p, Done(task[p])),
           funds[s][o.cur] < o.amount \/ o.amount < MinOrder,
           Now(p, NextSub(task[p])))
  /\ UNCHANGED <<way, resting>>

Buy(p) ==
  LET o == Sent(p)  s == o.from IN
  /\ At(p) = "buy"
  /\ Order(p, Give(funds, s, Quote, p, o.amount),
           /\ cooling' = cooling \cup {<<s, p>>} /\ Invalidated({s})
           /\ UNCHANGED healed /\ Now(p, NextBuy(task[p])),
           funds[s][Quote] < o.amount,
           Now(p, NextBuy(task[p])))
  /\ UNCHANGED <<way, resting>>

Move(p) ==
  LET o == Sent(p)
      next == Moving(p, [task[p] EXCEPT !.orders = Tail(@)])
  IN
  /\ At(p) = "move"
  /\ Order(p, [funds EXCEPT ![o.from][o.cur] = @ - o.amount, ![Other(o.from)][o.cur] = @ + o.amount],
           Invalidated(Subs) /\ UNCHANGED <<cooling, healed>> /\ Now(p, next),
           funds[o.from][o.cur] < o.amount,
           Now(p, next))
  /\ UNCHANGED <<way, resting>>

SkipCooling(p) ==
  /\ At(p) = "surplus" /\ ~way[p].here /\ <<task[p].sub, p>> \in cooling /\ Quiet
  /\ Now(p, NextBuy(task[p]))

\* Time: an entry outlives its ttl, a cooldown runs out.
Expire(s) ==
  /\ cache[s].fresh /\ cache' = [cache EXCEPT ![s] = [funds |-> @.funds, fresh |-> FALSE]]
  /\ UNCHANGED <<funds, cooling, task, way, resting, troubles, excused, healed>>
RunsOut(c) ==
  /\ c \in cooling /\ cooling' = cooling \ {c}
  /\ healed' = IF c[2] = Quote THEN [healed EXCEPT ![c[1]] = 0] ELSE healed
  /\ UNCHANGED <<funds, cache, task, way, resting, troubles, excused>>

\* The exchange fills an order that was left resting.  Nobody tells the bot, which
\* cancels such orders at its next start only.
MakerFills(leg) ==
  /\ resting[leg] > 0 /\ resting' = [resting EXCEPT ![leg] = @ - 1]
  /\ funds' = [funds EXCEPT ![leg[1]][leg[3]] = @ + Lot]
  /\ excused' = [excused EXCEPT ![leg[1]] = TRUE]
  /\ UNCHANGED <<enabled, cache, cooling, task, way, cycles, troubles, healed>>

Step(p) ==
  \/ Read(p) \/ Ask(p) \/ AskFails(p) \/ Answer(p)
  \/ Trade(p) \/ Refused(p) \/ Settle(p) \/ AfterCycle(p)
  \/ Sell(p) \/ Buy(p) \/ Move(p) \/ SkipCooling(p)
Turn(p) ==
  /\ p \in enabled /\ UNCHANGED enabled
  /\ \/ StartCycle(p) \/ NoRoom(p)
     \/ Step(p) /\ UNCHANGED cycles
Time == (\E s \in Subs : Expire(s)) \/ (\E c \in cooling : RunsOut(c))
Next ==
  \/ \E p \in Bases : Turn(p)
  \/ Time /\ UNCHANGED <<enabled, cycles>>
  \/ \E leg \in Legs : MakerFills(leg)

Spec == Init /\ [][Next]_vars
FairSpec ==
  /\ Spec
  /\ \A p \in Bases : WF_vars(Turn(p))
  /\ WF_vars((\E c \in cooling : RunsOut(c)) /\ UNCHANGED <<enabled, cycles>>)

------------------------------------------------------------------------------
\* Balances never turn negative, and tasks, cache and answers are well formed.
Balances == [Currencies -> Nat]
Places == Forced \cup Cached \cup {"cycle", "after", "trade", "refused", "settle", "sell", "buy", "move"}
TypeOK ==
  /\ enabled \subseteq Bases /\ funds \in [Subs -> Balances]
  /\ cache \in [Subs -> [funds : Balances, fresh : BOOLEAN]]
  /\ way \in [Bases -> [funds : Balances, here : BOOLEAN, good : BOOLEAN]]
  /\ cooling \subseteq Subs \X Currencies
  /\ \A p \in Bases :
       LET t == task[p] IN
       /\ t.at \in Places /\ t.short \in {"none", Quote, p} /\ t.sub \in Subs
       /\ t.cur \in {Quote, p} /\ t.held \in Nat /\ t.offer \subseteq Bases
       /\ Len(t.orders) <= 2
       /\ t.at \in {"sell", "buy", "move"} => t.orders # <<>>
  /\ resting \in [Legs -> Nat] /\ excused \in [Subs -> BOOLEAN] /\ healed \in [Subs -> Nat]

\* A fresh entry of the cache is what the exchange would answer, unless a cycle
\* has traded and not yet dropped it, an order was carried out and counts as
\* failed, the answer was overtaken by an order (inventory.py: invalidate after
\* each order, and get_balance, which keeps an answer that was already on its way
\* when the cache was invalidated), or a maker order that outlived its cycle was
\* filled since (cycle.py:212 swallows a failed cancellation, and after a
\* placement that timed out there is none).
Closing(p, s) == At(p) = "settle" \/ (At(p) = "refused" /\ task[p].sub = s)
CacheTruthful ==
  \A s \in Subs : cache[s].fresh /\ cache[s].funds # funds[s] =>
    excused[s] \/ \E p \in enabled : Closing(p, s)

\* The cooldown is marked when a sale is accepted, so that the tasks of other
\* pairs that passed the check before sell as well, but each of them once.
HealsBounded == TypeOK /\ \A s \in Subs : healed[s] <= Cardinality(enabled)

\* What the code can do about a shortage of c that the pair p has reported.
Sale(s) ==
  /\ Low(funds[s][Quote])
  /\ \E b \in Bases : SellAmount(funds[s][b], Target - funds[s][Quote]) >= MinOrder
Purchase(p, s) == Spend(p, funds[s]) > 0
Remedy(p, c) ==
  LET a == funds["A"][c]  b == funds["B"][c] IN
  \/ Transfers(c, a, b) # <<>>
  \/ c = Quote /\ \E s \in Subs : Sale(s)
  \/ c = p /\ ~CanTransfer(a, b) /\ \E s \in Subs : Purchase(p, s)

\* A shortage is not left alone: what can be transferred, sold or bought for the
\* only pair is, until there is no more of it or a cycle trades.
Remediable == \E p \in enabled : enabled = {p} /\ task[p].short # "none" /\ Remedy(p, task[p].short)
Trading    == \E p \in enabled : At(p) = "trade"
RemedyTried == Remediable ~> ~Remediable \/ Trading

------------------------------------------------------------------------------
\* What comments of the code say and the model refutes, not among the properties
\* that hold.

\* quote_healer.py:48 "don't heal same sub+quote more than once per N seconds":
\* two tasks pass the check before either marks the cooldown.
HealedOnce == \A s \in Subs : healed[s] <= 1

\* quote_healer.py:282 "Never dips below quote_reserve_fraction of the quote
\* buffer target": two tasks spend the same surplus.
ReserveKept ==
  [][\A p \in Bases : At(p) = "buy" /\ cooling' # cooling =>
       funds'[task[p].sub][Quote] >= Target \div 2]_vars

\* quote_healer.py:42 "avoid flapping": buying base down to half of the target
\* leaves less than the six tenths below which base is sold again.
NoFlapping ==
  [][\A p \in Bases : At(p) = "buy" /\ cooling' # cooling /\ ~Low(funds[task[p].sub][Quote]) =>
       ~Low(funds'[task[p].sub][Quote])]_vars

\* inventory.py:94 "transfer enough to bring both subs to ~50/50": two tasks
\* transfer for the same difference.
MovesTowardsEven ==
  [][\A p \in Bases : At(p) = "move" /\ funds' # funds =>
       LET c == Sent(p).cur IN
       Away(funds'["A"][c], funds'["B"][c]) <= Away(funds["A"][c], funds["B"][c])]_vars

\* orchestrator.py:271 "Reactive rebalance on preflight failure": last_error
\* outlives the cycle that failed.
ReactsToItsCycle == [][\A p \in Bases : At(p) = "settle" => task'[p].short = "none"]_vars

\* orchestrator.py:398: at exactly the threshold a transfer counts as possible
\* (>=) and is then not made (>, inventory.py:151), so that nothing is bought.
BoughtAtThreshold ==
  LET missing == \E p \in enabled : enabled = {p} /\ task[p].short = p /\ \E s \in Subs : Purchase(p, s)
  IN  missing ~> ~missing \/ Trading
=============================================================================
