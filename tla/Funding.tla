------------------------------ MODULE Funding -------------------------------
(***************************************************************************)
(* The scripts that move USDT between the main account and the             *)
(* subaccounts, run by cron at their own times:                            *)
(*   split      cm-bot-v2/scripts/rebalance_usdt.py (and the same code at  *)
(*              the end of internal_offset.py), every ten minutes          *)
(*   daily      cm-bot-v2/scripts/daily_fund_check.py                      *)
(*   fund       cm-bot-v2/scripts/fund_subaccounts.py                      *)
(*   opening    cm-bot-v2/scripts/bootstrap_opening_balance.py             *)
(* Each reads one balance after another, decides, and then transfers; the  *)
(* bots spend and earn meanwhile and the scripts do not know of each other.*)
(* Amounts are cents.                                                      *)
(***************************************************************************)
EXTENDS Integers, Sequences

CONSTANTS
  Balances,    \* what the accounts hold at the start: a set of functions
  Notional,    \* the open positions of a futures account, at market price
  MaxRuns,     \* bound: scripts started
  MaxSwings,   \* bound: changes of a balance by the bots
  MaxRefusals    \* bound: requests that fail

Accounts == {"main", "CM1", "CM2", "CMS1", "CMS2"}
Scripts  == {"split", "daily", "fund", "opening"}

ASSUME FundingAssumption ==
  /\ Balances \subseteq [Accounts -> Nat] /\ Notional \in Nat
  /\ MaxRuns \in Nat /\ MaxSwings \in Nat /\ MaxRefusals \in Nat

VARIABLES
  usdt,        \* exchange: the USDT an account has available
  phase,       \* of each script: "idle", "read", "move"
  got,         \* the balances it has read, in its reading order
  plan,        \* transfers it still has to make
  saved,       \* recon_state.json: the opening balance, or Unsaved
  starts, swings, faults,
  blind,       \* history: a balance of the running script was not read
  crossed      \* history: a balance changed under the running script

fundVars == <<usdt, phase, got, plan, saved, starts, swings, faults, blind, crossed>>

Unsaved == -1
\* Thresholds of the scripts.
MinTransfer == 500
MainMin     == 2000   \* MAIN_MIN_BUFFER
SpotMin     == 5000   \* calc_spot_needed
FundBuffer  == 1000   \* fund_subaccounts
Dollar      == 100

Subs == <<"CM1", "CM2", "CMS1", "CMS2">>

\* Mutant of Reads: the opening balance counts the main account too.
ReadsMainToo == [split   |-> <<"CM1", "CM2">>,
                 daily   |-> <<"main">> \o Subs,
                 fund    |-> <<"main">>,
                 opening |-> <<"main">> \o Subs]

\* The balances a script reads, in order.
Reads == [split   |-> <<"CM1", "CM2">>,
          daily   |-> <<"main">> \o Subs,
          fund    |-> <<"main">>,
          opening |-> Subs]

Transfer(from, to, amount) == [from |-> from, to |-> to, amount |-> amount]
Round(n, d) == (2 * n + d) \div (2 * d)   \* n / d to the cent

\* Mutant of SplitPlan: the whole difference is moved.
SplitWhole(r) ==
  LET rich  == IF r[1] > r[2] THEN 1 ELSE 2
      total == r[1] + r[2]
      gap   == r[rich] - r[3 - rich]
  IN IF total < Dollar \/ 10 * r[rich] <= 6 * total \/ 95 * gap < 200 * MinTransfer THEN <<>>
     ELSE <<Transfer(Reads["split"][rich], Reads["split"][3 - rich], Round(95 * gap, 100))>>

\* rebalance_usdt: 95 % of half the difference, when one side has over 60 %.
SplitPlan(r) ==
  LET rich  == IF r[1] > r[2] THEN 1 ELSE 2
      total == r[1] + r[2]
      gap   == r[rich] - r[3 - rich]
  IN IF total < Dollar \/ 10 * r[rich] <= 6 * total \/ 95 * gap < 200 * MinTransfer THEN <<>>
     ELSE <<Transfer(Reads["split"][rich], Reads["split"][3 - rich], Round(95 * gap, 200))>>

\* calc_futures_needed (a tenth as margin, a week of funding, 5 %) and
\* calc_spot_needed.
Needed(a) == IF a \in {"CM1", "CM2"} THEN (1521 * Notional) \div 10000 ELSE SpotMin

\* The transfers of daily_fund_check that are not below the minimum.
Due(i, share) == IF share[i] >= MinTransfer THEN <<Transfer("main", Subs[i], share[i])>> ELSE <<>>
Sent(share) == Due(1, share) \o Due(2, share) \o Due(3, share) \o Due(4, share)

\* Mutant of DailyPlan: the buffer of the main account is spent too.
SpendsBuffer(r) ==
  LET short == [i \in 1..4 |-> IF Needed(Subs[i]) > r[i + 1] THEN Needed(Subs[i]) - r[i + 1] ELSE 0]
      total == short[1] + short[2] + short[3] + short[4]
      free  == r[1]
      share == [i \in 1..4 |-> IF free >= total THEN short[i] ELSE Round(free * short[i], total)]
  IN IF r[1] < MainMin \/ total < MinTransfer \/ free < MinTransfer THEN <<>>
     ELSE Sent(share)

\* Mutant of DailyPlan: what is needed is sent on top of what is there.
IgnoresHeld(r) ==
  LET short == [i \in 1..4 |-> Needed(Subs[i])]
      total == short[1] + short[2] + short[3] + short[4]
      free  == r[1] - MainMin
      share == [i \in 1..4 |-> IF free >= total THEN short[i] ELSE Round(free * short[i], total)]
  IN IF r[1] < MainMin \/ total < MinTransfer \/ free < MinTransfer THEN <<>>
     ELSE Sent(share)

\* main of daily_fund_check: the shortfalls in full, or in proportion to what
\* the main account has above its buffer.
DailyPlan(r) ==
  LET short == [i \in 1..4 |-> IF Needed(Subs[i]) > r[i + 1] THEN Needed(Subs[i]) - r[i + 1] ELSE 0]
      total == short[1] + short[2] + short[3] + short[4]
      free  == r[1] - MainMin
      share == [i \in 1..4 |-> IF free >= total THEN short[i] ELSE Round(free * short[i], total)]
  IN IF r[1] < MainMin \/ total < MinTransfer \/ free < MinTransfer THEN <<>>
     ELSE Sent(share)

\* Mutant of FundPlan: too little above the buffer is not noticed.
FundsAnyway(r) ==
  LET half == Round(r[1] - FundBuffer, 2) IN
  <<Transfer("main", "CM1", half), Transfer("main", "CM2", half)>>

\* main of fund_subaccounts: half each of what the main account has above 10.
FundPlan(r) ==
  LET half == Round(r[1] - FundBuffer, 2) IN
  IF r[1] < FundBuffer \/ r[1] - FundBuffer < 2 * MinTransfer THEN <<>>
  ELSE <<Transfer("main", "CM1", half), Transfer("main", "CM2", half)>>

PlanOf(s, r) == CASE s = "split" -> SplitPlan(r)
                  [] s = "daily" -> DailyPlan(r)
                  [] s = "fund"  -> FundPlan(r)
                  [] OTHER -> <<>>

FuInit ==
  /\ usdt \in Balances
  /\ phase = [s \in Scripts |-> "idle"]
  /\ got = [s \in Scripts |-> <<>>] /\ plan = [s \in Scripts |-> <<>>]
  /\ saved = Unsaved /\ starts = 0 /\ swings = 0 /\ faults = 0
  /\ blind = [s \in Scripts |-> FALSE] /\ crossed = [s \in Scripts |-> FALSE]

-----------------------------------------------------------------------------
Busy(s) == phase[s] # "idle"
\* History: whoever changes a balance crosses every other running script.
CrossedBy(s) == crossed' = [x \in Scripts |-> crossed[x] \/ (x # s /\ Busy(x))]

\* The trading bots spend or earn.
BotChanges ==
  /\ swings < MaxSwings /\ swings' = swings + 1
  /\ \E a \in Accounts \ {"main"}, d \in {-MinTransfer, MinTransfer} :
       usdt[a] + d >= 0 /\ usdt' = [usdt EXCEPT ![a] = @ + d]
  /\ CrossedBy("bot")
  /\ UNCHANGED <<phase, got, plan, saved, starts, faults, blind>>

Start(s) ==
  /\ ~Busy(s) /\ starts < MaxRuns /\ starts' = starts + 1
  /\ phase' = [phase EXCEPT ![s] = "read"]
  /\ got' = [got EXCEPT ![s] = <<>>] /\ plan' = [plan EXCEPT ![s] = <<>>]
  /\ blind' = [blind EXCEPT ![s] = FALSE] /\ crossed' = [crossed EXCEPT ![s] = FALSE]
  /\ UNCHANGED <<usdt, saved, swings, faults>>

Reading(s) == phase[s] = "read" /\ Len(got[s]) < Len(Reads[s])
\* get_usdt_balance, get_balances, get_main_balance: one balance.  A refused
\* request reads as an empty account, except in bootstrap_opening_balance,
\* which stops.
ReadBalance(s) ==
  /\ Reading(s)
  /\ LET a == Reads[s][Len(got[s]) + 1] IN
     \/ got' = [got EXCEPT ![s] = Append(@, usdt[a])] /\ UNCHANGED <<faults, blind, phase>>
     \/ /\ faults < MaxRefusals /\ faults' = faults + 1
        /\ IF s = "opening" THEN phase' = [phase EXCEPT ![s] = "idle"] /\ UNCHANGED <<got, blind>>
           ELSE /\ got' = [got EXCEPT ![s] = Append(@, 0)]
                /\ blind' = [blind EXCEPT ![s] = TRUE] /\ UNCHANGED phase
  /\ UNCHANGED <<usdt, plan, saved, starts, swings, crossed>>

Decide(s) ==
  /\ phase[s] = "read" /\ ~Reading(s) /\ s # "opening"
  /\ plan' = [plan EXCEPT ![s] = PlanOf(s, got[s])]
  /\ phase' = [phase EXCEPT ![s] = "move"]
  /\ UNCHANGED <<usdt, got, saved, starts, swings, faults, blind, crossed>>

\* main of bootstrap_opening_balance: the sum becomes the month's balance.
SaveOpening ==
  /\ phase["opening"] = "read" /\ ~Reading("opening")
  /\ saved' = LET r == got["opening"] IN r[1] + r[2] + r[3] + r[4]
  /\ phase' = [phase EXCEPT !["opening"] = "idle"]
  /\ UNCHANGED <<usdt, got, plan, starts, swings, faults, blind, crossed>>

Pays(t) == usdt' = [usdt EXCEPT ![t.from] = @ - t.amount, ![t.to] = @ + t.amount]
\* One transfer: made, refused (allowBorrow is false), or the connection is
\* lost with the transfer made or not; daily_fund_check and fund_subaccounts
\* do not catch that and stop.
MakeTransfer(s) ==
  /\ phase[s] = "move" /\ plan[s] # <<>>
  /\ LET t == Head(plan[s])
         covered == usdt[t.from] >= t.amount
         rest == [plan EXCEPT ![s] = Tail(@)]
     IN \/ covered /\ Pays(t) /\ CrossedBy(s) /\ plan' = rest /\ UNCHANGED faults
        \/ ~covered /\ plan' = rest /\ UNCHANGED <<usdt, crossed, faults>>
        \/ /\ faults < MaxRefusals /\ faults' = faults + 1
           /\ \/ plan' = rest /\ UNCHANGED <<usdt, crossed>>
              \/ plan' = [plan EXCEPT ![s] = <<>>] /\ UNCHANGED <<usdt, crossed>>
              \/ covered /\ plan' = [plan EXCEPT ![s] = <<>>] /\ Pays(t) /\ CrossedBy(s)
  /\ UNCHANGED <<phase, got, saved, starts, swings, blind>>

Finish(s) ==
  /\ phase[s] = "move" /\ plan[s] = <<>>
  /\ phase' = [phase EXCEPT ![s] = "idle"]
  /\ UNCHANGED <<usdt, got, plan, saved, starts, swings, faults, blind, crossed>>

FuNext == \/ BotChanges \/ SaveOpening
          \/ \E s \in Scripts : Start(s) \/ ReadBalance(s) \/ Decide(s) \/ MakeTransfer(s) \/ Finish(s)

FuSpec == FuInit /\ [][FuNext]_fundVars

-----------------------------------------------------------------------------
\* A script that read every balance, and under which none of them changed.
Sound(s) == ~blind[s] /\ ~crossed[s]

\* Type invariant: no account is ever overdrawn.
FundingTypeOK ==
  /\ usdt \in [Accounts -> Nat]
  /\ phase \in [Scripts -> {"idle", "read", "move"}]
  /\ got \in [Scripts -> Seq(Nat)]
  /\ \A s \in Scripts : \A i \in DOMAIN plan[s] : plan[s][i].amount \in Nat
  /\ saved \in Nat \cup {Unsaved}
  /\ starts \in 0..MaxRuns /\ swings \in 0..MaxSwings /\ faults \in 0..MaxRefusals
  /\ blind \in [Scripts -> BOOLEAN] /\ crossed \in [Scripts -> BOOLEAN]

\* daily_fund_check never takes the main account below its buffer, up to the
\* cent each proportional share may be rounded up by.
BufferKept ==
  [][plan'["daily"] # plan["daily"] /\ phase["daily"] = "move" /\ Sound("daily")
       /\ usdt'["main"] < usdt["main"]
     => usdt'["main"] >= MainMin - 2]_fundVars

\* It never gives a subaccount more than it needs.
NeverTooMuch ==
  [][\A a \in Accounts \ {"main"} :
       plan'["daily"] # plan["daily"] /\ phase["daily"] = "move" /\ Sound("daily")
         /\ usdt'[a] > usdt[a]
       => usdt'[a] <= Needed(a) + 1]_fundVars

\* After rebalance_usdt neither account holds over 60 % unless what was left
\* to move was below the minimum, and the richer account stays the richer one.
SplitRestored ==
  [][phase["split"] = "move" /\ plan["split"] # <<>> /\ Sound("split")
       /\ usdt'["CM1"] # usdt["CM1"] /\ plan'["split"] # plan["split"]
     => LET t == Head(plan["split"])
            total == usdt["CM1"] + usdt["CM2"]
        IN usdt'[t.from] >= usdt'[t.to] /\ 10 * usdt'[t.from] <= 6 * total]_fundVars

\* The opening balance saved is what the subaccounts held together at that
\* moment, when nothing moved while they were read one by one.
OpeningIsHeld ==
  [][saved' # saved /\ Sound("opening")
     => saved' = usdt["CM1"] + usdt["CM2"] + usdt["CMS1"] + usdt["CMS2"]]_fundVars

\* The scripts that move USDT overdraw no account and keep to the bounds they
\* compute, although they read the accounts one after another.
FundsWithinBounds == []FundingTypeOK /\ BufferKept /\ NeverTooMuch /\ SplitRestored /\ OpeningIsHeld
=============================================================================
