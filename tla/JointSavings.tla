---------------------------- MODULE JointSavings ----------------------------
(***************************************************************************)
(* The joint savings bot (src/bots/joint-savings-bot): a loop that looks   *)
(* for ZAR deposits, buys SOL with the whole balance and stakes the SOL it *)
(* bought or was paid as a reward.                                         *)
(*                                                                         *)
(* A poll is a sequence of HTTP calls, and each call is a step: deposits   *)
(* and rewards arrive, and an accepted order is carried out, between any   *)
(* two of them.  A call may fail, an order or a stake may be carried out   *)
(* although its answer is lost, and the process may be killed.  Amounts    *)
(* are whole units (1e-8 SOL, so that the truncation of _stake_sol changes *)
(* nothing), and one unit of ZAR buys one of SOL.                          *)
(***************************************************************************)
EXTENDS Integers, FiniteSets, Sequences

CONSTANTS
  Deposits,      \* transaction ids; their order is the one of sorted()
  Amounts,       \* amounts of a deposit or a reward
  MaxRewards,    \* bound on the rewards paid
  MinBuy,        \* min_buy_amount_zar
  MinStake,      \* min_stake_amount
  Keep,          \* ids mark_deposits_seen keeps (500)
  Window,        \* deposits a poll fetches (50)
  RewardWindow,  \* rewards a poll fetches (10)
  MaxFaults      \* bound on failed calls, lost answers and kills

ASSUME SavingsAssumption ==
  /\ Deposits \subseteq Nat /\ IsFiniteSet(Deposits) /\ Amounts \subseteq Nat \ {0}
  /\ MinBuy \in Nat \ {0} /\ MinStake \in Nat \ {0}
  /\ MaxRewards \in Nat /\ MaxFaults \in Nat
  /\ Keep \in Nat /\ Window \in Nat /\ RewardWindow \in Nat \ {0}

VARIABLES
  zar, sol, staked,     \* the balances on the exchange
  order,                \* ZAR of the accepted order not yet carried out
  credited, listed,     \* deposits paid in; those in the transaction history
  rewards, shown,       \* what the first 0, 1, ... rewards amount to; how many the
                        \* rewards endpoint lists
  seen, lastZar, lastSol, lastReward,   \* state.json: what was noticed
  bought, recorded, rewarded,           \* state.json: the running totals
  file,                 \* "ok", or "torn" by a kill in the middle of a save
  pc,                   \* the next call of the poll
  found, before, amount,                \* locals of the poll
  reported, twice, received, small, faults  \* history: deposits reported as new, SOL in,
                        \* purchases entered that were too small to be staked

exchange == <<zar, sol, staked, order>>
history  == <<credited, listed, rewards, shown>>
noticed  == <<seen, lastZar, lastSol, lastReward>>
totals   == <<bought, recorded, rewarded>>
locals   == <<found, before, amount>>
vars == <<exchange, history, noticed, totals, file, pc, locals, reported, twice, received, small, faults>>

None == -1   \* a balance not read yet

Stages == {"deposits", "increase", "zar", "before", "place", "after", "stakeBought",
           "rewards", "stakeReward", "sol", "stakeIncrease", "dead"}

Larger(m, n) == IF m >= n THEN m ELSE n

TypeOK ==
  /\ zar \in Nat /\ sol \in Nat /\ staked \in Nat /\ order \in Nat
  /\ credited \subseteq Deposits /\ listed \in Seq(Deposits)
  /\ rewards \in Seq(Nat) /\ shown \in Nat
  /\ seen \subseteq Deposits /\ lastReward \in Nat
  /\ lastZar \in Nat \cup {None} /\ lastSol \in Nat \cup {None}
  /\ bought \in Nat /\ recorded \in Nat /\ rewarded \in Nat
  /\ file \in {"ok", "torn"} /\ pc \in Stages
  /\ found \in BOOLEAN /\ before \in Nat /\ amount \in Nat
  /\ reported \subseteq Deposits /\ twice \subseteq reported /\ received \in Nat
  /\ small \in Nat /\ faults \in Nat

\* A fresh state.json and an empty account.
Init ==
  /\ zar = 0 /\ sol = 0 /\ staked = 0 /\ order = 0
  /\ credited = {} /\ listed = <<>> /\ rewards = <<0>> /\ shown = 0
  /\ seen = {} /\ lastZar = None /\ lastSol = None /\ lastReward = 0
  /\ bought = 0 /\ recorded = 0 /\ rewarded = 0
  /\ file = "ok" /\ pc = "deposits"
  /\ found = FALSE /\ before = 0 /\ amount = 0
  /\ reported = {} /\ twice = {} /\ received = sol /\ small = 0 /\ faults = 0

-----------------------------------------------------------------------------
(* The exchange.                                                           *)

Credit(d) ==
  /\ d \notin credited
  /\ \E a \in Amounts : zar' = zar + a
  /\ credited' = credited \cup {d}
  /\ UNCHANGED <<sol, staked, order, listed, rewards, shown, noticed, totals,
                 file, pc, locals, reported, twice, received, small, faults>>

\* The transaction history is newest first and lags the balance.
List(d) ==
  /\ d \in credited /\ \A i \in DOMAIN listed : listed[i] # d
  /\ listed' = <<d>> \o listed
  /\ UNCHANGED <<exchange, credited, rewards, shown, noticed, totals,
                 file, pc, locals, reported, twice, received, small, faults>>

PayReward ==
  /\ Len(rewards) <= MaxRewards
  /\ \E a \in Amounts : /\ sol' = sol + a
                        /\ received' = received + a
                        /\ rewards' = Append(rewards, rewards[Len(rewards)] + a)
  /\ UNCHANGED <<zar, staked, order, credited, listed, shown, noticed, totals,
                 file, pc, locals, reported, twice, small, faults>>

ShowReward ==
  /\ shown + 1 < Len(rewards)
  /\ shown' = shown + 1
  /\ UNCHANGED <<exchange, credited, listed, rewards, noticed, totals,
                 file, pc, locals, reported, twice, received, small, faults>>

Execute ==
  /\ order > 0
  /\ zar' = zar - order /\ sol' = sol + order /\ order' = 0
  /\ received' = received + order
  /\ UNCHANGED <<staked, history, noticed, totals, file, pc, locals, reported, twice, small, faults>>

-----------------------------------------------------------------------------
(* One poll: run_once and what it calls, a step per HTTP call.             *)

Go(stage) == pc = stage /\ file = "ok"

Fetched == {listed[i] : i \in {j \in DOMAIN listed : j <= Window}}

\* Mutant of Capped: cuts one id too early.
CutsEarly(ids) ==
  IF Cardinality(ids) >= Keep
  THEN {i \in ids : Cardinality({j \in ids : j > i}) < Keep - 1}
  ELSE ids

\* mark_deposits_seen: of more than Keep ids the last ones in sorted order stay.
Capped(ids) ==
  IF Cardinality(ids) > Keep
  THEN {i \in ids : Cardinality({j \in ids : j > i}) < Keep}
  ELSE ids

\* _check_deposits: the new ids are reported, and all are marked before
\* anything is bought.
CheckDeposits ==
  /\ Go("deposits")
  /\ found' = (Fetched \ seen # {})
  /\ twice' = twice \cup ((Fetched \ seen) \cap reported)
  /\ reported' = reported \cup (Fetched \ seen)
  /\ seen' = IF Fetched = {} THEN seen ELSE Capped(seen \cup Fetched)
  /\ pc' = "increase"
  /\ UNCHANGED <<exchange, history, lastZar, lastSol, lastReward, totals, file,
                 before, amount, received, small, faults>>

\* Mutant of CheckBalanceIncrease: a new deposit alone does not lead to a purchase.
IgnoresDeposits ==
  /\ Go("increase")
  /\ lastZar' = zar
  /\ pc' = IF lastZar # None /\ zar > lastZar THEN "zar" ELSE "rewards"
  /\ found' = FALSE
  /\ UNCHANGED <<exchange, history, seen, lastSol, lastReward, totals, file,
                 before, amount, reported, twice, received, small, faults>>

\* _check_balance_increase, and the decision of run_once.
CheckBalanceIncrease ==
  /\ Go("increase")
  /\ lastZar' = zar
  /\ pc' = IF found \/ (lastZar # None /\ zar > lastZar) THEN "zar" ELSE "rewards"
  /\ found' = FALSE
  /\ UNCHANGED <<exchange, history, seen, lastSol, lastReward, totals, file,
                 before, amount, reported, twice, received, small, faults>>

\* Mutant of ReadZar: the balance must exceed the minimum.
BuysAboveMinimum ==
  /\ Go("zar")
  /\ IF zar > MinBuy THEN amount' = zar /\ pc' = "before"
                     ELSE pc' = "rewards" /\ UNCHANGED amount
  /\ UNCHANGED <<exchange, history, noticed, totals, file, found, before,
                 reported, twice, received, small, faults>>

\* The whole balance is to be spent, if it reaches the minimum.
ReadZar ==
  /\ Go("zar")
  /\ IF zar >= MinBuy THEN amount' = zar /\ pc' = "before"
                      ELSE pc' = "rewards" /\ UNCHANGED amount
  /\ UNCHANGED <<exchange, history, noticed, totals, file, found, before,
                 reported, twice, received, small, faults>>

ReadSolBefore ==
  /\ Go("before")
  /\ before' = sol /\ pc' = "place"
  /\ UNCHANGED <<exchange, history, noticed, totals, file, found, amount,
                 reported, twice, received, small, faults>>

\* place_market_buy: accepted (202), to be carried out later; a refusal and a
\* lost answer both end _buy_sol in its except branch.
PlaceBuy ==
  /\ Go("place")
  /\ \/ /\ amount <= zar - order
        /\ order' = order + amount /\ pc' = "after" /\ UNCHANGED <<before, faults>>
     \/ /\ amount > zar - order
        /\ pc' = "rewards" /\ before' = 0 /\ UNCHANGED <<order, faults>>
     \/ /\ faults < MaxFaults /\ amount <= zar - order
        /\ order' = order + amount /\ pc' = "rewards" /\ before' = 0 /\ faults' = faults + 1
  /\ amount' = 0
  /\ UNCHANGED <<zar, sol, staked, history, noticed, totals, file, found,
                 reported, twice, received, small>>

\* record_purchase, record_stake and record_reward: each adds to a total and saves.
RecordPurchase(n) == bought' = bought + n
RecordStake(n)    == recorded' = recorded + n
RecordReward(n)   == rewarded' = rewarded + n

\* What the balance grew by is the purchase; without growth there is only a warning.
ReadSolAfter ==
  /\ Go("after")
  /\ IF sol > before
     THEN /\ amount' = sol - before /\ RecordPurchase(sol - before)
          /\ small' = small + (IF sol - before < MinStake THEN sol - before ELSE 0)
          /\ pc' = "stakeBought"
     ELSE /\ pc' = "rewards" /\ UNCHANGED <<amount, bought, small>>
  /\ before' = 0
  /\ UNCHANGED <<exchange, history, noticed, recorded, rewarded, file, found,
                 reported, twice, received, faults>>

\* The stage that follows a stake.
AfterStake == [stakeBought |-> "rewards", stakeReward |-> "sol", stakeIncrease |-> "deposits"]

\* Mutant of IsReward: every stake is entered as a reward.
EveryStake(stage) == TRUE

\* run_once enters what it stakes itself as a reward, _buy_sol does not.
IsReward(stage) == stage # "stakeBought"

\* Mutant of Stake: the record is written before the call.
RecordsFirst(stage) ==
  /\ Go(stage)
  /\ pc' = AfterStake[stage] /\ amount' = 0
  /\ RecordStake(amount)
  /\ \/ /\ amount >= MinStake /\ amount <= sol
        /\ sol' = sol - amount /\ staked' = staked + amount
        /\ IF IsReward(stage) THEN RecordReward(amount) ELSE UNCHANGED rewarded
     \/ /\ amount < MinStake \/ amount > sol
        /\ UNCHANGED <<sol, staked, rewarded>>
  /\ UNCHANGED <<zar, order, history, noticed, bought, file, found, before,
                 reported, twice, received, small, faults>>

\* _stake_sol, called from three places.  It refuses small amounts, and the
\* exchange refuses more than is available; a lost answer looks like a refusal.
Stake(stage) ==
  /\ Go(stage)
  /\ pc' = AfterStake[stage]
  /\ \/ /\ amount >= MinStake /\ amount <= sol
        /\ sol' = sol - amount /\ staked' = staked + amount
        /\ RecordStake(amount)
        /\ IF IsReward(stage) THEN RecordReward(amount) ELSE UNCHANGED rewarded
        /\ UNCHANGED faults
     \/ /\ amount < MinStake \/ amount > sol
        /\ UNCHANGED <<sol, staked, recorded, rewarded, faults>>
     \/ /\ amount >= MinStake /\ amount <= sol /\ faults < MaxFaults
        /\ sol' = sol - amount /\ staked' = staked + amount /\ faults' = faults + 1
        /\ UNCHANGED <<recorded, rewarded>>
  /\ amount' = 0
  /\ UNCHANGED <<zar, order, history, noticed, bought, file, found, before,
                 reported, twice, received, small>>

\* Rewards listed after the last one noticed, at most RewardWindow of them.
RewardSum == LET old == Larger(lastReward, shown - RewardWindow)
             IN  rewards[shown + 1] - rewards[old + 1]

\* _check_staking_rewards: the newest id is saved before the stake.
CheckRewards ==
  /\ Go("rewards")
  /\ lastReward' = IF shown > 0 THEN shown ELSE lastReward
  /\ IF RewardSum >= MinStake THEN amount' = RewardSum /\ pc' = "stakeReward"
                              ELSE pc' = "sol" /\ UNCHANGED amount
  /\ UNCHANGED <<exchange, history, seen, lastZar, lastSol, totals, file,
                 found, before, reported, twice, received, small, faults>>

\* Mutant of CheckSolIncrease: any change of the balance counts.
AnyChange ==
  /\ Go("sol")
  /\ lastSol' = sol
  /\ IF lastSol # None /\ sol # lastSol
     THEN amount' = sol - lastSol /\ pc' = "stakeIncrease"
     ELSE pc' = "deposits" /\ UNCHANGED amount
  /\ UNCHANGED <<exchange, history, seen, lastZar, lastReward, totals, file,
                 found, before, reported, twice, received, small, faults>>

\* _check_sol_balance_increase
CheckSolIncrease ==
  /\ Go("sol")
  /\ lastSol' = sol
  /\ IF lastSol # None /\ sol - lastSol >= MinStake
     THEN amount' = sol - lastSol /\ pc' = "stakeIncrease"
     ELSE pc' = "deposits" /\ UNCHANGED amount
  /\ UNCHANGED <<exchange, history, seen, lastZar, lastReward, totals, file,
                 found, before, reported, twice, received, small, faults>>

\* A call raises.  Outside the two try blocks the exception ends the poll in
\* main's loop; _buy_sol, _stake_sol and _check_staking_rewards catch theirs.
Fail ==
  /\ file = "ok" /\ faults < MaxFaults
  /\ \/ pc \in {"deposits", "increase", "zar", "sol"} /\ pc' = "deposits"
     \/ pc \in {"before", "place", "after"} /\ pc' = "rewards"
     \/ pc \in DOMAIN AfterStake /\ pc' = AfterStake[pc]
     \/ pc = "rewards" /\ pc' = "sol"
  /\ found' = FALSE /\ before' = 0 /\ amount' = 0
  /\ faults' = faults + 1
  /\ UNCHANGED <<exchange, history, noticed, totals, file, reported, twice, received, small>>

\* The process is killed and started again: state.json holds what was saved.
\* Killed in the middle of a save (the file is rewritten in place) it leaves a
\* file json.load cannot read, and no later start gets past BotState.
Kill ==
  /\ faults < MaxFaults /\ file = "ok"
  /\ \/ pc' = "deposits" /\ UNCHANGED file
     \/ /\ pc \notin {"zar", "before", "place"}
        /\ file' = "torn" /\ pc' = "dead"
  /\ found' = FALSE /\ before' = 0 /\ amount' = 0
  /\ faults' = faults + 1
  /\ UNCHANGED <<exchange, history, noticed, totals, reported, twice, received, small>>

Poll == \/ CheckDeposits \/ CheckBalanceIncrease \/ ReadZar \/ ReadSolBefore
        \/ PlaceBuy \/ ReadSolAfter \/ \E s \in DOMAIN AfterStake : Stake(s)
        \/ CheckRewards \/ CheckSolIncrease

Exchange == \/ \E d \in Deposits : Credit(d) \/ List(d)
            \/ PayReward \/ ShowReward \/ Execute

Next == Poll \/ Exchange \/ Fail \/ Kill

Spec == Init /\ [][Next]_vars

\* The loop keeps polling, the history is brought up to date and accepted
\* orders are carried out.
FairSpec == Spec /\ WF_vars(Poll) /\ WF_vars(Execute)
                 /\ \A d \in Deposits : WF_vars(List(d))
-----------------------------------------------------------------------------

(* Properties.                                                              *)

\* What the bot recorded as staked is staked, and as long as no answer was
\* lost and nothing was killed it recorded all of it (_stake_sol, record_stake).
RecordsAreReal == recorded <= staked /\ (faults = 0 => recorded = staked)

\* Undisturbed, SOL is entered twice only through a purchase below min_stake: the
\* purchases and the rewards in state.json exceed what arrived by no more than
\* the purchases _stake_sol turned down as too small, whatever rewards, of any
\* size, arrive while a purchase is measured and are noticed again by the
\* rewards endpoint and by the balance (ReadSolAfter, CheckRewards,
\* CheckSolIncrease).  A failed stake breaks it: the SOL of a purchase is staked
\* again as a reward.
AttributedOnce == faults = 0 => bought + rewarded <= received + small

\* Refuted: without the purchases that were too small.  A reward below min_stake
\* that arrives before the order is carried out is taken for the purchase, is
\* not staked, and is entered again with the SOL the order brings.
AttributedExactly == faults = 0 => bought + rewarded <= received

\* A deposit is reported as new once, across restarts, until more ids were
\* seen than the state keeps: the ids kept are the last in sorted order and
\* not the latest (mark_deposits_seen).
ReportedOnce == twice # {} => Cardinality(reported) > Keep

\* Undisturbed, a balance of min_buy_amount_zar or more is spent: what arrives
\* behind a poll's back is found by the listing or by the increase (run_once).
SpentUnlessDisturbed == [](faults = 0) => (zar >= MinBuy ~> zar < MinBuy)

Unseen == Fetched \ seen # {}

\* After a failed purchase nothing tries again by itself, the deposit is marked
\* as seen; but the next deposit the bot reports sweeps the whole balance,
\* whatever went wrong before, unless the state file was torn by a kill.
NewDepositSweeps == (Unseen /\ faults = MaxFaults) ~> (zar < MinBuy \/ file = "torn")

\* What the bot records of the chain was there, and each deposit is news once.
RecordsSound == TypeOK /\ RecordsAreReal /\ ReportedOnce
=============================================================================
