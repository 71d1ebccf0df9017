-------------------------- MODULE JointSavings_proofs --------------------------
(***************************************************************************)
(* What state.json says of the joint savings is true, for any deposits,    *)
(* amounts, limits and number of faults.                                   *)
(***************************************************************************)
EXTENDS JointSavings, TLAPS, FiniteSetTheorems, SequenceTheorems

\* The rewards shown were paid, the rewards noticed were shown, what the rewards
\* amount to only grows, and an accepted order is covered.
RewardsOK ==
  /\ order <= zar
  /\ rewards # <<>> /\ shown + 1 <= Len(rewards) /\ lastReward <= shown
  /\ \A i, j \in DOMAIN rewards : i <= j => rewards[i] <= rewards[j]

\* The type invariant and what it rests on.
Typed == TypeOK /\ RewardsOK

\* What a poll finds in the rewards list is an amount.
LEMMA RewardSumTyped == Typed => RewardSum \in Nat
<1> SUFFICES ASSUME Typed PROVE RewardSum \in Nat
  OBVIOUS
<1> DEFINE old == Larger(lastReward, shown - RewardWindow)
<1>1. old \in Nat /\ old <= shown
  BY SavingsAssumption DEF Typed, TypeOK, RewardsOK, Larger
<1>2. old + 1 \in DOMAIN rewards /\ shown + 1 \in DOMAIN rewards
  BY <1>1 DEF Typed, TypeOK, RewardsOK
<1>3. rewards[old + 1] \in Nat /\ rewards[shown + 1] \in Nat /\ rewards[old + 1] <= rewards[shown + 1]
  BY <1>1, <1>2 DEF Typed, TypeOK, RewardsOK
<1> QED BY <1>3 DEF RewardSum

\* What a poll fetches are ids of deposits.
LEMMA FetchedTyped == TypeOK => Fetched \subseteq Deposits
BY DEF TypeOK, Fetched

\* Cutting a set of ids leaves some of them.
LEMMA CappedSubset == \A ids : Capped(ids) \subseteq ids
BY DEF Capped

\* The initial state is well typed and the bot has seen no rewards.
LEMMA InitTyped == Init => Typed
<1> SUFFICES ASSUME Init PROVE Typed
  OBVIOUS
<1>1. rewards = <<0>> /\ rewards \in Seq(Nat) /\ Len(rewards) = 1
  BY DEF Init
<1>2. TypeOK
  <2>1. found \in BOOLEAN
    BY Zenon DEF Init
  <2>2. listed \in Seq(Deposits)
    BY DEF Init
  <2> QED BY <1>1, <2>1, <2>2 DEF Init, TypeOK, Stages, None
<1>3. RewardsOK
  BY <1>1 DEF Init, RewardsOK
<1> QED BY <1>2, <1>3 DEF Typed

\* Every step of the exchange and of a poll keeps the types.
LEMMA NextTyped == Typed /\ [Next]_vars => Typed'
<1> SUFFICES ASSUME Typed, [Next]_vars PROVE Typed'
  OBVIOUS
<1> USE DEF Typed, TypeOK
<1>1. ASSUME NEW d \in Deposits, Credit(d) PROVE Typed'
  BY <1>1, SavingsAssumption DEF Credit, noticed, totals, locals, RewardsOK
<1>2. ASSUME NEW d \in Deposits, List(d) PROVE Typed'
  BY <1>2 DEF List, exchange, noticed, totals, locals, RewardsOK
<1>3. CASE PayReward
  <2>1. PICK a \in Amounts : /\ sol' = sol + a /\ received' = received + a
                             /\ rewards' = Append(rewards, rewards[Len(rewards)] + a)
    BY <1>3 DEF PayReward
  <2>2. a \in Nat /\ Len(rewards) \in Nat \ {0} /\ rewards[Len(rewards)] \in Nat
    BY SavingsAssumption DEF RewardsOK
  <2>3. rewards' \in Seq(Nat) /\ Len(rewards') = Len(rewards) + 1
    BY <2>1, <2>2
  <2>4. TypeOK'
    BY <1>3, <2>1, <2>2, <2>3 DEF PayReward, noticed, totals, locals
  <2>5. RewardsOK'
    <3>1. \A i \in DOMAIN rewards : rewards'[i] = rewards[i] /\ rewards[i] <= rewards[Len(rewards)]
      BY <2>1, <2>2 DEF RewardsOK
    <3>2. rewards'[Len(rewards) + 1] = rewards[Len(rewards)] + a
      BY <2>1, <2>2
    <3>3. \A i, j \in DOMAIN rewards' : i <= j => rewards'[i] <= rewards'[j]
      <4> TAKE i, j \in DOMAIN rewards'
      <4> HAVE i <= j
      <4>1. i \in 1..(Len(rewards) + 1) /\ j \in 1..(Len(rewards) + 1)
        BY <2>3
      <4>2. CASE j = Len(rewards) + 1 /\ i # j
        <5>1. i \in DOMAIN rewards
          BY <4>1, <4>2
        <5>2. rewards[i] \in Nat
          BY <5>1
        <5> QED BY <3>1, <3>2, <4>2, <5>1, <5>2, <2>2
      <4>3. CASE j = Len(rewards) + 1 /\ i = j
        BY <4>3, <3>2, <2>2
      <4>4. CASE j # Len(rewards) + 1
        <5>1. i \in DOMAIN rewards /\ j \in DOMAIN rewards
          BY <4>1, <4>4
        <5> QED BY <5>1, <3>1 DEF RewardsOK
      <4> QED BY <4>2, <4>3, <4>4
    <3>4. rewards' # <<>> /\ shown' + 1 <= Len(rewards') /\ lastReward' <= shown' /\ order' <= zar'
      BY <1>3, <2>3 DEF PayReward, noticed, RewardsOK
    <3> QED BY <3>3, <3>4 DEF RewardsOK
  <2> QED BY <2>4, <2>5
<1>4. CASE ShowReward
  BY <1>4 DEF ShowReward, exchange, noticed, totals, locals, RewardsOK
<1>5. CASE Execute
  BY <1>5 DEF Execute, history, noticed, totals, locals, RewardsOK
<1>6. CASE CheckDeposits
  <2>1. Fetched \subseteq Deposits /\ Capped(seen \cup Fetched) \subseteq Deposits
    BY FetchedTyped, CappedSubset
  <2> QED BY <1>6, <2>1 DEF CheckDeposits, exchange, history, totals, RewardsOK, Stages
<1>7. CASE CheckBalanceIncrease
  BY <1>7 DEF CheckBalanceIncrease, exchange, history, totals, RewardsOK, Stages
<1>8. CASE ReadZar
  BY <1>8 DEF ReadZar, exchange, history, noticed, totals, RewardsOK, Stages
<1>9. CASE ReadSolBefore
  BY <1>9 DEF ReadSolBefore, exchange, history, noticed, totals, RewardsOK, Stages
<1>10. CASE PlaceBuy
  BY <1>10 DEF PlaceBuy, history, noticed, totals, RewardsOK, Stages
<1>11. CASE ReadSolAfter
  BY <1>11 DEF ReadSolAfter, RecordPurchase, exchange, history, noticed, RewardsOK, Stages
<1>12. ASSUME NEW s \in DOMAIN AfterStake, Stake(s) PROVE Typed'
  <2>1. AfterStake[s] \in Stages
    BY DEF AfterStake, Stages
  <2>2. pc' \in Stages
    BY <1>12, <2>1 DEF Stake
  <2>3. rewarded' \in Nat /\ recorded' \in Nat /\ sol' \in Nat /\ staked' \in Nat /\ faults' \in Nat
    BY <1>12 DEF Stake, RecordStake, RecordReward
  <2>4. amount' = 0 /\ UNCHANGED <<zar, order, history, noticed, bought, file, found, before,
                                  reported, twice, received, small>>
    BY <1>12 DEF Stake
  <2> QED BY <2>2, <2>3, <2>4 DEF history, noticed, RewardsOK
<1>13. CASE CheckRewards
  BY <1>13, RewardSumTyped DEF CheckRewards, exchange, history, totals, RewardsOK, Stages
<1>14. CASE CheckSolIncrease
  BY <1>14, SavingsAssumption DEF CheckSolIncrease, exchange, history, totals, RewardsOK, Stages
<1>15. CASE Fail
  <2>1. pc \in DOMAIN AfterStake => AfterStake[pc] \in Stages
    BY DEF AfterStake, Stages
  <2>2. pc' \in Stages
    BY <1>15, <2>1 DEF Fail, Stages
  <2>3. found' \in BOOLEAN
    BY <1>15, Zenon DEF Fail
  <2> QED BY <1>15, <2>2, <2>3 DEF Fail, exchange, history, noticed, totals, RewardsOK, Stages
<1>16. CASE Kill
  <2>1. found' \in BOOLEAN
    BY <1>16, Zenon DEF Kill
  <2> QED BY <1>16, <2>1 DEF Kill, exchange, history, noticed, totals, RewardsOK, Stages
<1>17. CASE UNCHANGED vars
  BY <1>17 DEF vars, exchange, history, noticed, totals, locals, RewardsOK
<1> QED BY <1>1, <1>2, <1>3, <1>4, <1>5, <1>6, <1>7, <1>8, <1>9, <1>10, <1>11, <1>12, <1>13,
  <1>14, <1>15, <1>16, <1>17 DEF Next, Poll, Exchange

\* Every reachable state is well typed, whatever arrives, fails or is killed.
THEOREM TypeCorrect == Spec => []Typed
BY InitTyped, NextTyped, PTL DEF Spec

-----------------------------------------------------------------------------
(* The records of the chain.                                               *)

\* SOL is where the bot put it, and unless something failed it recorded it.
Recorded ==
  /\ received = sol + staked
  /\ RecordsAreReal

\* A stake is carried out and recorded, or turned down, or carried out although
\* the bot takes it for failed.
LEMMA StakeOutcomes ==
  ASSUME NEW s \in DOMAIN AfterStake, TypeOK, Stake(s)
  PROVE  /\ received' = received
         /\ \/ /\ sol' = sol - amount /\ staked' = staked + amount
               /\ recorded' = recorded + amount /\ faults' = faults
               /\ rewarded' = rewarded + (IF s = "stakeBought" THEN 0 ELSE amount)
            \/ /\ UNCHANGED <<sol, staked, recorded, rewarded, faults>>
               /\ amount < MinStake \/ amount > sol
            \/ /\ sol' = sol - amount /\ staked' = staked + amount
               /\ UNCHANGED <<recorded, rewarded>> /\ faults' = faults + 1
<1> DEFINE Done == sol' = sol - amount /\ staked' = staked + amount
<1>1. received' = received
  BY DEF Stake
<1>2. \/ /\ Done /\ RecordStake(amount) /\ faults' = faults
         /\ IF IsReward(s) THEN RecordReward(amount) ELSE UNCHANGED rewarded
      \/ /\ amount < MinStake \/ amount > sol
         /\ UNCHANGED <<sol, staked, recorded, rewarded, faults>>
      \/ Done /\ UNCHANGED <<recorded, rewarded>> /\ faults' = faults + 1
  BY Zenon DEF Stake
<1>3. CASE /\ Done /\ RecordStake(amount) /\ faults' = faults
           /\ IF IsReward(s) THEN RecordReward(amount) ELSE UNCHANGED rewarded
  <2>1. rewarded' = rewarded + (IF s = "stakeBought" THEN 0 ELSE amount)
    BY <1>3 DEF IsReward, RecordReward, TypeOK
  <2> QED BY <1>1, <1>3, <2>1 DEF RecordStake
<1> QED BY <1>1, <1>2, <1>3

\* What the state file records as deposits and stakes stays real, step by step.
LEMMA RecordedStep == Typed /\ Recorded /\ [Next]_vars => Recorded'
<1> SUFFICES ASSUME Typed, Recorded, [Next]_vars PROVE Recorded'
  OBVIOUS
<1> USE DEF Typed, TypeOK, Recorded, RecordsAreReal
<1>1. ASSUME NEW d \in Deposits, Credit(d) \/ List(d) PROVE Recorded'
  BY <1>1 DEF Credit, List, exchange, totals
<1>2. CASE PayReward
  BY <1>2, SavingsAssumption DEF PayReward, totals
<1>3. CASE ShowReward \/ Execute
  BY <1>3 DEF ShowReward, Execute, exchange, totals
<1>4. CASE CheckDeposits \/ CheckBalanceIncrease \/ ReadZar \/ ReadSolBefore
  BY <1>4 DEF CheckDeposits, CheckBalanceIncrease, ReadZar, ReadSolBefore, exchange, totals
<1>5. CASE PlaceBuy \/ ReadSolAfter
  BY <1>5 DEF PlaceBuy, ReadSolAfter, exchange, totals
<1>6. ASSUME NEW s \in DOMAIN AfterStake, Stake(s) PROVE Recorded'
  <2>1. /\ received' = received
        /\ \/ sol' = sol - amount /\ staked' = staked + amount /\ recorded' = recorded + amount /\ faults' = faults
           \/ UNCHANGED <<sol, staked, recorded, faults>>
           \/ sol' = sol - amount /\ staked' = staked + amount /\ recorded' = recorded /\ faults' = faults + 1
    BY <1>6, StakeOutcomes
  <2>2. /\ {sol, staked, recorded, amount, faults} \subseteq Nat
        /\ received = sol + staked /\ recorded <= staked /\ (faults = 0 => recorded = staked)
    OBVIOUS
  <2>3. received' = sol' + staked'
    BY <2>1, <2>2
  <2>4. recorded' <= staked' /\ (faults' = 0 => recorded' = staked')
    BY <2>1, <2>2
  <2> QED BY <2>3, <2>4
<1>7. CASE CheckRewards \/ CheckSolIncrease
  BY <1>7 DEF CheckRewards, CheckSolIncrease, exchange, totals
<1>8. CASE Fail \/ Kill
  BY <1>8 DEF Fail, Kill, exchange, totals
<1>9. CASE UNCHANGED vars
  BY <1>9 DEF vars, exchange, totals
<1> QED BY <1>1, <1>2, <1>3, <1>4, <1>5, <1>6, <1>7, <1>8, <1>9 DEF Next, Poll, Exchange

-----------------------------------------------------------------------------
(* Deposits reported as new.                                               *)

\* Until more ids were reported than are kept, none of them was forgotten.
NoneForgotten ==
  /\ seen \subseteq reported
  /\ Cardinality(reported) <= Keep => seen = reported /\ twice = {}

\* The polls other than the look at the deposits, and the world, leave it alone.
LEMMA ReportsUnchanged ==
  ASSUME [Next]_vars, ~CheckDeposits
  PROVE  UNCHANGED <<seen, reported, twice>>
BY DEF vars, Next, Poll, Exchange, Credit, List, PayReward, ShowReward, Execute, CheckBalanceIncrease,
   ReadZar, ReadSolBefore, PlaceBuy, ReadSolAfter, Stake, CheckRewards, CheckSolIncrease, Fail, Kill, noticed

\* As long as the cap drops no id, every deposit that was reported is still seen.
LEMMA ForgottenStep == Typed /\ NoneForgotten /\ [Next]_vars => NoneForgotten'
<1> SUFFICES ASSUME Typed, NoneForgotten, [Next]_vars PROVE NoneForgotten'
  OBVIOUS
<1> USE DEF Typed, TypeOK
<1>1. CASE CheckDeposits
  <2>1. /\ twice' = twice \cup ((Fetched \ seen) \cap reported)
        /\ reported' = reported \cup (Fetched \ seen)
        /\ seen' = IF Fetched = {} THEN seen ELSE Capped(seen \cup Fetched)
    BY <1>1 DEF CheckDeposits
  <2>2. reported \subseteq reported' /\ reported' \subseteq Deposits /\ seen \cup Fetched \subseteq reported'
    BY <2>1, FetchedTyped DEF NoneForgotten
  <2>3. IsFiniteSet(reported') /\ IsFiniteSet(seen \cup Fetched)
    BY <2>2, FS_Subset, SavingsAssumption
  <2>4. seen' \subseteq reported'
    BY <2>1, <2>2, CappedSubset
  <2>5. ASSUME Cardinality(reported') <= Keep PROVE seen' = reported' /\ twice' = {}
    <3>1. Cardinality(reported) <= Cardinality(reported') /\ Cardinality(seen \cup Fetched) <= Cardinality(reported')
      BY <2>2, <2>3, FS_Subset
    <3>2. Cardinality(reported) \in Nat /\ Cardinality(reported') \in Nat /\ Cardinality(seen \cup Fetched) \in Nat
      BY <2>2, <2>3, FS_Subset, FS_CardinalityType
    <3>3. seen = reported /\ twice = {}
      BY <2>5, <3>1, <3>2, SavingsAssumption DEF NoneForgotten
    <3>4. twice' = {} /\ reported' = seen \cup Fetched
      BY <2>1, <3>3
    <3>5. Capped(seen \cup Fetched) = seen \cup Fetched
      BY <2>5, <3>1, <3>2, SavingsAssumption DEF Capped
    <3> QED BY <2>1, <3>3, <3>4, <3>5
  <2> QED BY <2>4, <2>5 DEF NoneForgotten
<1>2. CASE ~CheckDeposits
  BY <1>2, ReportsUnchanged DEF NoneForgotten
<1> QED BY <1>1, <1>2

\* The records agree with the chain, and a deposit is news only once until more
\* ids were seen than state.json keeps; for any deposits, limits and faults.
THEOREM RecordsAreSound == Spec => []RecordsSound
<1>1. Init => Recorded /\ NoneForgotten
  BY FS_EmptySet DEF Init, Recorded, RecordsAreReal, NoneForgotten
<1>2. Typed /\ Recorded /\ NoneForgotten => RecordsSound
  <2> SUFFICES ASSUME Typed, Recorded, NoneForgotten PROVE RecordsSound
    OBVIOUS
  <2>1. Cardinality(reported) \in Nat
    BY SavingsAssumption, FS_Subset, FS_CardinalityType DEF Typed, TypeOK
  <2> QED BY <2>1, SavingsAssumption DEF Typed, Recorded, NoneForgotten, RecordsSound, ReportedOnce
<1> QED BY <1>1, <1>2, TypeCorrect, InitTyped, NextTyped, RecordedStep, ForgottenStep, PTL DEF Spec

-----------------------------------------------------------------------------
(* What purchases and rewards are entered as.                              *)

\* What is entered is staked, or about to be, or was too small to be staked; and
\* nothing takes SOL between a purchase and its stake.
Entered ==
  /\ faults = 0 => bought + rewarded = staked + small
                     + (IF pc = "stakeBought" /\ MinStake <= amount THEN amount ELSE 0)
  /\ pc = "stakeBought" => amount <= sol

\* A stake of a purchase moves what was about to be staked; a stake of what was
\* found is entered as a reward.
LEMMA StakeEntered ==
  ASSUME NEW s \in DOMAIN AfterStake, TypeOK, TypeOK', Entered, Stake(s)
  PROVE  Entered'
<1>1. pc = s /\ pc' = AfterStake[s] /\ UNCHANGED <<bought, small>>
  BY DEF Stake, Go
<1>2. s \in {"stakeBought", "stakeReward", "stakeIncrease"}
  BY DEF AfterStake
<1>3. AfterStake[s] # "stakeBought"
  BY <1>2 DEF AfterStake
<1>4. /\ {bought, rewarded, staked, small, amount, faults, sol} \subseteq Nat
      /\ {rewarded', staked', faults'} \subseteq Nat /\ MinStake \in Nat
  BY SavingsAssumption DEF TypeOK
<1>5. CASE s = "stakeBought" /\ MinStake <= amount
  <2>1. amount <= sol /\ (faults = 0 => bought + rewarded = staked + small + amount)
    BY <1>1, <1>5 DEF Entered
  <2>2. faults' = 0 => faults = 0 /\ staked' = staked + amount /\ rewarded' = rewarded
    BY <1>4, <1>5, <2>1, StakeOutcomes
  <2>3. faults' = 0 => bought' + rewarded' = staked' + small'
    BY <1>1, <1>4, <2>1, <2>2
  <2> QED BY <1>1, <1>3, <1>4, <2>3 DEF Entered
<1>6. CASE s = "stakeBought" /\ ~(MinStake <= amount)
  <2>1. UNCHANGED <<staked, rewarded, faults>>
    BY <1>4, <1>6 DEF Stake
  <2>2. faults = 0 => bought + rewarded = staked + small
    BY <1>1, <1>4, <1>6 DEF Entered
  <2> QED BY <1>1, <1>3, <1>4, <2>1, <2>2 DEF Entered
<1>7. CASE s # "stakeBought"
  <2>1. faults' = 0 => /\ faults = 0
                       /\ \/ staked' = staked + amount /\ rewarded' = rewarded + amount
                          \/ staked' = staked /\ rewarded' = rewarded
    BY <1>4, <1>7, StakeOutcomes
  <2>2. faults = 0 => bought + rewarded = staked + small
    BY <1>1, <1>4, <1>7 DEF Entered
  <2>3. faults' = 0 => bought' + rewarded' = staked' + small'
    <3> SUFFICES ASSUME faults' = 0 PROVE bought' + rewarded' = staked' + small'
      OBVIOUS
    <3>1. bought' = bought /\ small' = small /\ bought + rewarded = staked + small
      BY <1>1, <2>1, <2>2
    <3>2. CASE staked' = staked + amount /\ rewarded' = rewarded + amount
      BY <1>4, <3>1, <3>2
    <3>3. CASE staked' = staked /\ rewarded' = rewarded
      BY <3>1, <3>3
    <3> QED BY <2>1, <3>2, <3>3
  <2> QED BY <1>1, <1>3, <1>4, <2>3 DEF Entered
<1> QED BY <1>5, <1>6, <1>7

\* Every step keeps what is entered tied to what is staked.
LEMMA EnteredStep == Typed /\ Entered /\ [Next]_vars => Entered'
<1> SUFFICES ASSUME Typed, Entered, [Next]_vars PROVE Entered'
  OBVIOUS
<1> USE SavingsAssumption DEF Typed, TypeOK, Entered
<1>1. ASSUME NEW d \in Deposits, Credit(d) \/ List(d) PROVE Entered'
  BY <1>1 DEF Credit, List, exchange, totals, locals
<1>2. CASE PayReward
  BY <1>2 DEF PayReward, totals, locals
<1>3. CASE ShowReward
  BY <1>3 DEF ShowReward, exchange, totals, locals
<1>4. CASE CheckDeposits \/ CheckBalanceIncrease \/ ReadZar \/ ReadSolBefore
  BY <1>4 DEF CheckDeposits, CheckBalanceIncrease, ReadZar, ReadSolBefore, Go, exchange, totals
<1>5. CASE PlaceBuy
  BY <1>5 DEF PlaceBuy, Go, totals
<1>6. CASE ReadSolAfter
  <2>1. CASE sol > before
    <3>1. /\ amount' = sol - before /\ bought' = bought + (sol - before) /\ pc' = "stakeBought"
          /\ small' = small + (IF sol - before < MinStake THEN sol - before ELSE 0)
          /\ pc = "after" /\ UNCHANGED <<sol, staked, rewarded, faults>>
      BY <1>6, <2>1 DEF ReadSolAfter, RecordPurchase, Go, exchange
    <3> QED BY <2>1, <3>1
  <2>2. CASE ~(sol > before)
    BY <1>6, <2>2 DEF ReadSolAfter, Go, exchange
  <2> QED BY <2>1, <2>2
<1>7. ASSUME NEW s \in DOMAIN AfterStake, Stake(s) PROVE Entered'
  BY <1>7, NextTyped, StakeEntered DEF Next, Poll
<1>8. CASE CheckRewards \/ CheckSolIncrease
  BY <1>8 DEF CheckRewards, CheckSolIncrease, Go, exchange, totals
<1>9. CASE Fail
  BY <1>9 DEF Fail, AfterStake, exchange, totals
<1>10. CASE Kill
  BY <1>10 DEF Kill, exchange, totals
<1>11. CASE UNCHANGED vars
  BY <1>11 DEF vars, exchange, totals, locals
<1>12. CASE Execute
  <2>1. /\ sol' = sol + order
        /\ UNCHANGED <<staked, bought, rewarded, small, faults, pc, amount>>
    BY <1>12 DEF Execute, totals, locals
  <2> QED BY <2>1
<1> QED BY <1>1, <1>2, <1>3, <1>4, <1>5, <1>6, <1>7, <1>8, <1>9, <1>10, <1>11, <1>12 DEF Next, Poll, Exchange

\* Undisturbed, SOL is entered twice only through purchases below min_stake, for
\* any amounts and limits: a reward smaller than min_stake that arrives while a
\* purchase is measured included.
THEOREM NothingEnteredTwice == Spec => []AttributedOnce
<1>1. Init => Entered /\ Recorded
  BY DEF Init, Entered, Recorded, RecordsAreReal
<1>2. Typed /\ Recorded /\ Entered => AttributedOnce
  BY DEF Typed, TypeOK, Recorded, RecordsAreReal, Entered, AttributedOnce
<1> QED BY <1>1, <1>2, RecordedStep, EnteredStep, InitTyped, NextTyped, PTL DEF Spec

================================================================================
