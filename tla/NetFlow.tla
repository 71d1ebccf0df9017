------------------------------ MODULE NetFlow -------------------------------
(***************************************************************************)
(* The daily and monthly net-flow reports (src/bots/balance-report).       *)
(*                                                                         *)
(* A cron job takes a snapshot of every account, classifies the            *)
(* transactions since the previous snapshot, and writes two files: the     *)
(* balance ledger and then the flow ledger.  The accounts go on trading    *)
(* while it runs, a fetch may fail, the job may be killed between the two  *)
(* writes, skipped for days, or run again on the same day.                 *)
(*                                                                         *)
(* A moment is the number of transactions made before it.  Amounts are in  *)
(* the reference currency; what an account is worth also moves with        *)
(* prices, which no transaction shows.                                     *)
(***************************************************************************)
EXTENDS Integers, FiniteSets, Sequences

CONSTANTS
  N,          \* accounts 1..N, in the order of get_subaccounts
  Days,       \* the days modelled are 1..Days
  Kinds,      \* which account makes transactions of which type, besides transfers
  Gap,        \* days a snapshot may be old (36 h: 1, for jobs at one hour of the day)
  MaxTx, MaxMoves, MaxOutages   \* bounds of the environment

ASSUME NetFlowAssumption ==
  /\ N \in Nat \ {0} /\ Days \in Nat \ {0} /\ Gap \in Nat
  /\ Kinds \subseteq (1..N) \X {"EXTERNAL_IN", "EXTERNAL_OUT", "TRADE", "REWARD", "INTEREST"}
  /\ MaxTx \in Nat /\ MaxMoves \in Nat /\ MaxOutages \in Nat

VARIABLES
  worth,      \* what each account is worth
  history,    \* the transactions of all accounts, oldest first
  moved,      \* history: what prices added to the accounts so far
  today,
  midnight,   \* the moment of the last midnight
  balances,   \* balances.json: the snapshot of a day, or None
  flows,      \* net_flows.json: the entry of a day, or None
  run,        \* locals of the running job, or None
  fetched,    \* AccountSnapshot per account of the running job
  outages, torn   \* failed fetches and kills; was a kill between the writes

world == <<worth, history, moved>>
reportVars  == <<world, today, midnight, balances, flows, run, fetched, outages, torn>>

Reported == 1..N
None     == <<>>
SumTo(f, n) == LET s[i \in 0..n] == IF i = 0 THEN 0 ELSE s[i - 1] + f[i] IN s[n]
Total(f) == SumTo(f, N)

\* classify_transactions: what a transaction adds to the external flow and to
\* the net fee effect.  A transfer shows on both of its accounts; a type none
\* of the sets names adds nothing.
Contribution == [EXTERNAL_IN  |-> [external |->  1, net |->  0],
           EXTERNAL_OUT |-> [external |-> -1, net |->  0],
           CREDITED     |-> [external |->  1, net |->  0],
           DEBITED      |-> [external |-> -1, net |->  0],
           TRADE        |-> [external |->  0, net |-> -1],
           REWARD       |-> [external |->  0, net |->  1],
           INTEREST     |-> [external |->  0, net |-> -1]]

Types == DOMAIN Contribution
Worth(type) == Contribution[type].external + Contribution[type].net

\* The transactions of account a after moment s, up to moment e.
Window(a, s, e) == {i \in s+1..e : history[i].account = a}
AddUp(S, field) ==
  SumTo([i \in 1..Len(history) |-> IF i \in S THEN Contribution[history[i].type][field] ELSE 0],
        Len(history))

\* Everyone's transactions in the window, as the job would add them up.
Flow(s, e, field) == AddUp(s+1..e, field)

Snapshot == [rows : [Reported -> Int], moment : Nat]
Entry    == [previous : 0..Days, start : Nat, end : Nat, total : Int, delta : Int, first : BOOLEAN,
             external : Int, net : Int, inventory : Int, prices : Int, clean : BOOLEAN]
Job      == [day : 1..Days, now : Nat, start : Nat, previous : 0..Days, total : Int,
             account : 1..N+1, step : {"balance", "transactions", "balances", "flows"},
             clean : BOOLEAN]
Account  == [balance : Int, external : Int, net : Int]

LedgersTypeOK ==
  /\ worth \in [Reported -> Int] /\ moved \in Int
  /\ history \in Seq([account : Reported, type : Types])
  /\ today \in 1..Days /\ midnight \in 0..Len(history)
  /\ balances \in [1..Days -> Snapshot \cup {None}]
  /\ flows \in [1..Days -> Entry \cup {None}]
  /\ run \in Job \cup {None}
  /\ run # None => (run.account = N + 1 <=> run.step \in {"balances", "flows"})
  /\ fetched \in [Reported -> Account]
  /\ outages \in Nat /\ torn \in BOOLEAN

Empty == [a \in Reported |-> [balance |-> 0, external |-> 0, net |-> 0]]

ReportInit ==
  /\ worth = [a \in Reported |-> 0] /\ history = <<>> /\ moved = 0
  /\ today = 1 /\ midnight = 0
  /\ balances = [d \in 1..Days |-> None] /\ flows = [d \in 1..Days |-> None]
  /\ run = None /\ fetched = Empty
  /\ outages = 0 /\ torn = FALSE

-----------------------------------------------------------------------------
(* The accounts, and the time.  A transaction during a job makes it unclean. *)

Disturbed == IF run = None THEN None ELSE [run EXCEPT !.clean = FALSE]

Transact(a, type) ==
  /\ Len(history) < MaxTx
  /\ history' = Append(history, [account |-> a, type |-> type])
  /\ worth' = [worth EXCEPT ![a] = @ + Worth(type)]
  /\ run' = Disturbed
  /\ UNCHANGED <<moved, today, midnight, balances, flows, fetched, outages, torn>>

TransferBetween(a, b) ==
  /\ a # b /\ Len(history) + 1 < MaxTx
  /\ history' = history \o <<[account |-> a, type |-> "DEBITED"], [account |-> b, type |-> "CREDITED"]>>
  /\ worth' = [worth EXCEPT ![a] = @ - 1, ![b] = @ + 1]
  /\ run' = Disturbed
  /\ UNCHANGED <<moved, today, midnight, balances, flows, fetched, outages, torn>>

PriceMoves(a) ==
  /\ moved < MaxMoves
  /\ moved' = moved + 1
  /\ worth' = [worth EXCEPT ![a] = @ + 1]
  /\ run' = Disturbed
  /\ UNCHANGED <<history, today, midnight, balances, flows, fetched, outages, torn>>

\* Midnight, which no job runs across.
Midnight ==
  /\ run = None /\ today < Days
  /\ today' = today + 1
  /\ midnight' = Len(history)
  /\ UNCHANGED <<world, balances, flows, run, fetched, outages, torn>>

-----------------------------------------------------------------------------
(* The job.                                                                *)

\* Mutant of PreviousSnapshot: the snapshot of the day itself counts.
LatestSnapshot(d) == {p \in 1..d : balances[p] # None /\ \A q \in p+1..d : balances[q] = None}

\* previous_snapshot: the latest day before d that has one.
PreviousSnapshot(d) ==
  {p \in 1..d-1 : balances[p] # None /\ \A q \in p+1..d-1 : balances[q] = None}

FreshEnough(p) == today - p <= Gap

\* main: both ledgers are read, and the period begins at the previous snapshot,
\* or at midnight when there is none or it is too old.
Begin ==
  /\ run = None
  /\ LET P == {p \in PreviousSnapshot(today) : FreshEnough(p)} IN
     run' = IF P = {}
            THEN [day |-> today, now |-> Len(history), start |-> midnight,
                  previous |-> 0, total |-> 0,
                  account |-> 1, step |-> "balance", clean |-> TRUE]
            ELSE LET p == CHOOSE q \in P : TRUE IN
                 [day |-> today, now |-> Len(history), start |-> balances[p].moment,
                  previous |-> p, total |-> Total(balances[p].rows),
                  account |-> 1, step |-> "balance", clean |-> TRUE]
  /\ fetched' = Empty
  /\ UNCHANGED <<world, today, midnight, balances, flows, outages, torn>>

At(step) == run # None /\ run.step = step

\* snapshot_accounts: the balance of the next account; one that cannot be
\* fetched is stored as null and counts as nothing.
FetchBalance ==
  /\ At("balance")
  /\ \/ /\ fetched' = [fetched EXCEPT ![run.account].balance = worth[run.account]]
        /\ run' = [run EXCEPT !.step = "transactions"] /\ UNCHANGED outages
     \/ /\ outages < MaxOutages /\ outages' = outages + 1
        /\ run' = [run EXCEPT !.step = "transactions", !.clean = FALSE] /\ UNCHANGED fetched
  /\ UNCHANGED <<world, today, midnight, balances, flows, torn>>

\* Mutant of NextAccount: one account too many.
OneMoreAccount(r) ==
  IF r.account > N THEN [r EXCEPT !.step = "balances"]
                   ELSE [r EXCEPT !.account = @ + 1, !.step = "balance"]

NextAccount(r) ==
  IF r.account = N THEN [r EXCEPT !.account = N + 1, !.step = "balances"]
                   ELSE [r EXCEPT !.account = @ + 1, !.step = "balance"]

\* Mutant of PeriodEnd: up to the call instead of up to the start of the job.
UpToTheCall == Len(history)

PeriodEnd == run.now

\* ... and its transactions of the period; if they cannot be fetched the
\* components stay empty.
FetchTransactions ==
  /\ At("transactions")
  /\ LET W == Window(run.account, run.start, PeriodEnd) IN
     \/ /\ fetched' = [fetched EXCEPT ![run.account].external = AddUp(W, "external"),
                                      ![run.account].net = AddUp(W, "net")]
        /\ run' = NextAccount(run) /\ UNCHANGED outages
     \/ /\ outages < MaxOutages /\ outages' = outages + 1
        /\ run' = [NextAccount(run) EXCEPT !.clean = FALSE] /\ UNCHANGED fetched
  /\ UNCHANGED <<world, today, midnight, balances, flows, torn>>

Sum(field) == Total([a \in Reported |-> fetched[a][field]])

\* aggregate_components and the entry of the day.
DayEntry ==
  LET delta == IF run.previous = 0 THEN 0 ELSE Sum("balance") - run.total IN
  [previous |-> run.previous, start |-> run.start, end |-> run.now,
   total |-> Sum("balance"), first |-> run.previous = 0, delta |-> delta,
   external |-> Sum("external"), net |-> Sum("net"),
   inventory |-> IF run.previous = 0 THEN 0 ELSE delta - Sum("external") - Sum("net"),
   prices |-> moved, clean |-> run.clean]

\* Mutant of SaveBalances: the first snapshot of a day stays.
KeepsFirstSnapshot ==
  /\ At("balances")
  /\ balances' = [balances EXCEPT ![run.day] =
       IF @ # None THEN @
       ELSE [rows |-> [a \in Reported |-> fetched[a].balance], moment |-> run.now]]
  /\ run' = [run EXCEPT !.step = "flows"]
  /\ UNCHANGED <<world, today, midnight, flows, fetched, outages, torn>>

\* write_daily_ledgers: the snapshot takes the place of an earlier one of the day,
SaveBalances ==
  /\ At("balances")
  /\ balances' = [balances EXCEPT ![run.day] =
       [rows |-> [a \in Reported |-> fetched[a].balance], moment |-> run.now]]
  /\ run' = [run EXCEPT !.step = "flows"]
  /\ UNCHANGED <<world, today, midnight, flows, fetched, outages, torn>>

\* and then so does the entry.
SaveFlows ==
  /\ At("flows")
  /\ flows' = [flows EXCEPT ![run.day] = DayEntry]
  /\ run' = None /\ fetched' = Empty
  /\ UNCHANGED <<world, today, midnight, balances, outages, torn>>

Kill ==
  /\ run # None /\ outages < MaxOutages
  /\ outages' = outages + 1
  /\ torn' = (torn \/ run.step = "flows")
  /\ run' = None /\ fetched' = Empty
  /\ UNCHANGED <<world, today, midnight, balances, flows>>

ReportNext ==
  \/ \E k \in Kinds : Transact(k[1], k[2])
  \/ \E a \in Reported :
       \/ \E b \in Reported : TransferBetween(a, b)
       \/ PriceMoves(a)
  \/ Midnight \/ Begin \/ FetchBalance \/ FetchTransactions \/ SaveBalances \/ SaveFlows \/ Kill

ReportSpec == ReportInit /\ [][ReportNext]_reportVars
-----------------------------------------------------------------------------
(* The monthly report: compile_month over the days of a month.             *)

Recorded(D) == {d \in D : flows[d] # None}
FirstOf(D)  == CHOOSE d \in Recorded(D) : \A e \in Recorded(D) : d <= e
LastOf(D)   == CHOOSE d \in Recorded(D) : \A e \in Recorded(D) : e <= d

\* The opening total is the previous snapshot's, which the first entry names;
\* without one the report fails.
Compiles(D) == Recorded(D) # {} /\ ~flows[FirstOf(D)].first

\* Mutant of Opening: the first day's own total.
FirstTotal(D) == flows[FirstOf(D)].total

Opening(D) == Total(balances[flows[FirstOf(D)].previous].rows)

AddDays(D, field) ==
  SumTo([d \in 1..Days |-> IF d \in Recorded(D) THEN flows[d][field] ELSE 0], Days)

MonthInventory(D) ==
  (flows[LastOf(D)].total - Opening(D)) - AddDays(D, "external") - AddDays(D, "net")

-----------------------------------------------------------------------------
(* Properties.                                                             *)

\* No transaction is in the entries of two days, whatever failed, however often
\* the job ran on a day and however many days it was skipped: the periods of
\* different days are disjoint (main, previous_snapshot, write_daily_ledgers).
NeverCountedTwice ==
  \A d, e \in 1..Days : d < e /\ flows[d] # None /\ flows[e] # None =>
    flows[d].end <= flows[e].start

\* The entry that names a predecessor begins where that one ends, and its delta
\* starts from that one's total, unless a kill separated the two ledgers: then
\* the snapshot of a day is newer than its entry and the next day skips what
\* lies between.
Contiguous ==
  ~torn =>
    \A e \in 1..Days : flows[e] # None /\ ~flows[e].first =>
      LET d == flows[e].previous IN
      /\ flows[d] # None
      /\ flows[e].start = flows[d].end
      /\ flows[e].total - flows[e].delta = flows[d].total

\* What the accounts earned and paid is in the ledger: unless something failed
\* the components are those of every transaction of the period, also of one
\* made while the job ran; and between two entries made while nothing moved the
\* inventory movement is what prices did.
InventoryIsPrices ==
  outages = 0 =>
    \A e \in 1..Days : flows[e] # None =>
      LET f == flows[e] IN
      /\ f.external = Flow(f.start, f.end, "external")
      /\ f.net = Flow(f.start, f.end, "net")
      /\ ~f.first /\ f.clean /\ flows[f.previous].clean =>
           f.inventory = f.prices - flows[f.previous].prices

\* The month's inventory movement is the sum of its days', failed fetches
\* included, as long as every day of it but the first found its predecessor
\* and no kill separated the ledgers (compile_month).
MonthIsItsDays ==
  ~torn =>
    \A a, b \in 1..Days :
      LET D == a..b IN
      Compiles(D) /\ (\A d \in Recorded(D) : ~flows[d].first) =>
        MonthInventory(D) = AddDays(D, "inventory")

\* The ledgers of successive days form a chain that counts nothing twice, what
\* they hold is what happened, and a month is its days.
LedgersChain == LedgersTypeOK /\ NeverCountedTwice /\ Contiguous /\ InventoryIsPrices /\ MonthIsItsDays
=============================================================================
