------------------------------- MODULE Wallet -------------------------------
(***************************************************************************)
(* What the account scripts of the spot bot have in common: they sign      *)
(* requests against one exchange account and its subaccounts, one at a     *)
(* time, and decide the next ones from the balances they read some time    *)
(* ago.  A script is a sequence of stages; a stage is computed from what    *)
(* has been read and put in a queue of requests, and each request says      *)
(* what the script does when the exchange refuses it.  The stages of each   *)
(* script are in the modules Restock, Topup, Liquidate and Replenish.       *)
(*                                                                          *)
(* Amounts are in cents.  A base currency is counted in the amount of it    *)
(* that is worth one dollar, so one price is left: a dollar is Rate rand.   *)
(***************************************************************************)
EXTENDS Integers, Sequences, FiniteSets, SequencesExt

CONSTANTS
  Rate,       \* rand for a dollar
  Bot,        \* balances the trading bot may spend while a script runs
  MaxTroubles \* bound: requests lost or not carried out, and trades of the bot

Zar  == {"Z1", "Z2"}
Usdt == {"U1", "U2"}
Usdc == {"C1", "C2"}
Btc  == {"B1", "B2"}
Accounts   == {"main"} \cup Zar \cup Usdt \cup Usdc \cup Btc
Quotes     == {"ZAR", "USDT", "USDC"}
Bases      == {"BTC", "ETH", "XAUT", "JUP", "EURC"}
Currencies == Quotes \cup Bases

ASSUME WalletAssumption ==
  /\ Rate \in Nat \ {0} /\ MaxTroubles \in Nat
  /\ Bot \subseteq Accounts \X Currencies

VARIABLES
  script,     \* the script that runs
  held,       \* the balances it found
  bal,        \* exchange: balances
  seen,       \* balances as the script last read them, for what it has read
  old,        \* the same as of the end of its first stage
  dark,       \* pairs without a price in this run
  limitOnly,  \* pairs that take no market orders
  log,        \* what the bot's logs say of each pair
  stage, queue,
  faults, trades,
  refused,    \* currencies of refused requests
  idle,       \* answers that misled the script about what was carried out
  counted,    \* failures the script has counted
  exit        \* "no" while it runs, then its exit code

walletVars == <<script, held, bal, seen, old, dark, limitOnly, log, stage, queue, faults, trades,
                refused, idle, counted, exit>>

-----------------------------------------------------------------------------
(* Amounts. *)

D(n) == 100 * n
Less(a, b) == IF a < b THEN a ELSE b
Over(n)    == IF n > 0 THEN n ELSE 0
\* a * n / d in cents, without a large intermediate product.
Part(a, n, d) == (a \div d) * n + ((a % d) * n) \div d
InZar(n) == n * Rate
\* n of currency c in units of currency d.
Convert(n, c, d) == CASE c = "ZAR" /\ d # "ZAR" -> n \div Rate
                      [] c # "ZAR" /\ d = "ZAR" -> n * Rate
                      [] OTHER -> n
\* dict.get(currency, 0) of an account's balances.
Get(v, a, c) == IF c \in DOMAIN v[a] THEN v[a][c] ELSE 0
Unread == [c \in {} |-> 0]
Main(c) == Get(seen, "main", c)
Price(c, d) == <<c, d>> \notin dark
ByMarket(c, d) == <<c, d>> \notin limitOnly

-----------------------------------------------------------------------------
(* Requests.  "drop" is how many of the requests queued behind it a refusal *)
(* makes the script skip, "code" the exit code if it gives up instead.      *)

All == 99
Request(op, on, to, give, get, amount, drop, code) ==
  [op |-> op, on |-> on, to |-> to, give |-> give, get |-> get, amount |-> amount,
   drop |-> drop, code |-> code, counts |-> FALSE, ioc |-> FALSE, picky |-> FALSE]

\* A market order for an amount of what is given: SELL baseAmount, BUY quoteAmount.
Trade(a, give, get, amount) == Request("trade", a, a, give, get, amount, 0, "no")
\* A market order for an amount of what is bought: BUY baseAmount, SELL quoteAmount.
Want(a, give, get, amount)  == Request("want", a, a, give, get, amount, 0, "no")
Move(a, b, c, amount)       == Request("move", a, b, c, c, amount, 0, "no")
\* Read an account's balances: all of them, or "only" some of them.
Look(a)        == Request("look", a, a, Currencies, "", 0, All, "1")
LookFor(a, cs) == [Look(a) EXCEPT !.give = cs]
\* On a failed read: go on with what is known, or with an empty result.
Lenient(r) == [r EXCEPT !.drop = 0, !.code = "no"]
\* Mutant of Blank: the error is raised.
Raises(r) == [r EXCEPT !.drop = All, !.code = "blank"]
Blank(r) == [r EXCEPT !.drop = 0, !.code = "blank"]
\* On a refusal: skip n requests, or give up.
Else(r, n)        == [r EXCEPT !.drop = n]
Or(r, code)       == [r EXCEPT !.drop = All, !.code = code]
\* On a refusal: skip n requests and know nothing of the account any more.
Quits(r, n)       == [r EXCEPT !.drop = n, !.code = "forget"]
Counting(r)       == [r EXCEPT !.counts = TRUE]
\* The script takes HTTP 202 for a refusal.
Picky(r)          == [r EXCEPT !.picky = TRUE]
\* An immediate-or-cancel order, which may fill in part.
Ioc(r)            == [r EXCEPT !.ioc = TRUE]
Tick       == Request("tick", "main", "main", "ZAR", "ZAR", 0, 0, "no")
End(code)  == Request("end", "main", "main", "ZAR", "ZAR", 0, 0, code)
\* Pass over the next n stages, or the next n requests.
Jump(n)    == Request("jump", "main", "main", "ZAR", "ZAR", n, 0, "no")
Hop(n)     == Request("hop", "main", "main", "ZAR", "ZAR", 0, n, "no")

Each(s, Op(_)) == FlattenSeq([i \in DOMAIN s |-> Op(s[i])])
When(c, s)     == IF c THEN s ELSE <<>>
SumOf(s) ==
  LET upTo[n \in 0..Len(s)] == IF n = 0 THEN 0 ELSE upTo[n - 1] + s[n] IN upTo[Len(s)]
\* Mutant of Both: the first subaccount twice.
FirstTwice(subs, c, amount) == <<Move("main", subs[1], c, amount), Move("main", subs[1], c, amount)>>
\* Both subaccounts of a bucket get the same amount.
Both(subs, c, amount) == <<Move("main", subs[1], c, amount), Move("main", subs[2], c, amount)>>
ZarSubs  == <<"Z1", "Z2">>
UsdtSubs == <<"U1", "U2">>
UsdcSubs == <<"C1", "C2">>
BtcSubs  == <<"B1", "B2">>

\* A market and the two subaccounts that trade it.
Pair(base, quote, subs) == [base |-> base, quote |-> quote, subs |-> subs]
\* Mutant of Halves: the amounts are those of the first read, before the buys.
HalvesStale(p, n, d) == Both(p.subs, p.base, Part(Get(old, "main", p.base), n, 2 * d))
\* Halve what the main account was last seen to hold of a pair's base, for both
\* subaccounts; n/d of it in all.
Halves(p, n, d) == Both(p.subs, p.base, Part(Main(p.base), n, 2 * d))
\* The same for each pair, or for each of whose base it holds more than "least".
Split(pairs, n, d) == Each(pairs, LAMBDA p : Halves(p, n, d))
SplitHeld(pairs, least, n, d) == Each(pairs, LAMBDA p : When(Main(p.base) > least, Halves(p, n, d)))

-----------------------------------------------------------------------------
(* Carrying them out. *)

Pays(r) == IF r.op = "want" THEN Convert(r.amount, r.get, r.give) ELSE r.amount
Gets(r) == IF r.op = "want" THEN r.amount ELSE Convert(r.amount, r.give, r.get)
\* The exchange takes a positive amount the account has, for an account or on
\* a market that exists.
Takes(r) ==
  /\ r.amount > 0 /\ r.to \in Accounts /\ Pays(r) <= bal[r.on][r.give]
  /\ r.op # "move" => \A p \in {<<r.give, r.get>>, <<r.get, r.give>>} : p \notin dark \cup limitOnly
Pay(b, a, c, n) == [b EXCEPT ![a][c] = @ + n]
Carry(r, n) == Pay(Pay(bal, r.on, r.give, -Part(Pays(r), n, 2)), r.to, r.get, Part(Gets(r), n, 2))

Spends == {"trade", "want", "move"}
Running == exit = "no"
Lost    == faults + trades < MaxTroubles /\ faults' = faults + 1
Sound   == faults' = faults
Skip(r) == queue' = IF r.drop = All THEN <<End(r.code)>>
                    ELSE SubSeq(queue, 2 + r.drop, Len(queue))
Count(r) == counted' = counted + (IF r.counts THEN 1 ELSE 0)

\* The request is carried out; where the script insists on status 200 it may
\* hear 202 and take the request for refused.
Accepted ==
  /\ Running /\ queue # <<>> /\ Head(queue).op \in Spends
  /\ LET r == Head(queue) IN
     /\ Takes(r) /\ bal' = Carry(r, 2)
     /\ \/ queue' = Tail(queue) /\ UNCHANGED <<counted, idle>>
        \/ r.picky /\ Skip(r) /\ Count(r) /\ idle' = idle + 1
  /\ UNCHANGED <<script, held, seen, old, dark, limitOnly, log, stage, faults, trades, refused, exit>>

\* Status 202, and nothing or half of it happens.
AcceptedOnly ==
  /\ Running /\ queue # <<>> /\ Head(queue).op \in Spends /\ Lost
  /\ Takes(Head(queue)) /\ ~Head(queue).picky
  /\ \E n \in {0} \cup (IF Head(queue).ioc THEN {1} ELSE {}) : bal' = Carry(Head(queue), n)
  /\ queue' = Tail(queue) /\ idle' = idle + 1
  /\ UNCHANGED <<script, held, seen, old, dark, limitOnly, log, stage, trades, refused, counted, exit>>

Refused ==
  /\ Running /\ queue # <<>> /\ Head(queue).op \in Spends
  /\ LET r == Head(queue) IN
     /\ IF Takes(r) THEN Lost ELSE Sound
     /\ refused' = refused \cup {r.give} /\ Skip(r) /\ Count(r)
     /\ seen' = IF r.code = "forget" THEN [seen EXCEPT ![r.on] = Unread] ELSE seen
  /\ UNCHANGED <<script, held, bal, old, dark, limitOnly, log, stage, trades, idle, exit>>

\* GET /v1/account/balances.
Looked ==
  /\ Running /\ queue # <<>> /\ Head(queue).op = "look"
  /\ LET r == Head(queue)  known == DOMAIN seen[r.on] \cup r.give IN
     \/ /\ Sound /\ queue' = Tail(queue)
        /\ seen' = [seen EXCEPT ![r.on] =
                     [c \in known |-> IF c \in r.give THEN bal[r.on][c] ELSE seen[r.on][c]]]
     \/ /\ Lost /\ Skip(r)
        /\ seen' = IF r.code = "blank"
                   THEN [seen EXCEPT ![r.on] = [c \in DOMAIN seen[r.on] \ r.give |-> seen[r.on][c]]]
                   ELSE seen
  /\ UNCHANGED <<script, held, bal, old, dark, limitOnly, log, stage, trades, refused, idle, counted, exit>>

\* A failure of the script's own making, a branch not taken, and the end.
Ends ==
  /\ Running /\ queue # <<>> /\ Head(queue).op \in {"tick", "jump", "hop", "end"}
  /\ queue' = SubSeq(queue, 2 + Head(queue).drop, Len(queue))
  /\ counted' = counted + (IF Head(queue).op = "tick" THEN 1 ELSE 0)
  /\ stage' = stage + (IF Head(queue).op = "jump" THEN Head(queue).amount ELSE 0)
  /\ exit' = Head(queue).code
  /\ UNCHANGED <<script, held, bal, seen, old, dark, limitOnly, log, faults, trades, refused, idle>>

\* The bot spends half of a balance of its own accord.
BotSpends ==
  /\ Running /\ faults + trades < MaxTroubles /\ trades' = trades + 1
  /\ \E m \in Bot : bal[m[1]][m[2]] > 0 /\ bal' = [bal EXCEPT ![m[1]][m[2]] = @ \div 2]
  /\ UNCHANGED <<script, held, seen, old, dark, limitOnly, log, stage, queue, faults, refused, idle, counted, exit>>

\* The next stage of the script.
Advance(plan) ==
  /\ Running /\ queue = <<>> /\ queue' = plan
  /\ stage' = stage + 1 /\ old' = IF stage = 1 THEN seen ELSE old
  /\ UNCHANGED <<script, held, bal, seen, dark, limitOnly, log, faults, trades, refused, idle, counted, exit>>

WalletStep == Accepted \/ AcceptedOnly \/ Refused \/ Looked \/ Ends \/ BotSpends

WalletInit ==
  /\ bal = held /\ seen = [a \in Accounts |-> Unread] /\ old = seen
  /\ stage = 0 /\ queue = <<>> /\ faults = 0 /\ trades = 0
  /\ refused = {} /\ idle = 0 /\ counted = 0 /\ exit = "no"

-----------------------------------------------------------------------------

\* Nobody and nothing interfered with the script.
Quiet == faults = 0 /\ trades = 0
Ended == exit # "no"
=============================================================================
