--------------------------- MODULE ClosePositions ---------------------------
(***************************************************************************)
(* The four scripts that close positions by hand:                          *)
(*   crossing   cm-bot-v2/scripts/close_all_positions.py                   *)
(*   sweeping   cm-bot-v2/scripts/close_positions.py                       *)
(*   resting    cm-bot-v2/scripts/close_positions_reduceonly.py            *)
(*   bybit      bybit-trading/close-position.py                            *)
(* They read positions, then place one closing order for each of them,     *)
(* while the trading bot they are run against may still own open orders    *)
(* and go on trading.  A position is long above zero and short below it;   *)
(* the exchange answers a side and an unsigned quantity.                   *)
(***************************************************************************)
EXTENDS Integers, FiniteSets

CONSTANTS
  Pairs,      \* pairs traded; bybit has one SYMBOL
  Held,       \* what an account may hold at the start
  MaxTrades,  \* bound: trades of the bot while the script runs
  MaxFaults   \* bound: requests that fail

ASSUME CloseAssumption ==
  /\ Pairs # {} /\ IsFiniteSet(Pairs) /\ Held \subseteq [Pairs -> Int]
  /\ MaxTrades \in Nat /\ MaxFaults \in Nat

VARIABLES
  closer,     \* the script that runs
  position,   \* exchange: the position of an account in a pair
  book,       \* exchange: open limit orders
  at,         \* what the script does next
  turn,       \* the account it works on
  left,       \* pairs of this loop not handled yet
  seen,       \* the positions it has read
  waits,      \* close_positions: was a cancellation counted, so that it waits
  bad,        \* orders counted as failed
  said,       \* the verdict it printed
  trades, failures, thin, \* bot trades, failed requests, orders not fully filled
  stale,      \* history: a position moved by itself since it was read
  rushed      \* history: positions were read with a cancellation pending

exchange == <<position, book>>
closeVars == <<closer, position, book, at, turn, left, seen, waits, bad, said,
               trades, failures, thin, stale, rushed>>

Closers == {"crossing", "sweeping", "resting", "bybit"}
FuturesAccounts == {"CM1", "CM2"}
Holders(s)  == IF s = "bybit" THEN {"CM1"} ELSE FuturesAccounts
Flat    == [p \in Pairs |-> 0]
Away(n) == IF n < 0 THEN -n ELSE n
Sign(n) == IF n > 0 THEN 1 ELSE IF n < 0 THEN -1 ELSE 0

\* An open order moves its account by "delta" at most.  Only the bot's orders
\* and the resting close orders are ever on the book.
Order(a, p, d, mine) == [account |-> a, pair |-> p, delta |-> d, mine |-> mine, gone |-> FALSE]
Orders == [account : FuturesAccounts, pair : Pairs, delta : Int, mine : BOOLEAN, gone : BOOLEAN]
BotOrders == {o \in book : ~o.mine}

\* Mutant of ReduceOnly: the resting orders lack the flag.
BybitOnly == {"bybit"}
\* reduceOnly in the order bodies of the scripts.
ReduceOnly == {"resting", "bybit"}
\* What an order of delta d may still do to a position of n.
Reducing(d, n) == IF Sign(d) = Sign(n) \/ n = 0 THEN 0
                  ELSE Sign(d) * (IF Away(d) < Away(n) THEN Away(d) ELSE Away(n))
\* The same for a script's order, by its reduceOnly flag.
Effect(d, n) == IF closer \in ReduceOnly THEN Reducing(d, n) ELSE d

ClInit ==
  /\ closer \in Closers
  /\ position \in [FuturesAccounts -> Held]
  /\ closer = "bybit" => position["CM2"] = position["CM1"]
  /\ \E a \in Holders(closer), p \in Pairs, d \in {-1, 1} : book \in {{}, {Order(a, p, d, FALSE)}}
  /\ at = "start" /\ turn = "CM1" /\ left = Pairs
  /\ seen = [a \in FuturesAccounts |-> Flat]
  /\ waits = FALSE /\ bad = 0 /\ said = "nothing"
  /\ trades = 0 /\ failures = 0 /\ thin = FALSE /\ stale = FALSE /\ rushed = FALSE

-----------------------------------------------------------------------------
(* The exchange and the bot, at any moment.  *)

Moves(a, p, d) == position' = [position EXCEPT ![a][p] = @ + d]

\* The bot trades at the market, or one of its orders is hit.
BotTrades ==
  /\ trades < MaxTrades
  /\ \E a \in Holders(closer), p \in Pairs, d \in {-1, 1} :
       Moves(a, p, d)
  /\ trades' = trades + 1 /\ stale' = TRUE
  /\ UNCHANGED <<closer, book, at, turn, left, seen, waits, bad, said, failures, thin, rushed>>

BotFills ==
  /\ \E o \in BotOrders : Moves(o.account, o.pair, o.delta) /\ book' = book \ {o}
  /\ stale' = TRUE
  /\ UNCHANGED <<closer, at, turn, left, seen, waits, bad, said, trades, failures, thin, rushed>>

\* The market takes one unit of a resting close order; reduceOnly orders that
\* have nothing left to reduce are dropped by the exchange.
CloseFills ==
  /\ \E o \in book : LET d == Effect(Sign(o.delta), position[o.account][o.pair]) IN
       /\ o.mine
       /\ Moves(o.account, o.pair, d)
       /\ book' = IF d = 0 \/ o.delta = d THEN book \ {o}
                  ELSE (book \ {o}) \cup {[o EXCEPT !.delta = @ - d]}
  /\ UNCHANGED <<closer, at, turn, left, seen, waits, bad, said, trades, failures, thin, stale, rushed>>

\* A cancellation that was accepted takes effect.
CancelSettles ==
  /\ \E o \in book : o.gone /\ book' = book \ {o}
  /\ UNCHANGED <<closer, position, at, turn, left, seen, waits, bad, said, trades, failures, thin, stale, rushed>>

-----------------------------------------------------------------------------
(* The scripts. *)

Fails   == failures < MaxFaults /\ failures' = failures + 1
Answers == failures' = failures
NextTurn == IF turn = "CM1" /\ "CM2" \in Holders(closer) THEN "CM2" ELSE turn

\* get_open_positions: a failed request reads as an account without positions.
Read(a) == \/ Answers /\ seen' = [seen EXCEPT ![a] = position[a]]
           \/ Fails   /\ seen' = [seen EXCEPT ![a] = Flat]

\* Mutant of ReadBoth: one account without positions is enough to stop.
StopsIfEither ==
  /\ at = "start" /\ closer \in {"crossing", "resting"}
  /\ Read(turn)
  /\ stale' = (stale /\ turn = "CM2")
  /\ IF turn = "CM1" THEN turn' = "CM2" /\ UNCHANGED <<at, said>>
     ELSE /\ turn' = "CM1"
          /\ IF \E a \in Holders(closer) : seen'[a] = Flat
             THEN at' = "end" /\ said' = "none"
             ELSE at' = "close" /\ UNCHANGED said
  /\ UNCHANGED <<closer, position, book, left, waits, bad, trades, thin, rushed>>

\* main of close_all_positions and close_positions_reduceonly: both accounts
\* are read before anything is placed.
ReadBoth ==
  /\ at = "start" /\ closer \in {"crossing", "resting"}
  /\ Read(turn)
  /\ stale' = (stale /\ turn = "CM2")
  /\ IF turn = "CM1" THEN turn' = "CM2" /\ UNCHANGED <<at, said>>
     ELSE /\ turn' = "CM1"
          /\ IF \A a \in Holders(closer) : seen'[a] = Flat
             THEN at' = "end" /\ said' = "none"
             ELSE at' = "close" /\ UNCHANGED said
  /\ UNCHANGED <<closer, position, book, left, waits, bad, trades, thin, rushed>>

\* Mutant of CancelPair: only the sells are cancelled.
CancelSells ==
  /\ at = "start" /\ closer = "sweeping" /\ left # {}
  /\ \E p \in left :
       /\ left' = left \ {p}
       /\ LET open == {o \in book : o.account = turn /\ o.pair = p /\ o.delta < 0} IN
          \/ Fails /\ UNCHANGED <<book, waits>>
          \/ /\ Answers
             /\ book' = (book \ open) \cup {[o EXCEPT !.gone = TRUE] : o \in open}
             /\ waits' \in IF open = {} THEN {waits} ELSE {TRUE, waits}
  /\ UNCHANGED <<closer, position, at, turn, seen, bad, said, trades, thin, stale, rushed>>

\* cancel_open_orders: the open orders of one pair, cancelled one by one.  A
\* failed listing is skipped.  api_delete reads the answer twice and so counts
\* as cancelled only what was answered with an empty body.
CancelPair ==
  /\ at = "start" /\ closer = "sweeping" /\ left # {}
  /\ \E p \in left :
       /\ left' = left \ {p}
       /\ LET open == {o \in book : o.account = turn /\ o.pair = p} IN
          \/ Fails /\ UNCHANGED <<book, waits>>
          \/ /\ Answers
             /\ book' = (book \ open) \cup {[o EXCEPT !.gone = TRUE] : o \in open}
             /\ waits' \in IF open = {} THEN {waits} ELSE {TRUE, waits}
  /\ UNCHANGED <<closer, position, at, turn, seen, bad, said, trades, thin, stale, rushed>>

\* process_account after the cancellations: one second for them to settle, if
\* any was counted, and then the positions.
ReadAfterCancel ==
  /\ at = "start" /\ closer = "sweeping" /\ left = {}
  /\ waits => \A o \in book : ~(o.gone /\ o.account = turn)
  /\ rushed' = (rushed \/ \E o \in book : o.gone /\ o.account = turn)
  /\ stale' = FALSE /\ left' = Pairs
  /\ \/ Answers /\ seen' = [seen EXCEPT ![turn] = position[turn]] /\ at' = "close"
        /\ UNCHANGED <<turn, waits, said>>
     \/ /\ Fails /\ waits' = FALSE /\ UNCHANGED seen   \* this account is left as it is
        /\ turn' = NextTurn
        /\ at'   = IF turn' = turn THEN "end" ELSE "start"
        /\ said' = IF turn' = turn THEN "done" ELSE said
  /\ UNCHANGED <<closer, position, book, bad, trades, thin>>

\* main of close-position: the position is read before the orders are
\* cancelled; a refused cancel-all is reported and ignored.
ReadBybit ==
  /\ at = "start" /\ closer = "bybit"
  /\ Read("CM1") /\ stale' = FALSE /\ at' = "cancel"
  /\ UNCHANGED <<closer, position, book, turn, left, waits, bad, said, trades, thin, rushed>>

CancelAll ==
  /\ at = "cancel"
  /\ \/ Answers /\ book' = {}
     \/ Fails /\ UNCHANGED book
  /\ at' = IF seen["CM1"] = Flat THEN "end" ELSE "close"
  /\ UNCHANGED <<closer, position, turn, left, seen, waits, bad, said, trades, thin, stale, rushed>>

\* The order body of each script: the side against the position, the quantity
\* that was read.
CloseDelta(a, p) == -seen[a][p]

\* An IOC or market order of delta d: the market takes what it has.
Immediate(a, p, d) ==
  LET most == Effect(d, position[a][p]) IN
  /\ \E part \in 0..Away(most) :
       Moves(a, p, Sign(most) * part) /\ thin' = (thin \/ part < Away(d))
  /\ UNCHANGED book

\* A GTC order at the mid price rests.
Resting(a, p, d) ==
  /\ book' = book \cup {Order(a, p, d, TRUE)}
  /\ UNCHANGED <<position, thin>>

\* Mutant of ClosePosition: a refused order is counted twice.
CountsTwice ==
  /\ at = "close"
  /\ \E p \in left :
       /\ seen[turn][p] # 0
       /\ left' = left \ {p}
       /\ LET d == CloseDelta(turn, p)
              Placed == IF closer = "resting" THEN Resting(turn, p, d) ELSE Immediate(turn, p, d) IN
          \/ Answers /\ Placed /\ bad' = bad
          \/ Fails /\ bad' = bad + 2 /\ UNCHANGED <<exchange, thin>>
          \/ Fails /\ bad' = bad + 1 /\ Placed
  /\ UNCHANGED <<closer, at, turn, seen, waits, said, trades, stale, rushed>>

\* close_position of the three scripts: an unreadable price or a refused order
\* is counted; an order may also be accepted and its answer lost.
ClosePosition ==
  /\ at = "close"
  /\ \E p \in left :
       /\ seen[turn][p] # 0
       /\ left' = left \ {p}
       /\ LET d == CloseDelta(turn, p)
              Placed == IF closer = "resting" THEN Resting(turn, p, d) ELSE Immediate(turn, p, d) IN
          \/ Answers /\ Placed /\ bad' = bad
          \/ Fails /\ bad' = bad + 1 /\ UNCHANGED <<exchange, thin>>
          \/ Fails /\ bad' = bad + 1 /\ Placed
  /\ UNCHANGED <<closer, at, turn, seen, waits, said, trades, stale, rushed>>

\* What the scripts print at the end.
Verdict == CASE closer = "crossing" -> "closed"
             [] closer = "resting"  -> IF bad = 0 THEN "closed" ELSE "nothing"
             [] closer = "sweeping" -> "done"
             [] OTHER -> "nothing"

\* Mutant of EndAccount: the second account starts with nothing to handle.
NoReset ==
  /\ at = "close" /\ closer # "bybit"
  /\ \A p \in left : seen[turn][p] = 0
  /\ turn' = NextTurn
  /\ left' = left /\ waits' = FALSE
  /\ IF turn' = turn THEN at' = "end" /\ said' = Verdict
     ELSE at' = (IF closer = "sweeping" THEN "start" ELSE "close") /\ UNCHANGED said
  /\ UNCHANGED <<closer, position, book, seen, bad, trades, failures, thin, stale, rushed>>

\* close_all_positions, close_all_for_account and the loop of process_account:
\* positions read as zero are passed over, then the other account follows.
EndAccount ==
  /\ at = "close" /\ closer # "bybit"
  /\ \A p \in left : seen[turn][p] = 0
  /\ turn' = NextTurn
  /\ left' = Pairs /\ waits' = FALSE
  /\ IF turn' = turn THEN at' = "end" /\ said' = Verdict
     ELSE at' = (IF closer = "sweeping" THEN "start" ELSE "close") /\ UNCHANGED said
  /\ UNCHANGED <<closer, position, book, seen, bad, trades, failures, thin, stale, rushed>>

\* Mutant of CheckBybit: an accepted order is a closed position.
AcceptedIsClosed ==
  /\ at = "close" /\ closer = "bybit" /\ \A p \in left : seen[turn][p] = 0
  /\ Answers /\ UNCHANGED seen
  /\ IF bad > 0 THEN UNCHANGED said ELSE said' = "closed"
  /\ at' = "end"
  /\ UNCHANGED <<closer, position, book, turn, left, waits, bad, trades, thin, stale, rushed>>

\* close-position reads the position again two seconds after the order.
CheckBybit ==
  /\ at = "close" /\ closer = "bybit" /\ \A p \in left : seen[turn][p] = 0
  /\ IF bad > 0 THEN Answers /\ UNCHANGED <<seen, said>>
     ELSE Read("CM1") /\ said' = IF seen'["CM1"] = Flat THEN "closed" ELSE "open"
  /\ at' = "end"
  /\ UNCHANGED <<closer, position, book, turn, left, waits, bad, trades, thin, stale, rushed>>

ClSteps == \/ ReadBoth \/ CancelPair \/ ReadAfterCancel \/ ReadBybit \/ CancelAll
           \/ ClosePosition \/ EndAccount \/ CheckBybit
ClNext == ClSteps \/ (at # "end" /\ (BotTrades \/ BotFills)) \/ CloseFills \/ CancelSettles

ClSpec == ClInit /\ [][ClNext]_closeVars

-----------------------------------------------------------------------------

\* Type invariant: positions and readings are whole units, and the book holds
\* orders of these accounts.
CloseTypeOK ==
  /\ closer \in Closers /\ position \in [FuturesAccounts -> [Pairs -> Int]]
  /\ book \subseteq Orders /\ at \in {"start", "cancel", "close", "end"}
  /\ turn \in Holders(closer) /\ left \subseteq Pairs
  /\ seen \in [FuturesAccounts -> [Pairs -> Int]]
  /\ waits \in BOOLEAN /\ said \in {"nothing", "none", "done", "closed", "open"}
  /\ bad \in 0..MaxFaults /\ trades \in 0..MaxTrades /\ failures \in 0..MaxFaults
  /\ thin \in BOOLEAN /\ stale \in BOOLEAN /\ rushed \in BOOLEAN

\* What a script does to a position brings it nearer to zero and never past
\* it: always for the reduceOnly orders, whatever the bot traded since the
\* position was read, and for the IOC orders as long as it did not.
TowardsFlat ==
  [][(ClSteps \/ CloseFills) /\ (closer \in {"resting", "bybit"} \/ ~stale)
     => \A a \in FuturesAccounts, p \in Pairs :
          /\ Away(position'[a][p]) <= Away(position[a][p])
          /\ Sign(position'[a][p]) \in {0, Sign(position[a][p])}]_closeVars

\* close_positions leaves neither a position nor an order behind when the bot
\* is stopped, no request fails, the market takes the orders in full and the
\* cancellations settled before the positions were read: its two steps are in
\* the right order (README: the wait is skipped when api_delete miscounts).
SweptIsFlat ==
  closer = "sweeping" /\ said = "done" /\ failures = 0 /\ trades = 0 /\ ~thin /\ ~rushed
    => position = [a \in FuturesAccounts |-> Flat] /\ book = {}

\* When close_positions_reduceonly says that all positions are closed they may
\* still be open, but each is covered by a resting order of exactly its size.
RestingCovers ==
  closer = "resting" /\ said = "closed" /\ failures = 0 /\ ~stale
    => \A a \in FuturesAccounts, p \in Pairs : position[a][p] # 0
         => Order(a, p, -position[a][p], TRUE) \in book

\* "No open positions" is said only when no account has one.
NoneMeansFlat ==
  said = "none" /\ failures = 0 /\ ~stale => position = [a \in FuturesAccounts |-> Flat]

\* "Position closed successfully" is what the exchange shows at that moment,
\* not what the order was meant to do.
BybitVerdict ==
  [][closer = "bybit" /\ said' = "closed" /\ said # "closed" /\ failures' = 0
     => position["CM1"] = Flat]_closeVars

\* close_all_positions.py:257 "All positions closed! PnL locked in."
ClosedIsClosed == said = "closed" /\ closer = "crossing" => position = [a \in FuturesAccounts |-> Flat]

\* Positions are only ever brought nearer to zero, and what the scripts say of
\* them when they end is what they are.
VerdictsHold == []CloseTypeOK /\ TowardsFlat /\ []SweptIsFlat /\ []RestingCovers /\ []NoneMeansFlat /\ BybitVerdict
=============================================================================
