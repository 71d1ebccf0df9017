------------------------------ MODULE GridExposure ------------------------------
(***************************************************************************)
(* What fills do to the position: the fill handler that replenishes the    *)
(* grid within maxNetPosition, the bot's copy of the position it decides   *)
(* on, the initial grid of a started process, and the cooldown after the   *)
(* position is closed.                                                     *)
(*                                                                         *)
(* Positions and the cap are counted in units of quantityPerLevel.  What   *)
(* can go wrong with a placement itself is the subject of OrderManager:    *)
(* here an order sent either comes to rest or is refused, and an active    *)
(* row stands for a pending or placed one.  Every await of a handler is a  *)
(* step boundary.                                                          *)
(***************************************************************************)
EXTENDS Integers, FiniteSets, Sequences

CONSTANTS
  Orders,   \* bound: customer order ids, minted in ascending order
  Levels,   \* config.levels
  Sides,    \* sides of the grid; both of them in neutral mode
  MaxNet,   \* maxNetPosition / quantityPerLevel, rounded down
  Budget    \* bound: how often each kind of disturbance may happen

\* "burst": an order fills while the bot is not done with an earlier event.
Kinds == {"burst", "refusal", "error", "stop", "crash"}

ASSUME ExposureConstants ==
  /\ Orders \subseteq Nat /\ IsFiniteSet(Orders)
  /\ Levels \in Nat \ {0}
  /\ Sides # {} /\ Sides \subseteq {"BUY", "SELL"}
  /\ MaxNet \in Nat \ {0}
  /\ Budget \in [Kinds -> Nat]

VARIABLES
  order,     \* each order at the exchange, or its request on the way
  plan,      \* side and level of each order
  known,     \* ids with a row in grid_orders
  active,    \* ids with a pending or placed row
  net,       \* the position at the exchange, long is positive
  local,     \* PositionManager.netQuantity: the size of the position
  feed,      \* account events sent and not yet handled, in order
  task,      \* await of the fill handler of each order
  answer,    \* position in the answer a fill handler has got
  closing,   \* awaits of the handlers of POSITION_CLOSED
  cooling,   \* cooldown_until lies in the future
  phase,     \* main(): "down", "starting" or "running"
  needsGrid, \* reconcileResult.needsGridPlacement
  count,     \* disturbances so far, by kind
  cut        \* history: the cap or a closed position kept an order from being replaced

exposureVars == <<order, plan, known, active, net, local, feed, task, answer,
                  closing, cooling, phase, needsGrid, count, cut>>

orderPart == <<order, plan, known, active>>
mainPart  == <<closing, cooling, phase, needsGrid>>

Neutral == Cardinality(Sides) = 2
Abs(n)  == IF n < 0 THEN -n ELSE n

Statuses == {"none", "sent", "live", "filled", "gone"}
Awaits   == {"idle", "positions", "answered", "price", "stop"}
Plans    == [side : Sides, level : Nat]
Notices  == [type : {"filled", "update", "closed"}, of : Orders \union Nat]

Happens(k) == /\ count[k] < Budget[k]
              /\ count' = [count EXCEPT ![k] = @ + 1]

ActiveOn(s) == {i \in active : plan[i].side = s}

\* The bot is done with every event so far.
Settled == feed = <<>> /\ closing = {} /\ \A i \in Orders : task[i] = "idle"

\* n ids that are not in use yet.
Mint(n, S) == /\ S \subseteq {i \in Orders : order[i] = "none"}
              /\ Cardinality(S) = n
              /\ \A i \in S : \A j \in Orders \ S : order[j] = "none" => i < j

\* Rows are inserted and requests sent for the orders of S.
Send(S, p) ==
  /\ order' = [i \in Orders |-> IF i \in S THEN "sent" ELSE order[i]]
  /\ plan' = [i \in Orders |-> IF i \in S THEN p[i] ELSE plan[i]]
  /\ known' = known \union S /\ active' = active \union S

-----------------------------------------------------------------------------
(* The handler of a filled order.                                          *)

Goto(i, await) == task' = [task EXCEPT ![i] = await]

\* Mutant of OnFilled: a fill is dropped while an earlier one is handled.
DropsWhenBusy(i) ==
  /\ feed # <<>> /\ Head(feed) = [type |-> "filled", of |-> i]
  /\ feed' = Tail(feed)
  /\ active' = active \ {i}
  /\ IF i \in known /\ \A j \in Orders : task[j] = "idle"
     THEN Goto(i, "positions") ELSE task' = task
  /\ UNCHANGED <<order, plan, known, net, local, answer, mainPart, count, cut>>

\* handleOrderStatusUpdate; an order without a row is not the bot's.
OnFilled(i) ==
  /\ feed # <<>> /\ Head(feed) = [type |-> "filled", of |-> i]
  /\ feed' = Tail(feed)
  /\ active' = active \ {i}
  /\ IF i \in known THEN Goto(i, "positions") ELSE task' = task
  /\ UNCHANGED <<order, plan, known, net, local, answer, mainPart, count, cut>>

AnswerPositions(i) ==
  /\ task[i] = "positions"
  /\ answer' = [answer EXCEPT ![i] = Abs(net)]
  /\ Goto(i, "answered")
  /\ UNCHANGED <<orderPart, net, local, feed, mainPart, count, cut>>

\* updateFromRest: the answer replaces the local position, however old it is.
UpdateFromRest(i) ==
  /\ task[i] = "answered"
  /\ local' = answer[i]
  /\ answer' = [answer EXCEPT ![i] = 0]
  /\ Goto(i, "price")
  /\ UNCHANGED <<orderPart, net, feed, mainPart, count, cut>>

\* In directional mode the stop is rebuilt before the grid is replenished, and
\* a flat position ends the handler.
RebuildFirst(i) ==
  /\ task[i] = "price" /\ ~Neutral
  /\ Goto(i, IF local = 0 THEN "idle" ELSE "stop")
  /\ UNCHANGED <<orderPart, net, local, feed, answer, mainPart, count, cut>>

\* The orders a replenishment counts: in neutral mode those of the side filled.
Counted(i) == IF Neutral THEN ActiveOn(plan[i].side) ELSE active

\* Mutants of WithinCap: the position before the order is compared; the cap is
\* not looked at.
OneTooMany == local <= MaxNet
NoCap == TRUE

WithinCap == local + 1 <= MaxNet

\* Mutants of NextLevel: the order filled is counted as well; the level of the
\* order filled.
SkipsALevel(i) == Cardinality(Counted(i)) + 2

NextLevel(i) == Cardinality(Counted(i)) + 1

Decides(i) == task[i] = IF Neutral THEN "price" ELSE "stop"

\* placeSingleOrder, on the position and the rows of this moment.
Replenish(i) ==
  /\ Decides(i)
  /\ WithinCap
  /\ ~Neutral => Cardinality(active) < Levels
  /\ \E S \in SUBSET Orders :
       /\ Mint(1, S)
       /\ Send(S, [j \in S |-> [side |-> plan[i].side, level |-> NextLevel(i)]])
  /\ Goto(i, "idle")
  /\ UNCHANGED <<net, local, feed, answer, mainPart, count, cut>>

DoesNotReplenish(i) ==
  /\ Decides(i)
  /\ ~WithinCap \/ (~Neutral /\ Cardinality(active) >= Levels)
  /\ cut' = (cut \/ ~WithinCap)
  /\ Goto(i, "idle")
  /\ UNCHANGED <<orderPart, net, local, feed, answer, mainPart, count>>

\* A call of the handler throws, or the breaker is open.
HandlerFails(i) ==
  /\ task[i] # "idle"
  /\ Happens("error")
  /\ Goto(i, "idle")
  /\ answer' = [answer EXCEPT ![i] = 0]
  /\ UNCHANGED <<orderPart, net, local, feed, mainPart, cut>>

-----------------------------------------------------------------------------
(* The handlers of position events.                                        *)

\* onOpenPositionUpdate; what it does to the stop is in TpslManager.
OnUpdate ==
  /\ feed # <<>> /\ Head(feed).type = "update"
  /\ local' = Head(feed).of
  /\ feed' = Tail(feed)
  /\ UNCHANGED <<orderPart, net, task, answer, mainPart, count, cut>>

\* onPositionClosed; two of its handlers at one await are taken as one.
OnClosed ==
  /\ feed # <<>> /\ Head(feed).type = "closed"
  /\ local' = 0
  /\ feed' = Tail(feed)
  /\ closing' = closing \union {"sweep"} /\ cut' = TRUE
  /\ UNCHANGED <<orderPart, net, task, answer, cooling, phase, needsGrid, count>>

Moves(from, to) == from \in closing /\ closing' = (closing \ {from}) \union to

\* orderManager.cancelAll: the exchange cancels what rests ...
Sweep ==
  /\ Moves("sweep", {"swept"})
  /\ order' = [i \in Orders |-> IF order[i] = "live" THEN "gone" ELSE order[i]]
  /\ UNCHANGED <<plan, known, active, net, local, feed, task, answer,
                 cooling, phase, needsGrid, count, cut>>

\* Mutant of SweepAnswered: the rows go and the orders still count as active.
DropsRowsOnly ==
  /\ Moves("swept", {"stop"})
  /\ known' = known \ active /\ active' = active
  /\ UNCHANGED <<order, plan, net, local, feed, task, answer,
                 cooling, phase, needsGrid, count, cut>>

\* ... and with the answer the rows that are active by now are deleted.
SweepAnswered ==
  /\ Moves("swept", {"stop"})
  /\ known' = known \ active /\ active' = {}
  /\ UNCHANGED <<order, plan, net, local, feed, task, answer,
                 cooling, phase, needsGrid, count, cut>>

\* Behind tpslManager.cancelAll, or behind the error of orderManager.cancelAll.
EnterCooldown ==
  /\ \/ Moves("stop", {}) /\ count' = count
     \/ (Moves("sweep", {}) \/ Moves("swept", {})) /\ Happens("error")
  /\ cooling' = TRUE
  /\ UNCHANGED <<orderPart, net, local, feed, task, answer, phase, needsGrid, cut>>

CooldownEnds ==
  /\ cooling
  /\ cooling' = FALSE
  /\ UNCHANGED <<orderPart, net, local, feed, task, answer, closing, phase,
                 needsGrid, count, cut>>

-----------------------------------------------------------------------------
(* The process.                                                            *)

\* loadFromStore and reconcile: the position and the open orders are read from
\* the exchange.  A row whose order has not come to rest stays active if it
\* has no exchange id, and is marked cancelled if it has one.
Start ==
  /\ phase = "down"
  /\ phase' = "starting"
  /\ local' = Abs(net)
  /\ \E pending \in SUBSET {i \in active : order[i] = "sent"} :
       active' = {i \in Orders : order[i] = "live"} \union pending
  /\ known' = known \union active'
  /\ UNCHANGED <<order, plan, net, feed, task, answer, closing, cooling, count, cut>>
  /\ needsGrid' = IF Neutral THEN \E s \in Sides : Cardinality(ActiveOn(s)') < Levels
                             ELSE Cardinality(active') < Levels

MissingSides == IF Neutral
                THEN {s \in Sides : Cardinality(ActiveOn(s)) < Levels}
                ELSE Sides

\* buildGridLevels for the sides that are not complete, whatever the position.
PlaceGrid ==
  /\ phase = "starting"
  /\ needsGrid /\ ~cooling
  /\ \E S \in SUBSET Orders :
       /\ Mint(Levels * Cardinality(MissingSides), S)
       /\ \E p \in [S -> [side : MissingSides, level : 1..Levels]] :
            /\ \A i \in S, j \in S : i < j =>
                 p[i] # p[j] /\ (p[i].side = p[j].side => p[i].level < p[j].level)
                             /\ (p[j].side = "BUY" => p[i].side = "BUY")
            /\ Send(S, p)
  /\ phase' = "running" /\ needsGrid' = FALSE
  /\ UNCHANGED <<net, local, feed, task, answer, closing, cooling, count, cut>>

\* In cooldown the warning is logged and main() goes on.
StartWithoutGrid ==
  /\ phase = "starting"
  /\ cooling \/ ~needsGrid
  /\ phase' = "running"
  /\ UNCHANGED <<orderPart, net, local, feed, task, answer, closing, cooling,
                 needsGrid, count, cut>>

Crash ==
  /\ phase # "down"
  /\ Happens("crash")
  /\ phase' = "down" /\ needsGrid' = FALSE
  /\ task' = [i \in Orders |-> "idle"] /\ answer' = [i \in Orders |-> 0]
  /\ closing' = {} /\ feed' = <<>>
  /\ UNCHANGED <<orderPart, net, local, cooling, cut>>

-----------------------------------------------------------------------------
(* The exchange.                                                           *)

Emit(notices) == feed' = IF phase = "down" THEN feed ELSE feed \o notices

Rests(i) ==
  /\ order[i] = "sent"
  /\ order' = [order EXCEPT ![i] = "live"]
  /\ UNCHANGED <<plan, known, active, net, local, feed, task, answer, mainPart,
                 count, cut>>

\* The order is refused, which the answer or an event says.
Refused(i) ==
  /\ order[i] = "sent"
  /\ Happens("refusal")
  /\ order' = [order EXCEPT ![i] = "gone"]
  /\ active' = active \ {i}
  /\ UNCHANGED <<plan, known, net, local, feed, task, answer, mainPart, cut>>

\* A fill is reported with the position it leads to; a position that is flat
\* again is reported as an update to zero or as closed.
Fills(i) ==
  /\ order[i] = "live"
  /\ IF Settled THEN count' = count ELSE Happens("burst")
  /\ order' = [order EXCEPT ![i] = "filled"]
  /\ net' = IF plan[i].side = "BUY" THEN net + 1 ELSE net - 1
  /\ LET filled == [type |-> "filled", of |-> i]
         update == [type |-> "update", of |-> Abs(net')]
         closed == [type |-> "closed", of |-> 0]
     IN  \E e \in IF net' = 0 THEN {update, closed} ELSE {update} :
           Emit(<<filled, e>>) \/ Emit(<<e, filled>>)
  /\ UNCHANGED <<plan, known, active, local, task, answer, mainPart, cut>>

\* The stop, the take profit or a liquidation closes the position.
StopTriggers ==
  /\ net # 0
  /\ Happens("stop")
  /\ net' = 0
  /\ Emit(<<[type |-> "closed", of |-> 0]>>)
  /\ UNCHANGED <<orderPart, local, task, answer, mainPart, cut>>

-----------------------------------------------------------------------------
Init ==
  /\ order = [i \in Orders |-> "none"]
  /\ plan = [i \in Orders |-> [side |-> CHOOSE s \in Sides : TRUE, level |-> 0]]
  /\ known = {} /\ active = {}
  /\ net = 0 /\ local = 0 /\ feed = <<>>
  /\ task = [i \in Orders |-> "idle"] /\ answer = [i \in Orders |-> 0]
  /\ closing = {} /\ cooling = FALSE
  /\ phase = "down" /\ needsGrid = FALSE
  /\ count = [k \in Kinds |-> 0] /\ cut = FALSE

Handler(i) == \/ OnFilled(i) \/ AnswerPositions(i) \/ UpdateFromRest(i)
              \/ RebuildFirst(i) \/ Replenish(i) \/ DoesNotReplenish(i) \/ HandlerFails(i)
Closing == Sweep \/ SweepAnswered \/ EnterCooldown
Main    == Start \/ PlaceGrid \/ StartWithoutGrid

Next ==
  \/ \E i \in Orders : Handler(i) \/ Rests(i) \/ Refused(i) \/ Fills(i)
  \/ OnUpdate \/ OnClosed \/ Closing \/ CooldownEnds \/ Main
  \/ StopTriggers \/ Crash

Spec == Init /\ [][Next]_exposureVars

\* Calls are answered or time out, events are delivered, time passes and the
\* service manager restarts the process.  Nothing is assumed of fills.
Fairness ==
  /\ \A i \in Orders : WF_exposureVars(Handler(i)) /\ WF_exposureVars(Rests(i))
  /\ WF_exposureVars(OnUpdate) /\ WF_exposureVars(OnClosed)
  /\ WF_exposureVars(Closing) /\ WF_exposureVars(CooldownEnds) /\ WF_exposureVars(Main)

FairSpec == Spec /\ Fairness

StateOK ==
  /\ order \in [Orders -> Statuses] /\ plan \in [Orders -> Plans]
  /\ active \subseteq known /\ known \subseteq Orders
  /\ net \in Int /\ local \in Nat
  /\ task \in [Orders -> Awaits] /\ answer \in [Orders -> Nat]
  /\ closing \subseteq {"sweep", "swept", "stop"}
  /\ phase \in {"down", "starting", "running"}
FeedOK  == feed \in Seq(Notices)
FlagsOK == cooling \in BOOLEAN /\ needsGrid \in BOOLEAN /\ cut \in BOOLEAN
CountOK == count \in [Kinds -> Nat]

TypeOK == StateOK /\ FeedOK /\ FlagsOK /\ CountOK

-----------------------------------------------------------------------------
(* Properties.                                                             *)

Without(K) == \A k \in K : count[k] = 0

\* What the cap really bounds: it is checked for one order at a time while a
\* whole side of the grid rests, on a position that fills in quick succession
\* leave stale, and never for the grid of a restarted process.
ExposureBounded ==
  Abs(net) <= MaxNet - 1 + Levels + count.burst + Levels * count.crash

\* Every fill is replaced exactly once, however the handlers of several fills
\* interleave: while the cap, a refusal, an error, a stop or a closed position
\* does not interfere, the grid has exactly its levels, on each side in neutral
\* mode, whenever the bot is done with its events.
GridStaysComplete ==
  phase = "running" /\ Settled /\ ~cut /\ Without({"refusal", "error", "stop", "crash"}) =>
    IF Neutral THEN \A s \in Sides : Cardinality(ActiveOn(s)) = Levels
               ELSE Cardinality(active) = Levels

\* Counting the active orders never asks for a level the grid does not have.
LevelsInGrid ==
  Without({"crash"}) => \A i \in active : plan[i].level \in 1..Levels

\* README.md: "maxNetPosition: Hard cap on net position".
HardCap == Abs(net) <= MaxNet

\* gridBuilder.ts: "nextLevel = current deepest active level for that side + 1".
ReplenishedDeeper ==
  [][\A i \in Orders :
       task[i] # "idle" /\ task'[i] = "idle" /\ active' # active =>
         \A j \in active' \ active, k \in active :
           plan'[j].side = plan[k].side => plan'[j].level > plan[k].level]_exposureVars

\* README.md: "cooldownAfterStopSecs: Pause after stop-loss trigger".
CooldownPauses ==
  [][cooling => \A i \in Orders : order'[i] = "sent" => order[i] = "sent"]_exposureVars

\* main.ts: "In cooldown -- not placing grid yet", "Waiting for cooldown to expire...".
GridFollowsCooldown ==
  phase = "running" /\ needsGrid ~> phase # "running" \/ active # {}

\* Replenishing keeps the shape of the grid, however the fill handlers overlap:
\* each side keeps its number of levels, and no level beyond them is asked for.
GridKeepsShape == GridStaysComplete /\ LevelsInGrid
=============================================================================
