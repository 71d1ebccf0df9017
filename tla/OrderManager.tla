----------------------------- MODULE OrderManager -----------------------------
(***************************************************************************)
(* The life of a grid order: the rows the order manager keeps in the       *)
(* grid_orders table, the orders the exchange holds, the REST calls that   *)
(* place and cancel them, the ORDER_STATUS_UPDATE events of the account    *)
(* WebSocket, the circuit breaker, and the reconciliation that a restarted *)
(* process runs between the table and the exchange.                        *)
(*                                                                         *)
(* The process is a single Node event loop: code between two awaits is one *)
(* action, and everything else may happen at an await.  Live trading only  *)
(* (dryRun = FALSE); prices and quantities are left out.                   *)
(***************************************************************************)
EXTENDS Integers, FiniteSets, Sequences

CONSTANTS
  MaxOrders,    \* bound: customer order ids a behaviour may mint
  Levels,       \* config.levels
  Sides,        \* sides of the grid; both of them in neutral mode
  BatchSize,    \* orders per batch request (20 in the code)
  Threshold,    \* consecutive failures that open the breaker (3 in the code)
  MaxTimeouts,  \* bound: answers lost although the request was carried out
  MaxCrashes,   \* bound: process exits
  MaxDrops,     \* bound: account WebSocket disconnections
  MaxCloses     \* bound: POSITION_CLOSED events

ASSUME OrderConstants ==
  /\ MaxOrders \in Nat
  /\ Levels \in Nat \ {0}
  /\ Sides # {} /\ Sides \subseteq {"BUY", "SELL"}
  /\ BatchSize \in Nat \ {0}
  /\ Threshold \in Nat \ {0}
  /\ {MaxTimeouts, MaxCrashes, MaxDrops, MaxCloses} \subseteq Nat

VARIABLES
  row,          \* grid_orders.status of each customer order id
  hasId,        \* whether the row holds an exchangeOrderId
  side,         \* side of each id
  book,         \* the order at the exchange, or its request on the way
  feed,         \* per order, status events sent and not yet handled
  awaiting,     \* ids whose placement call the process waits for
  todo,         \* ids of placeGrid whose chunk has not been sent
  batch,        \* ids of the chunk placeGrid waits for
  fillers,      \* filled orders whose fill handler is still running
  failureCount, \* failureCount, capped at Threshold
  breaker,      \* "closed", "open", or "elapsed": open for over a minute
  sweep,        \* cancelAll: "idle", "sent", or "done" at the exchange
  phase,        \* where the process is in main()
  openOrders,   \* the answer to GET /v1/orders/open
  needsGrid,    \* reconcileResult.needsGridPlacement
  wsUp,         \* the account WebSocket is connected
  faults        \* faults so far, by kind

storeVars   == <<row, hasId, side>>
callVars    == <<awaiting, todo, batch>>
breakerVars == <<failureCount, breaker>>
startVars   == <<phase, openOrders, needsGrid>>

orderVars == <<row, hasId, side, book, feed, awaiting, todo, batch, fillers,
               failureCount, breaker, sweep, phase, openOrders, needsGrid,
               wsUp, faults>>

Orders  == 1..MaxOrders
Neutral == Cardinality(Sides) = 2
Up      == phase # "down"

RowStatus  == {"none", "pending", "placed", "filled", "cancelled", "failed"}
BookStatus == {"absent", "sent", "refused", "accepted", "live",
               "filled", "cancelled", "failed"}
Events     == {"Placed", "Filled", "Cancelled", "Failed"}
Phases     == {"down", "fetching", "fetched", "starting", "placing", "running"}

Active == {"pending", "placed"}

\* Rows getActiveOrders() returns, all of them or those of one side.
ActiveOrders  == {i \in Orders : row[i] \in Active}
ActiveOn(s)   == {i \in ActiveOrders : side[i] = s}

\* Ids no row, request or plan uses; new ids are minted in ascending order,
\* as their millisecond seed is.
Fresh        == {i \in Orders : row[i] = "none" /\ book[i] = "absent" /\ i \notin todo}
FirstOf(S, n) == {i \in S : Cardinality({j \in S : j < i}) < n}

-----------------------------------------------------------------------------
(* Helpers: the store, the breaker, the event channel.                     *)

\* updateGridOrderStatus: an UPDATE that matches no row changes nothing.
Update(i, status) == row' = [row EXCEPT ![i] = IF @ = "none" THEN @ ELSE status]

UpdateWithId(i, status) ==
  /\ Update(i, status)
  /\ hasId' = [hasId EXCEPT ![i] = @ \/ row[i] # "none"]

\* _recordFailure
RecordFailure ==
  /\ failureCount' = IF failureCount < Threshold THEN failureCount + 1 ELSE Threshold
  /\ breaker' = IF failureCount + 1 >= Threshold THEN "open" ELSE breaker

\* isCircuitOpen as the guard of a placement: an open breaker stops it, an
\* elapsed one is reset by the very check.
BreakerAllows ==
  /\ breaker # "open"
  /\ breaker' = "closed"
  /\ failureCount' = IF breaker = "elapsed" THEN 0 ELSE failureCount

\* Events reach the process only while its WebSocket is up.
Emit(i, e) == feed' = IF wsUp THEN [feed EXCEPT ![i] = Append(@, e)] ELSE feed

\* The faults of one kind are bounded by a budget.
FaultKinds == {"timeout", "crash", "drop", "close"}
Budget == [timeout |-> MaxTimeouts, crash |-> MaxCrashes,
           drop |-> MaxDrops, close |-> MaxCloses]
Fault(kind) == /\ faults[kind] < Budget[kind]
               /\ faults' = [faults EXCEPT ![kind] = @ + 1]

-----------------------------------------------------------------------------
(* placeSingleOrder: replenishment after a fill.                           *)

\* The fill handler of order f decides to place one more order on side s.
\* nextLevel is counted and the row inserted in the same segment.
PlaceSingleOrder(f, s) ==
  /\ Up
  /\ f \in fillers
  /\ BreakerAllows
  /\ ~Neutral => Cardinality(ActiveOrders) < Levels
  /\ Neutral => s = side[f]
  /\ \E i \in FirstOf(Fresh, 1) :
       /\ row' = [row EXCEPT ![i] = "pending"]
       /\ hasId' = [hasId EXCEPT ![i] = FALSE]
       /\ side' = [side EXCEPT ![i] = s]
       /\ book' = [book EXCEPT ![i] = "sent"]
       /\ awaiting' = awaiting \union {i}
  /\ fillers' = fillers \ {f}
  /\ UNCHANGED <<feed, todo, batch, sweep, startVars, wsUp, faults>>

\* The fill handler of f ends without placing: position limit, flat, breaker
\* open, grid complete, or a REST call of the handler threw.
NoReplenishment(f) ==
  /\ Up
  /\ f \in fillers
  /\ fillers' = fillers \ {f}
  /\ UNCHANGED <<storeVars, book, feed, callVars, breakerVars, sweep,
                 startVars, wsUp, faults>>

\* The call is answered with the exchange's order id.
SinglePlaced(i) ==
  /\ i \in awaiting \ batch
  /\ book[i] \notin {"sent", "refused"}
  /\ UpdateWithId(i, "placed")
  /\ failureCount' = 0
  /\ awaiting' = awaiting \ {i}
  /\ UNCHANGED <<side, book, feed, todo, batch, fillers, breaker, sweep,
                 startVars, wsUp, faults>>

\* The call throws: the exchange refused, or the answer timed out while the
\* request may still be carried out.
SingleFailed(i) ==
  /\ i \in awaiting \ batch
  /\ IF book[i] = "refused" THEN UNCHANGED faults ELSE Fault("timeout")
  /\ Update(i, "failed")
  /\ RecordFailure
  /\ awaiting' = awaiting \ {i}
  /\ UNCHANGED <<hasId, side, book, feed, todo, batch, fillers, sweep,
                 startVars, wsUp>>

-----------------------------------------------------------------------------
(* placeGrid: the initial grid, in chunks of BatchSize.                    *)

\* Sides the startup code places: in neutral mode not the full ones.
MissingSides == IF Neutral
                THEN {s \in Sides : Cardinality(ActiveOn(s)) < Levels}
                ELSE Sides

\* The levels of the plan take the next ids, BUY levels first.
GridIds == FirstOf(Fresh, Levels * Cardinality(MissingSides))
GridSide(i) == IF MissingSides = {"BUY", "SELL"}
               THEN IF i \in FirstOf(Fresh, Levels) THEN "BUY" ELSE "SELL"
               ELSE CHOOSE s \in MissingSides : TRUE

\* Sends the next chunk of S; the loop has no await between the answer of a
\* chunk and the request for the next, and does not look at the breaker.
SendChunk(S) ==
  /\ batch' = FirstOf(S, BatchSize)
  /\ todo' = S \ FirstOf(S, BatchSize)
  /\ book' = [i \in Orders |-> IF i \in FirstOf(S, BatchSize) THEN "sent" ELSE book[i]]

PlaceGrid ==
  /\ phase = "starting"
  /\ needsGrid
  /\ MissingSides # {}
  /\ BreakerAllows
  /\ Cardinality(GridIds) = Levels * Cardinality(MissingSides)
  /\ row' = [i \in Orders |-> IF i \in GridIds THEN "pending" ELSE row[i]]
  /\ hasId' = [i \in Orders |-> hasId[i] /\ i \notin GridIds]
  /\ side' = [i \in Orders |-> IF i \in GridIds THEN GridSide(i) ELSE side[i]]
  /\ SendChunk(GridIds)
  /\ awaiting' = awaiting \union batch'
  /\ phase' = "placing"
  /\ UNCHANGED <<feed, fillers, sweep, openOrders, needsGrid, wsUp, faults>>

\* No grid at startup: none needed, breaker open, or in cooldown.
StartWithoutGrid ==
  /\ phase = "starting"
  /\ phase' = "running"
  /\ UNCHANGED <<storeVars, book, feed, callVars, fillers, breakerVars, sweep,
                 openOrders, needsGrid, wsUp, faults>>

\* Mutants of Outcome: the code looks at each outcome, at its accepted flag.
AnyRefusalFailsChunk(i) ==
  IF \E j \in batch : book[j] = "refused" THEN "failed" ELSE "placed"
RefusalIgnored(i) == "placed"

\* What the answer to a chunk says of order i.
Outcome(i) == IF book[i] = "refused" THEN "failed" ELSE "placed"

\* Mutant of RunAt: one refusal counts for the whole chunk.
CountsWholeChunk(i) == failureCount + Cardinality(batch)

\* Consecutive failures the counter has seen when it reaches outcome i.
RunAt(i) ==
  LET seen == {j \in batch : j <= i}
      ok   == {j \in seen : book[j] # "refused"}
      tail == {j \in seen : \A k \in ok : k < j}
  IN  Cardinality(tail) + (IF ok = {} THEN failureCount ELSE 0)

\* Mutants of NextChunk: the loop ends with the first chunk; the ids of the next
\* chunk are not registered as awaited.
FirstChunkOnly ==
  /\ batch' = {} /\ todo' = todo /\ book' = book
  /\ awaiting' = awaiting \ batch
  /\ phase' = phase
ForgetsNextChunk ==
  /\ SendChunk(todo)
  /\ awaiting' = awaiting \ batch
  /\ phase' = IF todo = {} THEN "running" ELSE phase

\* placeGrid goes on with the next chunk or returns to main().
NextChunk ==
  /\ SendChunk(todo)
  /\ awaiting' = (awaiting \ batch) \union batch'
  /\ phase' = IF todo = {} THEN "running" ELSE phase

\* The chunk is answered with one outcome per order.
BatchAnswered ==
  /\ batch # {}
  /\ \A i \in batch : book[i] # "sent"
  /\ row' = [i \in Orders |->
               IF i \notin batch \/ row[i] = "none" THEN row[i] ELSE Outcome(i)]
  /\ hasId' = [i \in Orders |->
                 hasId[i] \/ (i \in batch /\ row[i] # "none" /\ book[i] # "refused")]
  /\ \E last \in batch :
       /\ \A j \in batch : j <= last
       /\ failureCount' = IF RunAt(last) < Threshold THEN RunAt(last) ELSE Threshold
  /\ breaker' = IF \E i \in batch : book[i] = "refused" /\ RunAt(i) >= Threshold
                THEN "open" ELSE breaker
  /\ NextChunk
  /\ UNCHANGED <<side, feed, fillers, sweep, openOrders, needsGrid, wsUp, faults>>

\* The request for the chunk throws; the whole chunk is recorded as failed.
BatchFailed ==
  /\ batch # {}
  /\ IF \A i \in batch : book[i] = "refused"
     THEN UNCHANGED faults ELSE Fault("timeout")
  /\ row' = [i \in Orders |->
               IF i \in batch /\ row[i] # "none" THEN "failed" ELSE row[i]]
  /\ RecordFailure
  /\ NextChunk
  /\ UNCHANGED <<hasId, side, feed, fillers, sweep, openOrders, needsGrid, wsUp>>

-----------------------------------------------------------------------------
(* handleOrderStatusUpdate: the account WebSocket delivers an event.       *)
(* Events of one order arrive in order; the synchronous handlers of        *)
(* different orders commute, so the feed is kept per order.                *)

\* Mutant of HandleStatus: an event is handled twice.
HandlesTwice(i, e, status) ==
  /\ wsUp
  /\ feed[i] # <<>>
  /\ Head(feed[i]) = e
  /\ \E again \in BOOLEAN : feed' = IF again THEN feed ELSE [feed EXCEPT ![i] = Tail(@)]
  /\ Update(i, status)

HandleStatus(i, e, status) ==
  /\ wsUp
  /\ feed[i] # <<>>
  /\ Head(feed[i]) = e
  /\ feed' = [feed EXCEPT ![i] = Tail(@)]
  /\ Update(i, status)

HandleFilled(i) ==
  /\ HandleStatus(i, "Filled", "filled")
  /\ fillers' = IF row[i] = "none" THEN fillers ELSE fillers \union {i}
  /\ UNCHANGED <<hasId, side, book, callVars, breakerVars, sweep, startVars,
                 wsUp, faults>>

HandleCancelled(i) ==
  /\ HandleStatus(i, "Cancelled", "cancelled")
  /\ UNCHANGED <<hasId, side, book, callVars, fillers, breakerVars, sweep,
                 startVars, wsUp, faults>>

HandleFailed(i) ==
  /\ HandleStatus(i, "Failed", "failed")
  /\ IF row[i] = "none" THEN UNCHANGED breakerVars ELSE RecordFailure
  /\ UNCHANGED <<hasId, side, book, callVars, fillers, sweep, startVars,
                 wsUp, faults>>

\* Confirms a placement whose row has no exchange id yet.
HandlePlaced(i) ==
  /\ HandleStatus(i, "Placed", IF hasId[i] THEN row[i] ELSE "placed")
  /\ hasId' = [hasId EXCEPT ![i] = @ \/ row[i] # "none"]
  /\ UNCHANGED <<side, book, callVars, fillers, breakerVars, sweep, startVars,
                 wsUp, faults>>

-----------------------------------------------------------------------------
(* cancelAll, called when the position is closed.                          *)

CancelAll ==
  /\ Up /\ wsUp
  /\ sweep = "idle"
  /\ Fault("close")
  /\ sweep' = "sent"
  /\ UNCHANGED <<storeVars, book, feed, callVars, fillers, breakerVars,
                 startVars, wsUp>>

\* The exchange cancels what rests in the book.
ExchangeCancelsAll ==
  /\ sweep = "sent"
  /\ sweep' = "done"
  /\ book' = [i \in Orders |-> IF book[i] = "live" THEN "cancelled" ELSE book[i]]
  /\ feed' = [i \in Orders |-> IF book[i] = "live" /\ wsUp
                               THEN Append(feed[i], "Cancelled") ELSE feed[i]]
  /\ UNCHANGED <<storeVars, callVars, fillers, breakerVars, startVars, wsUp, faults>>

\* The answer arrives and the rows that are active by now are deleted.
CancelAllReturns ==
  /\ sweep = "done"
  /\ sweep' = "idle"
  /\ row' = [i \in Orders |-> IF row[i] \in Active THEN "none" ELSE row[i]]
  /\ hasId' = [i \in Orders |-> hasId[i] /\ row[i] \notin Active]
  /\ UNCHANGED <<side, book, feed, callVars, fillers, breakerVars, startVars,
                 wsUp, faults>>

\* The request throws, before or after the exchange acted: the rows stay.
CancelAllFails ==
  /\ sweep # "idle"
  /\ Fault("timeout")
  /\ sweep' = "idle"
  /\ UNCHANGED <<storeVars, book, feed, callVars, fillers, breakerVars,
                 startVars, wsUp>>

-----------------------------------------------------------------------------
(* The exchange.                                                           *)

Accepts(S, A) == book' = [i \in Orders |-> IF i \notin S THEN book[i]
                                           ELSE IF i \in A THEN "accepted" ELSE "refused"]

\* A request reaches the exchange, which accepts (202) or refuses each order;
\* refused also stands for a request that is lost on the way.
ExchangeReceives ==
  /\ \/ \E i \in Orders \ batch : /\ book[i] = "sent"
                                  /\ \E A \in SUBSET {i} : Accepts({i}, A)
     \/ /\ \E i \in batch : book[i] = "sent"
        /\ \E A \in SUBSET batch : Accepts(batch, A)
  /\ UNCHANGED <<storeVars, feed, callVars, fillers, breakerVars, sweep,
                 startVars, wsUp, faults>>

\* An order at the exchange moves on and the change is reported.
Moves(i, from, to, e) ==
  /\ book[i] = from
  /\ book' = [book EXCEPT ![i] = to]
  /\ Emit(i, e)
  /\ UNCHANGED <<storeVars, callVars, fillers, breakerVars, sweep, startVars,
                 wsUp, faults>>

Rests(i)      == Moves(i, "accepted", "live", "Placed")
FailsLater(i) == Moves(i, "accepted", "failed", "Failed")  \* e.g. post-only
Fills(i)      == Moves(i, "live", "filled", "Filled")

-----------------------------------------------------------------------------
(* The process: start, reconciliation, WebSocket, exit.                    *)

Start ==
  /\ phase = "down"
  /\ phase' = "fetching"
  /\ UNCHANGED <<storeVars, book, feed, callVars, fillers, breakerVars, sweep,
                 openOrders, needsGrid, wsUp, faults>>

FetchOpenOrders ==
  /\ phase = "fetching"
  /\ phase' = "fetched"
  /\ openOrders' = {i \in Orders : book[i] = "live"}
  /\ UNCHANGED <<storeVars, book, feed, callVars, fillers, breakerVars, sweep,
                 needsGrid, wsUp, faults>>

\* Mutants of ReconciledRow: only orders without any row are restored; rows that
\* are not active are marked as well.
RestoresUnknownOnly(i) ==
  CASE i \in openOrders /\ row[i] = "none"                   -> "placed"
    [] i \notin openOrders /\ row[i] \in Active /\ hasId[i] -> "cancelled"
    [] OTHER                                                -> row[i]
MarksInactiveToo(i) ==
  CASE i \in openOrders /\ row[i] \notin Active -> "placed"
    [] i \notin openOrders /\ hasId[i]           -> "cancelled"
    [] OTHER                                     -> row[i]

\* Every order of ours carries the grid- prefix, so none is orphaned.  An open
\* order without an active row is restored; an active row whose exchange id
\* is not among the open orders is marked cancelled, and an active row that
\* has no exchange id is left as it is.
ReconciledRow(i) ==
  CASE i \in openOrders /\ row[i] \notin Active             -> "placed"
    [] i \notin openOrders /\ row[i] \in Active /\ hasId[i] -> "cancelled"
    [] OTHER                                                -> row[i]

GridIncomplete ==
  IF Neutral THEN \E s \in Sides : Cardinality(ActiveOn(s)) < Levels
             ELSE Cardinality(ActiveOrders) < Levels

Reconcile ==
  /\ phase = "fetched"
  /\ phase' = "starting"
  /\ UNCHANGED <<side, book, feed, callVars, fillers, breakerVars, sweep, wsUp, faults>>
  /\ row' = [i \in Orders |-> ReconciledRow(i)]
  /\ hasId' = [i \in Orders |-> hasId[i] \/ (i \in openOrders /\ row[i] \notin Active)]
  /\ needsGrid' = GridIncomplete'
  /\ openOrders' = {}

\* (Re)connection; events of the gap are not replayed.
WsConnect ==
  /\ phase \in {"starting", "placing", "running"}
  /\ ~wsUp
  /\ wsUp' = TRUE
  /\ UNCHANGED <<storeVars, book, feed, callVars, fillers, breakerVars, sweep,
                 startVars, faults>>

WsDrop ==
  /\ wsUp
  /\ Fault("drop")
  /\ wsUp' = FALSE
  /\ feed' = [i \in Orders |-> <<>>]
  /\ UNCHANGED <<storeVars, book, callVars, fillers, breakerVars, sweep, startVars>>

\* A minute passes after the breaker opened.
BreakerElapses ==
  /\ breaker = "open"
  /\ breaker' = "elapsed"
  /\ UNCHANGED <<storeVars, book, feed, callVars, fillers, failureCount, sweep,
                 startVars, wsUp, faults>>

\* The process exits; the table and the exchange stay, requests on the way
\* may still arrive.
Crash ==
  /\ Up
  /\ Fault("crash")
  /\ phase' = "down"
  /\ openOrders' = {} /\ needsGrid' = FALSE
  /\ awaiting' = {} /\ todo' = {} /\ batch' = {} /\ fillers' = {}
  /\ failureCount' = 0 /\ breaker' = "closed"
  /\ sweep' = "idle"
  /\ wsUp' = FALSE
  /\ feed' = [i \in Orders |-> <<>>]
  /\ UNCHANGED <<storeVars, book>>

-----------------------------------------------------------------------------
Init ==
  /\ row = [i \in Orders |-> "none"]
  /\ hasId = [i \in Orders |-> FALSE]
  /\ side = [i \in Orders |-> CHOOSE s \in Sides : TRUE]
  /\ book = [i \in Orders |-> "absent"]
  /\ feed = [i \in Orders |-> <<>>]
  /\ awaiting = {} /\ todo = {} /\ batch = {} /\ fillers = {}
  /\ failureCount = 0 /\ breaker = "closed"
  /\ sweep = "idle"
  /\ phase = "down" /\ openOrders = {} /\ needsGrid = FALSE
  /\ wsUp = FALSE
  /\ faults = [k \in FaultKinds |-> 0]

StoreOK ==
  /\ row \in [Orders -> RowStatus] /\ hasId \in [Orders -> BOOLEAN]
  /\ side \in [Orders -> Sides] /\ book \in [Orders -> BookStatus]
FeedOK == feed \in [Orders -> Seq(Events)]
CallsOK ==
  /\ awaiting \subseteq Orders /\ todo \subseteq Orders /\ batch \subseteq awaiting
  /\ fillers \subseteq Orders /\ openOrders \subseteq Orders
  /\ sweep \in {"idle", "sent", "done"} /\ phase \in Phases
BreakerOK == failureCount \in 0..Threshold /\ breaker \in {"closed", "open", "elapsed"}
FlagsOK   == needsGrid \in BOOLEAN /\ wsUp \in BOOLEAN
FaultsOK ==
  /\ faults \in [FaultKinds -> Nat]
  /\ \A k \in FaultKinds : faults[k] <= Budget[k]

TypeOK == StoreOK /\ FeedOK /\ CallsOK /\ BreakerOK /\ FlagsOK /\ FaultsOK

\* Steps of the process that answer a call or handle an event.
Handles(i) == \/ SinglePlaced(i) \/ SingleFailed(i)
              \/ HandleFilled(i) \/ HandleCancelled(i)
              \/ HandleFailed(i) \/ HandlePlaced(i)

Process ==
  \/ \E f \in Orders : (\E s \in Sides : PlaceSingleOrder(f, s)) \/ NoReplenishment(f)
  \/ \E i \in Orders : Handles(i)
  \/ PlaceGrid \/ StartWithoutGrid \/ BatchAnswered \/ BatchFailed
  \/ CancelAll \/ CancelAllReturns \/ CancelAllFails
  \/ Start \/ FetchOpenOrders \/ Reconcile \/ WsConnect
  \/ BreakerElapses

Exchange ==
  \/ ExchangeReceives
  \/ ExchangeCancelsAll
  \/ \E i \in Orders : Rests(i) \/ FailsLater(i) \/ Fills(i)

Next == Process \/ Exchange \/ WsDrop \/ Crash

Spec == Init /\ [][Next]_orderVars

\* Every REST call is answered or times out after 15 s, the exchange handles
\* what it receives, the socket reconnects and delivers.  Nothing is assumed
\* of faults, of fills or of what a fill handler decides.
Fairness ==
  /\ WF_orderVars(ExchangeReceives) /\ WF_orderVars(ExchangeCancelsAll)
  /\ \A i \in Orders : /\ WF_orderVars(Rests(i) \/ FailsLater(i))
                       /\ WF_orderVars(SinglePlaced(i) \/ SingleFailed(i))
                       /\ WF_orderVars(HandleFilled(i) \/ HandleCancelled(i)
                                        \/ HandleFailed(i) \/ HandlePlaced(i))
  /\ WF_orderVars(BatchAnswered \/ BatchFailed)
  /\ WF_orderVars(CancelAllReturns \/ CancelAllFails)
  /\ WF_orderVars(Start \/ FetchOpenOrders \/ Reconcile \/ PlaceGrid \/ StartWithoutGrid)
  /\ WF_orderVars(WsConnect)

FairSpec == Spec /\ Fairness

-----------------------------------------------------------------------------
(* Properties.                                                             *)

\* What the table says of an order is never ahead of the exchange: "filled"
\* only what is filled there, and an exchange id only for an accepted order,
\* whatever is lost, late or repeated by a restart.
RowsAreTruthful ==
  \A i \in Orders :
    /\ row[i] = "filled" => book[i] = "filled"
    /\ hasId[i] => book[i] \notin {"absent", "sent", "refused"}
    /\ row[i] = "placed" => hasId[i]
    /\ i \in fillers => book[i] = "filled"

\* Without lost answers, restarts and closed positions the table never loses
\* sight of an order that rests or is about to: events that overtake the
\* answer to their own placement do not drop it.
LiveIsTracked ==
  faults.timeout + faults.crash + faults.close = 0 =>
    \A i \in Orders : book[i] \in {"accepted", "live"} => row[i] \in Active

\* The breaker counts orders that did fail: without lost answers and restarts
\* the count never exceeds the orders refused or failed by the exchange.
FailuresAreReal ==
  faults.timeout + faults.crash = 0 =>
    failureCount <= Cardinality({i \in Orders : book[i] \in {"refused", "failed"}})

\* Reconciliation brings every order found open back into the active rows,
\* also one recorded as failed after a timeout or deleted by a cancelAll.
RestoredAtRestart ==
  [][phase = "fetched" /\ phase' = "starting" =>
       \A i \in openOrders : row'[i] \in Active]_orderVars

\* A recorded fill is taken back by one thing only, the late answer to the
\* placement of the same order.
FillUndoneOnlyByLateAnswer ==
  [][\A i \in Orders :
       row[i] = "filled" /\ row'[i] # "filled" =>
         i \in awaiting /\ i \notin awaiting']_orderVars

\* A placement the process waits for is always answered, and placeGrid gets
\* through all its chunks even when some of them fail.
PlacementResolves ==
  \A i \in Orders : i \in awaiting \union todo ~> i \notin awaiting \union todo

\* README.md: "Local has orders exchange doesn't -> mark stale".
StaleRowsAreMarked ==
  [][phase = "fetched" /\ phase' = "starting" =>
       \A i \in Orders \ openOrders : row'[i] \notin Active]_orderVars

\* README.md: "orders that partially fill are treated as pending until full
\* fill": a fully filled order that was recorded as such is not active again.
FilledIsFinal ==
  [][\A i \in Orders : row[i] = "filled" => row'[i] \notin Active]_orderVars

\* README.md: "Place missing grid orders": the startup grid fills up what
\* reconciliation found to be missing and no more.
GridNeverOverfull ==
  [][phase = "starting" /\ phase' = "placing" =>
       \A s \in Sides : Cardinality(ActiveOn(s))' <= Levels]_orderVars

\* README.md: "If the bot crashed mid-order-placement, some orders may be on exchange
\* but not in DB. These are detected by the `grid-` prefix convention and restored."
CrashedPlacementIsRestored ==
  faults.crash > 0 /\ faults.timeout + faults.drop + faults.close = 0 /\ phase = "running" =>
    \A i \in Orders : book[i] = "live" => row[i] \in Active

=============================================================================
