------------------------------ MODULE TpslManager ------------------------------
(***************************************************************************)
(* The stop of the position: the conditional TPSL orders at the exchange,  *)
(* the single row of tpsl_state that tracks one of them, the bot's copy of *)
(* the position, and every handler that rebuilds or cancels the stop: a    *)
(* fill, a position update, the closing of the position, the periodic      *)
(* check and the start of the process.                                     *)
(*                                                                         *)
(* Handlers are async functions of one event loop and nothing keeps two of *)
(* them from overlapping: each await is a step boundary, and the steps of  *)
(* all handlers interleave.  A position is abstracted to the version of    *)
(* its entry price (0 is flat), from which the prices of a stop follow.    *)
(* Live trading only (dryRun = FALSE).                                     *)
(***************************************************************************)
EXTENDS Integers, FiniteSets, Sequences

CONSTANTS
  Tasks,       \* handlers that may run at the same time
  StopIds,     \* bound: conditional order ids in use at a time
  MaxVersion,  \* bound: positions opened or changed
  Budget       \* bound: how often each fault may happen

FaultKinds == {"read", "cancel", "place", "close", "crash", "drop"}

ASSUME TpslConstants ==
  /\ IsFiniteSet(Tasks) /\ Tasks # {}
  /\ StopIds \subseteq Nat \ {0}
  /\ MaxVersion \in Nat
  /\ Budget \in [FaultKinds -> Nat]

VARIABLES
  pos,       \* version of the position at the exchange, 0 when flat
  versions,  \* versions so far
  stops,     \* conditional orders live at the exchange
  row,       \* tpsl_state.conditionalOrderId, 0 when there is no row
  local,     \* PositionManager's position, in memory and in position_state
  feed,      \* account events sent and not yet handled, in order
  wsUp,      \* the account WebSocket is connected
  main,      \* main(): "down", "fetch", "boot" or, past all of it, "run"
  pc,        \* per task, the await it is at
  kind,      \* per task, the handler it runs
  arg,       \* per task, the position it rebuilds for
  ans,       \* per task, a version or an id: its request's or its answer's
  faults,    \* faults so far, by kind
  missed     \* history: an account event was lost, or sent to nobody

taskVars == <<pc, kind, arg, ans>>
tpslVars == <<pos, versions, stops, row, local, feed, wsUp, main,
              pc, kind, arg, ans, faults, missed>>

Versions == 0..MaxVersion
Ids      == StopIds \union {0}
Stops    == [id : StopIds, entry : 1..MaxVersion]
Notices  == [type : {"fill", "update", "closed"}, entry : Versions]
Kinds    == {"fill", "update", "closed", "periodic", "startup"}
Awaits   == {"idle", "positions", "position", "price", "sweep", "cancelOne",
             "cancelAll", "cancelled", "place", "placed"}

Fault(k) == /\ faults[k] < Budget[k]
            /\ faults' = [faults EXCEPT ![k] = @ + 1]

Idle == {t \in Tasks : pc[t] = "idle"}

-----------------------------------------------------------------------------
(* Steps of a handler that all handlers share.                             *)

Goto(t, await, a, b) ==
  /\ pc' = [pc EXCEPT ![t] = await]
  /\ arg' = [arg EXCEPT ![t] = a]
  /\ ans' = [ans EXCEPT ![t] = b]
  /\ kind' = kind

Begin(t, k, await) ==
  /\ t \in Idle
  /\ pc' = [pc EXCEPT ![t] = await]
  /\ kind' = [kind EXCEPT ![t] = k]
  /\ UNCHANGED <<arg, ans>>

\* Handlers catch what they are thrown; main() goes on to the periodic check.
Finish(t) ==
  /\ Goto(t, "idle", 0, 0)
  /\ main' = IF kind[t] = "startup" THEN "run" ELSE main

\* Mutants of CancelExisting: without a row nothing is cancelled; the tracked
\* order is left to the request that cancels them all.
TrustsTheRow(t, p) ==
  /\ Goto(t, IF row = 0 THEN "cancelled" ELSE "cancelOne", p, row)
  /\ main' = main
CancelsOnlyAll(t, p) ==
  /\ Goto(t, "cancelAll", p, 0)
  /\ main' = main

\* rebuild(p) and cancelAll() up to their first await: _cancelExisting cancels
\* the order of the row, if there is one, and then all those of the pair.
CancelExisting(t, p) ==
  /\ Goto(t, IF row = 0 THEN "cancelAll" ELSE "cancelOne", p, row)
  /\ main' = main

\* GET /v1/positions/open is answered.
AnswerPositions(t) ==
  /\ pc[t] = "positions"
  /\ Goto(t, "position", 0, pos)
  /\ UNCHANGED <<pos, versions, stops, row, local, feed, wsUp, main, faults, missed>>

\* updateFromRest replaces the local position, whatever it has become since.
\* A fill goes on in any case, the two checks only if there is no row.
UpdateFromRest(t) ==
  /\ pc[t] = "position"
  /\ local' = ans[t]
  /\ LET goesOn == kind[t] = "fill" \/ (ans[t] # 0 /\ row = 0)
     IN  /\ Goto(t, IF goesOn THEN "price" ELSE "idle", 0, 0)
         /\ main' = IF kind[t] # "startup" THEN main
                    ELSE IF goesOn THEN "boot" ELSE "run"
  /\ UNCHANGED <<pos, versions, stops, row, feed, wsUp, faults, missed>>

\* Behind the reference price, and in neutral mode the replenishment, a fill
\* and the startup look at the position again; the other two do not.
Rebuild(t) ==
  /\ pc[t] = "price"
  /\ IF local = 0 /\ kind[t] \in {"fill", "startup"}
     THEN Finish(t) ELSE CancelExisting(t, local)
  /\ UNCHANGED <<pos, versions, stops, row, local, feed, wsUp, faults, missed>>

\* A REST call other than a cancellation throws, which ends the handler: the
\* position, the reference price, or the cancelAll of the grid orders.  (In
\* main() it ends the process: Crash.)
ReadFails(t) ==
  /\ pc[t] \in {"positions", "position", "price", "sweep"}
  /\ kind[t] # "startup"
  /\ Fault("read")
  /\ Finish(t)
  /\ UNCHANGED <<pos, versions, stops, row, local, feed, wsUp, missed>>

\* cancelConditionalOrder, carried out and answered.
CancelOne(t) ==
  /\ pc[t] = "cancelOne"
  /\ stops' = {s \in stops : s.id # ans[t]}
  /\ Goto(t, "cancelAll", arg[t], 0)
  /\ UNCHANGED <<pos, versions, row, local, feed, wsUp, main, faults, missed>>

\* cancelAllConditionalsForPair, carried out.
CancelAll(t) ==
  /\ pc[t] = "cancelAll"
  /\ stops' = {}
  /\ Goto(t, "cancelled", arg[t], 0)
  /\ UNCHANGED <<pos, versions, row, local, feed, wsUp, main, faults, missed>>

\* Either cancellation fails; the REST client swallows the error.
CancelFails(t) ==
  /\ pc[t] \in {"cancelOne", "cancelAll"}
  /\ Fault("cancel")
  /\ Goto(t, IF pc[t] = "cancelOne" THEN "cancelAll" ELSE "cancelled", arg[t], 0)
  /\ UNCHANGED <<pos, versions, stops, row, local, feed, wsUp, main, missed>>

\* Mutants of Cancelled: the row is kept; a stop is requested in any case.
KeepsRow(t) ==
  /\ pc[t] = "cancelled"
  /\ row' = row
  /\ IF arg[t] = 0 THEN Finish(t)
                   ELSE Goto(t, "place", arg[t], 0) /\ main' = main
  /\ UNCHANGED <<pos, versions, stops, local, feed, wsUp, faults, missed>>
PlacesForNoPosition(t) ==
  /\ pc[t] = "cancelled"
  /\ row' = 0
  /\ Goto(t, "place", arg[t], 0) /\ main' = main
  /\ UNCHANGED <<pos, versions, stops, local, feed, wsUp, faults, missed>>

\* The answer: the row is cleared and, unless it was for a closed position,
\* a stop is requested.  A position that is gone by now is dereferenced.
Cancelled(t) ==
  /\ pc[t] = "cancelled"
  /\ row' = 0
  /\ IF arg[t] = 0 THEN Finish(t)
                   ELSE Goto(t, "place", arg[t], 0) /\ main' = main
  /\ UNCHANGED <<pos, versions, stops, local, feed, wsUp, faults, missed>>

\* placeConditionalOrder, carried out; the id is one that nothing refers to.
FreshIds == StopIds \ ({s.id : s \in stops} \union {row} \union {ans[t] : t \in Tasks})

\* Mutant of Adds: the position is read again behind the awaits.
AddsForLocal(t, i) == stops' = stops \union {[id |-> i, entry |-> local]}

Adds(t, i) == stops' = stops \union {[id |-> i, entry |-> arg[t]]}

Place(t) ==
  /\ pc[t] = "place"
  /\ \E i \in FreshIds :
       /\ \A j \in FreshIds : i <= j
       /\ Adds(t, i)
       /\ Goto(t, "placed", 0, i)
  /\ UNCHANGED <<pos, versions, row, local, feed, wsUp, main, faults, missed>>

\* The call throws: refused, for one when there is no position any more, or
\* carried out and the answer lost.  Callers log the error and go on.
PlaceFails(t) ==
  /\ pc[t] = "place"
  /\ \/ stops' = stops /\ (IF pos = 0 THEN faults' = faults ELSE Fault("place"))
     \/ Fault("place") /\ \E i \in FreshIds : (\A j \in FreshIds : i <= j) /\ Adds(t, i)
  /\ Finish(t)
  /\ UNCHANGED <<pos, versions, row, local, feed, wsUp, missed>>

\* The answer: the row names the order placed.
Placed(t) ==
  /\ pc[t] = "placed"
  /\ row' = ans[t]
  /\ Finish(t)
  /\ UNCHANGED <<pos, versions, stops, local, feed, wsUp, faults, missed>>

-----------------------------------------------------------------------------
(* The handlers begin.                                                     *)

Receives(type) == /\ wsUp /\ feed # <<>>
                  /\ Head(feed).type = type
                  /\ feed' = Tail(feed)

\* onOrderStatusUpdate of an order that is filled.
OnFill(t) ==
  /\ Receives("fill")
  /\ Begin(t, "fill", "positions")
  /\ UNCHANGED <<pos, versions, stops, row, local, wsUp, main, faults, missed>>

\* onOpenPositionUpdate
OnPositionUpdate(t) ==
  /\ Receives("update")
  /\ local' = Head(feed).entry
  /\ Begin(t, "update", "price")
  /\ UNCHANGED <<pos, versions, stops, row, wsUp, main, faults, missed>>

\* onPositionClosed
OnPositionClosed(t) ==
  /\ Receives("closed")
  /\ local' = 0
  /\ Begin(t, "closed", "sweep")
  /\ UNCHANGED <<pos, versions, stops, row, wsUp, main, faults, missed>>

\* Mutant of CancelTpsl: the stop is taken to be gone with the position.
LeavesStop(t) ==
  /\ pc[t] = "sweep"
  /\ Finish(t)
  /\ UNCHANGED <<pos, versions, stops, row, local, feed, wsUp, faults, missed>>

\* orderManager.cancelAll() returns, tpslManager.cancelAll() begins.
CancelTpsl(t) ==
  /\ pc[t] = "sweep"
  /\ CancelExisting(t, 0)
  /\ UNCHANGED <<pos, versions, stops, row, local, feed, wsUp, faults, missed>>

PeriodicCheck(t) ==
  /\ main = "run"
  /\ Begin(t, "periodic", "positions")
  /\ UNCHANGED <<pos, versions, stops, row, local, feed, wsUp, main, faults, missed>>

Startup(t) ==
  /\ main = "down"
  /\ main' = "fetch"
  /\ Begin(t, "startup", "positions")
  /\ UNCHANGED <<pos, versions, stops, row, local, feed, wsUp, faults, missed>>

-----------------------------------------------------------------------------
(* The exchange and the connection to it.                                  *)

Emit(notices) == /\ feed' = IF wsUp THEN feed \o notices ELSE feed
                 /\ missed' = (missed \/ ~wsUp)

\* A fill opens or changes the position; its two events come in some order.
PositionChanges ==
  /\ versions < MaxVersion
  /\ versions' = versions + 1 /\ pos' = versions + 1
  /\ LET fill   == [type |-> "fill", entry |-> 0]
         update == [type |-> "update", entry |-> pos']
     IN  Emit(<<fill, update>>) \/ Emit(<<update, fill>>)
  /\ UNCHANGED <<stops, row, local, wsUp, main, taskVars, faults>>

Closes == /\ pos # 0
          /\ pos' = 0
          /\ Fault("close")
          /\ Emit(<<[type |-> "closed", entry |-> 0]>>)
          /\ UNCHANGED <<versions, row, local, wsUp, main, taskVars>>

\* A stop closes the position, or something else does.
StopTriggers(s)  == s \in stops /\ stops' = stops \ {s} /\ Closes
PositionCloses   == stops' = stops /\ Closes

WsConnect ==
  /\ main \in {"boot", "run"}
  /\ ~wsUp
  /\ wsUp' = TRUE
  /\ UNCHANGED <<pos, versions, stops, row, local, feed, main, taskVars, faults, missed>>

\* Events of the gap are not replayed.
WsDrop ==
  /\ wsUp
  /\ Fault("drop")
  /\ wsUp' = FALSE /\ feed' = <<>>
  /\ missed' = (missed \/ feed # <<>>)
  /\ UNCHANGED <<pos, versions, stops, row, local, main, taskVars>>

\* The process exits; tpsl_state and position_state are on disk.
Crash ==
  /\ main # "down"
  /\ Fault("crash")
  /\ main' = "down"
  /\ wsUp' = FALSE /\ feed' = <<>>
  /\ missed' = (missed \/ feed # <<>>)
  /\ pc' = [t \in Tasks |-> "idle"] /\ kind' = kind
  /\ arg' = [t \in Tasks |-> 0] /\ ans' = [t \in Tasks |-> 0]
  /\ UNCHANGED <<pos, versions, stops, row, local>>

-----------------------------------------------------------------------------
Init ==
  /\ pos = 0 /\ versions = 0 /\ stops = {}
  /\ row = 0 /\ local = 0
  /\ feed = <<>> /\ wsUp = FALSE
  /\ main = "down"
  /\ pc = [t \in Tasks |-> "idle"] /\ kind = [t \in Tasks |-> "startup"]
  /\ arg = [t \in Tasks |-> 0] /\ ans = [t \in Tasks |-> 0]
  /\ faults = [k \in FaultKinds |-> 0] /\ missed = FALSE

StateOK ==
  /\ versions \in Versions /\ pos \in 0..versions /\ local \in 0..versions
  /\ stops \subseteq Stops /\ row \in Ids
  /\ main \in {"down", "fetch", "boot", "run"}
FlagsOK == wsUp \in BOOLEAN /\ missed \in BOOLEAN
FeedOK == feed \in Seq(Notices)
TasksOK ==
  /\ pc \in [Tasks -> Awaits] /\ kind \in [Tasks -> Kinds]
  /\ arg \in [Tasks -> Versions]
  /\ ans \in [Tasks -> Ids \union Versions]
FaultsOK ==
  /\ faults \in [FaultKinds -> Nat]
  /\ \A k \in FaultKinds : faults[k] <= Budget[k]

TypeOK == StateOK /\ FlagsOK /\ FeedOK /\ TasksOK /\ FaultsOK

\* The steps of a handler once it has begun, but for those that fail.
Proceeds(t) ==
  \/ AnswerPositions(t) \/ UpdateFromRest(t) \/ Rebuild(t) \/ CancelTpsl(t)
  \/ CancelOne(t) \/ CancelAll(t) \/ Cancelled(t) \/ Place(t) \/ Placed(t)
Fails(t) == ReadFails(t) \/ CancelFails(t) \/ PlaceFails(t)
Event(t) == OnFill(t) \/ OnPositionUpdate(t) \/ OnPositionClosed(t)

Environment ==
  \/ PositionChanges \/ PositionCloses \/ \E s \in stops : StopTriggers(s)
  \/ WsConnect \/ WsDrop \/ Crash

Next ==
  \/ \E t \in Tasks : \/ Proceeds(t) \/ Fails(t)
                      \/ Event(t) \/ PeriodicCheck(t) \/ Startup(t)
  \/ Environment

Spec == Init /\ [][Next]_tpslVars

\* A call is answered or times out, an event is delivered, the interval timer
\* fires, the socket reconnects and the service manager restarts the process.
Fairness ==
  /\ \A t \in Tasks : WF_tpslVars(Proceeds(t) \/ Fails(t))
  /\ WF_tpslVars(\E t \in Tasks : Startup(t))
  /\ SF_tpslVars(\E t \in Tasks : PeriodicCheck(t))
  /\ SF_tpslVars(\E t \in Tasks : Event(t))
  /\ WF_tpslVars(WsConnect)

FairSpec == Spec /\ Fairness

-----------------------------------------------------------------------------
(* Properties.                                                             *)

Serial    == Cardinality(Tasks) = 1
Without(K) == \A k \in K : faults[k] = 0

\* Every event is handled and no handler is running.
Quiet == main = "run" /\ wsUp /\ feed = <<>> /\ Idle = Tasks

Tracked == \E s \in stops : s.id = row

\* Overlapping rebuilds leave several stops behind, but never more than there
\* were handlers at work at once, plus one for each cancellation that failed:
\* between _cancelExisting and placeConditionalOrder every rebuild has seen
\* the exchange without a stop.
StopsBoundedByOverlap ==
  Cardinality(stops) <= Cardinality(Tasks) + faults.cancel

\* Handlers that do not overlap keep at most one stop even if one of their
\* cancellations fails unnoticed: _cancelExisting cancels the tracked order
\* and all orders of the pair, and either call alone suffices.
OneFailureIsCovered ==
  Serial /\ faults.cancel <= 1 /\ Without({"place", "crash"}) =>
    Cardinality(stops) <= 1

\* Handlers that do not overlap and whose calls succeed end with exactly the
\* stop of the present position, tracked by the row, and with none once the
\* position is closed: a stale answer to GET positions is always followed by
\* the event that corrects it.
SettlesOnPosition ==
  Serial /\ Quiet /\ ~missed /\ Without({"read", "cancel", "place", "crash"}) =>
    stops = IF pos = 0 THEN {} ELSE {[id |-> row, entry |-> pos]}

\* When handlers do not overlap, a placement that failed is repaired: unless an
\* event was missed a position is closed or gets a tracked stop, because the
\* handler that failed left no row, which is what the periodic check looks for.
\* Two things leave the row of a stop that is gone, a gap nobody sees: a crash
\* behind the first cancellation, and, with no call failing, two handlers that
\* overlap: one places, the other cancels everything for a position that it takes
\* for closed, and the first then writes the row of what it placed.
GapIsRepaired ==
  Serial => (pos # 0 ~> pos = 0 \/ Tracked \/ missed \/ faults.crash > 0)

\* README.md: "TPSL is rebuilt on: every position update, every fill": when all
\* handlers are done and no call failed, an open position has a stop.
PositionHasStop ==
  Quiet /\ pos # 0 /\ ~missed /\ Without(FaultKinds) => stops # {}

\* main.ts, on POSITION_CLOSED: "Cancel all grid orders + TPSL".
ClosedLeavesNoStop ==
  Quiet /\ pos = 0 /\ ~missed /\ Without(FaultKinds \ {"close"}) => stops = {}

\* README.md, What Happens on Restart: "TPSL is checked - if position exists and
\* no TPSL, one is placed".
RestartProtects ==
  [][\A t \in Tasks :
       kind[t] = "startup" /\ pc[t] = "position" /\ main' # "down" =>
         (ans[t] = pos /\ pos # 0 /\ stops = {} /\ pc'[t] # "position"
            => pc'[t] = "price")]_tpslVars

\* What all of this promises of the orders at the exchange.
Book == INSTANCE StopBook WITH K <- Cardinality(Tasks) + Budget.cancel
BookSpec == Book!Spec

=============================================================================
