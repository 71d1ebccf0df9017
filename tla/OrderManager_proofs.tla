-------------------------- MODULE OrderManager_proofs --------------------------
(***************************************************************************)
(* Proofs about OrderManager for any number of orders and levels, any size *)
(* of a batch and any budget of faults, and about its two sockets          *)
(* (WsClient) for any heartbeat, back-off and number of attempts.          *)
(***************************************************************************)
EXTENDS OrderManager, WsClient, TLAPS, FiniteSetTheorems, SequenceTheorems

\* Orders are minted from a bounded supply, so every set of them has a size.
LEMMA OrdersFinite ==
  ASSUME NEW S, S \subseteq Orders
  PROVE  IsFiniteSet(S) /\ Cardinality(S) \in Nat
<1>1. IsFiniteSet(Orders)
  BY OrderConstants, FS_Interval, 1 \in Int, MaxOrders \in Int DEF Orders
<1>2. IsFiniteSet(S)
  BY <1>1, FS_Subset
<1>. QED
  BY <1>2, FS_CardinalityType

\* SendChunk(S) sends a part of S.
LEMMA FirstOfSubset == ASSUME NEW S, NEW n PROVE FirstOf(S, n) \subseteq S
BY DEF FirstOf

\* placeGrid mints ids that no row and no order has.
LEMMA GridIdsAreFresh == GridIds \subseteq Fresh /\ Fresh \subseteq Orders
BY FirstOfSubset DEF GridIds, Fresh

\* Reconciliation names sides of the grid only.
LEMMA MissingSidesAreSides == MissingSides \subseteq Sides
BY DEF MissingSides

-----------------------------------------------------------------------------
(* Type correctness.                                                       *)

\* An empty table and an empty book are well typed.
THEOREM InitTyped == Init => TypeOK
<1>. SUFFICES ASSUME Init PROVE TypeOK
  OBVIOUS
<1>1. StoreOK
  BY OrderConstants DEF Init, StoreOK, RowStatus, BookStatus
<1>2. FeedOK
  BY DEF Init, FeedOK
<1>3. CallsOK /\ BreakerOK
  BY OrderConstants DEF Init, CallsOK, BreakerOK, Phases
<1>4. FlagsOK
  BY Zenon DEF Init, FlagsOK
<1>5. FaultsOK
  BY OrderConstants DEF Init, FaultsOK, FaultKinds, Budget
<1>. QED
  BY <1>1, <1>2, <1>3, <1>4, <1>5 DEF TypeOK

\* Status updates keep the rows well formed.
LEMMA UpdateTyped ==
  ASSUME row \in [Orders -> RowStatus], NEW i \in Orders, NEW status \in RowStatus,
         Update(i, status)
  PROVE  row' \in [Orders -> RowStatus]
BY DEF Update

\* Counting a failure keeps the breaker in its range.
LEMMA RecordFailureTyped ==
  ASSUME BreakerOK, RecordFailure PROVE BreakerOK'
BY OrderConstants DEF BreakerOK, RecordFailure

\* So does the look at the breaker before a placement, which may reset it.
LEMMA BreakerAllowsTyped ==
  ASSUME BreakerOK, BreakerAllows PROVE BreakerOK'
BY OrderConstants DEF BreakerOK, BreakerAllows

\* A fault uses up one of its budget and no more.
LEMMA FaultTyped ==
  ASSUME FaultsOK, NEW k \in FaultKinds, Fault(k) PROVE FaultsOK'
BY OrderConstants DEF FaultsOK, Fault, FaultKinds, Budget

\* Sending a chunk of the grid writes well-typed rows.
LEMMA SendChunkTyped ==
  ASSUME StoreOK, NEW S, S \subseteq Orders, SendChunk(S)
  PROVE  /\ book' \in [Orders -> BookStatus]
         /\ todo' \subseteq Orders /\ batch' \subseteq Orders /\ batch' \subseteq S
BY FirstOfSubset DEF SendChunk, StoreOK, BookStatus

\* Both forms of NextChunk's answer leave the calls well formed.
LEMMA NextChunkTyped ==
  ASSUME StoreOK, CallsOK, NextChunk
  PROVE  /\ book' \in [Orders -> BookStatus]
         /\ awaiting' \subseteq Orders /\ todo' \subseteq Orders
         /\ batch' \subseteq awaiting'
         /\ phase' \in Phases
<1>1. SendChunk(todo) /\ todo \subseteq Orders
  BY DEF NextChunk, CallsOK
<1>2. /\ book' \in [Orders -> BookStatus]
      /\ todo' \subseteq Orders /\ batch' \subseteq Orders
  BY <1>1, SendChunkTyped
<1>. QED
  BY <1>2 DEF NextChunk, CallsOK, Phases

\* The number of failures in a row at an answer of a batch is a number.
LEMMA RunAtTyped ==
  ASSUME CallsOK, BreakerOK, NEW i \in Orders PROVE RunAt(i) \in Nat
<1>. DEFINE seen == {j \in batch : j <= i}
            ok   == {j \in seen : book[j] # "refused"}
            tail == {j \in seen : \A k \in ok : k < j}
<1>1. tail \subseteq Orders
  BY DEF CallsOK
<1>2. Cardinality(tail) \in Nat
  BY <1>1, OrdersFinite
<1>3. failureCount \in Nat
  BY OrderConstants DEF BreakerOK
<1>. QED
  BY <1>2, <1>3 DEF RunAt

\* No step spends a fault it does not have.
LEMMA FaultsStep == FaultsOK /\ [Next]_orderVars => FaultsOK'
<1>. SUFFICES ASSUME FaultsOK, [Next]_orderVars PROVE FaultsOK'
  OBVIOUS
<1>1. (\E k \in FaultKinds : Fault(k)) \/ faults' = faults
  BY DEF FaultKinds, Next, Process, Exchange, Handles, orderVars,
    PlaceSingleOrder, NoReplenishment, SinglePlaced, SingleFailed, PlaceGrid,
    StartWithoutGrid, BatchAnswered, BatchFailed, HandleFilled, HandleCancelled,
    HandleFailed, HandlePlaced, CancelAll, CancelAllReturns, CancelAllFails, Start,
    FetchOpenOrders, Reconcile, WsConnect, BreakerElapses, ExchangeReceives,
    ExchangeCancelsAll, Rests, FailsLater, Fills, Moves, WsDrop, Crash
<1>2. ASSUME faults' = faults PROVE FaultsOK'
  BY <1>2 DEF FaultsOK, Budget
<1>. QED
  BY <1>1, <1>2, FaultTyped

\* The socket and the answer of reconciliation stay Booleans.
LEMMA FlagsStep == FlagsOK /\ [Next]_orderVars => FlagsOK'
<1>. SUFFICES ASSUME FlagsOK, [Next]_orderVars PROVE FlagsOK'
  OBVIOUS
<1>1. wsUp' \in BOOLEAN
  BY Zenon DEF FlagsOK, startVars, Next, Process, Exchange, Handles, orderVars,
    PlaceSingleOrder, NoReplenishment, SinglePlaced, SingleFailed, PlaceGrid,
    StartWithoutGrid, BatchAnswered, BatchFailed, HandleFilled, HandleCancelled,
    HandleFailed, HandlePlaced, CancelAll, CancelAllReturns, CancelAllFails, Start,
    FetchOpenOrders, Reconcile, WsConnect, BreakerElapses, ExchangeReceives,
    ExchangeCancelsAll, Rests, FailsLater, Fills, Moves, WsDrop, Crash
<1>2. needsGrid' \in BOOLEAN
  <2>1. GridIncomplete' \in BOOLEAN
    <3>1. (Cardinality(ActiveOrders) < Levels)' \in BOOLEAN
      OBVIOUS
    <3>2. (\E s \in Sides : Cardinality(ActiveOn(s)) < Levels)' \in BOOLEAN
      BY Zenon
    <3>. QED
      BY <3>1, <3>2, Zenon DEF GridIncomplete
  <2>2. Reconcile => needsGrid' \in BOOLEAN
    BY <2>1, Zenon DEF Reconcile
  <2>3. UNCHANGED needsGrid \/ Crash => needsGrid' \in BOOLEAN
    BY Zenon DEF Crash, FlagsOK
  <2>4. Reconcile \/ UNCHANGED needsGrid \/ Crash
    BY DEF startVars, Next, Process, Exchange, Handles, orderVars,
      PlaceSingleOrder, NoReplenishment, SinglePlaced, SingleFailed, PlaceGrid,
      StartWithoutGrid, BatchAnswered, BatchFailed, HandleFilled, HandleCancelled,
      HandleFailed, HandlePlaced, CancelAll, CancelAllReturns, CancelAllFails, Start,
      FetchOpenOrders, WsConnect, BreakerElapses, ExchangeReceives,
      ExchangeCancelsAll, Rests, FailsLater, Fills, Moves, WsDrop
  <2>. QED
    BY <2>2, <2>3, <2>4
<1>. QED
  BY <1>1, <1>2 DEF FlagsOK

\* The circuit breaker stays in its range, whatever fails.
LEMMA BreakerStep == TypeOK /\ [Next]_orderVars => BreakerOK'
<1>. SUFFICES ASSUME TypeOK, [Next]_orderVars PROVE BreakerOK'
  OBVIOUS
<1>0. BreakerOK /\ CallsOK
  BY DEF TypeOK
<1>1. CASE RecordFailure
  BY <1>0, <1>1, RecordFailureTyped
<1>2. CASE BreakerAllows
  BY <1>0, <1>2, BreakerAllowsTyped
<1>3. CASE BatchAnswered
  BY <1>0, <1>3, RunAtTyped, OrderConstants DEF BatchAnswered, BreakerOK, CallsOK
<1>4. CASE UNCHANGED breakerVars
  BY <1>0, <1>4 DEF BreakerOK, breakerVars
<1>5. CASE failureCount' \in {0, failureCount} /\ breaker' \in {breaker, "closed", "elapsed"}
  BY <1>0, <1>5, OrderConstants DEF BreakerOK
<1>. QED
  BY <1>1, <1>2, <1>3, <1>4, <1>5 DEF breakerVars, Next, Process, Exchange, Handles, orderVars,
    PlaceSingleOrder, NoReplenishment, SinglePlaced, SingleFailed, PlaceGrid,
    StartWithoutGrid, BatchAnswered, BatchFailed, HandleFilled, HandleCancelled,
    HandleFailed, HandlePlaced, CancelAll, CancelAllReturns, CancelAllFails, Start,
    FetchOpenOrders, Reconcile, WsConnect, BreakerElapses, ExchangeReceives,
    ExchangeCancelsAll, Rests, FailsLater, Fills, Moves, WsDrop, Crash

\* An event that ends an order says how it ended.
EventTells(e, status) ==
  /\ e = "Filled" => status = "filled"
  /\ e = "Cancelled" => status = "cancelled"
  /\ e = "Failed" => status = "failed"

\* Each order's events are appended at the end and taken from the front.
FeedMoves(i) ==
  \/ feed'[i] = feed[i]
  \/ feed'[i] = <<>>
  \/ feed[i] # <<>> /\ feed'[i] = Tail(feed[i])
  \/ \E e \in Events : /\ feed'[i] = Append(feed[i], e)
                       /\ book[i] \in {"accepted", "live"}
                       /\ EventTells(e, book'[i])
                       /\ e # "Placed" => book'[i] \notin {"accepted", "live"}

\* The events of an order stay events, and each step appends one or handles the first.
LEMMA FeedStep ==
  TypeOK /\ [Next]_orderVars => FeedOK' /\ \A i \in Orders : FeedMoves(i)
<1>. SUFFICES ASSUME TypeOK, [Next]_orderVars
              PROVE  FeedOK' /\ \A i \in Orders : FeedMoves(i)
  OBVIOUS
<1>0. FeedOK /\ book \in [Orders -> BookStatus]
  BY DEF TypeOK, StoreOK
<1>1. CASE UNCHANGED feed
  BY <1>0, <1>1 DEF FeedOK, FeedMoves
<1>2. CASE feed' = [i \in Orders |-> <<>>]
  BY <1>0, <1>2 DEF FeedOK, FeedMoves
<1>3. ASSUME NEW i \in Orders, feed[i] # <<>>, feed' = [feed EXCEPT ![i] = Tail(@)]
      PROVE  FeedOK' /\ \A j \in Orders : FeedMoves(j)
  BY <1>0, <1>3 DEF FeedOK, FeedMoves
<1>4. ASSUME NEW i \in Orders, NEW from \in {"accepted", "live"}, NEW to \in BookStatus,
             NEW e \in Events, Moves(i, from, to, e), EventTells(e, to),
             e # "Placed" => to \notin {"accepted", "live"}
      PROVE  FeedOK' /\ \A j \in Orders : FeedMoves(j)
  BY <1>0, <1>4 DEF FeedOK, FeedMoves, Moves, Emit
<1>5. CASE ExchangeCancelsAll
  BY <1>0, <1>5 DEF ExchangeCancelsAll, FeedOK, FeedMoves, Events, EventTells
<1>6. CASE \E i \in Orders : Rests(i) \/ FailsLater(i) \/ Fills(i)
  BY <1>4, <1>6 DEF Rests, FailsLater, Fills, BookStatus, Events, EventTells
<1>7. \/ UNCHANGED feed \/ feed' = [i \in Orders |-> <<>>]
      \/ \E i \in Orders : feed[i] # <<>> /\ feed' = [feed EXCEPT ![i] = Tail(@)]
      \/ ExchangeCancelsAll \/ \E i \in Orders : Rests(i) \/ FailsLater(i) \/ Fills(i)
  BY DEF HandleStatus, Next, Process, Exchange, Handles, orderVars,
    storeVars, callVars, breakerVars, startVars,
    PlaceSingleOrder, NoReplenishment, SinglePlaced, SingleFailed, PlaceGrid,
    StartWithoutGrid, BatchAnswered, BatchFailed, HandleFilled, HandleCancelled,
    HandleFailed, HandlePlaced, CancelAll, CancelAllReturns, CancelAllFails, Start,
    FetchOpenOrders, Reconcile, WsConnect, BreakerElapses, ExchangeReceives,
    ExchangeCancelsAll, Rests, FailsLater, Fills, Moves, WsDrop, Crash
<1>. QED
  BY <1>1, <1>2, <1>3, <1>5, <1>6, <1>7

\* What the process waits for are orders it sent.
LEMMA CallsStep == TypeOK /\ [Next]_orderVars => CallsOK'
<1>. SUFFICES ASSUME TypeOK, [Next]_orderVars PROVE CallsOK'
  OBVIOUS
<1>0. StoreOK /\ CallsOK
  BY DEF TypeOK
<1>1. ASSUME UNCHANGED <<awaiting, todo, batch>>
      PROVE  CallsOK'
  <2>1. fillers' \subseteq Orders
    BY <1>0, <1>1, Zenon DEF CallsOK, Next, Process, Exchange, Handles, orderVars,
    storeVars, callVars, breakerVars, startVars,
    PlaceSingleOrder, NoReplenishment, SinglePlaced, SingleFailed, PlaceGrid,
    StartWithoutGrid, BatchAnswered, BatchFailed, HandleFilled, HandleCancelled,
    HandleFailed, HandlePlaced, CancelAll, CancelAllReturns, CancelAllFails, Start,
    FetchOpenOrders, Reconcile, WsConnect, BreakerElapses, ExchangeReceives,
    ExchangeCancelsAll, Rests, FailsLater, Fills, Moves, WsDrop, Crash
  <2>2. openOrders' \subseteq Orders
    BY <1>0, <1>1 DEF CallsOK, Next, Process, Exchange, Handles, orderVars,
    storeVars, callVars, breakerVars, startVars,
    PlaceSingleOrder, NoReplenishment, SinglePlaced, SingleFailed, PlaceGrid,
    StartWithoutGrid, BatchAnswered, BatchFailed, HandleFilled, HandleCancelled,
    HandleFailed, HandlePlaced, CancelAll, CancelAllReturns, CancelAllFails, Start,
    FetchOpenOrders, Reconcile, WsConnect, BreakerElapses, ExchangeReceives,
    ExchangeCancelsAll, Rests, FailsLater, Fills, Moves, WsDrop, Crash
  <2>3. sweep' \in {"idle", "sent", "done"} /\ phase' \in Phases
    BY <1>0, <1>1 DEF CallsOK, Phases, NextChunk, Next, Process, Exchange, Handles, orderVars,
    storeVars, callVars, breakerVars, startVars,
    PlaceSingleOrder, NoReplenishment, SinglePlaced, SingleFailed, PlaceGrid,
    StartWithoutGrid, BatchAnswered, BatchFailed, HandleFilled, HandleCancelled,
    HandleFailed, HandlePlaced, CancelAll, CancelAllReturns, CancelAllFails, Start,
    FetchOpenOrders, Reconcile, WsConnect, BreakerElapses, ExchangeReceives,
    ExchangeCancelsAll, Rests, FailsLater, Fills, Moves, WsDrop, Crash
  <2>. QED
    BY <1>0, <1>1, <2>1, <2>2, <2>3 DEF CallsOK
<1>2. ASSUME NEW f \in Orders, NEW s \in Sides, PlaceSingleOrder(f, s)
      PROVE  CallsOK'
  <2>1. FirstOf(Fresh, 1) \subseteq Orders
    BY FirstOfSubset, GridIdsAreFresh
  <2>. QED
    BY <1>0, <1>2, <2>1 DEF PlaceSingleOrder, CallsOK, startVars
<1>3. ASSUME NEW i \in Orders, SinglePlaced(i) \/ SingleFailed(i)
      PROVE  CallsOK'
  BY <1>0, <1>3 DEF SinglePlaced, SingleFailed, CallsOK, startVars
<1>4. CASE PlaceGrid
  <2>1. GridIds \subseteq Orders
    BY GridIdsAreFresh
  <2>2. batch' \subseteq Orders /\ todo' \subseteq Orders
    BY <1>0, <1>4, <2>1, SendChunkTyped DEF PlaceGrid
  <2>. QED
    BY <1>0, <1>4, <2>2 DEF PlaceGrid, CallsOK, Phases
<1>5. CASE BatchAnswered \/ BatchFailed
  <2>1. /\ awaiting' \subseteq Orders /\ todo' \subseteq Orders
        /\ batch' \subseteq awaiting' /\ phase' \in Phases
    BY <1>0, <1>5, NextChunkTyped DEF BatchAnswered, BatchFailed
  <2>. QED
    BY <1>0, <1>5, <2>1 DEF BatchAnswered, BatchFailed, CallsOK
<1>6. CASE Crash
  BY <1>0, <1>6 DEF Crash, CallsOK, Phases
<1>7. \/ UNCHANGED <<awaiting, todo, batch>>
      \/ \E f \in Orders : \E s \in Sides : PlaceSingleOrder(f, s)
      \/ \E i \in Orders : SinglePlaced(i) \/ SingleFailed(i)
      \/ PlaceGrid \/ BatchAnswered \/ BatchFailed \/ Crash
  BY DEF Next, Process, Exchange, Handles, orderVars, callVars, NoReplenishment,
    StartWithoutGrid, HandleFilled, HandleCancelled, HandleFailed, HandlePlaced, CancelAll,
    CancelAllReturns, CancelAllFails, Start, FetchOpenOrders, Reconcile, WsConnect,
    BreakerElapses, ExchangeReceives, ExchangeCancelsAll, Rests, FailsLater, Fills, Moves,
    WsDrop
<1>. QED
  BY <1>1, <1>2, <1>3, <1>4, <1>5, <1>6, <1>7

\* Rows, ids and the book of the exchange stay in their sets.
LEMMA StoreStep == TypeOK /\ [Next]_orderVars => StoreOK'
<1>. SUFFICES ASSUME TypeOK, [Next]_orderVars PROVE StoreOK'
  OBVIOUS
<1>0. StoreOK /\ CallsOK /\ GridIds \subseteq Orders
  BY GridIdsAreFresh DEF TypeOK
<1>1. row' \in [Orders -> RowStatus]
  <2>1. ASSUME NEW i \in Orders, NEW status \in RowStatus, Update(i, status)
        PROVE  row' \in [Orders -> RowStatus]
    BY <1>0, <2>1, UpdateTyped DEF StoreOK
  <2>2. CASE \E i \in Orders : Handles(i)
    <3>1. \E i \in Orders : \E status \in RowStatus : Update(i, status)
      BY <1>0, <2>2 DEF Handles, SinglePlaced, SingleFailed, HandleFilled, HandleCancelled,
        HandleFailed, HandlePlaced, HandleStatus, UpdateWithId, RowStatus, StoreOK
    <3>. QED
      BY <2>1, <3>1
  <2>3. CASE row' = [i \in Orders |-> ReconciledRow(i)]
    BY <1>0, <2>3 DEF ReconciledRow, StoreOK, RowStatus
  <2>4. CASE PlaceGrid \/ BatchAnswered \/ BatchFailed \/ CancelAllReturns
    BY <1>0, <2>4 DEF PlaceGrid, BatchAnswered, Outcome, BatchFailed, CancelAllReturns,
      StoreOK, RowStatus
  <2>5. CASE \E f \in Orders, s \in Sides : PlaceSingleOrder(f, s)
    BY <1>0, <2>5 DEF PlaceSingleOrder, StoreOK, RowStatus
  <2>6. CASE UNCHANGED row
    BY <1>0, <2>6 DEF StoreOK
  <2>. QED
    BY <2>2, <2>3, <2>4, <2>5, <2>6 DEF Next, Process, Exchange, orderVars, storeVars,
      NoReplenishment, StartWithoutGrid, CancelAll, CancelAllFails, Start,
      FetchOpenOrders, Reconcile, WsConnect, BreakerElapses, ExchangeReceives,
      ExchangeCancelsAll, Rests, FailsLater, Fills, Moves, WsDrop, Crash
<1>2. hasId' \in [Orders -> BOOLEAN]
  BY <1>0 DEF StoreOK, UpdateWithId, Next, Process, Exchange, Handles, orderVars,
    storeVars, callVars, breakerVars, startVars,
    PlaceSingleOrder, NoReplenishment, SinglePlaced, SingleFailed, PlaceGrid,
    StartWithoutGrid, BatchAnswered, BatchFailed, HandleFilled, HandleCancelled,
    HandleFailed, HandlePlaced, CancelAll, CancelAllReturns, CancelAllFails, Start,
    FetchOpenOrders, Reconcile, WsConnect, BreakerElapses, ExchangeReceives,
    ExchangeCancelsAll, Rests, FailsLater, Fills, Moves, WsDrop, Crash
<1>3. side' \in [Orders -> Sides]
  <2>1. ASSUME MissingSides # {}, NEW i \in Orders PROVE GridSide(i) \in Sides
    BY <2>1, OrderConstants, MissingSidesAreSides DEF GridSide
  <2>2. CASE PlaceGrid
    BY <1>0, <2>1, <2>2 DEF PlaceGrid, StoreOK
  <2>3. CASE \E f \in Orders, s \in Sides : PlaceSingleOrder(f, s)
    BY <1>0, <2>3 DEF PlaceSingleOrder, StoreOK
  <2>4. CASE UNCHANGED side
    BY <1>0, <2>4 DEF StoreOK
  <2>. QED
    BY <2>2, <2>3, <2>4 DEF Next, Process, Exchange, Handles, orderVars, storeVars,
      NoReplenishment, SinglePlaced, SingleFailed, StartWithoutGrid, BatchAnswered,
      BatchFailed, HandleFilled, HandleCancelled, HandleFailed, HandlePlaced, CancelAll,
      CancelAllReturns, CancelAllFails, Start, FetchOpenOrders, Reconcile, WsConnect,
      BreakerElapses, ExchangeReceives, ExchangeCancelsAll, Rests, FailsLater, Fills, Moves,
      WsDrop, Crash
<1>4. book' \in [Orders -> BookStatus]
  <2>1. CASE \E S \in SUBSET Orders : SendChunk(S)
    BY <1>0, <2>1, SendChunkTyped
  <2>2. CASE UNCHANGED book
    BY <1>0, <2>2 DEF StoreOK
  <2>3. CASE \E S, A : Accepts(S, A)
    BY <1>0, <2>3 DEF Accepts, StoreOK, BookStatus
  <2>4. CASE \E f \in Orders, s \in Sides : PlaceSingleOrder(f, s)
    BY <1>0, <2>4 DEF PlaceSingleOrder, StoreOK, BookStatus
  <2>5. CASE ExchangeCancelsAll \/ \E i \in Orders : Rests(i) \/ FailsLater(i) \/ Fills(i)
    BY <1>0, <2>5 DEF ExchangeCancelsAll, Rests, FailsLater, Fills, Moves, StoreOK, BookStatus
  <2>6. PlaceGrid \/ BatchAnswered \/ BatchFailed => \E S \in SUBSET Orders : SendChunk(S)
    BY <1>0 DEF PlaceGrid, BatchAnswered, BatchFailed, NextChunk, CallsOK
  <2>. QED
    BY <2>1, <2>2, <2>3, <2>4, <2>5, <2>6 DEF Next, Process, Exchange, Handles, orderVars,
      NoReplenishment, SinglePlaced, SingleFailed, StartWithoutGrid,
      HandleFilled, HandleCancelled, HandleFailed, HandlePlaced, CancelAll,
      CancelAllReturns, CancelAllFails, Start, FetchOpenOrders, Reconcile, WsConnect,
      BreakerElapses, ExchangeReceives, WsDrop, Crash, storeVars
<1>. QED
  BY <1>1, <1>2, <1>3, <1>4 DEF StoreOK

\* Every action of bot and exchange keeps the types.
THEOREM TypeStep == TypeOK /\ [Next]_orderVars => TypeOK'
BY StoreStep, FeedStep, CallsStep, BreakerStep, FlagsStep, FaultsStep DEF TypeOK

\* In every state of every behaviour the store, the feed, the calls in flight,
\* the breaker and the faults are what OrderManager says they are.
THEOREM TypeCorrect == Spec => []TypeOK
BY InitTyped, TypeStep, PTL DEF Spec

-----------------------------------------------------------------------------
(* The table is never ahead of the exchange.                               *)
(*                                                                         *)
(* RowsAreTruthful is not inductive: a row becomes "filled" by an event    *)
(* and gets its exchange id by an answer or from the open orders, so it    *)
(* takes what holds of an order while an answer, an event or a place in a  *)
(* plan is outstanding for it.                                             *)

\* The exchange has the order and accepted it.
Acknowledged(i) == book[i] \notin {"absent", "sent", "refused"}

Causal ==
  /\ \A i \in todo : book[i] = "absent"
  /\ \A i \in awaiting : book[i] # "absent"
  /\ (\E i \in batch : book[i] = "sent") => \A i \in batch : book[i] = "sent"
  /\ \A i \in openOrders : Acknowledged(i)
  /\ \A i \in Orders : \A k \in 1..Len(feed[i]) :
       /\ Acknowledged(i)
       /\ EventTells(feed[i][k], book[i])
       /\ feed[i][k] # "Placed" => k = Len(feed[i]) /\ book[i] \notin {"accepted", "live"}

Truthful == TypeOK /\ Causal /\ RowsAreTruthful

\* An order moves along its life at the exchange and never back.
Advances(from, to) ==
  \/ from = to
  \/ from = "absent" /\ to = "sent"
  \/ from = "sent" /\ to \in {"refused", "accepted"}
  \/ from = "accepted" /\ to \in {"live", "failed"}
  \/ from = "live" /\ to \in {"filled", "cancelled"}

\* A fresh id has no row, no order and no place in a chunk.
LEMMA FreshIsAbsent == \A i \in Fresh : i \in Orders \ todo /\ book[i] = "absent" /\ row[i] = "none"
BY DEF Fresh

\* Sending a chunk moves its orders from absent to sent, and no other.
LEMMA SendChunkAdvances ==
  ASSUME StoreOK, NEW S, \A i \in S : book[i] = "absent", S \subseteq Orders, SendChunk(S)
  PROVE  /\ \A i \in Orders : Advances(book[i], book'[i])
         /\ \A i \in batch' : book'[i] = "sent"
         /\ \A i \in todo' : book'[i] = "absent"
         /\ batch' \subseteq S
BY FirstOfSubset DEF SendChunk, Advances, StoreOK

\* The exchange moves an order only forward.
LEMMA BookStep ==
  TypeOK /\ Causal /\ [Next]_orderVars => \A i \in Orders : Advances(book[i], book'[i])
<1>. SUFFICES ASSUME TypeOK, Causal, [Next]_orderVars
              PROVE  \A i \in Orders : Advances(book[i], book'[i])
  OBVIOUS
<1>0. StoreOK /\ CallsOK
  BY DEF TypeOK
<1>1. CASE PlaceGrid \/ BatchAnswered \/ BatchFailed
  <2>1. \E S \in SUBSET Orders : SendChunk(S) /\ \A i \in S : book[i] = "absent"
    BY <1>0, <1>1, GridIdsAreFresh, FreshIsAbsent
    DEF PlaceGrid, BatchAnswered, BatchFailed, NextChunk, Causal, CallsOK
  <2>. QED
    BY <1>0, <2>1, SendChunkAdvances
<1>2. CASE \E f \in Orders, s \in Sides : PlaceSingleOrder(f, s)
  <2>1. \A i \in FirstOf(Fresh, 1) : book[i] = "absent" /\ i \in Orders
    BY FirstOfSubset, FreshIsAbsent
  <2>. QED
    BY <1>0, <1>2, <2>1 DEF PlaceSingleOrder, StoreOK, Advances
<1>3. CASE ExchangeReceives
  BY <1>0, <1>3 DEF ExchangeReceives, Accepts, Causal, StoreOK, Advances
<1>4. CASE ExchangeCancelsAll \/ \E i \in Orders : Rests(i) \/ FailsLater(i) \/ Fills(i)
  BY <1>0, <1>4 DEF ExchangeCancelsAll, Rests, FailsLater, Fills, Moves, StoreOK, Advances
<1>5. CASE UNCHANGED book
  BY <1>5 DEF Advances
<1>. QED
  BY <1>1, <1>2, <1>3, <1>4, <1>5 DEF Next, Process, Exchange, Handles, orderVars,
    NoReplenishment, SinglePlaced, SingleFailed, StartWithoutGrid,
    HandleFilled, HandleCancelled, HandleFailed, HandlePlaced, CancelAll,
    CancelAllReturns, CancelAllFails, Start, FetchOpenOrders, Reconcile, WsConnect,
    BreakerElapses, WsDrop, Crash, storeVars

\* What is on its way stays true: events, answers and lists of open orders.
LEMMA CausalStep == TypeOK /\ Causal /\ [Next]_orderVars => Causal'
<1>. SUFFICES ASSUME TypeOK, Causal, [Next]_orderVars PROVE Causal'
  OBVIOUS
<1>0. StoreOK /\ CallsOK /\ FeedOK
  BY DEF TypeOK
<1>1. \A i \in Orders : Advances(book[i], book'[i])
  BY BookStep
<1>a. \A i \in Orders : Acknowledged(i) => Acknowledged(i)'
  BY <1>1 DEF Acknowledged, Advances
<1>2. /\ \A i \in todo' : book'[i] = "absent"
      /\ \A i \in awaiting' : book'[i] # "absent"
      /\ (\E i \in batch' : book'[i] = "sent") => \A i \in batch' : book'[i] = "sent"
  <2>1. CASE PlaceGrid
    <3>1. /\ \A i \in batch' : book'[i] = "sent"
          /\ \A i \in todo' : book'[i] = "absent"
      BY <1>0, <2>1, SendChunkAdvances, GridIdsAreFresh, FreshIsAbsent DEF PlaceGrid
    <3>. QED
      BY <1>0, <1>1, <2>1, <3>1 DEF PlaceGrid, Causal, CallsOK, Advances
  <2>2. CASE BatchAnswered \/ BatchFailed
    <3>1. /\ \A i \in batch' : book'[i] = "sent"
          /\ \A i \in todo' : book'[i] = "absent"
      BY <1>0, <2>2, SendChunkAdvances
      DEF BatchAnswered, BatchFailed, NextChunk, Causal, CallsOK
    <3>. QED
      BY <1>0, <1>1, <2>2, <3>1
      DEF BatchAnswered, BatchFailed, NextChunk, Causal, CallsOK, Advances
  <2>3. CASE \E f \in Orders, s \in Sides : PlaceSingleOrder(f, s)
    <3>1. \A i \in FirstOf(Fresh, 1) : book[i] = "absent" /\ i \in Orders \ todo
      BY FirstOfSubset, FreshIsAbsent
    <3>. QED
      BY <1>0, <2>3, <3>1 DEF PlaceSingleOrder, StoreOK, Causal, CallsOK
  <2>4. CASE ExchangeReceives
    BY <1>0, <2>4 DEF ExchangeReceives, Accepts, Causal, StoreOK, CallsOK, callVars
  <2>5. CASE ExchangeCancelsAll \/ \E i \in Orders : Rests(i) \/ FailsLater(i) \/ Fills(i)
    BY <1>0, <2>5 DEF ExchangeCancelsAll, Rests, FailsLater, Fills, Moves, StoreOK, Causal,
      CallsOK, callVars
  <2>6. CASE \E i \in Orders : SinglePlaced(i) \/ SingleFailed(i)
    BY <1>0, <2>6 DEF SinglePlaced, SingleFailed, Causal
  <2>7. CASE Crash
    BY <1>0, <2>7 DEF Crash, Causal
  <2>8. CASE UNCHANGED <<book, awaiting, todo, batch>>
    BY <2>8 DEF Causal
  <2>. QED
    BY <2>1, <2>2, <2>3, <2>4, <2>5, <2>6, <2>7, <2>8 DEF Next, Process, Exchange,
      Handles, orderVars, callVars, NoReplenishment, StartWithoutGrid, HandleFilled,
      HandleCancelled, HandleFailed, HandlePlaced, CancelAll, CancelAllReturns,
      CancelAllFails, Start, FetchOpenOrders, Reconcile, WsConnect, BreakerElapses, WsDrop
<1>3. \A i \in openOrders' : Acknowledged(i)'
  <2>1. openOrders' \subseteq openOrders \/ FetchOpenOrders
    BY DEF Next, Process, Exchange, Handles, orderVars,
    storeVars, callVars, breakerVars, startVars,
    PlaceSingleOrder, NoReplenishment, SinglePlaced, SingleFailed, PlaceGrid,
    StartWithoutGrid, BatchAnswered, BatchFailed, HandleFilled, HandleCancelled,
    HandleFailed, HandlePlaced, CancelAll, CancelAllReturns, CancelAllFails, Start,
    Reconcile, WsConnect, BreakerElapses, ExchangeReceives,
    ExchangeCancelsAll, Rests, FailsLater, Fills, Moves, WsDrop, Crash
  <2>2. CASE FetchOpenOrders
    BY <1>0, <2>2 DEF FetchOpenOrders, Acknowledged
  <2>. QED
    BY <1>0, <1>a, <2>1, <2>2 DEF Causal, CallsOK
<1>4. \A i \in Orders : \A k \in 1..Len(feed'[i]) :
        /\ Acknowledged(i)'
        /\ EventTells(feed'[i][k], book'[i])
        /\ feed'[i][k] # "Placed" => k = Len(feed'[i]) /\ book'[i] \notin {"accepted", "live"}
  <2>. SUFFICES ASSUME NEW i \in Orders, NEW k \in 1..Len(feed'[i])
                PROVE  /\ Acknowledged(i)'
                       /\ EventTells(feed'[i][k], book'[i])
                       /\ feed'[i][k] # "Placed" =>
                            k = Len(feed'[i]) /\ book'[i] \notin {"accepted", "live"}
    OBVIOUS
  <2>1. FeedMoves(i) /\ feed[i] \in Seq(Events)
    BY <1>0, FeedStep DEF FeedOK
  <2>2. \A j \in 1..Len(feed[i]) :
          /\ Acknowledged(i)'
          /\ EventTells(feed[i][j], book'[i])
          /\ feed[i][j] # "Placed" => j = Len(feed[i]) /\ book'[i] \notin {"accepted", "live"}
    BY <1>1, <1>a DEF Causal, Advances, EventTells, Acknowledged
  <2>3. CASE feed'[i] \in {feed[i], <<>>}
    BY <2>2, <2>3
  <2>4. CASE feed[i] # <<>> /\ feed'[i] = Tail(feed[i])
    <3>1. /\ Len(feed'[i]) = Len(feed[i]) - 1
          /\ k + 1 \in 1..Len(feed[i]) /\ feed'[i][k] = feed[i][k + 1]
      BY <2>1, <2>4
    <3>. QED
      BY <2>2, <3>1
  <2>5. ASSUME NEW e \in Events, feed'[i] = Append(feed[i], e),
               book[i] \in {"accepted", "live"}, EventTells(e, book'[i]),
               e # "Placed" => book'[i] \notin {"accepted", "live"}
        PROVE  /\ Acknowledged(i)'
               /\ EventTells(feed'[i][k], book'[i])
               /\ feed'[i][k] # "Placed" =>
                    k = Len(feed'[i]) /\ book'[i] \notin {"accepted", "live"}
    <3>1. Acknowledged(i)'
      BY <1>a, <2>5 DEF Acknowledged
    <3>2. CASE k \in 1..Len(feed[i]) /\ feed'[i][k] = feed[i][k]
      BY <2>5, <3>1, <3>2 DEF Causal, EventTells
    <3>3. CASE k = Len(feed'[i]) /\ feed'[i][k] = e
      BY <2>5, <3>1, <3>3
    <3>4. \/ k \in 1..Len(feed[i]) /\ feed'[i][k] = feed[i][k]
          \/ k = Len(feed'[i]) /\ feed'[i][k] = e
      BY <2>1, <2>5
    <3>. QED
      BY <3>2, <3>3, <3>4
  <2>. QED
    BY <2>1, <2>3, <2>4, <2>5 DEF FeedMoves
<1>. QED
  BY <1>2, <1>3, <1>4 DEF Causal

\* Handling what has arrived leaves no row ahead of the exchange.
LEMMA TruthStep == TypeOK /\ Causal /\ RowsAreTruthful /\ [Next]_orderVars => RowsAreTruthful'
<1>. SUFFICES ASSUME TypeOK, Causal, RowsAreTruthful, [Next]_orderVars,
                     NEW i \in Orders
              PROVE  /\ row'[i] = "filled" => book'[i] = "filled"
                     /\ hasId'[i] => Acknowledged(i)'
                     /\ row'[i] = "placed" => hasId'[i]
                     /\ i \in fillers' => book'[i] = "filled"
  BY DEF RowsAreTruthful, Acknowledged
<1>0. StoreOK /\ CallsOK /\ FeedOK
  BY DEF TypeOK
<1>1. Advances(book[i], book'[i])
  BY BookStep
<1>2. /\ row[i] = "filled" => book'[i] = "filled"
      /\ hasId[i] => Acknowledged(i)'
      /\ row[i] = "placed" => hasId[i]
      /\ i \in fillers => book'[i] = "filled"
      /\ Acknowledged(i) => Acknowledged(i)'
  BY <1>1 DEF RowsAreTruthful, Advances, Acknowledged
<1>3. CASE UNCHANGED <<row, hasId, fillers>>
  BY <1>2, <1>3
<1>4. ASSUME NEW j \in Orders, Handles(j)
      PROVE  /\ row'[i] = "filled" => book'[i] = "filled"
             /\ hasId'[i] => Acknowledged(i)'
             /\ row'[i] = "placed" => hasId'[i]
             /\ i \in fillers' => book'[i] = "filled"
  <2>1. ASSUME NEW e \in Events, feed[j] # <<>>, Head(feed[j]) = e
        PROVE  Acknowledged(j) /\ (e = "Filled" => book[j] = "filled")
    <3>1. 1 \in 1..Len(feed[j]) /\ Head(feed[j]) = feed[j][1]
      BY <1>0, <2>1 DEF FeedOK
    <3>. QED
      BY <2>1, <3>1 DEF Causal, EventTells
  <2>2. CASE SinglePlaced(j) \/ SingleFailed(j)
    BY <1>0, <1>2, <2>2
    DEF SinglePlaced, SingleFailed, UpdateWithId, Update, StoreOK, Causal, Acknowledged
  <2>3. CASE HandleFilled(j)
    BY <1>0, <1>2, <2>1, <2>3 DEF HandleFilled, HandleStatus, Update, StoreOK, Events
  <2>4. CASE HandleCancelled(j) \/ HandleFailed(j)
    BY <1>0, <1>2, <2>4 DEF HandleCancelled, HandleFailed, HandleStatus, Update, StoreOK
  <2>5. CASE HandlePlaced(j)
    BY <1>0, <1>2, <2>1, <2>5 DEF HandlePlaced, HandleStatus, Update, StoreOK, Events
  <2>. QED
    BY <1>4, <2>2, <2>3, <2>4, <2>5 DEF Handles
<1>5. CASE \E f \in Orders, s \in Sides : PlaceSingleOrder(f, s)
  BY <1>0, <1>2, <1>5 DEF PlaceSingleOrder, StoreOK
<1>6. CASE PlaceGrid
  BY <1>0, <1>2, <1>6 DEF PlaceGrid, StoreOK
<1>7. CASE BatchAnswered
  <2>1. i \in batch => book[i] \notin {"absent", "sent"}
    BY <1>0, <1>7 DEF BatchAnswered, Causal, CallsOK
  <2>. QED
    BY <1>0, <1>2, <1>7, <2>1 DEF BatchAnswered, Outcome, StoreOK, Acknowledged
<1>8. CASE BatchFailed \/ CancelAllReturns
  BY <1>0, <1>2, <1>8 DEF BatchFailed, CancelAllReturns, StoreOK, Active, storeVars
<1>9. CASE Reconcile
  BY <1>0, <1>2, <1>9 DEF Reconcile, ReconciledRow, Active, StoreOK, Causal
<1>10. CASE Crash \/ \E f \in Orders : NoReplenishment(f)
  BY <1>2, <1>10 DEF Crash, NoReplenishment, storeVars
<1>. QED
  BY <1>3, <1>4, <1>5, <1>6, <1>7, <1>8, <1>9, <1>10 DEF Next, Process, Exchange, orderVars,
    storeVars, StartWithoutGrid, CancelAll, CancelAllFails, Start, FetchOpenOrders, WsConnect,
    BreakerElapses, ExchangeReceives, ExchangeCancelsAll, Rests, FailsLater, Fills, Moves,
    WsDrop

\* A table without rows claims nothing.
THEOREM InitTruthful == Init => Truthful
<1>1. Init => TypeOK
  BY InitTyped
<1>2. Init => Causal
  BY DEF Init, Causal
<1>3. Init => RowsAreTruthful
  BY DEF Init, RowsAreTruthful
<1>. QED
  BY <1>1, <1>2, <1>3 DEF Truthful

\* The strengthened invariant is inductive.
LEMMA TruthfulStep == Truthful /\ [Next]_orderVars => Truthful'
BY TypeStep, CausalStep, TruthStep DEF Truthful

\* Whatever is lost, late or repeated by a restart, a row says "filled" only of
\* an order that is filled, has an exchange id only for an order the exchange
\* accepted, and a fill handler only runs for a filled order.
THEOREM TableIsTruthful == Spec => []RowsAreTruthful
<1>1. Truthful => RowsAreTruthful
  BY DEF Truthful
<1>. QED
  BY InitTruthful, TruthfulStep, <1>1, PTL DEF Spec

-----------------------------------------------------------------------------
(* What takes a recorded fill back.                                        *)
(*                                                                         *)
(* The event of a fill is the last of its order, and reconciliation runs   *)
(* before the socket is up, so that no fill is recorded between fetching   *)
(* the open orders and using them.                                         *)

Settled ==
  /\ phase \in {"down", "fetching", "fetched"} => ~wsUp
  /\ openOrders # {} => phase = "fetched"
  /\ batch # {} => phase = "placing"
  /\ \A i \in openOrders : row[i] # "filled"
  /\ \A i \in Orders : row[i] = "filled" => feed[i] = <<>>

\* A row becomes "filled" by the event of the fill only.
LEMMA FilledByEvent ==
  ASSUME TypeOK, [Next]_orderVars, NEW i \in Orders, row'[i] = "filled", row[i] # "filled"
  PROVE  HandleFilled(i)
<1>0. StoreOK
  BY DEF TypeOK
<1>1. ASSUME NEW j \in Orders, Handles(j) PROVE HandleFilled(i)
  BY <1>0, <1>1 DEF Handles, SinglePlaced, SingleFailed, HandleFilled, HandleCancelled,
    HandleFailed, HandlePlaced, HandleStatus, UpdateWithId, Update, StoreOK
<1>2. ~Reconcile
  BY <1>0 DEF Reconcile, ReconciledRow, StoreOK
<1>3. ~PlaceGrid /\ ~BatchAnswered /\ ~BatchFailed /\ ~CancelAllReturns
  BY <1>0 DEF PlaceGrid, BatchAnswered, Outcome, BatchFailed, CancelAllReturns, StoreOK
<1>4. ~\E f \in Orders, s \in Sides : PlaceSingleOrder(f, s)
  BY <1>0 DEF PlaceSingleOrder, StoreOK
<1>. QED
  BY <1>1, <1>2, <1>3, <1>4 DEF Next, Process, Exchange, orderVars,
    storeVars, NoReplenishment, StartWithoutGrid, CancelAll, CancelAllFails, Start,
    FetchOpenOrders, WsConnect, BreakerElapses, ExchangeReceives, ExchangeCancelsAll, Rests,
    FailsLater, Fills, Moves, WsDrop, Crash

\* A recorded fill has no event left, and no list of open orders names it.
LEMMA SettledStep == Truthful /\ Settled /\ [Next]_orderVars => Settled'
<1>. SUFFICES ASSUME Truthful, Settled, [Next]_orderVars PROVE Settled'
  OBVIOUS
<1>0. TypeOK /\ StoreOK /\ FeedOK /\ CallsOK /\ Causal /\ RowsAreTruthful
  BY DEF Truthful, TypeOK
<1>1. phase' \in {"down", "fetching", "fetched"} => ~wsUp'
  BY Zenon DEF Settled, NextChunk, Next, Process, Exchange, Handles, orderVars,
    storeVars, callVars, breakerVars, startVars,
    PlaceSingleOrder, NoReplenishment, SinglePlaced, SingleFailed, PlaceGrid,
    StartWithoutGrid, BatchAnswered, BatchFailed, HandleFilled, HandleCancelled,
    HandleFailed, HandlePlaced, CancelAll, CancelAllReturns, CancelAllFails, Start,
    FetchOpenOrders, Reconcile, WsConnect, BreakerElapses, ExchangeReceives,
    ExchangeCancelsAll, Rests, FailsLater, Fills, Moves, WsDrop, Crash
<1>2. openOrders' # {} => phase' = "fetched"
  BY DEF Settled, NextChunk, Next, Process, Exchange, Handles, orderVars,
    storeVars, callVars, breakerVars, startVars,
    PlaceSingleOrder, NoReplenishment, SinglePlaced, SingleFailed, PlaceGrid,
    StartWithoutGrid, BatchAnswered, BatchFailed, HandleFilled, HandleCancelled,
    HandleFailed, HandlePlaced, CancelAll, CancelAllReturns, CancelAllFails, Start,
    FetchOpenOrders, Reconcile, WsConnect, BreakerElapses, ExchangeReceives,
    ExchangeCancelsAll, Rests, FailsLater, Fills, Moves, WsDrop, Crash
<1>b. batch' # {} => phase' = "placing"
  <2>1. CASE BatchAnswered \/ BatchFailed
    <3>1. todo = {} => batch' = {}
      BY <2>1 DEF BatchAnswered, BatchFailed, NextChunk, SendChunk, FirstOf
    <3>. QED
      BY <2>1, <3>1 DEF BatchAnswered, BatchFailed, NextChunk, Settled
  <2>2. CASE PlaceGrid \/ Crash
    BY <2>2 DEF PlaceGrid, Crash
  <2>. QED
    BY <2>1, <2>2 DEF Settled, Next, Process, Exchange, Handles, orderVars, callVars,
      startVars, PlaceSingleOrder, NoReplenishment, SinglePlaced, SingleFailed,
      StartWithoutGrid, HandleFilled, HandleCancelled, HandleFailed, HandlePlaced,
      CancelAll, CancelAllReturns, CancelAllFails, Start, FetchOpenOrders, Reconcile,
      WsConnect, BreakerElapses, ExchangeReceives, ExchangeCancelsAll, Rests, FailsLater,
      Fills, Moves, WsDrop
<1>3. ASSUME NEW i \in openOrders' PROVE row'[i] # "filled"
  <2>1. CASE FetchOpenOrders
    BY <1>0, <1>3, <2>1 DEF FetchOpenOrders, RowsAreTruthful, storeVars
  <2>2. CASE ~FetchOpenOrders
    <3>1. i \in openOrders /\ i \in Orders /\ ~wsUp
      BY <1>0, <1>3, <2>2 DEF CallsOK, Settled, Next, Process, Exchange, Handles, orderVars,
    storeVars, callVars, breakerVars, startVars,
    PlaceSingleOrder, NoReplenishment, SinglePlaced, SingleFailed, PlaceGrid,
    StartWithoutGrid, BatchAnswered, BatchFailed, HandleFilled, HandleCancelled,
    HandleFailed, HandlePlaced, CancelAll, CancelAllReturns, CancelAllFails, Start,
    Reconcile, WsConnect, BreakerElapses, ExchangeReceives,
    ExchangeCancelsAll, Rests, FailsLater, Fills, Moves, WsDrop, Crash
    <3>. QED
      BY <1>0, <3>1, FilledByEvent DEF Settled, HandleFilled, HandleStatus
  <2>. QED
    BY <2>1, <2>2
<1>4. ASSUME NEW i \in Orders, row'[i] = "filled" PROVE feed'[i] = <<>>
  <2>1. CASE row[i] = "filled"
    <3>1. feed[i] = <<>> /\ book[i] = "filled"
      BY <1>0, <2>1 DEF Settled, RowsAreTruthful
    <3>. QED
      BY <1>0, <3>1, FeedStep DEF FeedMoves
  <2>2. CASE row[i] # "filled"
    <3>1. HandleFilled(i)
      BY <1>0, <1>4, <2>2, FilledByEvent
    <3>2. feed[i] # <<>> /\ Head(feed[i]) = "Filled" /\ feed'[i] = Tail(feed[i])
      BY <1>0, <3>1 DEF HandleFilled, HandleStatus, FeedOK
    <3>3. feed[i] \in Seq(Events) /\ 1 \in 1..Len(feed[i]) /\ feed[i][1] = "Filled"
      BY <1>0, <3>2 DEF FeedOK
    <3>4. Len(feed[i]) = 1
      BY <1>0, <3>3 DEF Causal
    <3>5. Tail(feed[i]) \in Seq(Events) /\ Len(Tail(feed[i])) = 0
      BY <3>2, <3>3, <3>4
    <3>. QED
      BY <3>2, <3>5, EmptySeq
  <2>. QED
    BY <2>1, <2>2
<1>. QED
  BY <1>1, <1>2, <1>b, <1>3, <1>4 DEF Settled

\* Of all steps only a late answer to the placement can take back a recorded fill.
LEMMA UndoneStep ==
  ASSUME Truthful, Settled, [Next]_orderVars,
         NEW i \in Orders, row[i] = "filled", row'[i] # "filled"
  PROVE  i \in awaiting /\ i \notin awaiting'
<1>0. StoreOK /\ CallsOK /\ Causal /\ RowsAreTruthful
  BY DEF Truthful, TypeOK
<1>1. feed[i] = <<>> /\ book[i] = "filled" /\ i \notin openOrders
  BY <1>0 DEF Settled, RowsAreTruthful
<1>2. ASSUME NEW j \in Orders, Handles(j) PROVE SinglePlaced(i) \/ SingleFailed(i)
  BY <1>0, <1>1, <1>2 DEF Handles, SinglePlaced, SingleFailed, HandleFilled, HandleCancelled,
    HandleFailed, HandlePlaced, HandleStatus, UpdateWithId, Update, StoreOK
<1>3. CASE SinglePlaced(i) \/ SingleFailed(i)
  BY <1>3 DEF SinglePlaced, SingleFailed
<1>4. CASE BatchAnswered \/ BatchFailed
  <2>1. i \in batch /\ NextChunk
    BY <1>0, <1>4 DEF BatchAnswered, BatchFailed, StoreOK
  <2>2. batch' \subseteq todo
    BY <2>1, FirstOfSubset DEF NextChunk, SendChunk
  <2>3. i \notin batch'
    BY <1>0, <1>1, <2>2 DEF Causal
  <2>. QED
    BY <1>0, <2>1, <2>3 DEF NextChunk, CallsOK
<1>5. ~Reconcile /\ ~CancelAllReturns
  BY <1>0, <1>1 DEF Reconcile, ReconciledRow, CancelAllReturns, StoreOK, Active
<1>6. ~PlaceGrid /\ ~\E f \in Orders, s \in Sides : PlaceSingleOrder(f, s)
  <2>1. i \notin GridIds /\ i \notin FirstOf(Fresh, 1)
    BY GridIdsAreFresh, FirstOfSubset DEF Fresh
  <2>. QED
    BY <1>0, <2>1 DEF PlaceGrid, PlaceSingleOrder, StoreOK
<1>. QED
  BY <1>2, <1>3, <1>4, <1>5, <1>6 DEF Next, Process, Exchange, orderVars,
    storeVars, NoReplenishment, StartWithoutGrid, CancelAll, CancelAllFails, Start,
    FetchOpenOrders, WsConnect, BreakerElapses, ExchangeReceives, ExchangeCancelsAll, Rests,
    FailsLater, Fills, Moves, WsDrop, Crash

\* The one thing that takes a recorded fill back is the late answer to the
\* placement of the same order; no event, reconciliation or cancelAll does.
THEOREM FillsStayRecorded == Spec => FillUndoneOnlyByLateAnswer
<1>1. Init => Settled
  BY Zenon DEF Init, Settled
<1>2. Truthful /\ Settled /\ [Next]_orderVars =>
        [\A i \in Orders : row[i] = "filled" /\ row'[i] # "filled" =>
           i \in awaiting /\ i \notin awaiting']_orderVars
  BY UndoneStep
<1>. QED
  BY InitTruthful, TruthfulStep, SettledStep, <1>1, <1>2, PTL
  DEF Spec, FillUndoneOnlyByLateAnswer

-----------------------------------------------------------------------------
(* No live order is lost sight of.                                         *)
(*                                                                         *)
(* Only an answer, an event, reconciliation and cancelAll take a row out   *)
(* of the active ones.  Undisturbed there is no cancelAll, reconciliation  *)
(* runs once, before the first order, and events say what has happened.    *)

\* None of these faults has happened.
NoneOf(K) == \A k \in K : faults[k] = 0
Undisturbed == NoneOf({"timeout", "crash", "close"})

\* Orders the exchange has or will have once the request arrives.
Open(i) == book[i] \in {"sent", "accepted", "live"}

Seen ==
  Undisturbed =>
    /\ sweep = "idle"
    /\ phase \in {"down", "fetching", "fetched"} => \A i \in Orders : book[i] = "absent"
    /\ phase \in {"down", "fetching", "fetched"} => todo = {}
    /\ \A i \in Orders : Open(i) \/ i \in todo => row[i] \in Active

\* Faults are counted and never forgotten.
LEMMA NoneOfBefore ==
  ASSUME TypeOK, [Next]_orderVars, NEW K \in SUBSET FaultKinds, NoneOf(K)'
  PROVE  NoneOf(K) /\ \A k \in K : ~Fault(k)
<1>1. \A k \in K : k \in DOMAIN faults /\ faults[k] \in Nat
  BY DEF TypeOK, FaultsOK
<1>2. faults' = faults \/ \E k \in FaultKinds : faults' = [faults EXCEPT ![k] = @ + 1]
  BY DEF Fault, FaultKinds, Next, Process, Exchange, Handles, orderVars,
    PlaceSingleOrder, NoReplenishment, SinglePlaced, SingleFailed, PlaceGrid,
    StartWithoutGrid, BatchAnswered, BatchFailed, HandleFilled, HandleCancelled,
    HandleFailed, HandlePlaced, CancelAll, CancelAllReturns, CancelAllFails, Start,
    FetchOpenOrders, Reconcile, WsConnect, BreakerElapses, ExchangeReceives,
    ExchangeCancelsAll, Rests, FailsLater, Fills, Moves, WsDrop, Crash
<1>3. \A k \in K : Fault(k) => faults'[k] = faults[k] + 1
  BY <1>1 DEF Fault
<1>4. \A k \in K : faults'[k] \in {faults[k], faults[k] + 1}
  BY <1>1, <1>2
<1>. QED
  BY <1>1, <1>3, <1>4 DEF NoneOf

\* A sum of numbers of faults is zero when each of them is.
LEMMA SumOfNone ==
  ASSUME TypeOK
  PROVE  /\ faults.timeout + faults.crash + faults.close = 0 => Undisturbed
         /\ faults.timeout + faults.crash = 0 => NoneOf({"timeout", "crash"})
<1>1. faults["timeout"] \in Nat /\ faults["crash"] \in Nat /\ faults["close"] \in Nat
  BY DEF TypeOK, FaultsOK, FaultKinds
<1>2. /\ \A a, b, c \in Nat : a + b + c = 0 => a = 0 /\ b = 0 /\ c = 0
      /\ \A a, b \in Nat : a + b = 0 => a = 0 /\ b = 0
  OBVIOUS
<1>. QED
  BY <1>1, <1>2 DEF Undisturbed, NoneOf

\* Undisturbed no answer is lost, nothing crashes and no position is closed.
LEMMA NoFaultTaken ==
  ASSUME TypeOK, [Next]_orderVars, Undisturbed'
  PROVE  Undisturbed /\ ~Fault("timeout") /\ ~Fault("crash") /\ ~Fault("close")
BY NoneOfBefore, {"timeout", "crash", "close"} \in SUBSET FaultKinds DEF Undisturbed, FaultKinds

\* What an event that waits says of its order.
LEMMA HeadTells ==
  ASSUME TypeOK, Causal, NEW i \in Orders, feed[i] # <<>>
  PROVE  /\ Acknowledged(i)
         /\ Head(feed[i]) # "Placed" => ~Open(i)
<1>1. feed[i] \in Seq(Events)
  BY DEF TypeOK, FeedOK
<1>2. 1 \in 1..Len(feed[i]) /\ Head(feed[i]) = feed[i][1]
  BY <1>1
<1>. QED
  BY <1>2 DEF Causal, Acknowledged, Open

\* The row of an open order stays active, and so does that of a planned one.
LEMMA SeenStep == Truthful /\ Seen /\ [Next]_orderVars => Seen'
<1>. SUFFICES ASSUME Truthful, Seen, [Next]_orderVars, Undisturbed'
              PROVE  /\ sweep' = "idle"
                     /\ phase' \in {"down", "fetching", "fetched"} => \A i \in Orders : book'[i] = "absent"
                     /\ phase' \in {"down", "fetching", "fetched"} => todo' = {}
                     /\ \A i \in Orders : Open(i)' \/ i \in todo' => row'[i] \in Active
  BY DEF Seen
<1>0. TypeOK /\ StoreOK /\ FeedOK /\ CallsOK /\ Causal /\ RowsAreTruthful /\ Undisturbed
  BY NoFaultTaken DEF Truthful, TypeOK
<1>a. ~CancelAll /\ ~CancelAllFails /\ ~Crash
  BY <1>0, NoFaultTaken DEF CancelAll, CancelAllFails, Crash
<1>b. ~ExchangeCancelsAll /\ ~CancelAllReturns
  BY <1>0 DEF Seen, ExchangeCancelsAll, CancelAllReturns
<1>1. sweep' = "idle"
  BY <1>0, <1>a, <1>b DEF Seen, Next, Process, Exchange, Handles, orderVars,
    PlaceSingleOrder, NoReplenishment, SinglePlaced, SingleFailed, PlaceGrid,
    StartWithoutGrid, BatchAnswered, BatchFailed, HandleFilled, HandleCancelled,
    HandleFailed, HandlePlaced, Start, FetchOpenOrders, Reconcile, WsConnect,
    BreakerElapses, ExchangeReceives, Rests, FailsLater, Fills, Moves, WsDrop
<1>2. ASSUME phase' \in {"down", "fetching", "fetched"}
      PROVE  (\A i \in Orders : book'[i] = "absent") /\ todo' = {}
  <2>1. CASE BatchAnswered \/ BatchFailed
    <3>1. \E i \in batch : i \in Orders /\ book[i] # "absent"
      BY <1>0, <2>1 DEF BatchAnswered, BatchFailed, Causal, CallsOK
    <3>2. phase \notin {"down", "fetching", "fetched"}
      BY <1>0, <3>1 DEF Seen
    <3>. QED
      BY <1>2, <2>1, <3>2 DEF BatchAnswered, BatchFailed, NextChunk
  <2>2. CASE \E f \in Orders, s \in Sides : PlaceSingleOrder(f, s)
    <3>1. \E f \in Orders : book[f] = "filled"
      BY <1>0, <2>2 DEF PlaceSingleOrder, RowsAreTruthful
    <3>2. phase \notin {"down", "fetching", "fetched"}
      BY <1>0, <3>1 DEF Seen
    <3>. QED
      BY <1>2, <2>2, <3>2 DEF PlaceSingleOrder, startVars
  <2>3. ~PlaceGrid
    BY <1>2 DEF PlaceGrid
  <2>4. ASSUME UNCHANGED todo, phase \in {"down", "fetching", "fetched"},
               \/ UNCHANGED book
               \/ \E S, A : /\ S # {} /\ \A i \in S : i \in Orders /\ book[i] # "absent"
                            /\ Accepts(S, A)
               \/ \E i \in Orders : Rests(i) \/ FailsLater(i) \/ Fills(i)
        PROVE (\A i \in Orders : book'[i] = "absent") /\ todo' = {}
    BY <1>0, <2>4 DEF Seen, Rests, FailsLater, Fills, Moves
  <2>5. ExchangeReceives =>
          \E S, A : S # {} /\ (\A i \in S : i \in Orders /\ book[i] # "absent") /\ Accepts(S, A)
    <3>1. ASSUME NEW i \in Orders, book[i] = "sent", NEW A, Accepts({i}, A)
          PROVE \E S, B : S # {} /\ (\A j \in S : j \in Orders /\ book[j] # "absent") /\ Accepts(S, B)
      <4>1. {i} # {} /\ \A j \in {i} : j \in Orders /\ book[j] # "absent"
        BY <3>1
      <4>. QED BY <3>1, <4>1
    <3>2. ASSUME NEW i \in batch, NEW A, Accepts(batch, A)
          PROVE \E S, B : S # {} /\ (\A j \in S : j \in Orders /\ book[j] # "absent") /\ Accepts(S, B)
      <4>1. batch # {} /\ \A j \in batch : j \in Orders /\ book[j] # "absent"
        BY <1>0, <3>2 DEF Causal, CallsOK
      <4>. QED BY <3>2, <4>1
    <3>. QED
      BY <3>1, <3>2 DEF ExchangeReceives
  <2>. QED
    BY <1>2, <1>a, <1>b, <2>1, <2>2, <2>3, <2>4, <2>5 DEF Next, Process, Exchange, Handles,
      orderVars, callVars, startVars, NoReplenishment, SinglePlaced, SingleFailed,
      StartWithoutGrid, HandleFilled, HandleCancelled, HandleFailed, HandlePlaced, Start,
      FetchOpenOrders, Reconcile, WsConnect, BreakerElapses, ExchangeReceives, Rests,
      FailsLater, Fills, Moves, WsDrop
<1>3. ASSUME NEW i \in Orders, Open(i)' \/ i \in todo' PROVE row'[i] \in Active
  <2>0. Open(i) \/ i \in todo => row[i] \in Active
    BY <1>0 DEF Seen
  <2>1. CASE \E f \in Orders, s \in Sides : PlaceSingleOrder(f, s)
    BY <1>0, <1>3, <2>0, <2>1 DEF PlaceSingleOrder, StoreOK, Open, Active
  <2>2. CASE PlaceGrid
    <3>1. batch' \subseteq GridIds /\ todo' \subseteq GridIds
      BY <2>2, FirstOfSubset DEF PlaceGrid, SendChunk
    <3>2. i \notin GridIds => Open(i)
      BY <1>0, <1>3, <2>2, <3>1 DEF PlaceGrid, SendChunk, Open
    <3>. QED
      BY <1>0, <2>0, <2>2, <3>2 DEF PlaceGrid, StoreOK, Active
  <2>3. CASE BatchAnswered \/ BatchFailed
    <3>1. i \in batch => i \notin todo
      BY <1>0 DEF Causal, CallsOK
    <3>2. Open(i) \/ i \in todo
      BY <1>0, <1>3, <2>3, FirstOfSubset DEF BatchAnswered, BatchFailed, NextChunk, SendChunk, Open
    <3>3. BatchFailed => \A j \in batch : book[j] = "refused"
      BY <1>0, NoFaultTaken DEF BatchFailed
    <3>4. BatchAnswered => row'[i] \in Active
      BY <1>0, <2>0, <3>1, <3>2 DEF BatchAnswered, Outcome, Open, Active
    <3>5. BatchFailed => row'[i] \in Active
      BY <1>0, <2>0, <3>1, <3>2, <3>3 DEF BatchFailed, Open, Active
    <3>. QED
      BY <2>3, <3>4, <3>5
  <2>4. ASSUME NEW j \in Orders, Handles(j) PROVE row'[i] \in Active
    <3>1. UNCHANGED <<book, todo>> /\ row[i] \in Active
      BY <1>3, <2>0, <2>4 DEF Open, Handles, SinglePlaced, SingleFailed, HandleFilled,
        HandleCancelled, HandleFailed, HandlePlaced, HandleStatus, callVars
    <3>2. CASE SinglePlaced(j) \/ HandlePlaced(j)
      BY <1>0, <3>1, <3>2 DEF SinglePlaced, UpdateWithId, HandlePlaced, HandleStatus, Update, StoreOK, Active
    <3>3. CASE SingleFailed(j)
      <4>1. book[j] = "refused"
        BY <1>0, <3>3, NoFaultTaken DEF SingleFailed
      <4>2. i # j
        BY <1>0, <1>3, <3>1, <4>1 DEF Open, Causal
      <4>. QED
        BY <1>0, <3>1, <3>3, <4>2 DEF SingleFailed, Update, StoreOK
    <3>4. CASE HandleFilled(j) \/ HandleCancelled(j) \/ HandleFailed(j)
      <4>1. feed[j] # <<>> /\ Head(feed[j]) # "Placed"
        BY <3>4 DEF HandleFilled, HandleCancelled, HandleFailed, HandleStatus
      <4>2. ~Open(j) /\ Acknowledged(j)
        BY <1>0, <4>1, HeadTells
      <4>3. i # j
        BY <1>0, <1>3, <3>1, <4>2 DEF Open, Causal, Acknowledged
      <4>. QED
        BY <1>0, <3>1, <3>4, <4>3 DEF HandleFilled, HandleCancelled, HandleFailed,
          HandleStatus, Update, StoreOK
    <3>. QED
      BY <2>4, <3>2, <3>3, <3>4 DEF Handles
  <2>5. CASE Reconcile
    <3>1. phase = "fetched" /\ book'[i] = "absent" /\ todo' = {}
      BY <1>0, <2>5 DEF Reconcile, Seen, callVars
    <3>. QED
      BY <1>3, <3>1 DEF Open
  <2>6. CASE ExchangeReceives \/ \E j \in Orders : Rests(j) \/ FailsLater(j) \/ Fills(j)
    <3>1. Advances(book[i], book'[i]) /\ UNCHANGED <<row, todo>>
      BY <1>0, <2>6, BookStep DEF ExchangeReceives, Rests, FailsLater, Fills, Moves, storeVars, callVars
    <3>2. book[i] = "absent" => book'[i] = "absent"
      BY <1>0, <2>6 DEF ExchangeReceives, Accepts, Causal, CallsOK, Rests, FailsLater, Fills, Moves, StoreOK
    <3>. QED
      BY <1>3, <2>0, <3>1, <3>2 DEF Open, Advances
  <2>7. CASE UNCHANGED <<row, book, todo>>
    BY <1>3, <2>0, <2>7 DEF Open
  <2>. QED
    BY <1>a, <1>b, <2>1, <2>2, <2>3, <2>4, <2>5, <2>6, <2>7 DEF Next, Process, Exchange,
      orderVars, storeVars, callVars, NoReplenishment, StartWithoutGrid, Start,
      FetchOpenOrders, WsConnect, BreakerElapses, WsDrop
<1>. QED
  BY <1>1, <1>2, <1>3

\* As long as no answer was lost, nothing restarted and no position was closed,
\* every order that rests or is about to has an active row, whatever overtakes
\* what, for any number of orders and any size of a chunk.
THEOREM LiveStaysTracked == Spec => []LiveIsTracked
<1>1. Init => Seen
  BY DEF Init, Seen, Open
<1>2. Truthful /\ Seen => LiveIsTracked
  BY SumOfNone DEF Truthful, Seen, LiveIsTracked, Open
<1>. QED
  BY InitTruthful, TruthfulStep, SeenStep, <1>1, <1>2, PTL DEF Spec

-----------------------------------------------------------------------------
(* The breaker counts orders that did fail.                                *)
(*                                                                         *)
(* A failure is counted when its answer or its event is handled, and each  *)
(* failed order has one of the two.  The orders whose failure has been     *)
(* told or will never be told only become more, and every count adds one.  *)

\* Failed orders with no answer and no event left that would count them.
Counted ==
  {i \in Orders : /\ book[i] \in {"refused", "failed"}
                  /\ i \in awaiting => book[i] # "refused"
                  /\ \A k \in 1..Len(feed[i]) : feed[i][k] # "Failed"}

CountIsReal == NoneOf({"timeout", "crash"}) => failureCount <= Cardinality(Counted)

\* The process waits for new orders only; the exchange has heard of none of them.
LEMMA NewlyAwaited ==
  ASSUME TypeOK, Causal, [Next]_orderVars, NEW i \in awaiting', i \notin awaiting
  PROVE  book[i] = "absent"
<1>1. ASSUME NEW S, SendChunk(S), \A j \in S : book[j] = "absent"
      PROVE  \A j \in batch' : book[j] = "absent"
  BY <1>1, FirstOfSubset DEF SendChunk
<1>2. CASE PlaceGrid
  BY <1>1, <1>2, GridIdsAreFresh, FreshIsAbsent DEF PlaceGrid
<1>3. CASE BatchAnswered \/ BatchFailed
  BY <1>1, <1>3 DEF BatchAnswered, BatchFailed, NextChunk, Causal
<1>4. CASE \E f \in Orders, s \in Sides : PlaceSingleOrder(f, s)
  BY <1>4, FirstOfSubset, FreshIsAbsent DEF PlaceSingleOrder
<1>. QED
  BY <1>2, <1>3, <1>4 DEF Next, Process, Exchange, Handles, orderVars, callVars,
    NoReplenishment, SinglePlaced, SingleFailed, StartWithoutGrid, HandleFilled,
    HandleCancelled, HandleFailed, HandlePlaced, CancelAll, CancelAllReturns,
    CancelAllFails, Start, FetchOpenOrders, Reconcile, WsConnect, BreakerElapses,
    ExchangeReceives, ExchangeCancelsAll, Rests, FailsLater, Fills, Moves, WsDrop, Crash

\* A failure that has been told is not told again.
LEMMA CountedStays ==
  ASSUME TypeOK, Causal, [Next]_orderVars PROVE Counted \subseteq Counted'
<1>. SUFFICES ASSUME NEW i \in Counted PROVE i \in Counted'
  OBVIOUS
<1>0. i \in Orders /\ book[i] \in {"refused", "failed"} /\ feed[i] \in Seq(Events)
  BY DEF Counted, TypeOK, FeedOK
<1>1. book'[i] = book[i]
  BY <1>0, BookStep DEF Advances
<1>2. i \in awaiting' => book'[i] # "refused"
  BY <1>0, <1>1, NewlyAwaited DEF Counted
<1>3. \A k \in 1..Len(feed'[i]) : feed'[i][k] # "Failed"
  <2>1. FeedMoves(i) /\ \A k \in 1..Len(feed[i]) : feed[i][k] # "Failed"
    BY <1>0, FeedStep DEF Counted
  <2>2. CASE feed[i] # <<>> /\ feed'[i] = Tail(feed[i])
    <3>1. \A k \in 1..Len(feed'[i]) : k + 1 \in 1..Len(feed[i]) /\ feed'[i][k] = feed[i][k + 1]
      BY <1>0, <2>2
    <3>. QED
      BY <2>1, <3>1
  <2>. QED
    BY <1>0, <2>1, <2>2 DEF FeedMoves
<1>. QED
  BY <1>0, <1>1, <1>2, <1>3 DEF Counted

\* With failures in S newly told, there are as many more.
LEMMA CountedGrows ==
  ASSUME TypeOK, Causal, [Next]_orderVars, NEW S, S \subseteq Counted', S \cap Counted = {}
  PROVE  /\ IsFiniteSet(S) /\ Cardinality(S) \in Nat
         /\ Cardinality(Counted) \in Nat /\ Cardinality(Counted)' \in Nat
         /\ Cardinality(Counted)' >= Cardinality(Counted) + Cardinality(S)
<1>1. Counted \subseteq Orders /\ Counted' \subseteq Orders
  BY DEF Counted, Orders
<1>2. /\ IsFiniteSet(Counted) /\ Cardinality(Counted) \in Nat
      /\ IsFiniteSet(Counted') /\ Cardinality(Counted') \in Nat
      /\ IsFiniteSet(S) /\ Cardinality(S) \in Nat
  BY <1>1, OrdersFinite
<1>3. Counted \union S \subseteq Counted'
  BY CountedStays
<1>4. Cardinality(Counted \union S) <= Cardinality(Counted')
  BY <1>2, <1>3, FS_Subset
<1>5. Cardinality(Counted \union S) = Cardinality(Counted) + Cardinality(S) - Cardinality(Counted \cap S)
  BY <1>2, FS_Union
<1>6. Cardinality(Counted \cap S) = 0
  <2>1. Counted \cap S = {}
    OBVIOUS
  <2>. QED
    BY <2>1, FS_EmptySet
<1>7. Cardinality(Counted \union S) = Cardinality(Counted) + Cardinality(S)
  BY <1>2, <1>5, <1>6
<1>. QED
  BY <1>2, <1>4, <1>7

\* The count a chunk leaves is made of its refusals and of the count before it.
LEMMA RunOfRefusals ==
  ASSUME TypeOK, NEW i \in Orders
  PROVE  RunAt(i) <= failureCount + Cardinality({j \in batch : book[j] = "refused"})
<1>. DEFINE seen == {j \in batch : j <= i}
            ok   == {j \in seen : book[j] # "refused"}
            tail == {j \in seen : \A k \in ok : k < j}
            R    == {j \in batch : book[j] = "refused"}
<1>1. tail \subseteq R
  <2>. SUFFICES ASSUME NEW j \in tail, j \notin R PROVE FALSE
    OBVIOUS
  <2>1. j \in ok /\ j \in Int
    BY DEF TypeOK, CallsOK, Orders
  <2>. QED
    BY <2>1
<1>2. R \subseteq Orders /\ tail \subseteq Orders
  BY <1>1 DEF TypeOK, CallsOK
<1>3. /\ IsFiniteSet(R) /\ Cardinality(R) \in Nat
      /\ Cardinality(tail) \in Nat /\ Cardinality(tail) <= Cardinality(R)
  BY <1>1, <1>2, OrdersFinite, FS_Subset
<1>4. failureCount \in Nat
  BY OrderConstants DEF TypeOK, BreakerOK
<1>. QED
  BY <1>3, <1>4 DEF RunAt

\* Every count has an order that failed behind it.
LEMMA CountStep == Truthful /\ CountIsReal /\ [Next]_orderVars => CountIsReal'
<1>. SUFFICES ASSUME Truthful, CountIsReal, [Next]_orderVars,
                     NoneOf({"timeout", "crash"})'
              PROVE  failureCount' <= Cardinality(Counted)'
  BY DEF CountIsReal
<1>0. TypeOK /\ StoreOK /\ FeedOK /\ CallsOK /\ Causal /\ ~Fault("timeout")
  BY NoneOfBefore, {"timeout", "crash"} \in SUBSET FaultKinds DEF Truthful, TypeOK, FaultKinds
<1>1. /\ failureCount \in Nat /\ failureCount' \in Nat
      /\ failureCount <= Cardinality(Counted)
  <2>1. NoneOf({"timeout", "crash"})
    BY <1>0, NoneOfBefore, {"timeout", "crash"} \in SUBSET FaultKinds DEF FaultKinds
  <2>. QED
    BY <1>0, <2>1, TypeStep, OrderConstants DEF CountIsReal, TypeOK, BreakerOK
<1>a. \A i \in Orders : book[i] = "refused" => book'[i] = "refused"
  BY <1>0, BookStep DEF Advances
<1>b. ASSUME NEW i \in Orders, book[i] = "refused"
      PROVE  \A k \in 1..Len(feed'[i]) : feed'[i][k] # "Failed"
  <2>1. Causal' /\ book'[i] = "refused"
    BY <1>0, <1>a, <1>b, CausalStep
  <2>. QED
    BY <2>1 DEF Causal, Acknowledged
<1>2. CASE failureCount' <= failureCount
  BY <1>0, <1>1, <1>2, CountedGrows, FS_EmptySet
<1>3. ASSUME NEW i \in Counted', i \notin Counted, failureCount' <= failureCount + 1
      PROVE  failureCount' <= Cardinality(Counted)'
  <2>1. Cardinality({i}) = 1
    BY FS_Singleton
  <2>2. /\ Cardinality(Counted) \in Nat /\ Cardinality(Counted)' \in Nat
        /\ Cardinality(Counted)' >= Cardinality(Counted) + Cardinality({i})
    BY <1>0, <1>3, CountedGrows
  <2>. QED
    BY <1>1, <1>3, <2>1, <2>2
<1>c. RecordFailure => failureCount' <= failureCount + 1
  BY <1>1, OrderConstants DEF RecordFailure
<1>4. ASSUME NEW i \in Orders, SingleFailed(i)
      PROVE  failureCount' <= Cardinality(Counted)'
  <2>1. book[i] = "refused" /\ i \in awaiting /\ i \notin awaiting' /\ RecordFailure
    BY <1>0, <1>4 DEF SingleFailed
  <2>. QED
    BY <1>3, <1>a, <1>b, <1>c, <2>1 DEF Counted
<1>d. ASSUME BatchAnswered \/ BatchFailed, NEW i \in batch, book[i] = "refused"
      PROVE  i \in Counted' /\ i \notin Counted
  <2>1. i \in Orders /\ i \in awaiting
    BY <1>0 DEF CallsOK
  <2>2. batch' \subseteq todo /\ awaiting' = (awaiting \ batch) \union batch'
    BY <1>d, FirstOfSubset DEF BatchAnswered, BatchFailed, NextChunk, SendChunk
  <2>3. i \notin awaiting'
    BY <1>0, <1>d, <2>2 DEF Causal
  <2>. QED
    BY <1>a, <1>b, <1>d, <2>1, <2>3 DEF Counted
<1>5. CASE BatchFailed
  <2>1. PICK i \in batch : book[i] = "refused"
    BY <1>0, <1>5 DEF BatchFailed
  <2>. QED
    BY <1>3, <1>5, <1>c, <1>d, <2>1 DEF BatchFailed
<1>6. CASE BatchAnswered
  <2>. DEFINE R == {j \in batch : book[j] = "refused"}
  <2>1. PICK last \in batch :
          failureCount' = IF RunAt(last) < Threshold THEN RunAt(last) ELSE Threshold
    BY <1>6 DEF BatchAnswered
  <2>2. RunAt(last) \in Nat /\ RunAt(last) <= failureCount + Cardinality(R)
    BY <1>0, RunAtTyped, RunOfRefusals DEF TypeOK, CallsOK
  <2>3. R \subseteq Counted' /\ R \cap Counted = {}
    BY <1>6, <1>d
  <2>4. /\ Cardinality(R) \in Nat
        /\ Cardinality(Counted) \in Nat /\ Cardinality(Counted)' \in Nat
        /\ Cardinality(Counted)' >= Cardinality(Counted) + Cardinality(R)
    BY <1>0, <2>3, CountedGrows
  <2>5. failureCount' <= failureCount + Cardinality(R)
    <3>1. failureCount' <= RunAt(last)
      BY <2>1, <2>2, OrderConstants
    <3>. QED
      BY <1>1, <2>2, <2>4, <3>1
  <2>. QED
    BY <1>1, <2>4, <2>5
<1>7. ASSUME NEW i \in Orders, HandleFailed(i)
      PROVE  failureCount' <= Cardinality(Counted)'
  <2>1. feed[i] # <<>> /\ Head(feed[i]) = "Failed" /\ feed'[i] = Tail(feed[i]) /\ book' = book
    BY <1>0, <1>7 DEF HandleFailed, HandleStatus, FeedOK
  <2>2. feed[i] \in Seq(Events) /\ 1 \in 1..Len(feed[i]) /\ feed[i][1] = "Failed"
    BY <1>0, <2>1 DEF FeedOK
  <2>3. Len(feed[i]) = 1 /\ book[i] = "failed"
    BY <1>0, <2>2 DEF Causal, EventTells
  <2>4. Len(feed'[i]) = 0
    BY <2>1, <2>2, <2>3
  <2>5. i \notin Counted
    BY <2>2 DEF Counted
  <2>6. i \in Counted'
    <3>1. book'[i] = "failed" /\ \A k \in 1..Len(feed'[i]) : feed'[i][k] # "Failed"
      BY <2>1, <2>3, <2>4
    <3>. QED
      BY <3>1 DEF Counted
  <2>. QED
    BY <1>1, <1>2, <1>3, <1>7, <1>c, <2>5, <2>6 DEF HandleFailed, breakerVars
<1>. QED
  BY <1>1, <1>2, <1>4, <1>5, <1>6, <1>7 DEF BreakerAllows, breakerVars, Next, Process, Exchange,
    Handles, orderVars, PlaceSingleOrder, NoReplenishment, SinglePlaced, PlaceGrid,
    StartWithoutGrid, HandleFilled, HandleCancelled, HandlePlaced, CancelAll,
    CancelAllReturns, CancelAllFails, Start, FetchOpenOrders, Reconcile, WsConnect,
    BreakerElapses, ExchangeReceives, ExchangeCancelsAll, Rests, FailsLater, Fills, Moves,
    WsDrop, Crash

\* As long as no answer was lost and nothing restarted, the breaker never counts
\* more failures in a row than there are orders the exchange refused or failed,
\* although an order is reported by an answer and by events.
THEOREM FailuresStayReal == Spec => []FailuresAreReal
<1>1. Init => CountIsReal
  <2>1. ASSUME Init PROVE failureCount = 0 /\ Cardinality(Counted) \in Nat
    BY <2>1, OrdersFinite DEF Init, Counted
  <2>. QED
    BY <2>1 DEF CountIsReal
<1>2. Truthful /\ CountIsReal => FailuresAreReal
  <2>. SUFFICES ASSUME Truthful, CountIsReal, faults.timeout + faults.crash = 0
                PROVE  failureCount <= Cardinality({i \in Orders : book[i] \in {"refused", "failed"}})
    BY DEF FailuresAreReal
  <2>. DEFINE F == {i \in Orders : book[i] \in {"refused", "failed"}}
  <2>1. TypeOK /\ failureCount <= Cardinality(Counted)
    BY SumOfNone DEF Truthful, CountIsReal
  <2>2. Counted \subseteq F /\ F \subseteq Orders /\ Counted \subseteq Orders
    BY DEF Counted
  <2>3. /\ IsFiniteSet(F) /\ Cardinality(F) \in Nat
        /\ Cardinality(Counted) \in Nat /\ Cardinality(Counted) <= Cardinality(F)
    BY <2>2, OrdersFinite, FS_Subset
  <2>. QED
    BY <2>1, <2>3, OrderConstants DEF TypeOK, BreakerOK
<1>. QED
  BY InitTruthful, TruthfulStep, CountStep, <1>1, <1>2, PTL DEF Spec

-----------------------------------------------------------------------------
(* Restart.                                                                *)

\* Only reconciliation leads from the answer of the exchange to the start.
LEMMA OnlyReconcileStarts ==
  ASSUME [Next]_orderVars, phase = "fetched", phase' = "starting"
  PROVE  Reconcile
<1>1. CASE UNCHANGED orderVars
  BY <1>1 DEF orderVars, startVars
<1>2. CASE Process
  <2>1. ASSUME NEW f \in Orders, NoReplenishment(f) \/ \E s \in Sides : PlaceSingleOrder(f, s) PROVE FALSE
    BY <2>1 DEF NoReplenishment, PlaceSingleOrder, startVars
  <2>2. ASSUME NEW i \in Orders, Handles(i) PROVE FALSE
    BY <2>2 DEF Handles, SinglePlaced, SingleFailed, HandleFilled, HandleCancelled, HandleFailed,
                HandlePlaced, startVars
  <2>3. CASE BatchAnswered \/ BatchFailed
    BY <2>3 DEF BatchAnswered, BatchFailed, NextChunk
  <2>4. CASE PlaceGrid \/ StartWithoutGrid \/ Start \/ FetchOpenOrders
    BY <2>4 DEF PlaceGrid, StartWithoutGrid, Start, FetchOpenOrders
  <2>5. CASE CancelAll \/ CancelAllReturns \/ CancelAllFails \/ WsConnect \/ BreakerElapses
    BY <2>5 DEF CancelAll, CancelAllReturns, CancelAllFails, WsConnect, BreakerElapses, startVars
  <2>. QED
    BY <1>2, <2>1, <2>2, <2>3, <2>4, <2>5 DEF Process
<1>3. CASE Exchange \/ WsDrop \/ Crash
  BY <1>3 DEF Exchange, ExchangeReceives, ExchangeCancelsAll, Rests, FailsLater, Fills, Moves,
              WsDrop, Crash, startVars
<1>. QED
  BY <1>1, <1>2, <1>3 DEF Next

\* reconcile() brings every order it was told is open back into the active
\* rows, whatever the row said and whatever happened between the request and
\* the answer: no other step comes between the answer and the start.
THEOREM OpenIsRestored == Spec => RestoredAtRestart
<1>1. TypeOK /\ [Next]_orderVars =>
        [phase = "fetched" /\ phase' = "starting" => \A i \in openOrders : row'[i] \in Active]_orderVars
  <2>. SUFFICES ASSUME TypeOK, [Next]_orderVars, phase = "fetched", phase' = "starting", NEW i \in openOrders
                PROVE  row'[i] \in Active
    OBVIOUS
  <2>1. Reconcile
    BY OnlyReconcileStarts
  <2>2. i \in Orders
    BY DEF TypeOK, CallsOK
  <2>3. row'[i] = ReconciledRow(i)
    BY <2>1, <2>2 DEF Reconcile
  <2>. QED
    BY <2>3 DEF ReconciledRow, Active
<1>. QED
  BY <1>1, TypeCorrect, PTL DEF Spec, RestoredAtRestart

-----------------------------------------------------------------------------
(* The sockets the events come through.                                    *)


\* What is left until the check is made pays for the silence it will find; the
\* connection is at least as old as its silence; and what is left of a pause
\* pays for the time since the last attempt.
Silent == conn = "open" => silence + check <= StaleAfter + CheckEvery
Older  == /\ conn = "open" => age >= silence \/ age = StaleAfter + 1
          /\ conn = "closing" => age > StaleAfter
Paced  == /\ conn = "new" => rested = Base
          /\ wait # Off => rested + wait >= Base

WsInv == WsTypeOK /\ SocketOrTimer /\ Silent /\ Older /\ Paced

\* A client that has not connected satisfies the invariant.
THEOREM WsInitInv == WsInit => WsInv
<1> SUFFICES ASSUME WsInit PROVE WsInv
  OBVIOUS
<1> USE WsConstants DEF WsInit, Off
<1>1. WsTypeOK
  <2>1. WsFlagsOK
    BY Zenon DEF WsFlagsOK
  <2>2. TimesOK
    BY DEF TimesOK
  <2> QED BY <2>1, <2>2 DEF WsTypeOK
<1>2. SocketOrTimer /\ Silent /\ Older /\ Paced
  BY DEF SocketOrTimer, Silent, Older, Paced
<1> QED BY <1>1, <1>2 DEF WsInv

\* stopped and alive stay Booleans.
LEMMA WsFlagsStep == WsFlagsOK /\ [WsNext]_wsVars => WsFlagsOK'
BY Zenon DEF WsFlagsOK, wsVars, WsNext, Client, Connect, Opened, Message, Closed, StaleCheck,
             Reconnect, Stop, Dies, Tick

\* The connection stays in one of its five states.
LEMMA WsConnStep ==
  WsInv /\ [WsNext]_wsVars => conn' \in {"new", "connecting", "open", "closing", "none"}
BY DEF WsInv, WsTypeOK, wsVars, WsNext, Client, Connect, Opened, Message, Closed, StaleCheck,
       Reconnect, Stop, Dies, Tick

\* Times stay in their ranges: a timer is due before it would pass its end.
LEMMA WsTimesStep == WsInv /\ [WsNext]_wsVars => TimesOK'
<1> SUFFICES ASSUME WsInv, [WsNext]_wsVars PROVE TimesOK'
  OBVIOUS
<1> USE WsConstants DEF WsInv, WsTypeOK, TimesOK, Off, history
<1>1. CASE Connect
  BY <1>1 DEF Connect
<1>2. CASE Opened
  BY <1>2 DEF Opened
<1>3. CASE Message
  BY <1>3 DEF Message
<1>4. CASE Closed
  BY <1>4 DEF Closed, ScheduleReconnect
<1>5. CASE StaleCheck
  BY <1>5 DEF StaleCheck
<1>6. CASE Reconnect
  BY <1>6 DEF Reconnect, Lower
<1>7. CASE Stop
  BY <1>7 DEF Stop
<1>8. CASE Dies
  BY <1>8 DEF Dies
<1>9. CASE Tick
  BY <1>9 DEF Tick, Elapse, Lower, Due
<1>10. CASE UNCHANGED wsVars
  BY <1>10 DEF wsVars
<1> QED BY <1>1, <1>2, <1>3, <1>4, <1>5, <1>6, <1>7, <1>8, <1>9, <1>10 DEF WsNext, Client

\* A timer is set exactly where the code sets it, and counts down to its end.
LEMMA WsTimersStep == WsInv /\ [WsNext]_wsVars => SocketOrTimer'
<1> SUFFICES ASSUME WsInv, [WsNext]_wsVars PROVE SocketOrTimer'
  OBVIOUS
<1> USE WsConstants DEF WsInv, WsTypeOK, TimesOK, SocketOrTimer, Off, history
<1>1. CASE Connect
  BY <1>1 DEF Connect
<1>2. CASE Opened
  BY <1>2 DEF Opened
<1>3. CASE Message
  BY <1>3 DEF Message
<1>4. CASE Closed
  BY <1>4 DEF Closed, ScheduleReconnect
<1>5. CASE StaleCheck
  BY <1>5 DEF StaleCheck
<1>6. CASE Reconnect
  BY <1>6 DEF Reconnect
<1>7. CASE Stop
  BY <1>7 DEF Stop
<1>8. CASE Dies
  BY <1>8 DEF Dies
<1>9. CASE Tick
  BY <1>9 DEF Tick, Elapse, Due
<1>10. CASE UNCHANGED wsVars
  BY <1>10 DEF wsVars
<1> QED BY <1>1, <1>2, <1>3, <1>4, <1>5, <1>6, <1>7, <1>8, <1>9, <1>10 DEF WsNext, Client

\* The sums that bound silence and spacing; only Tick and the checks move them.
LEMMA WsSumsStep == WsInv /\ [WsNext]_wsVars => Silent' /\ Older' /\ Paced'
<1> SUFFICES ASSUME WsInv, [WsNext]_wsVars PROVE Silent' /\ Older' /\ Paced'
  OBVIOUS
<1> USE WsConstants DEF WsInv, WsTypeOK, TimesOK, SocketOrTimer, Silent, Older, Paced, Off, history
<1>1. CASE Connect
  BY <1>1 DEF Connect
<1>2. CASE Opened
  BY <1>2 DEF Opened
<1>3. CASE Message
  BY <1>3 DEF Message
<1>4. CASE Closed
  BY <1>4 DEF Closed, ScheduleReconnect
<1>5. CASE StaleCheck
  BY <1>5 DEF StaleCheck
<1>6. CASE Reconnect
  BY <1>6 DEF Reconnect
<1>7. CASE Stop
  BY <1>7 DEF Stop
<1>8. CASE Dies
  BY <1>8 DEF Dies
<1>9. CASE Tick
  BY <1>9 DEF Tick, Elapse, Due, Lower
<1>10. CASE UNCHANGED wsVars
  BY <1>10 DEF wsVars
<1> QED BY <1>1, <1>2, <1>3, <1>4, <1>5, <1>6, <1>7, <1>8, <1>9, <1>10 DEF WsNext, Client

\* The inductive invariant holds of every behaviour.
THEOREM WsInvariance == WsSpec => []WsInv
<1>1. WsInv /\ [WsNext]_wsVars => WsInv'
  BY WsFlagsStep, WsConnStep, WsTimesStep, WsTimersStep, WsSumsStep DEF WsInv, WsTypeOK
<1> QED BY WsInitInv, <1>1, PTL DEF WsSpec

\* One socket or one reconnection timer until the client is stopped, and a
\* stale check exactly while a socket is open.
THEOREM OneSocketOrTimer == WsSpec => []SocketOrTimer
<1>1. WsInv => SocketOrTimer
  BY DEF WsInv
<1> QED BY WsInvariance, <1>1, PTL

\* Silence is found out within the window and one period of the check.
THEOREM SilenceFoundOut == WsSpec => []SilenceBounded
<1>1. WsInv => SilenceBounded
  BY WsConstants DEF WsInv, WsTypeOK, TimesOK, SocketOrTimer, Silent, SilenceBounded, Off
<1> QED BY WsInvariance, <1>1, PTL

\* A connection is terminated for its own silence only.
THEOREM NewSpared == WsSpec => []NewConnectionSpared
<1>1. WsInv => NewConnectionSpared
  BY DEF WsInv, Older, NewConnectionSpared
<1> QED BY WsInvariance, <1>1, PTL

\* Attempts to connect are Base or more apart.
THEOREM Spaced == WsSpec => AttemptsSpaced
<1>1. WsInv /\ [WsNext]_wsVars =>
        [conn' = "connecting" /\ conn # "connecting" => rested >= Base]_wsVars
  <2> SUFFICES ASSUME WsInv, WsNext, conn' = "connecting", conn # "connecting"
               PROVE  rested >= Base
    OBVIOUS
  <2>1. Connect \/ Reconnect
    BY DEF WsNext, Client, Opened, Message, Closed, StaleCheck, Stop, Dies, Tick
  <2>2. CASE Connect
    BY <2>2, WsConstants DEF Connect, WsInv, Paced
  <2>3. CASE Reconnect
    BY <2>3, WsConstants DEF Reconnect, WsInv, Paced, WsTypeOK, TimesOK, Off
  <2> QED BY <2>1, <2>2, <2>3
<1> QED BY WsInvariance, <1>1, PTL DEF WsSpec, AttemptsSpaced

===============================================================================
