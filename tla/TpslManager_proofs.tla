-------------------------- MODULE TpslManager_proofs --------------------------
(***************************************************************************)
(* Proofs about TpslManager, for any finite set of handlers, any bound on  *)
(* versions and ids and any budget of faults.                              *)
(*                                                                         *)
(* The bound on live stops is not inductive: a handler that has passed its *)
(* cancellations is about to add a stop.  Ledger counts these handlers     *)
(* with the stops.  Cancelling all stops leaves at most one such handler   *)
(* per task; placing trades one of them for a stop; and only a failed      *)
(* cancellation adds one of them while stops are live.                     *)
(***************************************************************************)
EXTENDS TpslManager, TLAPS, FiniteSetTheorems

\* Handlers behind their cancellations.
Placing == {t \in Tasks : pc[t] \in {"cancelled", "place"}}

Ledger ==
  /\ IsFiniteSet(stops)
  /\ Cardinality(stops) + Cardinality(Placing) <= Cardinality(Tasks) + faults.cancel

\* What a handler carries from one await to the next: a version that has been,
\* or the id of a stop.
Carried ==
  /\ \A t \in Tasks :
       /\ arg[t] <= versions
       /\ pc[t] = "position" => ans[t] \in 0..versions
       /\ pc[t] \in {"cancelOne", "placed"} => ans[t] \in StopIds
       /\ pc[t] = "place" => arg[t] # 0
  /\ \A i \in 1..Len(feed) : feed[i].entry <= versions

IInv == TypeOK /\ Carried /\ Ledger

\* There are finitely many handlers at a time, and at least one.
LEMMA TasksFinite == /\ IsFiniteSet(Tasks)
                     /\ Cardinality(Tasks) \in Nat \ {0}
                     /\ IsFiniteSet(Placing) /\ Cardinality(Placing) \in Nat
<1>1. IsFiniteSet(Tasks) /\ Tasks # {}
  BY TpslConstants
<1>2. Cardinality(Tasks) \in Nat /\ Cardinality(Tasks) # 0
  BY <1>1, FS_CardinalityType, FS_EmptySet
<1>3. Placing \subseteq Tasks
  BY DEF Placing
<1>4. IsFiniteSet(Placing)
  BY <1>1, <1>3, FS_Subset
<1>5. Cardinality(Placing) \in Nat
  BY <1>4, FS_CardinalityType
<1>. QED
  BY <1>1, <1>2, <1>4, <1>5

\* No position and no handler: no stop, and the ledger is balanced.
THEOREM InitInv == Init => IInv
<1>. SUFFICES ASSUME Init PROVE IInv
  OBVIOUS
<1>1. StateOK
  BY TpslConstants DEF Init, StateOK, Versions, Ids, Stops
<1>2. FeedOK
  BY DEF Init, FeedOK
<1>8. FlagsOK
  BY Zenon DEF Init, FlagsOK
<1>3. TasksOK
  BY TpslConstants DEF Init, TasksOK, Awaits, Kinds, Versions, Ids
<1>4. FaultsOK
  BY TpslConstants DEF Init, FaultsOK
<1>5. Carried
  BY DEF Init, Carried
<1>6. Placing = {} /\ stops = {} /\ faults.cancel = 0
  BY DEF Init, Placing, FaultKinds
<1>7. Ledger
  BY <1>6, FS_EmptySet, TasksFinite DEF Ledger
<1>. QED
  BY <1>1, <1>2, <1>3, <1>4, <1>5, <1>7, <1>8 DEF IInv, TypeOK

-----------------------------------------------------------------------------
(* Type correctness, with what handlers carry.                             *)

\* Cancellations that failed are only ever added to.
LEMMA FaultsStep == FaultsOK /\ [Next]_tpslVars => FaultsOK' /\ faults'.cancel >= faults.cancel
<1>. SUFFICES ASSUME FaultsOK, [Next]_tpslVars
              PROVE  FaultsOK' /\ faults'.cancel >= faults.cancel
  OBVIOUS
<1>1. ASSUME NEW k \in FaultKinds, Fault(k)
      PROVE  FaultsOK' /\ faults'.cancel >= faults.cancel
  BY <1>1, TpslConstants DEF Fault, FaultsOK, FaultKinds
<1>2. ASSUME faults' = faults
      PROVE  FaultsOK' /\ faults'.cancel >= faults.cancel
  BY <1>2 DEF FaultsOK, FaultKinds
<1>3. (\E k \in FaultKinds : Fault(k)) \/ faults' = faults
  BY DEF Next, Proceeds, Fails, Event, Environment, tpslVars, FaultKinds,
    AnswerPositions, UpdateFromRest, Rebuild, CancelTpsl, CancelOne, CancelAll, Cancelled,
    Place, Placed, ReadFails, CancelFails, PlaceFails, OnFill, OnPositionUpdate,
    OnPositionClosed, PeriodicCheck, Startup, PositionChanges, PositionCloses, StopTriggers,
    Closes, WsConnect, WsDrop, Crash
<1>. QED
  BY <1>1, <1>2, <1>3

\* A handler that goes on to its next await stays well typed.
LEMMA GotoTyped ==
  ASSUME TasksOK, NEW t \in Tasks, NEW await \in Awaits, NEW a \in Versions,
         NEW b \in Ids \union Versions, Goto(t, await, a, b)
  PROVE  TasksOK'
BY DEF TasksOK, Goto

\* So does a handler that begins.
LEMMA BeginTyped ==
  ASSUME TasksOK, NEW t \in Tasks, NEW k \in Kinds, NEW await \in Awaits, Begin(t, k, await)
  PROVE  TasksOK'
BY DEF TasksOK, Begin

\* The socket and the mark of a missed event stay Booleans.
LEMMA FlagsStep == FlagsOK /\ [Next]_tpslVars => FlagsOK'
<1>. SUFFICES ASSUME FlagsOK, [Next]_tpslVars PROVE FlagsOK'
  OBVIOUS
<1>1. wsUp' \in BOOLEAN
  BY Zenon DEF FlagsOK, Next, Proceeds, Fails, Event, Environment, tpslVars,
    AnswerPositions, UpdateFromRest, Rebuild, CancelTpsl, CancelOne, CancelAll, Cancelled,
    Place, Placed, ReadFails, CancelFails, PlaceFails, OnFill, OnPositionUpdate,
    OnPositionClosed, PeriodicCheck, Startup, PositionChanges, PositionCloses, StopTriggers,
    Closes, WsConnect, WsDrop, Crash
<1>2. missed' \in BOOLEAN
  BY Zenon DEF FlagsOK, Next, Proceeds, Fails, Event, Environment, tpslVars,
    AnswerPositions, UpdateFromRest, Rebuild, CancelTpsl, CancelOne, CancelAll, Cancelled,
    Place, Placed, ReadFails, CancelFails, PlaceFails, OnFill, OnPositionUpdate,
    OnPositionClosed, PeriodicCheck, Startup, PositionChanges, PositionCloses, StopTriggers,
    Closes, WsConnect, WsDrop, Crash, Emit
<1>. QED
  BY <1>1, <1>2 DEF FlagsOK

\* The first event of the feed is an event, and the rest is a feed.
LEMMA HeadOfFeed ==
  ASSUME FeedOK, feed # <<>>
  PROVE  Head(feed) = feed[1] /\ 1 \in 1..Len(feed) /\ feed[1] \in Notices
BY DEF FeedOK

\* Appending events appends to what the feed holds.
LEMMA Appended ==
  ASSUME NEW S, NEW s \in Seq(S), NEW t \in Seq(S)
  PROVE  /\ s \o t \in Seq(S)
         /\ \A i \in 1..Len(s \o t) : \/ i \in 1..Len(s) /\ (s \o t)[i] = s[i]
                                      \/ \E j \in 1..Len(t) : (s \o t)[i] = t[j]
<1>1. s \o t \in Seq(S) /\ Len(s \o t) = Len(s) + Len(t)
  OBVIOUS
<1>2. ASSUME NEW i \in 1..Len(s \o t)
      PROVE  \/ i \in 1..Len(s) /\ (s \o t)[i] = s[i]
             \/ i - Len(s) \in 1..Len(t) /\ (s \o t)[i] = t[i - Len(s)]
  BY <1>1
<1>. QED
  BY <1>1, <1>2

\* An event appended while the socket is up keeps the feed well typed.
LEMMA EmitKeepsFeed ==
  ASSUME FeedOK, NEW n \in Seq(Notices), Emit(n),
         NEW v, \A i \in 1..Len(feed) : feed[i].entry <= v,
         \A i \in 1..Len(n) : n[i].entry <= v
  PROVE  FeedOK' /\ (\A i \in 1..Len(feed') : feed'[i].entry <= v)
<1>1. CASE feed' = feed
  BY <1>1 DEF FeedOK
<1>2. CASE feed' = feed \o n
  <2>1. FeedOK'
    BY <1>2, Appended DEF FeedOK
  <2>2. ASSUME NEW i \in 1..Len(feed')
        PROVE  feed'[i].entry <= v
    <3>1. \/ i \in 1..Len(feed) /\ feed'[i] = feed[i]
          \/ \E j \in 1..Len(n) : feed'[i] = n[j]
      BY <1>2, Appended DEF FeedOK
    <3>. QED
      BY <3>1
  <2>. QED
    BY <2>1, <2>2
<1>. QED
  BY <1>1, <1>2 DEF Emit

\* Every await of every handler keeps the types of state, feed and handlers.
LEMMA StepTyped == TypeOK /\ Carried /\ [Next]_tpslVars => StateOK' /\ FeedOK' /\ TasksOK' /\ Carried'
<1>. SUFFICES ASSUME TypeOK, Carried, [Next]_tpslVars
              PROVE  StateOK' /\ FeedOK' /\ TasksOK' /\ Carried'
  OBVIOUS
<1>. USE TpslConstants DEF TypeOK
<1>1. ASSUME NEW t \in Tasks, AnswerPositions(t)
      PROVE  StateOK' /\ FeedOK' /\ TasksOK' /\ Carried'
  <2>1. StateOK'
    BY <1>1 DEF AnswerPositions, Goto, StateOK, Carried, TasksOK, Versions, Ids, Stops
  <2>2. FeedOK'
    BY <1>1 DEF AnswerPositions, FeedOK, Receives
  <2>3. TasksOK'
    BY <1>1 DEF AnswerPositions, Goto, TasksOK, StateOK, Awaits, Kinds, Versions, Ids
  <2>4. Carried'
    BY <1>1 DEF AnswerPositions, Goto, Carried, StateOK, TasksOK, FeedOK, Notices, Versions, Ids
  <2>. QED
    BY <2>1, <2>2, <2>3, <2>4
<1>2. ASSUME NEW t \in Tasks, UpdateFromRest(t)
      PROVE  StateOK' /\ FeedOK' /\ TasksOK' /\ Carried'
  <2>1. StateOK'
    BY <1>2 DEF UpdateFromRest, Goto, StateOK, Carried, TasksOK, Versions, Ids, Stops
  <2>2. FeedOK'
    BY <1>2 DEF UpdateFromRest, FeedOK, Receives
  <2>3. TasksOK'
    BY <1>2 DEF UpdateFromRest, Goto, TasksOK, StateOK, Awaits, Kinds, Versions, Ids
  <2>4. Carried'
    BY <1>2 DEF UpdateFromRest, Goto, Carried, StateOK, TasksOK, FeedOK, Notices, Versions, Ids
  <2>. QED
    BY <2>1, <2>2, <2>3, <2>4
<1>3. ASSUME NEW t \in Tasks, Rebuild(t)
      PROVE  StateOK' /\ FeedOK' /\ TasksOK' /\ Carried'
  <2>1. StateOK'
    BY <1>3 DEF Rebuild, Goto, Finish, CancelExisting, StateOK, Carried, TasksOK, Versions, Ids, Stops
  <2>2. FeedOK'
    BY <1>3 DEF Rebuild, FeedOK, Receives
  <2>3. TasksOK'
    BY <1>3 DEF Rebuild, Goto, Finish, CancelExisting, TasksOK, StateOK, Awaits, Kinds, Versions, Ids
  <2>4. Carried'
    <3>1. \A u \in Tasks \ {t} : pc'[u] = pc[u] /\ arg'[u] = arg[u] /\ ans'[u] = ans[u]
      BY <1>3 DEF Rebuild, Goto, Finish, CancelExisting, TasksOK
    <3>2. /\ pc'[t] \in {"idle", "cancelOne", "cancelAll"}
          /\ arg'[t] \in {0, local}
          /\ pc'[t] = "cancelOne" => row # 0 /\ ans'[t] = row
      BY <1>3 DEF Rebuild, Goto, Finish, CancelExisting, TasksOK
    <3>3. local <= versions /\ 0 <= versions /\ (row # 0 => row \in StopIds)
      BY DEF StateOK, Versions, Ids
    <3>. QED
      BY <3>1, <3>2, <3>3, <1>3 DEF Rebuild, Carried
  <2>. QED
    BY <2>1, <2>2, <2>3, <2>4
<1>4. ASSUME NEW t \in Tasks, CancelTpsl(t)
      PROVE  StateOK' /\ FeedOK' /\ TasksOK' /\ Carried'
  <2>1. StateOK'
    BY <1>4 DEF CancelTpsl, Goto, CancelExisting, StateOK, Carried, TasksOK, Versions, Ids, Stops
  <2>2. FeedOK'
    BY <1>4 DEF CancelTpsl, FeedOK, Receives
  <2>3. TasksOK'
    BY <1>4 DEF CancelTpsl, Goto, CancelExisting, TasksOK, StateOK, Awaits, Kinds, Versions, Ids
  <2>4. Carried'
    BY <1>4 DEF CancelTpsl, Goto, CancelExisting, Carried, StateOK, TasksOK, FeedOK, Notices, Versions, Ids
  <2>. QED
    BY <2>1, <2>2, <2>3, <2>4
<1>5. ASSUME NEW t \in Tasks, CancelOne(t)
      PROVE  StateOK' /\ FeedOK' /\ TasksOK' /\ Carried'
  <2>1. StateOK'
    BY <1>5 DEF CancelOne, Goto, StateOK, Carried, TasksOK, Versions, Ids, Stops
  <2>2. FeedOK'
    BY <1>5 DEF CancelOne, FeedOK, Receives
  <2>3. TasksOK'
    BY <1>5 DEF CancelOne, Goto, TasksOK, StateOK, Awaits, Kinds, Versions, Ids
  <2>4. Carried'
    BY <1>5 DEF CancelOne, Goto, Carried, StateOK, TasksOK, FeedOK, Notices, Versions, Ids
  <2>. QED
    BY <2>1, <2>2, <2>3, <2>4
<1>6. ASSUME NEW t \in Tasks, CancelAll(t)
      PROVE  StateOK' /\ FeedOK' /\ TasksOK' /\ Carried'
  <2>1. StateOK'
    BY <1>6 DEF CancelAll, Goto, StateOK, Carried, TasksOK, Versions, Ids, Stops
  <2>2. FeedOK'
    BY <1>6 DEF CancelAll, FeedOK, Receives
  <2>3. TasksOK'
    BY <1>6 DEF CancelAll, Goto, TasksOK, StateOK, Awaits, Kinds, Versions, Ids
  <2>4. Carried'
    BY <1>6 DEF CancelAll, Goto, Carried, StateOK, TasksOK, FeedOK, Notices, Versions, Ids
  <2>. QED
    BY <2>1, <2>2, <2>3, <2>4
<1>7. ASSUME NEW t \in Tasks, Cancelled(t)
      PROVE  StateOK' /\ FeedOK' /\ TasksOK' /\ Carried'
  <2>1. StateOK'
    BY <1>7 DEF Cancelled, Goto, Finish, StateOK, Carried, TasksOK, Versions, Ids, Stops
  <2>2. FeedOK'
    BY <1>7 DEF Cancelled, FeedOK, Receives
  <2>3. TasksOK'
    BY <1>7 DEF Cancelled, Goto, Finish, TasksOK, StateOK, Awaits, Kinds, Versions, Ids
  <2>4. Carried'
    BY <1>7 DEF Cancelled, Goto, Finish, Carried, StateOK, TasksOK, FeedOK, Notices, Versions, Ids
  <2>. QED
    BY <2>1, <2>2, <2>3, <2>4
<1>8. ASSUME NEW t \in Tasks, Place(t)
      PROVE  StateOK' /\ FeedOK' /\ TasksOK' /\ Carried'
  <2>1. StateOK'
    BY <1>8 DEF Place, Goto, Adds, FreshIds, StateOK, Carried, TasksOK, Versions, Ids, Stops
  <2>2. FeedOK'
    BY <1>8 DEF Place, FeedOK, Receives
  <2>3. TasksOK'
    BY <1>8 DEF Place, Goto, Adds, FreshIds, TasksOK, StateOK, Awaits, Kinds, Versions, Ids
  <2>4. Carried'
    BY <1>8 DEF Place, Goto, Adds, FreshIds, Carried, StateOK, TasksOK, FeedOK, Notices, Versions, Ids
  <2>. QED
    BY <2>1, <2>2, <2>3, <2>4
<1>9. ASSUME NEW t \in Tasks, Placed(t)
      PROVE  StateOK' /\ FeedOK' /\ TasksOK' /\ Carried'
  <2>1. StateOK'
    BY <1>9 DEF Placed, Goto, Finish, StateOK, Carried, TasksOK, Versions, Ids, Stops
  <2>2. FeedOK'
    BY <1>9 DEF Placed, FeedOK, Receives
  <2>3. TasksOK'
    BY <1>9 DEF Placed, Goto, Finish, TasksOK, StateOK, Awaits, Kinds, Versions, Ids
  <2>4. Carried'
    BY <1>9 DEF Placed, Goto, Finish, Carried, StateOK, TasksOK, FeedOK, Notices, Versions, Ids
  <2>. QED
    BY <2>1, <2>2, <2>3, <2>4
<1>10. ASSUME NEW t \in Tasks, ReadFails(t)
      PROVE  StateOK' /\ FeedOK' /\ TasksOK' /\ Carried'
  <2>1. StateOK'
    BY <1>10 DEF ReadFails, Goto, Finish, StateOK, Carried, TasksOK, Versions, Ids, Stops
  <2>2. FeedOK'
    BY <1>10 DEF ReadFails, FeedOK, Receives
  <2>3. TasksOK'
    BY <1>10 DEF ReadFails, Goto, Finish, TasksOK, StateOK, Awaits, Kinds, Versions, Ids
  <2>4. Carried'
    BY <1>10 DEF ReadFails, Goto, Finish, Carried, StateOK, TasksOK, FeedOK, Notices, Versions, Ids
  <2>. QED
    BY <2>1, <2>2, <2>3, <2>4
<1>11. ASSUME NEW t \in Tasks, CancelFails(t)
      PROVE  StateOK' /\ FeedOK' /\ TasksOK' /\ Carried'
  <2>1. StateOK'
    BY <1>11 DEF CancelFails, Goto, StateOK, Carried, TasksOK, Versions, Ids, Stops
  <2>2. FeedOK'
    BY <1>11 DEF CancelFails, FeedOK, Receives
  <2>3. TasksOK'
    BY <1>11 DEF CancelFails, Goto, TasksOK, StateOK, Awaits, Kinds, Versions, Ids
  <2>4. Carried'
    BY <1>11 DEF CancelFails, Goto, Carried, StateOK, TasksOK, FeedOK, Notices, Versions, Ids
  <2>. QED
    BY <2>1, <2>2, <2>3, <2>4
<1>12. ASSUME NEW t \in Tasks, PlaceFails(t)
      PROVE  StateOK' /\ FeedOK' /\ TasksOK' /\ Carried'
  <2>1. StateOK'
    BY <1>12 DEF PlaceFails, Goto, Finish, Adds, FreshIds, StateOK, Carried, TasksOK, Versions, Ids, Stops
  <2>2. FeedOK'
    BY <1>12 DEF PlaceFails, FeedOK, Receives
  <2>3. TasksOK'
    BY <1>12 DEF PlaceFails, Goto, Finish, Adds, FreshIds, TasksOK, StateOK, Awaits, Kinds, Versions, Ids
  <2>4. Carried'
    BY <1>12 DEF PlaceFails, Goto, Finish, Adds, FreshIds, Carried, StateOK, TasksOK, FeedOK, Notices, Versions, Ids
  <2>. QED
    BY <2>1, <2>2, <2>3, <2>4
<1>13. ASSUME NEW t \in Tasks, OnFill(t)
      PROVE  StateOK' /\ FeedOK' /\ TasksOK' /\ Carried'
  <2>1. StateOK'
    BY <1>13 DEF OnFill, Receives, Begin, Idle, StateOK, Carried, TasksOK, Versions, Ids, Stops
  <2>2. FeedOK'
    BY <1>13 DEF OnFill, FeedOK, Receives
  <2>3. TasksOK'
    BY <1>13 DEF OnFill, Receives, Begin, Idle, TasksOK, StateOK, Awaits, Kinds, Versions, Ids
  <2>4. Carried'
    BY <1>13 DEF OnFill, Receives, Begin, Idle, Carried, StateOK, TasksOK, FeedOK, Notices, Versions, Ids
  <2>. QED
    BY <2>1, <2>2, <2>3, <2>4
<1>14. ASSUME NEW t \in Tasks, OnPositionUpdate(t)
      PROVE  StateOK' /\ FeedOK' /\ TasksOK' /\ Carried'
  <2>1. StateOK'
    <3>1. local' = feed[1].entry /\ 1 \in 1..Len(feed) /\ feed[1] \in Notices
      BY <1>14, HeadOfFeed DEF OnPositionUpdate, Receives
    <3>2. local' \in 0..versions
      BY <3>1 DEF Carried, Notices, Versions, StateOK
    <3>. QED
      BY <3>2, <1>14 DEF OnPositionUpdate, StateOK
  <2>2. FeedOK'
    BY <1>14 DEF OnPositionUpdate, FeedOK, Receives
  <2>3. TasksOK'
    BY <1>14 DEF OnPositionUpdate, Receives, Begin, Idle, TasksOK, StateOK, Awaits, Kinds, Versions, Ids
  <2>4. Carried'
    BY <1>14 DEF OnPositionUpdate, Receives, Begin, Idle, Carried, StateOK, TasksOK, FeedOK, Notices, Versions, Ids
  <2>. QED
    BY <2>1, <2>2, <2>3, <2>4
<1>15. ASSUME NEW t \in Tasks, OnPositionClosed(t)
      PROVE  StateOK' /\ FeedOK' /\ TasksOK' /\ Carried'
  <2>1. StateOK'
    BY <1>15 DEF OnPositionClosed, Receives, Begin, Idle, StateOK, Carried, TasksOK, Versions, Ids, Stops
  <2>2. FeedOK'
    BY <1>15 DEF OnPositionClosed, FeedOK, Receives
  <2>3. TasksOK'
    BY <1>15 DEF OnPositionClosed, Receives, Begin, Idle, TasksOK, StateOK, Awaits, Kinds, Versions, Ids
  <2>4. Carried'
    BY <1>15 DEF OnPositionClosed, Receives, Begin, Idle, Carried, StateOK, TasksOK, FeedOK, Notices, Versions, Ids
  <2>. QED
    BY <2>1, <2>2, <2>3, <2>4
<1>16. ASSUME NEW t \in Tasks, PeriodicCheck(t)
      PROVE  StateOK' /\ FeedOK' /\ TasksOK' /\ Carried'
  <2>1. StateOK'
    BY <1>16 DEF PeriodicCheck, Begin, Idle, StateOK, Carried, TasksOK, Versions, Ids, Stops
  <2>2. FeedOK'
    BY <1>16 DEF PeriodicCheck, FeedOK, Receives
  <2>3. TasksOK'
    BY <1>16 DEF PeriodicCheck, Begin, Idle, TasksOK, StateOK, Awaits, Kinds, Versions, Ids
  <2>4. Carried'
    BY <1>16 DEF PeriodicCheck, Begin, Idle, Carried, StateOK, TasksOK, FeedOK, Notices, Versions, Ids
  <2>. QED
    BY <2>1, <2>2, <2>3, <2>4
<1>17. ASSUME NEW t \in Tasks, Startup(t)
      PROVE  StateOK' /\ FeedOK' /\ TasksOK' /\ Carried'
  <2>1. StateOK'
    BY <1>17 DEF Startup, Begin, Idle, StateOK, Carried, TasksOK, Versions, Ids, Stops
  <2>2. FeedOK'
    BY <1>17 DEF Startup, FeedOK, Receives
  <2>3. TasksOK'
    BY <1>17 DEF Startup, Begin, Idle, TasksOK, StateOK, Awaits, Kinds, Versions, Ids
  <2>4. Carried'
    BY <1>17 DEF Startup, Begin, Idle, Carried, StateOK, TasksOK, FeedOK, Notices, Versions, Ids
  <2>. QED
    BY <2>1, <2>2, <2>3, <2>4
<1>18. CASE PositionChanges
  <2>. DEFINE fill   == [type |-> "fill", entry |-> 0]
              update == [type |-> "update", entry |-> versions + 1]
  <2>1. versions' = versions + 1 /\ versions + 1 \in Versions /\ versions \in Nat
    BY <1>18 DEF PositionChanges, StateOK, Versions
  <2>2. PICK n \in {<<fill, update>>, <<update, fill>>} : Emit(n)
    BY <1>18 DEF PositionChanges
  <2>3. fill \in Notices /\ update \in Notices
    BY <2>1 DEF Notices, Versions
  <2>4. n \in Seq(Notices) /\ \A i \in 1..Len(n) : n[i].entry <= versions + 1
    <3>1. CASE n = <<fill, update>>
      BY <3>1, <2>1, <2>3
    <3>2. CASE n = <<update, fill>>
      BY <3>2, <2>1, <2>3
    <3>. QED
      BY <3>1, <3>2
  <2>5. \A i \in 1..Len(feed) : feed[i] \in Notices /\ feed[i].entry <= versions + 1
    <3>1. ASSUME NEW i \in 1..Len(feed) PROVE feed[i] \in Notices /\ feed[i].entry <= versions
      BY <3>1 DEF FeedOK, Carried
    <3>2. ASSUME NEW i \in 1..Len(feed) PROVE feed[i].entry \in Int
      BY <3>1 DEF Notices, Versions
    <3>. QED
      BY <3>1, <3>2, <2>1
  <2>6. FeedOK' /\ (\A i \in 1..Len(feed') : feed'[i].entry <= versions')
    BY <2>1, <2>2, <2>4, <2>5, EmitKeepsFeed
  <2>7. StateOK'
    BY <1>18 DEF PositionChanges, StateOK, Versions, Ids, Stops
  <2>8. TasksOK'
    BY <1>18 DEF PositionChanges, taskVars, TasksOK, Awaits, Versions, Ids
  <2>9. Carried'
    BY <1>18, <2>6 DEF PositionChanges, taskVars, Carried, StateOK, TasksOK, Versions
  <2>. QED
    BY <2>6, <2>7, <2>8, <2>9
<1>19. ASSUME Closes, stops' \subseteq stops
       PROVE  StateOK' /\ FeedOK' /\ TasksOK' /\ Carried'
  <2>. DEFINE closed == [type |-> "closed", entry |-> 0]
  <2>1. closed \in Notices /\ versions \in Nat
    BY DEF Notices, Versions, StateOK
  <2>2. <<closed>> \in Seq(Notices) /\ \A i \in 1..Len(<<closed>>) : <<closed>>[i].entry <= versions
    BY <2>1
  <2>3. FeedOK' /\ (\A i \in 1..Len(feed') : feed'[i].entry <= versions)
    BY <1>19, <2>2, EmitKeepsFeed DEF Closes, Carried
  <2>4. StateOK'
    BY <1>19 DEF Closes, StateOK, Versions, Ids, Stops
  <2>5. TasksOK'
    BY <1>19 DEF Closes, taskVars, TasksOK, Awaits, Versions, Ids
  <2>6. Carried'
    BY <1>19, <2>3 DEF Closes, taskVars, Carried
  <2>. QED
    BY <2>3, <2>4, <2>5, <2>6
<1>20. CASE PositionCloses \/ \E s \in stops : StopTriggers(s)
  BY <1>19, <1>20 DEF PositionCloses, StopTriggers
<1>21. CASE WsConnect
  <2>1. StateOK'
    BY <1>21 DEF WsConnect, StateOK, Versions, Ids, Stops
  <2>2. FeedOK'
    BY <1>21 DEF WsConnect, FeedOK, Notices, StateOK, Versions
  <2>3. TasksOK'
    BY <1>21 DEF WsConnect, taskVars, TasksOK, StateOK, Awaits, Versions, Ids
  <2>4. Carried'
    BY <1>21 DEF WsConnect, taskVars, Carried, StateOK, FeedOK, TasksOK, Notices, Versions
  <2>. QED
    BY <2>1, <2>2, <2>3, <2>4
<1>22. CASE WsDrop
  <2>1. StateOK'
    BY <1>22 DEF WsDrop, StateOK, Versions, Ids, Stops
  <2>2. FeedOK'
    BY <1>22 DEF WsDrop, FeedOK, Notices, StateOK, Versions
  <2>3. TasksOK'
    BY <1>22 DEF WsDrop, taskVars, TasksOK, StateOK, Awaits, Versions, Ids
  <2>4. Carried'
    BY <1>22 DEF WsDrop, taskVars, Carried, StateOK, FeedOK, TasksOK, Notices, Versions
  <2>. QED
    BY <2>1, <2>2, <2>3, <2>4
<1>23. CASE Crash
  <2>1. StateOK'
    BY <1>23 DEF Crash, StateOK, Versions, Ids, Stops
  <2>2. FeedOK'
    BY <1>23 DEF Crash, FeedOK, Notices, StateOK, Versions
  <2>3. TasksOK'
    BY <1>23 DEF Crash, taskVars, TasksOK, StateOK, Awaits, Versions, Ids
  <2>4. Carried'
    BY <1>23 DEF Crash, taskVars, Carried, StateOK, FeedOK, TasksOK, Notices, Versions
  <2>. QED
    BY <2>1, <2>2, <2>3, <2>4
<1>24. CASE UNCHANGED tpslVars
  <2>1. StateOK'
    BY <1>24 DEF tpslVars, StateOK, Versions, Ids, Stops
  <2>2. FeedOK'
    BY <1>24 DEF tpslVars, FeedOK, Notices, StateOK, Versions
  <2>3. TasksOK'
    BY <1>24 DEF tpslVars, taskVars, TasksOK, StateOK, Awaits, Versions, Ids
  <2>4. Carried'
    BY <1>24 DEF tpslVars, taskVars, Carried, StateOK, FeedOK, TasksOK, Notices, Versions
  <2>. QED
    BY <2>1, <2>2, <2>3, <2>4
<1>. QED
  BY <1>1, <1>2, <1>3, <1>4, <1>5, <1>6, <1>7, <1>8, <1>9, <1>10, <1>11, <1>12, <1>13, <1>14, <1>15, <1>16, <1>17, <1>18, <1>19, <1>20, <1>21, <1>22, <1>23, <1>24
     DEF Next, Proceeds, Fails, Event, Environment

\* Type correctness, with what handlers carry across awaits, is inductive.
THEOREM TypeStep == TypeOK /\ Carried /\ [Next]_tpslVars => TypeOK' /\ Carried'
BY StepTyped, FlagsStep, FaultsStep DEF TypeOK

\* Every variable keeps its type, whatever fails and whenever: what a late
\* answer writes is a version that has been or the id of a stop.
THEOREM TypeCorrect == Spec => []TypeOK
<1>1. Init => TypeOK /\ Carried
  BY InitInv DEF IInv
<1>2. TypeOK /\ Carried /\ [Next]_tpslVars => (TypeOK /\ Carried)'
  BY TypeStep
<1>. QED
  BY <1>1, <1>2, PTL DEF Spec

-----------------------------------------------------------------------------
(* The number of live stops.                                               *)

\* Neither side of Ledger grows but for the failed cancellations.
LEMMA Shrinks ==
  ASSUME Ledger, FaultsOK, FaultsOK', faults'.cancel >= faults.cancel,
         stops' \subseteq stops, Placing' \subseteq Placing
  PROVE  Ledger'
<1>1. IsFiniteSet(stops') /\ Cardinality(stops') <= Cardinality(stops)
  BY FS_Subset DEF Ledger
<1>2. Cardinality(Placing') <= Cardinality(Placing)
  BY TasksFinite, FS_Subset
<1>3. Cardinality(stops) \in Nat /\ Cardinality(stops') \in Nat /\ Cardinality(Placing') \in Nat
  BY <1>1, TasksFinite, FS_Subset, FS_CardinalityType DEF Ledger
<1>4. faults.cancel \in Nat /\ faults'.cancel \in Nat
  BY DEF FaultsOK, FaultKinds
<1>. QED
  BY <1>1, <1>2, <1>3, <1>4, TasksFinite DEF Ledger

\* A handler that places trades itself for a stop.
LEMMA Trades ==
  ASSUME Ledger, FaultsOK, FaultsOK', faults'.cancel >= faults.cancel,
         NEW t \in Placing, NEW s, stops' = stops \union {s}, Placing' = Placing \ {t}
  PROVE  Ledger'
<1>1. IsFiniteSet(stops') /\ Cardinality(stops') <= Cardinality(stops) + 1
  <2>1. IsFiniteSet(stops) /\ IsFiniteSet(stops \union {s})
        /\ Cardinality(stops \union {s}) = IF s \in stops THEN Cardinality(stops) ELSE Cardinality(stops) + 1
    BY FS_AddElement DEF Ledger
  <2>2. Cardinality(stops) \in Nat
    BY <2>1, FS_CardinalityType
  <2>. QED
    BY <2>1, <2>2
<1>2. Cardinality(Placing') = Cardinality(Placing) - 1
  BY TasksFinite, FS_RemoveElement
<1>3. Cardinality(stops) \in Nat /\ Cardinality(stops') \in Nat
  BY <1>1, FS_CardinalityType DEF Ledger
<1>4. faults.cancel \in Nat /\ faults'.cancel \in Nat
  BY DEF FaultsOK, FaultKinds
<1>. QED
  BY <1>1, <1>2, <1>3, <1>4, TasksFinite DEF Ledger

\* A handler places a stop only after a cancellation that left none, or failed.
THEOREM LedgerStep == TypeOK /\ TypeOK' /\ Ledger /\ [Next]_tpslVars => Ledger'
<1>. SUFFICES ASSUME TypeOK, TypeOK', Ledger, [Next]_tpslVars
              PROVE  Ledger'
  OBVIOUS
<1>0. FaultsOK /\ FaultsOK' /\ faults'.cancel >= faults.cancel
  BY FaultsStep DEF TypeOK
<1>1. ASSUME NEW t \in Tasks, CancelAll(t)
      PROVE  Ledger'
  <2>1. stops' = {} /\ IsFiniteSet(stops') /\ Cardinality(stops') = 0
    BY <1>1, FS_EmptySet DEF CancelAll
  <2>2. Placing' \subseteq Tasks
    BY DEF Placing
  <2>3. Cardinality(Placing') <= Cardinality(Tasks) /\ Cardinality(Placing') \in Nat
    BY <2>2, TasksFinite, FS_Subset, FS_CardinalityType
  <2>. QED
    BY <2>1, <2>3, <1>0, TasksFinite DEF Ledger, FaultsOK, FaultKinds
<1>2. ASSUME NEW t \in Tasks, CancelFails(t)
      PROVE  Ledger'
  <2>1. stops' = stops /\ faults'.cancel = faults.cancel + 1 /\ faults.cancel \in Nat
    BY <1>2, <1>0 DEF CancelFails, Fault, FaultsOK, FaultKinds
  <2>2. Placing' \subseteq Placing \union {t}
    BY <1>2 DEF CancelFails, Goto, Placing, TypeOK, TasksOK
  <2>3. IsFiniteSet(Placing \union {t}) /\ Cardinality(Placing \union {t}) <= Cardinality(Placing) + 1
    <3>1. /\ IsFiniteSet(Placing \union {t})
          /\ Cardinality(Placing \union {t}) = IF t \in Placing THEN Cardinality(Placing)
                                                ELSE Cardinality(Placing) + 1
      BY TasksFinite, FS_AddElement
    <3>. QED
      BY <3>1, TasksFinite
  <2>4. Cardinality(Placing') <= Cardinality(Placing) + 1 /\ Cardinality(Placing') \in Nat
    BY <2>2, <2>3, TasksFinite, FS_Subset, FS_CardinalityType
  <2>5. Cardinality(stops) \in Nat
    BY FS_CardinalityType DEF Ledger
  <2>. QED
    BY <2>1, <2>4, <2>5, TasksFinite DEF Ledger
<1>3. ASSUME NEW t \in Tasks, Place(t)
      PROVE  Ledger'
  <2>1. t \in Placing /\ Placing' = Placing \ {t}
    BY <1>3 DEF Place, Goto, Placing, TypeOK, TasksOK
  <2>2. \E s : stops' = stops \union {s}
    BY <1>3 DEF Place, Adds
  <2>. QED
    BY <2>1, <2>2, <1>0, Trades
<1>4. ASSUME NEW t \in Tasks, PlaceFails(t)
      PROVE  Ledger'
  <2>1. t \in Placing /\ Placing' = Placing \ {t}
    BY <1>4 DEF PlaceFails, Finish, Goto, Placing, TypeOK, TasksOK
  <2>2. stops' = stops \/ \E s : stops' = stops \union {s}
    BY <1>4 DEF PlaceFails, Adds
  <2>. QED
    BY <2>1, <2>2, <1>0, Trades, Shrinks
<1>5. ASSUME NEW t \in Tasks, Cancelled(t)
      PROVE  Ledger'
  <2>1. stops' = stops /\ Placing' \subseteq Placing
    BY <1>5 DEF Cancelled, Finish, Goto, Placing, TypeOK, TasksOK
  <2>. QED
    BY <2>1, <1>0, Shrinks
<1>6. ASSUME NEW t \in Tasks,
             \/ AnswerPositions(t) \/ UpdateFromRest(t) \/ Rebuild(t) \/ CancelTpsl(t)
             \/ CancelOne(t) \/ Placed(t) \/ ReadFails(t)
      PROVE  Ledger'
  <2>1. stops' \subseteq stops
    BY <1>6 DEF AnswerPositions, UpdateFromRest, Rebuild, CancelTpsl, CancelOne, Placed, ReadFails
  <2>2. Placing' \subseteq Placing
    BY <1>6 DEF AnswerPositions, UpdateFromRest, Rebuild, CancelTpsl, CancelOne, Placed, ReadFails,
                Finish, CancelExisting, Goto, Placing, TypeOK, TasksOK
  <2>. QED
    BY <2>1, <2>2, <1>0, Shrinks
<1>7. ASSUME NEW t \in Tasks, Event(t) \/ PeriodicCheck(t) \/ Startup(t)
      PROVE  Ledger'
  <2>1. stops' = stops
    BY <1>7 DEF Event, OnFill, OnPositionUpdate, OnPositionClosed, PeriodicCheck, Startup
  <2>2. Placing' \subseteq Placing
    BY <1>7 DEF Event, OnFill, OnPositionUpdate, OnPositionClosed, PeriodicCheck, Startup,
                Begin, Placing, TypeOK, TasksOK
  <2>. QED
    BY <2>1, <2>2, <1>0, Shrinks
<1>8. CASE Environment \/ UNCHANGED tpslVars
  <2>1. stops' \subseteq stops
    BY <1>8 DEF Environment, PositionChanges, PositionCloses, StopTriggers, WsConnect, WsDrop, Crash, tpslVars
  <2>2. Placing' \subseteq Placing
    BY <1>8 DEF Environment, PositionChanges, PositionCloses, StopTriggers, Closes, WsConnect, WsDrop, Crash,
                tpslVars, taskVars, Placing
  <2>. QED
    BY <2>1, <2>2, <1>0, Shrinks
<1>. QED
  BY <1>1, <1>2, <1>3, <1>4, <1>5, <1>6, <1>7, <1>8 DEF Next, Proceeds, Fails

\* The ledger bounds the stops by the handlers and the failed cancellations.
LEMMA LedgerBounds == IInv => StopsBoundedByOverlap
<1>. SUFFICES ASSUME IInv PROVE StopsBoundedByOverlap
  OBVIOUS
<1>1. Cardinality(stops) \in Nat /\ Cardinality(Placing) \in Nat
  BY TasksFinite, FS_CardinalityType DEF IInv, Ledger
<1>. QED
  BY <1>1, TasksFinite DEF IInv, Ledger, StopsBoundedByOverlap, TypeOK, FaultsOK, FaultKinds

\* The inductive invariant holds of every behaviour.
THEOREM Invariance == Spec => []IInv
<1>1. IInv /\ [Next]_tpslVars => IInv'
  BY TypeStep, LedgerStep DEF IInv
<1>. QED
  BY InitInv, <1>1, PTL DEF Spec

\* However many handlers overlap, and whatever fails, there are never more live
\* stops than handlers that may overlap and failed cancellations together.
THEOREM StopsBounded == Spec => []StopsBoundedByOverlap
BY Invariance, LedgerBounds, PTL

-----------------------------------------------------------------------------
(* One failed cancellation is covered.                                     *)
(*                                                                         *)
(* Between handlers the only stop there may be is that of the row.  It is  *)
(* cancelled by its id and with all of the pair, so that two calls in a    *)
(* row have to fail for a stop to be left when the next one is placed.     *)

OneFailure == Serial /\ faults.cancel <= 1 /\ Without({"place", "crash"})

\* There is at most one stop, and its id is this one.
Only(i) == (\A s \in stops : s.id = i) /\ \A s, u \in stops : s = u

\* What stops there may be when handler t is at its await.
StopsAt(t) ==
  /\ pc[t] \in {"idle", "positions", "position", "price", "sweep"} => Only(row)
  /\ pc[t] \in {"cancelOne", "placed"} => Only(ans[t])
  /\ pc[t] = "cancelAll" => stops = {} \/ (faults.cancel = 1 /\ \E i \in StopIds : Only(i))
  /\ pc[t] \in {"cancelled", "place"} => stops = {}

Covered == OneFailure => \A t \in Tasks : StopsAt(t)

\* One failure at most now is one failure at most before.
LEMMA OneFailureBefore ==
  ASSUME TypeOK, [Next]_tpslVars, OneFailure'
  PROVE  /\ OneFailure /\ ~Crash
         /\ \A t \in Tasks : CancelFails(t) => faults.cancel = 0 /\ faults'.cancel = 1
         /\ \A t \in Tasks : PlaceFails(t) => stops' = stops
<1>0. /\ DOMAIN faults = FaultKinds /\ \A k \in FaultKinds : faults[k] \in Nat
      /\ Serial
  BY DEF TypeOK, FaultsOK, OneFailure, Serial
<1>1. faults' = faults \/ \E k \in FaultKinds : Fault(k)
  BY DEF Next, Proceeds, Fails, Event, Environment, tpslVars, FaultKinds,
    AnswerPositions, UpdateFromRest, Rebuild, CancelTpsl, CancelOne, CancelAll, Cancelled,
    Place, Placed, ReadFails, CancelFails, PlaceFails, OnFill, OnPositionUpdate,
    OnPositionClosed, PeriodicCheck, Startup, PositionChanges, PositionCloses, StopTriggers,
    Closes, WsConnect, WsDrop, Crash
<1>2. \A k \in FaultKinds : faults'[k] \in Nat /\ faults'[k] >= faults[k]
  BY <1>0, <1>1 DEF Fault
<1>3. \A k \in FaultKinds : Fault(k) => faults'[k] = faults[k] + 1
  BY <1>0 DEF Fault
<1>4. /\ faults["place"] = 0 /\ faults["crash"] = 0 /\ faults["cancel"] <= 1
      /\ faults'["place"] = 0 /\ faults'["crash"] = 0 /\ faults'["cancel"] <= 1
  BY <1>0, <1>2 DEF OneFailure, Without, FaultKinds
<1>5. OneFailure
  BY <1>0, <1>4 DEF OneFailure, Without
<1>6. ~Fault("crash") /\ ~Fault("place")
  BY <1>0, <1>3, <1>4 DEF FaultKinds
<1>7. Fault("cancel") => faults.cancel = 0 /\ faults'.cancel = 1
  BY <1>0, <1>3, <1>4 DEF FaultKinds
<1>. QED
  BY <1>5, <1>6, <1>7 DEF Crash, CancelFails, PlaceFails

\* Removing stops leaves what the stops are at an await.
LEMMA FewerStops ==
  ASSUME NEW t \in Tasks, StopsAt(t), stops' \subseteq stops, faults'.cancel = faults.cancel,
         pc'[t] = pc[t], ans'[t] = ans[t], row' = row
  PROVE  StopsAt(t)'
BY DEF StopsAt, Only

\* Every step leaves the stops as the await of the one handler says.
LEMMA CoveredStep == IInv /\ Covered /\ [Next]_tpslVars => Covered'
<1>. SUFFICES ASSUME IInv, Covered, [Next]_tpslVars, OneFailure', NEW t \in Tasks
              PROVE  StopsAt(t)'
  BY DEF Covered
<1>0. /\ TypeOK /\ TasksOK /\ Carried /\ stops \subseteq Stops /\ row \in Ids
      /\ StopsAt(t) /\ ~Crash
      /\ CancelFails(t) => faults.cancel = 0 /\ faults'.cancel = 1
      /\ PlaceFails(t) => stops' = stops
  BY OneFailureBefore DEF IInv, TypeOK, StateOK, Covered
<1>1. \A u \in Tasks : u = t
  BY TasksFinite, FS_Singleton DEF OneFailure, Serial
<1>2. Only(0) => stops = {}
  BY <1>0, TpslConstants DEF Only, Stops
<1>3. row # 0 => row \in StopIds
  BY <1>0 DEF Ids
<1>4. CASE Rebuild(t) \/ CancelTpsl(t)
  <2>1. Only(row) /\ UNCHANGED <<stops, row>>
    BY <1>0, <1>4 DEF Rebuild, CancelTpsl, StopsAt
  <2>2. \/ pc'[t] = "idle"
        \/ pc'[t] = "cancelAll" /\ row = 0
        \/ pc'[t] = "cancelOne" /\ ans'[t] = row
    BY <1>0, <1>4 DEF Rebuild, CancelTpsl, Finish, CancelExisting, Goto, TasksOK
  <2>3. Only(row)' /\ (row = 0 => stops' = {})
    BY <1>2, <2>1 DEF Only
  <2>4. pc'[t] = "cancelOne" => Only(ans[t])'
    BY <2>1, <2>2 DEF Only
  <2>. QED
    BY <2>2, <2>3, <2>4 DEF StopsAt
<1>5. CASE AnswerPositions(t) \/ UpdateFromRest(t) \/ ReadFails(t)
  BY <1>0, <1>5
  DEF AnswerPositions, UpdateFromRest, ReadFails, Finish, Goto, StopsAt, Only, TasksOK
<1>6. CASE CancelOne(t) \/ CancelAll(t)
  <2>1. stops' = {}
    BY <1>0, <1>6 DEF CancelOne, CancelAll, StopsAt, Only
  <2>2. pc'[t] \in {"cancelAll", "cancelled"}
    BY <1>0, <1>6 DEF CancelOne, CancelAll, Goto, TasksOK
  <2>. QED
    BY <2>1, <2>2 DEF StopsAt, Only
<1>7. CASE CancelFails(t)
  <2>1. stops' = stops /\ faults'.cancel = 1 /\ faults.cancel = 0
    BY <1>0, <1>7 DEF CancelFails
  <2>2. CASE pc[t] = "cancelOne"
    <3>1. pc'[t] = "cancelAll"
      BY <1>0, <1>7, <2>2 DEF CancelFails, Goto, TasksOK
    <3>2. Only(ans[t]) /\ ans[t] \in StopIds
      BY <1>0, <2>2 DEF StopsAt, Carried
    <3>3. \E i \in StopIds : Only(i)'
      BY <2>1, <3>2 DEF Only
    <3>. QED
      BY <2>1, <3>1, <3>3 DEF StopsAt
  <2>3. CASE pc[t] = "cancelAll"
    <3>1. pc'[t] = "cancelled" /\ stops' = {}
      BY <1>0, <1>7, <2>1, <2>3 DEF CancelFails, Goto, StopsAt, TasksOK
    <3>. QED
      BY <3>1 DEF StopsAt
  <2>. QED
    BY <1>7, <2>2, <2>3 DEF CancelFails
<1>8. CASE Cancelled(t) \/ PlaceFails(t)
  <2>1. stops' = {}
    BY <1>0, <1>8 DEF Cancelled, PlaceFails, StopsAt
  <2>2. pc'[t] \in {"idle", "place"}
    BY <1>0, <1>8 DEF Cancelled, PlaceFails, Finish, Goto, TasksOK
  <2>. QED
    BY <2>1, <2>2 DEF StopsAt, Only
<1>9. CASE Place(t)
  <2>1. PICK i : stops' = {[id |-> i, entry |-> arg[t]]} /\ Goto(t, "placed", 0, i)
    BY <1>0, <1>9 DEF Place, Adds, StopsAt
  <2>2. pc'[t] = "placed" /\ ans'[t] = i
    BY <1>0, <2>1 DEF Goto, TasksOK
  <2>. QED
    BY <2>1, <2>2 DEF StopsAt, Only
<1>10. CASE Placed(t)
  BY <1>0, <1>10 DEF Placed, Finish, Goto, StopsAt, Only, TasksOK
<1>11. CASE Event(t) \/ PeriodicCheck(t) \/ Startup(t)
  BY <1>0, <1>11 DEF Event, OnFill, OnPositionUpdate, OnPositionClosed, PeriodicCheck,
    Startup, Begin, Idle, StopsAt, Only, TasksOK
<1>12. CASE Environment \/ UNCHANGED tpslVars
  <2>1. stops' \subseteq stops /\ UNCHANGED <<pc, ans, row>>
    BY <1>0, <1>12 DEF Environment, PositionChanges, PositionCloses, StopTriggers, Closes,
      WsConnect, WsDrop, taskVars, tpslVars
  <2>2. faults'.cancel = faults.cancel
    BY <1>0, <1>12 DEF Environment, PositionChanges, PositionCloses, StopTriggers, Closes,
      Fault, WsConnect, WsDrop, tpslVars, TypeOK, FaultsOK, FaultKinds
  <2>. QED
    BY <1>0, <2>1, <2>2, FewerStops
<1>. QED
  BY <1>1, <1>4, <1>5, <1>6, <1>7, <1>8, <1>9, <1>10, <1>11, <1>12
  DEF Next, Proceeds, Fails

\* As long as handlers do not overlap, one cancellation that fails unnoticed
\* leaves no second stop behind, whatever positions come and go.
THEOREM FailureStaysCovered == Spec => []OneFailureIsCovered
<1>1. Init => Covered
  BY DEF Init, Covered, StopsAt, Only
<1>2. IInv /\ Covered => OneFailureIsCovered
  <2>. SUFFICES ASSUME IInv, Covered, OneFailure PROVE Cardinality(stops) <= 1
    BY DEF OneFailureIsCovered, OneFailure
  <2>1. PICK t \in Tasks : StopsAt(t)
    BY TpslConstants DEF Covered
  <2>2. \A s, u \in stops : s = u
    BY <2>1 DEF StopsAt, Only, IInv, TypeOK, TasksOK, Awaits
  <2>3. stops = {} \/ \E s : stops = {s}
    BY <2>2
  <2>4. Cardinality(stops) \in {0, 1}
    BY <2>3, FS_EmptySet, FS_Singleton
  <2>. QED
    BY <2>4
<1>. QED
  BY Invariance, CoveredStep, <1>1, <1>2, PTL DEF Spec

-----------------------------------------------------------------------------
(* Handlers that do not overlap settle on the position.                    *)
(*                                                                         *)
(* An answer to GET positions may be stale when it is used.  Then an event *)
(* of the change is still in the feed; so it is enough that everything is  *)
(* right whenever the feed holds no news of the position.                  *)

Clean == Serial /\ ~missed /\ Without({"read", "cancel", "place", "crash"})

News(notice) == notice.type \in {"update", "closed"}
Told == \A k \in 1..Len(feed) : ~News(feed[k])

\* The last news of the feed is of the position as it is.
LastIsTrue ==
  \A k \in 1..Len(feed) :
    /\ feed[k].type = "closed" => feed[k].entry = 0
    /\ News(feed[k]) /\ (\A j \in (k + 1)..Len(feed) : ~News(feed[j])) => feed[k].entry = pos

\* The exchange holds the stop of the position, with this id, and nothing else.
StopIs(i) == stops = IF pos = 0 THEN {} ELSE {[id |-> i, entry |-> pos]}

\* What a handler does with a position of which there is no more news.
RightAt(t) ==
  /\ pc[t] \in {"cancelled", "place"} => stops = {}
  /\ Told =>
       /\ pc[t] \in {"idle", "positions", "position"} => StopIs(row)
       /\ pc[t] = "position" => ans[t] = pos
       /\ pc[t] = "price" => local = pos /\ (kind[t] \in {"fill", "startup"} => StopIs(row))
       /\ pc[t] = "sweep" => pos = 0
       /\ pc[t] \in {"cancelOne", "cancelAll", "cancelled", "place"} => arg[t] = pos
       /\ pc[t] = "placed" => StopIs(ans[t])

Right == Clean => LastIsTrue /\ \A t \in Tasks : RightAt(t)

\* What is clean now was clean before, and no call failed for nothing.
LEMMA CleanBefore ==
  ASSUME TypeOK, [Next]_tpslVars, Clean'
  PROVE  /\ Clean /\ ~Crash
         /\ \A t \in Tasks : ~ReadFails(t) /\ ~CancelFails(t)
         /\ \A t \in Tasks : PlaceFails(t) => stops' = stops /\ pos = 0
<1>0. /\ DOMAIN faults = FaultKinds /\ \A k \in FaultKinds : faults[k] \in Nat
      /\ missed \in BOOLEAN
  BY DEF TypeOK, FaultsOK, FlagsOK
<1>1. faults' = faults \/ \E k \in FaultKinds : Fault(k)
  BY DEF Next, Proceeds, Fails, Event, Environment, tpslVars, FaultKinds,
    AnswerPositions, UpdateFromRest, Rebuild, CancelTpsl, CancelOne, CancelAll, Cancelled,
    Place, Placed, ReadFails, CancelFails, PlaceFails, OnFill, OnPositionUpdate,
    OnPositionClosed, PeriodicCheck, Startup, PositionChanges, PositionCloses, StopTriggers,
    Closes, WsConnect, WsDrop, Crash
<1>2. \A k \in FaultKinds : faults'[k] >= faults[k] /\ (Fault(k) => faults'[k] = faults[k] + 1)
  BY <1>0, <1>1 DEF Fault
<1>3. \A k \in {"read", "cancel", "place", "crash"} : faults[k] = 0 /\ ~Fault(k)
  BY <1>0, <1>2 DEF Clean, Without, FaultKinds
<1>4. ~missed
  BY <1>0, Zenon DEF Clean, Emit, taskVars, Next, Proceeds, Fails, Event, Environment, tpslVars,
    AnswerPositions, UpdateFromRest, Rebuild, CancelTpsl, CancelOne, CancelAll, Cancelled,
    Place, Placed, ReadFails, CancelFails, PlaceFails, OnFill, OnPositionUpdate,
    OnPositionClosed, PeriodicCheck, Startup, PositionChanges, PositionCloses, StopTriggers,
    Closes, WsConnect, WsDrop, Crash
<1>. QED
  BY <1>3, <1>4 DEF Clean, Serial, Without, Crash, ReadFails, CancelFails, PlaceFails

\* Every change of the position is news, and handling the last news tells it.
LEMMA NewsStep ==
  ASSUME IInv, LastIsTrue, [Next]_tpslVars, Clean'
  PROVE  /\ LastIsTrue'
         /\ Told' => pos' = pos
         /\ Told' /\ ~Told =>
              \E t \in Tasks : \/ OnPositionUpdate(t) /\ Head(feed).entry = pos
                               \/ OnPositionClosed(t) /\ pos = 0
<1>0. /\ TypeOK /\ Clean /\ ~Crash /\ feed \in Seq(Notices) /\ pos \in 0..versions /\ versions \in Nat
      /\ ~missed /\ ~missed' /\ missed \in BOOLEAN /\ wsUp \in BOOLEAN
  BY CleanBefore, TpslConstants DEF IInv, TypeOK, FeedOK, StateOK, FlagsOK, Versions, Clean
<1>1. CASE feed' = feed /\ pos' = pos
  BY <1>1 DEF LastIsTrue, Told
<1>2. ASSUME feed # <<>>, feed' = Tail(feed), pos' = pos
      PROVE  /\ LastIsTrue'
             /\ Told' /\ ~Told => News(Head(feed)) /\ Head(feed).entry = pos
  <2>1. /\ Len(feed) \in Nat /\ 1 \in 1..Len(feed) /\ Head(feed) = feed[1]
        /\ Len(feed') = Len(feed) - 1
        /\ \A k \in 1..Len(feed') : feed'[k] = feed[k + 1]
    BY <1>0, <1>2
  <2>2. \A k \in 2..Len(feed) : k - 1 \in 1..Len(feed') /\ feed[k] = feed'[k - 1]
    BY <2>1
  <2>3. LastIsTrue'
    <3>. SUFFICES ASSUME NEW k \in 1..Len(feed')
                  PROVE  /\ feed'[k].type = "closed" => feed'[k].entry = 0
                         /\ News(feed'[k]) /\ (\A j \in (k + 1)..Len(feed') : ~News(feed'[j]))
                              => feed'[k].entry = pos
      BY <1>2 DEF LastIsTrue, News
    <3>1. k + 1 \in 1..Len(feed) /\ feed'[k] = feed[k + 1]
      BY <2>1
    <3>2. ASSUME \A j \in (k + 1)..Len(feed') : ~News(feed'[j])
          PROVE  \A j \in (k + 2)..Len(feed) : ~News(feed[j])
      <4>1. \A j \in (k + 2)..Len(feed) : j - 1 \in (k + 1)..Len(feed') /\ feed[j] = feed'[j - 1]
        BY <2>1, <2>2
      <4>. QED
        BY <3>2, <4>1
    <3>. QED
      BY <3>1, <3>2 DEF LastIsTrue
  <2>4. ASSUME Told', ~Told PROVE News(feed[1]) /\ feed[1].entry = pos
    <3>1. \A k \in 2..Len(feed) : ~News(feed[k])
      BY <2>2, <2>4 DEF Told, News
    <3>2. News(feed[1])
      BY <2>1, <2>4, <3>1 DEF Told
    <3>. QED
      BY <2>1, <3>1, <3>2 DEF LastIsTrue
  <2>. QED
    BY <2>1, <2>3, <2>4
<1>3. ASSUME NEW notices \in Seq(Notices), NEW n \in 1..Len(notices),
             feed' = feed \o notices, News(notices[n]), notices[n].entry = pos',
             \A j \in 1..Len(notices) : News(notices[j]) => j = n,
             notices[n].type = "closed" => notices[n].entry = 0
      PROVE  LastIsTrue' /\ ~Told'
  <2>1. /\ Len(feed) \in Nat /\ Len(notices) \in Nat /\ Len(feed') = Len(feed) + Len(notices)
        /\ \A k \in 1..Len(feed) : feed'[k] = feed[k]
        /\ \A j \in 1..Len(notices) : Len(feed) + j \in 1..Len(feed') /\ feed'[Len(feed) + j] = notices[j]
        /\ \A k \in 1..Len(feed') : k \in 1..Len(feed) \/ k - Len(feed) \in 1..Len(notices)
    BY <1>0, <1>3
  <2>2. ~Told'
    BY <1>3, <2>1 DEF Told, News
  <2>3. LastIsTrue'
    <3>. SUFFICES ASSUME NEW k \in 1..Len(feed')
                  PROVE  /\ feed'[k].type = "closed" => feed'[k].entry = 0
                         /\ News(feed'[k]) /\ (\A j \in (k + 1)..Len(feed') : ~News(feed'[j]))
                              => feed'[k].entry = pos'
      BY DEF LastIsTrue, News
    <3>1. CASE k \in 1..Len(feed)
      <4>1. Len(feed) + n \in (k + 1)..Len(feed') /\ News(feed'[Len(feed) + n])
        BY <1>3, <2>1, <3>1
      <4>. QED
        BY <2>1, <3>1, <4>1 DEF LastIsTrue
    <3>2. ASSUME NEW j \in 1..Len(notices), k = Len(feed) + j
          PROVE  /\ feed'[k].type = "closed" => feed'[k].entry = 0
                 /\ News(feed'[k]) => feed'[k].entry = pos'
      BY <1>3, <2>1, <3>2 DEF News
    <3>3. k \notin 1..Len(feed) =>
            \E j \in 1..Len(notices) : k = Len(feed) + j
      <4>1. k - Len(feed) \in 1..Len(notices) => k = Len(feed) + (k - Len(feed))
        BY <2>1
      <4>. QED
        BY <2>1, <4>1
    <3>. QED
      BY <3>1, <3>2, <3>3
  <2>. QED
    BY <2>2, <2>3
<1>4. CASE PositionChanges
  <2>. DEFINE fill   == [type |-> "fill", entry |-> 0]
              update == [type |-> "update", entry |-> pos']
  <2>a. pos' \in Versions /\ 0 \in Versions
    BY <1>0, <1>4, TpslConstants DEF PositionChanges, Versions
  <2>b. /\ fill \in Notices /\ fill.type = "fill"
        /\ update \in Notices /\ update.type = "update" /\ update.entry = pos'
    BY <2>a DEF Notices
  <2>1. ~News(fill) /\ News(update)
    BY <2>b DEF News
  <2>2. feed' = feed \o <<fill, update>> \/ feed' = feed \o <<update, fill>>
    BY <1>0, <1>4 DEF PositionChanges, Emit
  <2>3. /\ <<fill, update>> \in Seq(Notices) /\ <<update, fill>> \in Seq(Notices)
        /\ Len(<<fill, update>>) = 2 /\ Len(<<update, fill>>) = 2
        /\ <<fill, update>>[1] = fill /\ <<fill, update>>[2] = update
        /\ <<update, fill>>[1] = update /\ <<update, fill>>[2] = fill
    BY <2>b
  <2>. HIDE DEF fill, update
  <2>4. ASSUME feed' = feed \o <<fill, update>> PROVE LastIsTrue' /\ ~Told'
    <3>1. /\ 2 \in 1..Len(<<fill, update>>)
          /\ \A j \in 1..Len(<<fill, update>>) : News(<<fill, update>>[j]) => j = 2
      BY <2>1, <2>3
    <3>. QED
      BY <1>3, <2>b, <2>1, <2>3, <2>4, <3>1
  <2>5. ASSUME feed' = feed \o <<update, fill>> PROVE LastIsTrue' /\ ~Told'
    <3>1. /\ 1 \in 1..Len(<<update, fill>>)
          /\ \A j \in 1..Len(<<update, fill>>) : News(<<update, fill>>[j]) => j = 1
      BY <2>1, <2>3
    <3>. QED
      BY <1>3, <2>b, <2>1, <2>3, <2>5, <3>1
  <2>. QED
    BY <2>2, <2>4, <2>5
<1>5. CASE PositionCloses \/ \E s \in stops : StopTriggers(s)
  <2>. DEFINE closed == [type |-> "closed", entry |-> 0]
  <2>a. pos' = 0 /\ Emit(<<closed>>)
    BY <1>5 DEF PositionCloses, StopTriggers, Closes
  <2>b. feed' = feed \o <<closed>>
    BY <1>0, <2>a DEF Emit
  <2>c. closed \in Notices /\ closed.type = "closed" /\ closed.entry = 0
    BY TpslConstants DEF Notices, Versions
  <2>2. /\ <<closed>> \in Seq(Notices) /\ Len(<<closed>>) = 1 /\ <<closed>>[1] = closed
        /\ 1 \in 1..Len(<<closed>>) /\ \A j \in 1..Len(<<closed>>) : j = 1
    BY <2>c
  <2>1. News(closed)
    BY <2>c DEF News
  <2>. HIDE DEF closed
  <2>. QED
    BY <1>3, <2>a, <2>b, <2>c, <2>1, <2>2
<1>6. ASSUME NEW t \in Tasks, Event(t)
      PROVE  /\ LastIsTrue' /\ pos' = pos
             /\ Told' /\ ~Told => \/ OnPositionUpdate(t) /\ Head(feed).entry = pos
                                  \/ OnPositionClosed(t) /\ pos = 0
  <2>1. feed # <<>> /\ feed' = Tail(feed) /\ pos' = pos
    BY <1>6 DEF Event, OnFill, OnPositionUpdate, OnPositionClosed, Receives
  <2>2. 1 \in 1..Len(feed) /\ Head(feed) = feed[1]
    BY <1>0, <2>1
  <2>3. OnPositionClosed(t) => Head(feed).entry = 0
    BY <2>2 DEF OnPositionClosed, Receives, LastIsTrue
  <2>4. OnFill(t) => ~News(Head(feed))
    BY DEF OnFill, Receives, News
  <2>. QED
    BY <1>2, <1>6, <2>1, <2>3, <2>4 DEF Event
<1>7. CASE WsDrop
  <2>1. feed' = feed /\ pos' = pos
    BY <1>0, <1>7 DEF WsDrop
  <2>. QED
    BY <1>1, <2>1
<1>. QED
  BY <1>0, <1>1, <1>4, <1>5, <1>6, <1>7 DEF Next, Proceeds, Fails, Environment, tpslVars,
    AnswerPositions, UpdateFromRest, Rebuild, CancelTpsl, CancelOne, CancelAll, Cancelled,
    Place, Placed, ReadFails, CancelFails, PlaceFails, PeriodicCheck, Startup, WsConnect

\* Every step of the one handler, and of the exchange, keeps it right.
LEMMA RightStep == IInv /\ Right /\ [Next]_tpslVars => Right'
<1>. SUFFICES ASSUME IInv, Right, [Next]_tpslVars, Clean', NEW t \in Tasks
              PROVE  LastIsTrue' /\ RightAt(t)'
  BY TpslConstants DEF Right
<1>0. /\ TypeOK /\ TasksOK /\ LastIsTrue /\ RightAt(t) /\ ~Crash /\ Clean
      /\ ~ReadFails(t) /\ ~CancelFails(t)
      /\ PlaceFails(t) => stops' = stops /\ pos = 0
      /\ pc[t] = "place" => arg[t] # 0
  BY CleanBefore DEF IInv, TypeOK, Right, Carried
<1>n. /\ LastIsTrue'
      /\ Told' => pos' = pos
      /\ Told' /\ ~Told => \E u \in Tasks : \/ OnPositionUpdate(u) /\ Head(feed).entry = pos
                                            \/ OnPositionClosed(u) /\ pos = 0
  BY <1>0, NewsStep
<1>1. \A u \in Tasks : u = t
  BY TasksFinite, FS_Singleton DEF Clean, Serial
<1>. SUFFICES RightAt(t)'
  BY <1>n
<1>2. CASE AnswerPositions(t)
  BY <1>0, <1>2 DEF AnswerPositions, Goto, TasksOK, RightAt, Told, News, StopIs
<1>3. CASE UpdateFromRest(t)
  BY <1>0, <1>3 DEF UpdateFromRest, Goto, TasksOK, RightAt, Told, News, StopIs
<1>4. CASE Rebuild(t) \/ CancelTpsl(t)
  BY <1>0, <1>4 DEF Rebuild, CancelTpsl, Finish, CancelExisting, Goto, TasksOK, RightAt, Told,
    News, StopIs
<1>5. CASE CancelOne(t) \/ CancelAll(t)
  BY <1>0, <1>5 DEF CancelOne, CancelAll, Goto, TasksOK, RightAt, Told, News
<1>6. CASE Cancelled(t) \/ PlaceFails(t)
  BY <1>0, <1>6 DEF Cancelled, PlaceFails, Finish, Goto, TasksOK, RightAt, Told, News, StopIs
<1>7. CASE Place(t)
  BY <1>0, <1>7 DEF Place, Adds, Goto, TasksOK, RightAt, Told, News, StopIs
<1>8. CASE Placed(t)
  BY <1>0, <1>8 DEF Placed, Finish, Goto, TasksOK, RightAt, Told, News, StopIs
<1>9. CASE PeriodicCheck(t) \/ Startup(t)
  BY <1>0, <1>9 DEF PeriodicCheck, Startup, Begin, Idle, TasksOK, RightAt, Told, News, StopIs
<1>10. CASE Event(t)
  <2>1. pc[t] = "idle" /\ UNCHANGED <<pos, stops, row>>
    BY <1>10 DEF Event, OnFill, OnPositionUpdate, OnPositionClosed, Begin, Idle
  <2>2. CASE OnFill(t)
    BY <1>0, <1>n, <2>1, <2>2
    DEF OnFill, OnPositionUpdate, OnPositionClosed, Receives, Begin, TasksOK, RightAt, StopIs
  <2>3. OnPositionUpdate(t) \/ OnPositionClosed(t) => ~Told
    <3>1. FeedOK
      BY <1>0 DEF TypeOK
    <3>. QED
      BY <3>1, HeadOfFeed DEF OnPositionUpdate, OnPositionClosed, Receives, Told, News
  <2>4. CASE OnPositionUpdate(t)
    <3>1. Told' => Head(feed).entry = pos
      BY <1>n, <2>3, <2>4 DEF OnPositionUpdate, OnPositionClosed, Receives
    <3>2. pc'[t] = "price" /\ kind'[t] = "update" /\ local' = Head(feed).entry
      BY <1>0, <2>4 DEF OnPositionUpdate, Begin, TasksOK
    <3>. QED
      BY <2>1, <3>1, <3>2 DEF RightAt
  <2>5. CASE OnPositionClosed(t)
    <3>1. Told' => pos = 0
      BY <1>n, <2>3, <2>5 DEF OnPositionUpdate, OnPositionClosed, Receives
    <3>2. pc'[t] = "sweep"
      BY <1>0, <2>5 DEF OnPositionClosed, Begin, TasksOK
    <3>. QED
      BY <2>1, <3>1, <3>2 DEF RightAt
  <2>. QED
    BY <1>10, <2>2, <2>4, <2>5 DEF Event
<1>11. CASE Environment \/ UNCHANGED tpslVars
  <2>1. UNCHANGED <<pc, kind, arg, ans, row, local>> /\ stops' \subseteq stops
    BY <1>0, <1>11 DEF Environment, PositionChanges, PositionCloses, StopTriggers, Closes,
      WsConnect, WsDrop, taskVars, tpslVars
  <2>2. Told' => Told
    <3>1. \A u \in Tasks, k \in Kinds : \A await \in {"price", "sweep"} : ~Begin(u, k, await)
      BY <1>0, <2>1 DEF Begin, Idle, TasksOK
    <3>. QED
      BY <1>n, <3>1 DEF OnPositionUpdate, OnPositionClosed, Kinds
  <2>3. Told' => pos' = pos /\ stops' = stops
    <3>1. ~(pos' = pos /\ (PositionChanges \/ Closes))
      BY <1>0, TpslConstants DEF PositionChanges, Closes, TypeOK, StateOK, Versions
    <3>. QED
      BY <1>0, <1>n, <1>11, <3>1 DEF Environment, PositionCloses, StopTriggers,
        PositionChanges, WsConnect, WsDrop, tpslVars
  <2>. QED
    BY <1>0, <2>1, <2>2, <2>3 DEF RightAt, StopIs
<1>. QED
  BY <1>0, <1>1, <1>2, <1>3, <1>4, <1>5, <1>6, <1>7, <1>8, <1>9, <1>10, <1>11
  DEF Next, Proceeds, Fails

\* When all events are handled and no handler is running the exchange holds the
\* stop of the position and no other, whatever stale answers were used on the way.
THEOREM StopSettles == Spec => []SettlesOnPosition
<1>1. Init => Right
  BY DEF Init, Right, LastIsTrue, RightAt, StopIs
<1>2. IInv /\ Right => SettlesOnPosition
  <2>. SUFFICES ASSUME IInv, Right, Quiet, Clean PROVE StopIs(row)
    BY DEF SettlesOnPosition, Clean, StopIs
  <2>1. PICK t \in Tasks : RightAt(t)
    BY TpslConstants DEF Right
  <2>2. pc[t] = "idle" /\ Told
    BY DEF Quiet, Idle, Told
  <2>. QED
    BY <2>1, <2>2 DEF RightAt
<1>. QED
  BY Invariance, RightStep, <1>1, <1>2, PTL DEF Spec

-----------------------------------------------------------------------------
(* The bot keeps the promises of StopBook.                                 *)

\* A handler about to place a stop finds fewer than K of them.
LEMMA RoomForStop ==
  ASSUME IInv, NEW t \in Placing
  PROVE  Cardinality(stops) < Cardinality(Tasks) + Budget.cancel
<1>1. Cardinality(Placing) # 0 /\ Cardinality(Placing) \in Nat
  BY TasksFinite, FS_EmptySet
<1>2. Cardinality(stops) \in Nat
  BY FS_CardinalityType DEF IInv, Ledger
<1>3. faults.cancel \in Nat /\ Budget.cancel \in Nat /\ faults.cancel <= Budget.cancel
  BY TpslConstants DEF IInv, TypeOK, FaultsOK, FaultKinds
<1>. QED
  BY <1>1, <1>2, <1>3, TasksFinite DEF IInv, Ledger

\* A placement is a Place of StopBook.
LEMMA PlaceMaps ==
  ASSUME IInv, NEW t \in Tasks, pc[t] = "place", NEW i \in FreshIds, Adds(t, i),
         UNCHANGED <<pos, versions>>
  PROVE  Book!Place
<1>1. t \in Placing
  BY DEF Placing
<1>2. arg[t] \in 1..versions
  BY TpslConstants DEF IInv, Carried, TypeOK, TasksOK, StateOK, Versions
<1>3. i \in StopIds \ {s.id : s \in stops}
  BY DEF FreshIds
<1>4. stops' = stops \union {[id |-> i, entry |-> arg[t]]}
  BY DEF Adds
<1>5. Cardinality(stops) < Cardinality(Tasks) + Budget.cancel
  BY <1>1, RoomForStop
<1>6. Book!Cardinality(stops) = Cardinality(stops)
  BY DEF Book!Cardinality, Cardinality
<1>. QED
  BY <1>2, <1>3, <1>4, <1>5, <1>6 DEF Book!Place

\* Every step of the manager and the exchange is a step of StopBook or a stutter.
THEOREM StepMaps == IInv /\ [Next]_tpslVars => [Book!Next]_<<pos, versions, stops>>
<1>. SUFFICES ASSUME IInv, [Next]_tpslVars
              PROVE  Book!Next \/ UNCHANGED <<pos, versions, stops>>
  OBVIOUS
<1>1. ASSUME NEW t \in Tasks, CancelOne(t)
      PROVE  Book!Next
  <2>1. ans[t] \in StopIds
    BY <1>1 DEF CancelOne, IInv, Carried
  <2>. QED
    BY <1>1, <2>1 DEF CancelOne, Book!Next, Book!Cancel
<1>2. ASSUME NEW t \in Tasks, CancelAll(t)
      PROVE  Book!Next
  BY <1>2 DEF CancelAll, Book!Next, Book!Cancel
<1>3. ASSUME NEW t \in Tasks, Place(t)
      PROVE  Book!Next
  <2>1. PICK i \in FreshIds : Adds(t, i)
    BY <1>3 DEF Place
  <2>. QED
    BY <1>3, <2>1, PlaceMaps DEF Place, Book!Next
<1>4. ASSUME NEW t \in Tasks, PlaceFails(t)
      PROVE  Book!Next \/ UNCHANGED <<pos, versions, stops>>
  <2>1. stops' = stops \/ \E i \in FreshIds : Adds(t, i)
    BY <1>4 DEF PlaceFails
  <2>. QED
    BY <1>4, <2>1, PlaceMaps DEF PlaceFails, Book!Next
<1>5. ASSUME NEW t \in Tasks,
             \/ AnswerPositions(t) \/ UpdateFromRest(t) \/ Rebuild(t) \/ CancelTpsl(t)
             \/ Cancelled(t) \/ Placed(t) \/ ReadFails(t) \/ CancelFails(t)
             \/ Event(t) \/ PeriodicCheck(t) \/ Startup(t)
      PROVE  UNCHANGED <<pos, versions, stops>>
  BY <1>5 DEF AnswerPositions, UpdateFromRest, Rebuild, CancelTpsl, Cancelled, Placed, ReadFails,
              CancelFails, Event, OnFill, OnPositionUpdate, OnPositionClosed, PeriodicCheck, Startup
<1>6. CASE PositionChanges
  BY <1>6 DEF PositionChanges, Book!Next, Book!Change
<1>7. CASE PositionCloses
  BY <1>7 DEF PositionCloses, Closes, Book!Next, Book!Close
<1>8. ASSUME NEW s \in stops, StopTriggers(s)
      PROVE  Book!Next
  BY <1>8 DEF StopTriggers, Closes, Book!Next, Book!Close
<1>9. CASE WsConnect \/ WsDrop \/ Crash \/ UNCHANGED tpslVars
  BY <1>9 DEF WsConnect, WsDrop, Crash, tpslVars
<1>. QED
  BY <1>1, <1>2, <1>3, <1>4, <1>5, <1>6, <1>7, <1>8, <1>9 DEF Next, Proceeds, Fails, Environment

\* Seen from the exchange the handlers implement StopBook: every request they
\* send, in any order of their awaits, is one the abstract book allows.
THEOREM KeepsBook == Spec => BookSpec
<1>1. Init => Book!Init
  BY DEF Init, Book!Init
<1>. QED
  BY <1>1, StepMaps, Invariance, PTL DEF Spec, BookSpec, Book!Spec

=============================================================================
