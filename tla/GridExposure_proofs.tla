-------------------------- MODULE GridExposure_proofs --------------------------
(***************************************************************************)
(* Proofs about GridExposure, for any grid, cap and disturbances: type     *)
(* correctness, that replenishing keeps the shape of the grid, and that    *)
(* the position is bounded; and about GridPrices, for any reference,       *)
(* spacing and tick: that rounding keeps the levels placed apart.          *)
(***************************************************************************)
EXTENDS GridPrices, TLAPS, FiniteSetTheorems, SequenceTheorems, WellFoundedInduction

\* The size of a position is a natural number.
LEMMA AbsTyped == \A n \in Int : Abs(n) \in Nat
BY DEF Abs

\* What the exchange tells the bot is a notice.
LEMMA NoticesTyped ==
  /\ \A i \in Orders : [type |-> "filled", of |-> i] \in Notices
  /\ \A n \in Nat : [type |-> "update", of |-> n] \in Notices
  /\ [type |-> "closed", of |-> 0] \in Notices
BY DEF Notices

\* The empty book of a process that starts is well typed.
THEOREM InitTyped == Init => TypeOK
<1> SUFFICES ASSUME Init PROVE TypeOK
  OBVIOUS
<1> USE DEF Init
<1>1. StateOK
  BY ExposureConstants DEF StateOK, Statuses, Awaits, Plans
<1>2. FeedOK /\ CountOK
  BY DEF FeedOK, CountOK
<1>3. FlagsOK
  BY Zenon DEF FlagsOK
<1> QED BY <1>1, <1>2, <1>3 DEF TypeOK

-----------------------------------------------------------------------------
\* Flags are set to values of conditions, of other flags and of one formula.
LEMMA FlagsStep == FlagsOK /\ [Next]_exposureVars => FlagsOK'
<1> SUFFICES ASSUME FlagsOK, [Next]_exposureVars PROVE FlagsOK'
  OBVIOUS
<1>1. cooling' \in BOOLEAN
  BY Zenon DEF FlagsOK, exposureVars, mainPart, Next, Handler, Closing, Main,
    OnFilled, AnswerPositions, UpdateFromRest, RebuildFirst, Replenish, DoesNotReplenish,
    HandlerFails, OnUpdate, OnClosed, Sweep, SweepAnswered, EnterCooldown, CooldownEnds,
    Start, PlaceGrid, StartWithoutGrid, Crash, Rests, Refused, Fills, StopTriggers
<1>2. cut' \in BOOLEAN
  BY Zenon DEF FlagsOK, exposureVars, mainPart, Next, Handler, Closing, Main,
    OnFilled, AnswerPositions, UpdateFromRest, RebuildFirst, Replenish, DoesNotReplenish,
    HandlerFails, OnUpdate, OnClosed, Sweep, SweepAnswered, EnterCooldown, CooldownEnds,
    Start, PlaceGrid, StartWithoutGrid, Crash, Rests, Refused, Fills, StopTriggers
<1>3. needsGrid' \in BOOLEAN
  <2>1. CASE Start
    <3>1. (Cardinality(active') < Levels) \in BOOLEAN
      OBVIOUS
    <3>2. (\E s \in Sides : Cardinality(ActiveOn(s)') < Levels) \in BOOLEAN
      BY Zenon
    <3> QED BY <2>1, <3>1, <3>2, Zenon DEF Start
  <2>2. UNCHANGED needsGrid \/ PlaceGrid \/ Crash => needsGrid' \in BOOLEAN
    BY Zenon DEF FlagsOK, PlaceGrid, Crash
  <2>3. Start \/ UNCHANGED needsGrid \/ PlaceGrid \/ Crash
    BY DEF exposureVars, mainPart, Next, Handler, Closing, Main,
      OnFilled, AnswerPositions, UpdateFromRest, RebuildFirst, Replenish,
      DoesNotReplenish, HandlerFails, OnUpdate, OnClosed, Sweep, SweepAnswered,
      EnterCooldown, CooldownEnds, StartWithoutGrid, Rests, Refused, Fills, StopTriggers
  <2> QED BY <2>1, <2>2, <2>3
<1> QED BY <1>1, <1>2, <1>3 DEF FlagsOK

\* Each disturbance is counted; nothing else counts.
LEMMA CountStep == CountOK /\ [Next]_exposureVars => CountOK'
<1> SUFFICES ASSUME CountOK, [Next]_exposureVars PROVE CountOK'
  OBVIOUS
<1>1. UNCHANGED count \/ \E k \in Kinds : Happens(k)
  BY DEF exposureVars, mainPart, Next, Handler, Closing, Main, Kinds,
   OnFilled, AnswerPositions, UpdateFromRest, RebuildFirst, Replenish, DoesNotReplenish,
   HandlerFails, OnUpdate, OnClosed, Sweep, SweepAnswered, EnterCooldown, CooldownEnds,
   Start, PlaceGrid, StartWithoutGrid, Crash, Rests, Refused, Fills, StopTriggers
<1> QED BY <1>1 DEF CountOK, Happens

\* Notices enter at the end, for an order or with the size of a position, and
\* leave at the head.
LEMMA FeedStep == TypeOK /\ [Next]_exposureVars => FeedOK'
<1> SUFFICES ASSUME TypeOK, [Next]_exposureVars PROVE FeedOK'
  OBVIOUS
<1> USE DEF FeedOK
<1>1. net \in Int /\ feed \in Seq(Notices)
  BY DEF TypeOK, StateOK
<1>2. ASSUME feed # <<>>, feed' = Tail(feed) PROVE FeedOK'
  BY <1>1, <1>2
<1>3. ASSUME NEW notices \in Seq(Notices), Emit(notices) PROVE FeedOK'
  BY <1>1, <1>3 DEF Emit
<1>4. ASSUME NEW i \in Orders, Fills(i) PROVE FeedOK'
  <2>1. net' \in Int
    BY <1>1, <1>4 DEF Fills
  <2> DEFINE filled == [type |-> "filled", of |-> i]
             update == [type |-> "update", of |-> Abs(net')]
             closed == [type |-> "closed", of |-> 0]
  <2>2. filled \in Notices /\ update \in Notices /\ closed \in Notices
    BY <2>1, AbsTyped, NoticesTyped
  <2> HIDE DEF filled, update, closed
  <2>3. PICK e \in {update, closed} : Emit(<<filled, e>>) \/ Emit(<<e, filled>>)
    BY <1>4 DEF Fills, filled, update, closed
  <2>4. <<filled, e>> \in Seq(Notices) /\ <<e, filled>> \in Seq(Notices)
    BY <2>2, <2>3
  <2> QED BY <1>3, <2>3, <2>4
<1>5. CASE StopTriggers
  <2>1. <<[type |-> "closed", of |-> 0]>> \in Seq(Notices)
    BY NoticesTyped
  <2> QED BY <1>3, <1>5, <2>1 DEF StopTriggers
<1>6. CASE Crash
  BY <1>6 DEF Crash
<1>7. CASE OnUpdate \/ OnClosed \/ \E i \in Orders : OnFilled(i)
  BY <1>2, <1>7 DEF OnUpdate, OnClosed, OnFilled
<1>8. CASE UNCHANGED feed
  BY <1>1, <1>8
<1>9. \/ UNCHANGED feed \/ StopTriggers \/ Crash \/ OnUpdate \/ OnClosed
      \/ \E i \in Orders : OnFilled(i) \/ Fills(i)
  BY DEF exposureVars, mainPart, Next, Handler, Closing, Main,
   AnswerPositions, UpdateFromRest, RebuildFirst, Replenish, DoesNotReplenish,
   HandlerFails, Sweep, SweepAnswered, EnterCooldown, CooldownEnds,
   Start, PlaceGrid, StartWithoutGrid, Rests, Refused
<1> QED BY <1>4, <1>5, <1>6, <1>7, <1>8, <1>9

-----------------------------------------------------------------------------
\* Plans, rows and positions.
LEMMA SendTyped ==
  ASSUME StateOK, NEW S \in SUBSET Orders, NEW p \in [S -> Plans], Send(S, p)
  PROVE  /\ order' \in [Orders -> Statuses] /\ plan' \in [Orders -> Plans]
         /\ active' \subseteq known' /\ known' \subseteq Orders
BY DEF StateOK, Send, Statuses

\* The level a replenishment asks for, counted from the active orders, is a number.
LEMMA LevelTyped ==
  ASSUME StateOK, NEW i \in Orders PROVE NextLevel(i) \in Nat
<1>1. Counted(i) \subseteq Orders
  BY DEF Counted, ActiveOn, StateOK
<1>2. Cardinality(Counted(i)) \in Nat
  BY <1>1, ExposureConstants, FS_Subset, FS_CardinalityType
<1> QED BY <1>2 DEF NextLevel

\* The handlers of a filled order.
LEMMA HandlerStep ==
  ASSUME TypeOK, NEW i \in Orders, Handler(i) PROVE StateOK'
<1> USE DEF TypeOK, StateOK, Goto, mainPart, orderPart, Awaits
<1>1. CASE OnFilled(i)
  BY <1>1 DEF OnFilled
<1>2. CASE AnswerPositions(i)
  BY <1>2, AbsTyped DEF AnswerPositions
<1>3. CASE UpdateFromRest(i)
  BY <1>3 DEF UpdateFromRest
<1>4. CASE RebuildFirst(i)
  BY <1>4 DEF RebuildFirst
<1>5. CASE Replenish(i)
  <2>1. PICK S \in SUBSET Orders :
          Send(S, [j \in S |-> [side |-> plan[i].side, level |-> NextLevel(i)]])
    BY <1>5 DEF Replenish
  <2>2. [j \in S |-> [side |-> plan[i].side, level |-> NextLevel(i)]] \in [S -> Plans]
    BY LevelTyped DEF Plans
  <2>3. /\ order' \in [Orders -> Statuses] /\ plan' \in [Orders -> Plans]
        /\ active' \subseteq known' /\ known' \subseteq Orders
    BY <2>1, <2>2, SendTyped
  <2> QED BY <1>5, <2>3 DEF Replenish
<1>6. CASE DoesNotReplenish(i)
  BY <1>6 DEF DoesNotReplenish
<1>7. CASE HandlerFails(i)
  BY <1>7 DEF HandlerFails
<1> QED BY <1>1, <1>2, <1>3, <1>4, <1>5, <1>6, <1>7 DEF Handler

\* The handlers of position events and the cooldown.
LEMMA PositionStep ==
  ASSUME TypeOK, OnUpdate \/ OnClosed \/ Closing \/ CooldownEnds PROVE StateOK'
<1> USE DEF TypeOK, StateOK, mainPart, orderPart, Moves
<1>1. CASE OnUpdate
  <2>1. Head(feed) \in Notices
    BY <1>1 DEF OnUpdate, FeedOK
  <2>2. Head(feed).of \in Nat
    BY <2>1, ExposureConstants DEF Notices
  <2> QED BY <1>1, <2>2 DEF OnUpdate
<1>2. CASE OnClosed
  BY <1>2 DEF OnClosed
<1>3. CASE Sweep
  BY <1>3 DEF Sweep, Statuses
<1>4. CASE SweepAnswered
  BY <1>4 DEF SweepAnswered
<1>5. CASE EnterCooldown
  BY <1>5 DEF EnterCooldown
<1>6. CASE CooldownEnds
  BY <1>6 DEF CooldownEnds
<1> QED BY <1>1, <1>2, <1>3, <1>4, <1>5, <1>6 DEF Closing

\* The process and the exchange.
LEMMA ProcessStep ==
  ASSUME TypeOK, Main \/ Crash PROVE StateOK'
<1> USE DEF TypeOK, StateOK, mainPart, orderPart
<1>1. CASE Start
  BY <1>1, AbsTyped DEF Start
<1>2. CASE PlaceGrid
  <2>1. PICK S \in SUBSET Orders :
          \E p \in [S -> [side : MissingSides, level : 1..Levels]] : Send(S, p)
    BY <1>2 DEF PlaceGrid
  <2> PICK p \in [S -> [side : MissingSides, level : 1..Levels]] : Send(S, p)
    BY <2>1
  <2>2. p \in [S -> Plans]
    BY ExposureConstants DEF Plans, MissingSides
  <2>3. /\ order' \in [Orders -> Statuses] /\ plan' \in [Orders -> Plans]
        /\ active' \subseteq known' /\ known' \subseteq Orders
    BY <2>2, SendTyped
  <2> QED BY <1>2, <2>3 DEF PlaceGrid
<1>3. CASE StartWithoutGrid
  BY <1>3 DEF StartWithoutGrid
<1>4. CASE Crash
  BY <1>4 DEF Crash, Awaits
<1> QED BY <1>1, <1>2, <1>3, <1>4 DEF Main

\* What the exchange does to an order or a position keeps the types.
LEMMA ExchangeStep ==
  ASSUME TypeOK, StopTriggers \/ \E i \in Orders : Rests(i) \/ Refused(i) \/ Fills(i)
  PROVE  StateOK'
<1> USE DEF TypeOK, StateOK, mainPart, orderPart, Statuses
<1>1. CASE StopTriggers
  BY <1>1 DEF StopTriggers
<1>2. ASSUME NEW i \in Orders, Rests(i) PROVE StateOK'
  BY <1>2 DEF Rests
<1>3. ASSUME NEW i \in Orders, Refused(i) PROVE StateOK'
  BY <1>3 DEF Refused
<1>4. ASSUME NEW i \in Orders, Fills(i) PROVE StateOK'
  BY <1>4 DEF Fills
<1> QED BY <1>1, <1>2, <1>3, <1>4

\* Every await of every handler, and every fault, keeps the types.
THEOREM TypeStep == TypeOK /\ [Next]_exposureVars => TypeOK'
<1> SUFFICES ASSUME TypeOK, [Next]_exposureVars PROVE TypeOK'
  OBVIOUS
<1>1. CASE UNCHANGED exposureVars
  BY <1>1 DEF TypeOK, StateOK, FeedOK, FlagsOK, CountOK, exposureVars
<1>2. CASE Next
  <2>1. StateOK'
    BY <1>2, HandlerStep, PositionStep, ProcessStep, ExchangeStep DEF Next
  <2> QED BY <2>1, FeedStep, FlagsStep, CountStep DEF TypeOK
<1> QED BY <1>1, <1>2

\* In every state of every behaviour orders, rows, position, handlers and the
\* feed are what GridExposure says they are; rows are of orders the bot made.
THEOREM TypeCorrect == Spec => []TypeOK
BY InitTyped, TypeStep, PTL DEF Spec

-----------------------------------------------------------------------------
(* Every fill is told once and handled once.                               *)

\* The k-th notice of the feed is of the fill of order i.
FillAt(k, i) == k \in 1..Len(feed) /\ feed[k].type = "filled" /\ feed[k].of = i
Told(i)      == \E k \in Nat : FillAt(k, i)

Once ==
  \A i \in Orders :
    /\ task[i] # "idle" => order[i] = "filled"
    /\ Told(i) => order[i] = "filled" /\ task[i] = "idle"
    /\ \A k, l \in Nat : FillAt(k, i) /\ FillAt(l, i) => l = k

\* Disturbances are counted and never forgotten.
LEMMA CountsGrow ==
  ASSUME TypeOK, [Next]_exposureVars
  PROVE  /\ \A k \in Kinds : count[k] \in Nat /\ count'[k] >= count[k]
         /\ \A k \in Kinds : Happens(k) => count'[k] = count[k] + 1
<1>0. DOMAIN count = Kinds /\ \A k \in Kinds : count[k] \in Nat
  BY DEF TypeOK, CountOK
<1>1. UNCHANGED count \/ \E k \in Kinds : Happens(k)
  BY DEF exposureVars, mainPart, Next, Handler, Closing, Main, Kinds,
   OnFilled, AnswerPositions, UpdateFromRest, RebuildFirst, Replenish, DoesNotReplenish,
   HandlerFails, OnUpdate, OnClosed, Sweep, SweepAnswered, EnterCooldown, CooldownEnds,
   Start, PlaceGrid, StartWithoutGrid, Crash, Rests, Refused, Fills, StopTriggers
<1>. QED
  BY <1>0, <1>1 DEF Happens

\* What has not happened yet had not happened before.
LEMMA WithoutBefore ==
  ASSUME TypeOK, [Next]_exposureVars, NEW K \in SUBSET Kinds, Without(K)'
  PROVE  Without(K) /\ \A k \in K : ~Happens(k)
BY CountsGrow DEF Without

\* Handling the first notice moves the others up.
LEMMA TailFills ==
  ASSUME FeedOK, feed # <<>>, feed' = Tail(feed)
  PROVE  /\ \A k \in Nat : \A i : FillAt(k, i)' => k + 1 \in Nat /\ FillAt(k + 1, i)
         /\ \A k \in 1..Len(feed') : k + 1 \in 1..Len(feed) /\ feed'[k] = feed[k + 1]
<1>1. \A k \in 1..Len(feed') : k + 1 \in 1..Len(feed) /\ feed'[k] = feed[k + 1]
  BY DEF FeedOK
<1>. QED
  BY <1>1 DEF FillAt

\* New notices come behind the others.
LEMMA NewNotices ==
  ASSUME FeedOK, NEW n \in Seq(Notices), feed' = feed \o n
  PROVE  \A k \in 1..Len(feed') :
           \/ k \in 1..Len(feed) /\ feed'[k] = feed[k]
           \/ \E j \in 1..Len(n) : k = Len(feed) + j /\ feed'[k] = n[j]
<1>1. Len(feed) \in Nat /\ Len(n) \in Nat /\ Len(feed') = Len(feed) + Len(n)
  BY DEF FeedOK
<1>2. ASSUME NEW k \in 1..Len(feed'), k \notin 1..Len(feed)
      PROVE  k - Len(feed) \in 1..Len(n) /\ k = Len(feed) + (k - Len(feed))
             /\ feed'[k] = n[k - Len(feed)]
  BY <1>1, <1>2 DEF FeedOK
<1>3. \A k \in 1..Len(feed) : feed'[k] = feed[k]
  BY <1>1 DEF FeedOK
<1>. QED
  BY <1>2, <1>3

\* A fill comes with two notices, of the order and of the position.
LEMMA FillTold ==
  ASSUME TypeOK, NEW i \in Orders, Fills(i), phase # "down"
  PROVE  /\ \A k \in Nat : \A j : FillAt(k, j)' => FillAt(k, j) \/ j = i
         /\ \A k, l \in Nat : FillAt(k, i)' /\ FillAt(l, i)' =>
              FillAt(k, i) \/ FillAt(l, i) \/ k = l
         /\ \A k \in 1..Len(feed') :
              \/ k \in 1..Len(feed) /\ feed'[k] = feed[k]
              \/ feed'[k].type = "filled"
              \/ feed'[k].type = "update" /\ feed'[k].of = Abs(net')
              \/ feed'[k].type = "closed" /\ net' = 0
<1>. DEFINE filled == [type |-> "filled", of |-> i]
            update == [type |-> "update", of |-> Abs(net')]
            closed == [type |-> "closed", of |-> 0]
<1>1. net' \in Int /\ FeedOK
  BY DEF TypeOK, StateOK, Fills
<1>2. PICK e : /\ e = update \/ (e = closed /\ net' = 0)
               /\ feed' = feed \o <<filled, e>> \/ feed' = feed \o <<e, filled>>
  BY DEF Fills, Emit
<1>3. filled \in Notices /\ e \in Notices
  BY <1>1, <1>2, AbsTyped, NoticesTyped
<1>4. /\ filled.type = "filled" /\ filled.of = i
      /\ \/ e.type = "update" /\ e.of = Abs(net')
         \/ e.type = "closed" /\ net' = 0
  BY <1>2
<1>. HIDE DEF filled, update, closed
<1>5. ASSUME NEW a \in Notices, NEW b \in Notices, feed' = feed \o <<a, b>>, {a, b} = {filled, e},
             NEW m \in {1, 2}, <<a, b>>[m] = filled, \A j \in {1, 2} : j # m => <<a, b>>[j] = e
      PROVE  \A k \in 1..Len(feed') :
               \/ k \in 1..Len(feed) /\ feed'[k] = feed[k]
               \/ k = Len(feed) + m /\ feed'[k] = filled
               \/ feed'[k] = e
  <2>1. <<a, b>> \in Seq(Notices) /\ Len(<<a, b>>) = 2
    OBVIOUS
  <2>2. \A j \in 1..2 : j = m \/ <<a, b>>[j] = e
    BY <1>5
  <2>. QED
    BY <1>1, <1>5, <2>1, <2>2, NewNotices
<1>6. PICK n \in Nat : \A k \in 1..Len(feed') :
               \/ k \in 1..Len(feed) /\ feed'[k] = feed[k]
               \/ k = n /\ feed'[k] = filled
               \/ feed'[k] = e
  <2>1. Len(feed) + 1 \in Nat /\ Len(feed) + 2 \in Nat
    BY <1>1 DEF FeedOK
  <2>2. CASE feed' = feed \o <<filled, e>>
    <3>1. <<filled, e>>[1] = filled /\ \A j \in {1, 2} : j # 1 => <<filled, e>>[j] = e
      OBVIOUS
    <3>. QED
      BY <1>3, <1>5, <2>1, <2>2, <3>1
  <2>3. CASE feed' = feed \o <<e, filled>>
    <3>1. <<e, filled>>[2] = filled /\ \A j \in {1, 2} : j # 2 => <<e, filled>>[j] = e
      OBVIOUS
    <3>. QED
      BY <1>3, <1>5, <2>1, <2>3, <3>1
  <2>. QED
    BY <1>2, <2>2, <2>3
<1>. QED
  BY <1>4, <1>6 DEF FillAt

\* The stop of a position is no news of an order.
LEMMA StopTold ==
  ASSUME TypeOK, StopTriggers
  PROVE  \A k \in 1..Len(feed') : \/ k \in 1..Len(feed) /\ feed'[k] = feed[k]
                                  \/ feed'[k].type = "closed" /\ feed'[k].of = 0
<1>. DEFINE closed == [type |-> "closed", of |-> 0]
<1>1. closed \in Notices /\ closed.type = "closed" /\ closed.of = 0
  BY NoticesTyped
<1>2. feed' = feed \/ feed' = feed \o <<closed>>
  BY DEF StopTriggers, Emit
<1>. HIDE DEF closed
<1>3. <<closed>> \in Seq(Notices) /\ Len(<<closed>>) = 1 /\ \A j \in 1..1 : <<closed>>[j] = closed
  BY <1>1
<1>4. CASE feed' = feed \o <<closed>>
  BY <1>1, <1>3, <1>4, NewNotices DEF TypeOK
<1>. QED
  BY <1>2, <1>4

\* A fill enters the feed when it happens and leaves it when it is handled.
LEMMA OnceStep ==
  ASSUME TypeOK, Once, [Next]_exposureVars
  PROVE  /\ Once'
         /\ \A j \in Orders : Told(j)' => \/ Told(j) /\ ~OnFilled(j)
                                          \/ order[j] = "live" /\ Fills(j)
<1>. DEFINE Goal == /\ Once'
                    /\ \A j \in Orders : Told(j)' => \/ Told(j) /\ ~OnFilled(j)
                                                     \/ order[j] = "live" /\ Fills(j)
<1>0. StateOK /\ FeedOK
  BY DEF TypeOK
<1>1. ASSUME NEW i \in Orders, OnFilled(i) PROVE Goal
  <2>1. /\ feed # <<>> /\ feed' = Tail(feed) /\ order' = order /\ FillAt(1, i)
        /\ \A j \in Orders : task'[j] = task[j] \/ j = i
    BY <1>0, <1>1 DEF OnFilled, FillAt, FeedOK, orderPart, Goto, StateOK
  <2>2. order[i] = "filled" /\ \A k \in Nat : FillAt(k, i) => k = 1
    BY <2>1 DEF Once, Told
  <2>3. \A k \in Nat, j \in Orders : FillAt(k, j)' =>
          k + 1 \in Nat /\ k + 1 # 1 /\ FillAt(k + 1, j) /\ j # i
    <3>1. \A k \in Nat : \A j : FillAt(k, j)' => k + 1 # 1
      BY DEF FillAt
    <3>. QED
      BY <1>0, <2>1, <2>2, <3>1, TailFills
  <2>4. \A j \in Orders : Told(j)' => Told(j) /\ j # i
    BY <2>3 DEF Told
  <2>5. \A j \in Orders : \A k, l \in Nat : FillAt(k, j)' /\ FillAt(l, j)' => l = k
    <3>. SUFFICES ASSUME NEW j \in Orders, NEW k \in Nat, NEW l \in Nat, FillAt(k, j)', FillAt(l, j)'
                  PROVE  l = k
      OBVIOUS
    <3>1. l + 1 = k + 1
      BY <2>3 DEF Once
    <3>. QED
      BY <3>1
  <2>6. Once'
    BY <2>1, <2>2, <2>4, <2>5 DEF Once
  <2>7. \A j \in Orders : OnFilled(j) => j = i
    BY <1>1 DEF OnFilled
  <2>. QED
    BY <2>4, <2>6, <2>7
<1>2. ASSUME NEW i \in Orders, Fills(i) PROVE Goal
  <2>1. /\ order[i] = "live" /\ order' = [order EXCEPT ![i] = "filled"] /\ UNCHANGED task
        /\ ~Told(i) /\ task[i] = "idle"
        /\ phase = "down" => feed' = feed
    BY <1>0, <1>2 DEF Fills, Once, StateOK, Emit
  <2>2. \A k \in Nat : \A j : FillAt(k, j)' => FillAt(k, j) \/ j = i
    BY <1>2, <2>1, FillTold DEF FillAt
  <2>3. \A k, l \in Nat : FillAt(k, i)' /\ FillAt(l, i)' => k = l
    <3>1. CASE phase = "down"
      BY <2>1, <3>1 DEF FillAt, Told
    <3>2. CASE phase # "down"
      BY <1>2, <2>1, <3>2, FillTold DEF Told
    <3>. QED
      BY <3>1, <3>2
  <2>4. \A j \in Orders : Told(j)' => Told(j) \/ j = i
    BY <2>2 DEF Told
  <2>5. \A j \in Orders \ {i} : \A k, l \in Nat : FillAt(k, j)' /\ FillAt(l, j)' => l = k
    BY <2>2 DEF Once
  <2>6. Once'
    BY <1>0, <2>1, <2>3, <2>4, <2>5 DEF Once, StateOK
  <2>7. \A j \in Orders : ~OnFilled(j)
    <3>. SUFFICES ASSUME NEW j \in Orders, OnFilled(j) PROVE FALSE
      OBVIOUS
    <3>1. order' = order
      BY DEF OnFilled, orderPart
    <3>. QED
      BY <1>0, <2>1, <3>1 DEF StateOK
  <2>. QED
    BY <1>2, <2>1, <2>4, <2>6, <2>7
<1>3. ASSUME \A j \in Orders : /\ order[j] = "filled" => order'[j] = "filled"
                               /\ task'[j] # "idle" => task[j] # "idle"
                               /\ ~OnFilled(j),
             \/ \A k \in Nat : \A j : FillAt(k, j)' => FillAt(k, j)
             \/ \A k \in Nat : \A j : FillAt(k, j)' => k + 1 \in Nat /\ FillAt(k + 1, j)
      PROVE  Goal
  <2>1. \A j \in Orders : Told(j)' => Told(j)
    BY <1>3 DEF Told
  <2>2. \A j \in Orders : \A k, l \in Nat : FillAt(k, j)' /\ FillAt(l, j)' => l = k
    <3>. SUFFICES ASSUME NEW j \in Orders, NEW k \in Nat, NEW l \in Nat, FillAt(k, j)', FillAt(l, j)'
                  PROVE  l = k
      OBVIOUS
    <3>1. l = k \/ l + 1 = k + 1
      BY <1>3 DEF Once
    <3>. QED
      BY <3>1
  <2>. QED
    BY <1>3, <2>1, <2>2 DEF Once
<1>4. (UNCHANGED feed \/ feed' = <<>>) => \A k \in Nat : \A j : FillAt(k, j)' => FillAt(k, j)
  BY DEF FillAt
<1>5. CASE \A j \in Orders : ~OnFilled(j) /\ ~Fills(j)
  <2>1. \A j \in Orders : order[j] = "filled" => order'[j] = "filled"
    <3>1. ASSUME NEW S \in SUBSET Orders, NEW n, NEW p, Mint(n, S), Send(S, p)
          PROVE  \A j \in Orders : order[j] = "filled" => order'[j] = "filled"
      BY <1>0, <3>1 DEF Mint, Send, StateOK
    <3>2. ASSUME NEW i \in Orders, Handler(i)
          PROVE  \A j \in Orders : order[j] = "filled" => order'[j] = "filled"
      <4>1. CASE Replenish(i)
        BY <3>1, <4>1 DEF Replenish
      <4>2. CASE ~Replenish(i)
        BY <1>5, <3>2, <4>2 DEF Handler, orderPart, AnswerPositions, UpdateFromRest, RebuildFirst,
          DoesNotReplenish, HandlerFails
      <4>. QED
        BY <4>1, <4>2
    <3>3. ASSUME NEW i \in Orders, Rests(i) \/ Refused(i)
          PROVE  \A j \in Orders : order[j] = "filled" => order'[j] = "filled"
      BY <1>0, <3>3 DEF Rests, Refused, StateOK
    <3>4. CASE Main \/ Closing \/ Crash
      BY <1>0, <3>1, <3>4 DEF Main, Closing, Start, PlaceGrid, StartWithoutGrid, Crash, Sweep,
        SweepAnswered, EnterCooldown, orderPart, StateOK
    <3>5. CASE OnUpdate \/ OnClosed \/ CooldownEnds \/ StopTriggers
      BY <3>5 DEF OnUpdate, OnClosed, CooldownEnds, StopTriggers, orderPart
    <3>6. CASE UNCHANGED exposureVars
      BY <3>6 DEF exposureVars, orderPart
    <3>. QED
      BY <1>0, <1>5, <3>2, <3>3, <3>4, <3>5, <3>6 DEF Next
  <2>2. \A j \in Orders : task'[j] # "idle" => task[j] # "idle"
    BY <1>0, <1>5 DEF exposureVars, Next, Handler, Closing, Main, StateOK, Goto, Decides,
     AnswerPositions, UpdateFromRest, RebuildFirst, Replenish, DoesNotReplenish,
     HandlerFails, OnUpdate, OnClosed, Sweep, SweepAnswered, EnterCooldown, CooldownEnds,
     Start, PlaceGrid, StartWithoutGrid, Crash, Rests, Refused, StopTriggers
  <2>3. CASE OnUpdate \/ OnClosed
    <3>1. \A k \in Nat : \A j : FillAt(k, j)' => k + 1 \in Nat /\ FillAt(k + 1, j)
      BY <1>0, <2>3, TailFills DEF OnUpdate, OnClosed
    <3>. QED
      BY <1>3, <1>5, <2>1, <2>2, <3>1
  <2>4. CASE StopTriggers
    <3>1. \A k \in Nat : \A j : FillAt(k, j)' => FillAt(k, j)
      BY <2>4, StopTold DEF FillAt
    <3>. QED
      BY <1>3, <1>5, <2>1, <2>2, <3>1
  <2>5. UNCHANGED feed \/ feed' = <<>> \/ OnUpdate \/ OnClosed \/ StopTriggers
    BY <1>5 DEF exposureVars, Next, Handler, Closing, Main,
     AnswerPositions, UpdateFromRest, RebuildFirst, Replenish, DoesNotReplenish,
     HandlerFails, Sweep, SweepAnswered, EnterCooldown, CooldownEnds,
     Start, PlaceGrid, StartWithoutGrid, Crash, Rests, Refused
  <2>. QED
    BY <1>3, <1>4, <1>5, <2>1, <2>2, <2>3, <2>4, <2>5
<1>. QED
  BY <1>1, <1>2, <1>5

-----------------------------------------------------------------------------
(* The grid keeps its shape.                                               *)
(*                                                                         *)
(* An order counts for its side from its row to the end of its fill        *)
(* handler: until its fill is handled the row is active, from then on the  *)
(* handler is at work, and with its end the order replaced takes over.  So *)
(* the number of working orders of a side never changes but by faults, and *)
(* the active ones a handler counts are fewer than that, by itself.        *)

Work(s) == {i \in Orders : plan[i].side = s /\ (i \in active \/ task[i] # "idle")}

NoCrash == Without({"crash"})

\* An order the bot knows is active until its fill is handled.
OrdersFlow ==
  \A i \in Orders :
    /\ order[i] = "none" => i \notin known
    /\ order[i] \in {"sent", "live"} /\ i \in known => i \in active
    /\ Told(i) /\ i \in known => i \in active
    /\ task[i] # "idle" => i \notin active

\* Without a crash a process that starts is the first.
Fresh ==
  /\ phase \in {"down", "starting"} =>
       /\ known = {} /\ net = 0 /\ feed = <<>> /\ closing = {} /\ ~cooling
       /\ \A i \in Orders : order[i] = "none"
  /\ phase = "starting" => needsGrid

Flow == Once /\ OrdersFlow /\ Fresh

\* A position that only grows is never seen as flat by the handler of a fill.
OneWay ==
  ~Neutral /\ Without({"stop"}) =>
    /\ "SELL" \notin Sides => net >= 0
    /\ "BUY" \notin Sides => net <= 0
    /\ (\E i \in Orders : order[i] = "filled") => net # 0
    /\ \A k \in 1..Len(feed) : /\ feed[k].type # "closed"
                               /\ feed[k].type = "update" => feed[k].of # 0
    /\ \A i \in Orders : /\ task[i] = "answered" => answer[i] # 0
                         /\ task[i] \in {"price", "stop"} => local # 0

\* No side works on more than its levels, and on all of them if nothing interferes.
Clean   == ~cut /\ Without({"refusal", "error", "stop"})
Bounded == \A s \in Sides : Cardinality(Work(s)) <= Levels
InGrid  == \A i \in active : plan[i].level \in 1..Levels
Whole   == phase = "running" /\ Clean =>
             closing = {} /\ \A s \in Sides : Cardinality(Work(s)) = Levels

Ledger == NoCrash => Flow /\ OneWay /\ Bounded /\ InGrid /\ Whole

\* The grid has one side, or both in neutral mode.
LEMMA SidesAre ==
  \/ Neutral /\ Sides = {"BUY", "SELL"}
  \/ ~Neutral /\ \E s \in {"BUY", "SELL"} : Sides = {s}
<1>1. Sides = {"BUY", "SELL"} \/ \E s \in {"BUY", "SELL"} : Sides = {s}
  BY ExposureConstants
<1>2. Cardinality({"BUY", "SELL"}) = 2
  <2>1. IsFiniteSet({"BUY"}) /\ Cardinality({"BUY"}) = 1
    BY FS_Singleton
  <2>2. Cardinality({"BUY"} \union {"SELL"}) = 2
    BY <2>1, FS_AddElement
  <2>3. {"BUY"} \union {"SELL"} = {"BUY", "SELL"}
    OBVIOUS
  <2>. QED
    BY <2>2, <2>3
<1>3. \A s : Cardinality({s}) = 1
  BY FS_Singleton
<1>. QED
  BY <1>1, <1>2, <1>3 DEF Neutral

\* Every set of orders has a size.
LEMMA OrdersCounted ==
  ASSUME NEW S, S \subseteq Orders PROVE IsFiniteSet(S) /\ Cardinality(S) \in Nat
BY ExposureConstants, FS_Subset, FS_CardinalityType

\* A side works on orders, so their number is a number.
LEMMA WorkCounted ==
  \A s : Work(s) \subseteq Orders /\ IsFiniteSet(Work(s)) /\ Cardinality(Work(s)) \in Nat
<1>1. \A s : Work(s) \subseteq Orders
  BY DEF Work
<1>. QED
  BY <1>1, OrdersCounted

\* Fresh ids are of no order the bot knows, and no handler runs for them.
LEMMA MintedAreNew ==
  ASSUME TypeOK, Flow, NEW n, NEW S, Mint(n, S)
  PROVE  /\ S \subseteq Orders /\ Cardinality(S) = n
         /\ \A j \in S : /\ order[j] = "none" /\ j \notin known /\ j \notin active
                         /\ task[j] = "idle" /\ ~Told(j)
BY DEF Mint, Flow, OrdersFlow, Once, TypeOK, StateOK

\* Without a crash the process starts before there are orders.
LEMMA FreshStep ==
  ASSUME TypeOK, Flow, [Next]_exposureVars, ~Crash PROVE Fresh'
<1>0. \A i \in Orders : (i \notin active /\ task[i] = "idle") \/ phase = "running"
  BY DEF Flow, Once, Fresh, OrdersFlow, TypeOK, StateOK
<1>1. CASE phase = "running"
  <2>1. phase' = "running"
    BY <1>1 DEF exposureVars, mainPart, Next, Handler, Closing, Main,
     OnFilled, AnswerPositions, UpdateFromRest, RebuildFirst, Replenish, DoesNotReplenish,
     HandlerFails, OnUpdate, OnClosed, Sweep, SweepAnswered, EnterCooldown, CooldownEnds,
     Start, PlaceGrid, StartWithoutGrid, Rests, Refused, Fills, StopTriggers
  <2>. QED
    BY <2>1 DEF Fresh
<1>2. CASE phase \in {"down", "starting"}
  <2>1. /\ known = {} /\ active = {} /\ net = 0 /\ feed = <<>> /\ closing = {} /\ ~cooling
        /\ \A i \in Orders : order[i] = "none" /\ task[i] = "idle"
        /\ phase = "starting" => needsGrid
    BY <1>2 DEF Flow, Once, Fresh, OrdersFlow, TypeOK, StateOK
  <2>2. \/ Start \/ PlaceGrid \/ StartWithoutGrid \/ UNCHANGED exposureVars
    BY <2>1 DEF StopTriggers, Next, Handler, Closing, Main, Moves,
     OnFilled, AnswerPositions, UpdateFromRest, RebuildFirst, Replenish, DoesNotReplenish, Decides,
     HandlerFails, OnUpdate, OnClosed, Sweep, SweepAnswered, EnterCooldown, CooldownEnds,
     Rests, Refused, Fills
  <2>3. CASE Start
    <3>1. active' = {} /\ known' = {}
      BY <2>1, <2>3 DEF Start
    <3>2. needsGrid'
      <4>1. \A s : ActiveOn(s)' = {}
        BY <3>1 DEF ActiveOn
      <4>2. Cardinality({}) = 0 /\ 0 < Levels /\ Sides # {}
        BY ExposureConstants, FS_EmptySet
      <4>. QED
        BY <2>3, <3>1, <4>1, <4>2 DEF Start
    <3>. QED
      BY <2>1, <2>3, <3>1, <3>2 DEF Start, Fresh
  <2>4. CASE PlaceGrid \/ StartWithoutGrid
    BY <2>4 DEF PlaceGrid, StartWithoutGrid, Fresh
  <2>5. CASE UNCHANGED exposureVars
    BY <2>1, <2>5 DEF exposureVars, Fresh
  <2>. QED
    BY <2>2, <2>3, <2>4, <2>5
<1>. QED
  BY <1>1, <1>2 DEF TypeOK, StateOK

\* An order is active until its fill is handled, unless it is refused or swept away.
LEMMA FlowStep ==
  ASSUME TypeOK, Flow, [Next]_exposureVars, ~Crash PROVE Flow'
<1>0. StateOK /\ FeedOK /\ Once /\ OrdersFlow
  BY DEF TypeOK, Flow
<1>1. /\ Once'
      /\ \A j \in Orders : Told(j)' => \/ Told(j) /\ ~OnFilled(j)
                                       \/ order[j] = "live" /\ Fills(j)
  BY <1>0, OnceStep
<1>. SUFFICES OrdersFlow'
  BY <1>1, FreshStep DEF Flow
<1>2. ASSUME NEW i \in Orders, OnFilled(i) PROVE OrdersFlow'
  <2>1. /\ order' = order /\ known' = known /\ active' = active \ {i} /\ order[i] = "filled"
        /\ \A j \in Orders : task'[j] # "idle" => task[j] # "idle" \/ j = i
    <3>1. FillAt(1, i)
      BY <1>0, <1>2 DEF OnFilled, FillAt, FeedOK
    <3>. QED
      BY <1>0, <1>2, <3>1 DEF OnFilled, orderPart, Goto, StateOK, Once, Told
  <2>. QED
    BY <1>0, <1>1, <1>2, <2>1 DEF OrdersFlow, Fills
<1>3. ASSUME NEW i \in Orders, Fills(i) PROVE OrdersFlow'
  <2>1. /\ order[i] = "live" /\ order' = [order EXCEPT ![i] = "filled"]
        /\ UNCHANGED <<known, active, task>>
    BY <1>3 DEF Fills
  <2>2. \A j \in Orders : Fills(j) => j = i
    BY <1>0, <1>3 DEF Fills, StateOK
  <2>. QED
    BY <1>0, <1>1, <2>1, <2>2 DEF OrdersFlow, StateOK
<1>4. ASSUME \A j \in Orders : ~Fills(j) PROVE \A j \in Orders : Told(j)' => Told(j)
  BY <1>1, <1>4
<1>5. ASSUME NEW n, NEW S, Mint(n, S), NEW p, Send(S, p),
             \A j \in Orders : task'[j] \in {task[j], "idle"} /\ ~Fills(j)
      PROVE  OrdersFlow'
  <2>1. \A j \in S : order[j] = "none" /\ j \notin known /\ task[j] = "idle" /\ ~Told(j)
    BY <1>5, MintedAreNew
  <2>2. /\ order' = [j \in Orders |-> IF j \in S THEN "sent" ELSE order[j]]
        /\ known' = known \union S /\ active' = active \union S
    BY <1>5 DEF Send
  <2>. QED
    BY <1>0, <1>4, <1>5, <2>1, <2>2 DEF OrdersFlow, StateOK
<1>6. ASSUME NEW i \in Orders, Replenish(i) PROVE OrdersFlow'
  <2>1. PICK S, p : Mint(1, S) /\ Send(S, p)
    BY <1>6 DEF Replenish
  <2>2. \A j \in Orders : task'[j] \in {task[j], "idle"} /\ ~Fills(j)
    BY <1>0, <1>6 DEF Replenish, Goto, StateOK, Fills, Decides
  <2>. QED
    BY <1>5, <2>1, <2>2
<1>7. CASE PlaceGrid
  <2>1. PICK S, p : Mint(Levels * Cardinality(MissingSides), S) /\ Send(S, p)
    BY <1>7 DEF PlaceGrid
  <2>2. \A j \in Orders : task'[j] = task[j] /\ ~Fills(j)
    BY <1>7 DEF PlaceGrid, Fills, mainPart
  <2>. QED
    BY <1>5, <2>1, <2>2
<1>8. ASSUME UNCHANGED <<known, active>>,
             \A j \in Orders : /\ order'[j] # order[j] => order[j] # "none" /\ order'[j] # "none"
                                                          /\ (order'[j] = "live" => order[j] = "sent")
                               /\ order'[j] = "sent" => order[j] = "sent"
                               /\ task'[j] # "idle" => task[j] # "idle"
                               /\ ~Fills(j)
      PROVE  OrdersFlow'
  BY <1>0, <1>4, <1>8 DEF OrdersFlow
<1>9. ASSUME NEW i \in Orders,
             \/ AnswerPositions(i) \/ UpdateFromRest(i) \/ RebuildFirst(i)
             \/ DoesNotReplenish(i) \/ HandlerFails(i)
      PROVE OrdersFlow'
  BY <1>0, <1>8, <1>9 DEF AnswerPositions, UpdateFromRest, RebuildFirst, DoesNotReplenish, Decides,
    HandlerFails, Goto, StateOK, orderPart, Fills
<1>10. ASSUME NEW i \in Orders, Rests(i) PROVE OrdersFlow'
  BY <1>0, <1>8, <1>10 DEF Rests, StateOK, Fills
<1>11. ASSUME NEW i \in Orders, Refused(i) PROVE OrdersFlow'
  <2>1. /\ order' = [order EXCEPT ![i] = "gone"] /\ active' = active \ {i} /\ ~Told(i)
        /\ UNCHANGED <<known, task>> /\ order[i] = "sent"
    BY <1>0, <1>11 DEF Refused, Once
  <2>2. \A j \in Orders : ~Fills(j)
    BY <1>0, <2>1 DEF Fills, StateOK
  <2>. QED
    BY <1>0, <1>4, <2>1, <2>2 DEF OrdersFlow, StateOK
<1>12. CASE Sweep
  BY <1>0, <1>8, <1>12 DEF Sweep, StateOK, Fills
<1>13. CASE SweepAnswered
  <2>1. /\ known' = known \ active /\ active' = {} /\ UNCHANGED <<order, task>>
        /\ \A j \in Orders : ~Fills(j)
    BY <1>0, <1>13 DEF SweepAnswered, Fills, StateOK
  <2>. QED
    BY <1>0, <1>4, <2>1 DEF OrdersFlow
<1>14. CASE OnUpdate \/ OnClosed \/ StopTriggers
  BY <1>0, <1>8, <1>14 DEF OnUpdate, OnClosed, StopTriggers, orderPart, Fills, StateOK
<1>15. CASE Start
  <2>1. \A j \in Orders : order[j] = "none" /\ j \notin known
    BY <1>15 DEF Start, Flow, Fresh
  <2>2. active' = {} /\ known' = {} /\ UNCHANGED <<order, task>> /\ \A j \in Orders : task[j] = "idle"
    BY <1>0, <1>15, <2>1 DEF Start, StateOK, Once
  <2>. QED
    BY <2>1, <2>2 DEF OrdersFlow
<1>16. CASE StartWithoutGrid \/ EnterCooldown \/ CooldownEnds \/ UNCHANGED exposureVars
  <2>1. UNCHANGED <<order, known, active, task>>
    BY <1>16 DEF StartWithoutGrid, EnterCooldown, CooldownEnds, exposureVars, orderPart
  <2>2. \A j \in Orders : ~Fills(j)
    BY <1>0, <2>1 DEF Fills, StateOK
  <2>. QED
    BY <1>8, <2>1, <2>2
<1>. QED
  BY <1>2, <1>3, <1>6, <1>7, <1>9, <1>10, <1>11, <1>12, <1>13, <1>14, <1>15, <1>16
  DEF Next, Handler, Closing, Main

\* In a grid of one side, which no stop closes, every fill takes the position
\* further from zero, and so does every notice and every answer about it.
LEMMA OneWayStep ==
  ASSUME TypeOK, Flow, OneWay, [Next]_exposureVars, ~Crash PROVE OneWay'
<1>. SUFFICES ASSUME ~Neutral, Without({"stop"})'
              PROVE  /\ "SELL" \notin Sides => net' >= 0
                     /\ "BUY" \notin Sides => net' <= 0
                     /\ (\E i \in Orders : order'[i] = "filled") => net' # 0
                     /\ \A k \in 1..Len(feed') : /\ feed'[k].type # "closed"
                                                 /\ feed'[k].type = "update" => feed'[k].of # 0
                     /\ \A i \in Orders : /\ task'[i] = "answered" => answer'[i] # 0
                                          /\ task'[i] \in {"price", "stop"} => local' # 0
  BY DEF OneWay, Neutral
<1>. DEFINE Away(n) == /\ "SELL" \notin Sides => n >= 0
                       /\ "BUY" \notin Sides => n <= 0
            Noted   == \A k \in 1..Len(feed) : /\ feed[k].type # "closed"
                                               /\ feed[k].type = "update" => feed[k].of # 0
            Seen    == \A i \in Orders : /\ task[i] = "answered" => answer[i] # 0
                                         /\ task[i] \in {"price", "stop"} => local # 0
            Moved   == (\E i \in Orders : order[i] = "filled") => net # 0
<1>0. /\ StateOK /\ FeedOK /\ Once /\ OrdersFlow
      /\ Without({"stop"}) /\ ~StopTriggers
      /\ \A k : Abs(k) = 0 /\ k \in Int => k = 0
  BY WithoutBefore DEF TypeOK, Flow, StopTriggers, Kinds, Abs
<1>1. Away(net) /\ Noted /\ Seen /\ Moved
  BY <1>0 DEF OneWay
<1>2. ASSUME NEW i \in Orders, Fills(i) PROVE Away(net)' /\ Noted' /\ Seen' /\ Moved'
  <2>1. phase # "down" /\ net \in Int /\ net' \in Int
    BY <1>0, <1>2 DEF Fills, Flow, Fresh, StateOK
  <2>2. Away(net)' /\ net' # 0
    <3>1. plan[i].side \in Sides
      BY <1>0 DEF StateOK, Plans
    <3>2. Sides = {"BUY"} \/ Sides = {"SELL"}
      BY SidesAre
    <3>. QED
      BY <1>1, <1>2, <2>1, <3>1, <3>2 DEF Fills
  <2>3. Noted'
    <3>1. \A k \in 1..Len(feed') :
              \/ k \in 1..Len(feed) /\ feed'[k] = feed[k]
              \/ feed'[k].type = "filled"
              \/ feed'[k].type = "update" /\ feed'[k].of = Abs(net')
              \/ feed'[k].type = "closed" /\ net' = 0
      BY <1>2, <2>1, FillTold
    <3>. QED
      BY <1>0, <1>1, <2>1, <2>2, <3>1
  <2>4. Seen'
    BY <1>1, <1>2 DEF Fills
  <2>. QED
    BY <2>2, <2>3, <2>4
<1>3. ASSUME UNCHANGED net, \A i \in Orders : order'[i] = "filled" => order[i] = "filled"
      PROVE  Away(net)' /\ Moved'
  BY <1>1, <1>3
<1>4. ASSUME feed # <<>>, feed' = Tail(feed) PROVE Noted'
  BY <1>0, <1>1, <1>4, TailFills
<1>5. ASSUME UNCHANGED <<task, answer, local>> PROVE Seen'
  BY <1>1, <1>5
<1>6. ASSUME NEW i \in Orders, OnFilled(i) PROVE Away(net)' /\ Noted' /\ Seen' /\ Moved'
  BY <1>0, <1>1, <1>3, <1>4, <1>6 DEF OnFilled, Goto, orderPart, StateOK
<1>7. ASSUME NEW i \in Orders, AnswerPositions(i) PROVE Away(net)' /\ Noted' /\ Seen' /\ Moved'
  <2>1. net # 0 /\ net \in Int
    BY <1>0, <1>1, <1>7 DEF AnswerPositions, Once, StateOK
  <2>2. Seen'
    BY <1>0, <1>1, <1>7, <2>1 DEF AnswerPositions, Goto, StateOK
  <2>. QED
    BY <1>1, <1>3, <1>7, <2>2 DEF AnswerPositions, orderPart
<1>8. ASSUME NEW i \in Orders, UpdateFromRest(i) PROVE Away(net)' /\ Noted' /\ Seen' /\ Moved'
  BY <1>0, <1>1, <1>3, <1>8 DEF UpdateFromRest, Goto, StateOK, orderPart
<1>9. ASSUME NEW i \in Orders,
             RebuildFirst(i) \/ DoesNotReplenish(i) \/ HandlerFails(i)
      PROVE  Away(net)' /\ Noted' /\ Seen' /\ Moved'
  BY <1>0, <1>1, <1>3, <1>9 DEF RebuildFirst, DoesNotReplenish, HandlerFails, Goto, StateOK, orderPart
<1>10. ASSUME NEW i \in Orders, Replenish(i) PROVE Away(net)' /\ Noted' /\ Seen' /\ Moved'
  <2>1. \A j \in Orders : order'[j] = "filled" => order[j] = "filled"
    BY <1>10 DEF Replenish, Send
  <2>. QED
    BY <1>0, <1>1, <1>3, <1>10, <2>1 DEF Replenish, Goto, StateOK
<1>11. CASE PlaceGrid
  <2>1. \A j \in Orders : order'[j] = "filled" => order[j] = "filled"
    BY <1>11 DEF PlaceGrid, Send
  <2>. QED
    BY <1>1, <1>3, <1>5, <1>11, <2>1 DEF PlaceGrid
<1>12. CASE Start
  <2>1. \A j \in Orders : task[j] = "idle"
    BY <1>0, <1>12 DEF Start, Flow, Fresh, Once
  <2>. QED
    BY <1>1, <1>3, <1>12, <2>1 DEF Start
<1>13. CASE OnUpdate
  <2>1. local' # 0 /\ feed # <<>> /\ feed' = Tail(feed) /\ UNCHANGED <<order, net, task, answer>>
    BY <1>0, <1>1, <1>13 DEF OnUpdate, FeedOK, orderPart
  <2>. QED
    BY <1>1, <1>3, <1>4, <2>1
<1>14. ~OnClosed
  BY <1>0, <1>1 DEF OnClosed, FeedOK
<1>15. ASSUME NEW i \in Orders, Rests(i) \/ Refused(i) PROVE Away(net)' /\ Noted' /\ Seen' /\ Moved'
  <2>1. \A j \in Orders : order'[j] = "filled" => order[j] = "filled"
    BY <1>0, <1>15 DEF Rests, Refused, StateOK
  <2>. QED
    BY <1>1, <1>3, <1>5, <1>15, <2>1 DEF Rests, Refused
<1>16. CASE Sweep \/ SweepAnswered
  <2>1. \A j \in Orders : order'[j] = "filled" => order[j] = "filled"
    BY <1>0, <1>16 DEF Sweep, SweepAnswered, StateOK
  <2>. QED
    BY <1>1, <1>3, <1>5, <1>16, <2>1 DEF Sweep, SweepAnswered
<1>17. CASE StartWithoutGrid \/ EnterCooldown \/ CooldownEnds \/ UNCHANGED exposureVars
  BY <1>1, <1>3, <1>5, <1>17 DEF StartWithoutGrid, EnterCooldown, CooldownEnds, exposureVars, orderPart
<1>18. Away(net)' /\ Noted' /\ Seen' /\ Moved'
  BY <1>0, <1>2, <1>6, <1>7, <1>8, <1>9, <1>10, <1>11, <1>12, <1>13, <1>14, <1>15, <1>16, <1>17
  DEF Next, Handler, Closing, Main
<1>. QED
  BY <1>18

\* Orders of a side that differ in level are at most as many as its levels.
LEMMA LevelsDiffer ==
  ASSUME NEW S \in SUBSET Orders, NEW p \in [S -> [side : Sides, level : 1..Levels]],
         \A i \in S, j \in S : i < j /\ p[i].side = p[j].side => p[i].level < p[j].level
  PROVE  \A s : Cardinality({i \in S : p[i].side = s}) <= Levels
<1>. TAKE s
<1>. DEFINE On == {i \in S : p[i].side = s}
<1>1. On \subseteq S /\ IsFiniteSet(On) /\ Cardinality(On) \in Nat
  BY OrdersCounted
<1>2. Levels \in Nat \ {0} /\ Orders \subseteq Nat
  BY ExposureConstants
<1>3. ASSUME Cardinality(On) > Levels PROVE FALSE
  <2>. DEFINE f == [i \in On |-> p[i].level]
  <2>1. IsFiniteSet(1..Levels) /\ Cardinality(1..Levels) = Levels
    BY <1>2, FS_Interval
  <2>2. f \in [On -> 1..Levels]
    OBVIOUS
  <2>3. Cardinality(1..Levels) < Cardinality(On)
    BY <1>1, <1>2, <1>3, <2>1
  <2>. HIDE DEF f
  <2>4. \E i, j \in On : i # j /\ f[i] = f[j]
    BY <1>1, <2>1, <2>2, <2>3, FS_PigeonHole
  <2>5. PICK i \in On, j \in On : i # j /\ p[i].level = p[j].level
    BY <2>4 DEF f
  <2>6. (i < j \/ j < i) /\ p[i].level \in Nat /\ p[j].level \in Nat
    BY <1>2, <2>5
  <2>. QED
    BY <2>5, <2>6
<1>4. Cardinality(On) <= Levels
  <2>. HIDE DEF On
  <2>. QED
    BY <1>1, <1>2, <1>3
<1>. QED
  BY <1>4

\* Orders that differ in level on every side, as many as a grid has, fill each side.
LEMMA SidesFilled ==
  ASSUME NEW S \in SUBSET Orders, NEW p \in [S -> [side : Sides, level : 1..Levels]],
         Cardinality(S) = Levels * Cardinality(Sides),
         \A i \in S, j \in S : i < j /\ p[i].side = p[j].side => p[i].level < p[j].level
  PROVE  \A s \in Sides : Cardinality({i \in S : p[i].side = s}) = Levels
<1>. DEFINE On(s) == {i \in S : p[i].side = s}
<1>1. \A s : On(s) \subseteq S /\ IsFiniteSet(On(s)) /\ Cardinality(On(s)) \in Nat
  BY OrdersCounted
<1>2. Levels \in Nat \ {0} /\ Orders \subseteq Nat
  BY ExposureConstants
<1>3. \A s : Cardinality(On(s)) <= Levels
  BY LevelsDiffer
<1>4. CASE Neutral
  <2>1. Sides = {"BUY", "SELL"} /\ Cardinality(S) = Levels + Levels
    BY <1>2, <1>4, SidesAre DEF Neutral
  <2>2. S = On("BUY") \union On("SELL") /\ On("BUY") \intersect On("SELL") = {}
    BY <2>1
  <2>. HIDE DEF On
  <2>3. Cardinality(S) = Cardinality(On("BUY")) + Cardinality(On("SELL"))
    <3>1. /\ IsFiniteSet(On("BUY")) /\ Cardinality(On("BUY")) \in Nat
          /\ IsFiniteSet(On("SELL")) /\ Cardinality(On("SELL")) \in Nat
      BY <1>1
    <3>2. Cardinality(On("BUY") \union On("SELL"))
            = Cardinality(On("BUY")) + Cardinality(On("SELL")) - Cardinality({})
      BY <2>2, <3>1, FS_Union
    <3>. QED
      BY <2>2, <3>1, <3>2, FS_EmptySet
  <2>4. \A s \in Sides : Cardinality(On(s)) = Levels
    BY <1>1, <1>2, <1>3, <2>1, <2>3
  <2>. QED
    BY <2>4 DEF On
<1>5. CASE ~Neutral
  <2>1. PICK s \in {"BUY", "SELL"} : Sides = {s}
    BY <1>5, SidesAre
  <2>2. Cardinality(S) = Levels
    <3>1. Cardinality(Sides) = 1
      BY <2>1, FS_Singleton
    <3>. QED
      BY <1>2, <3>1
  <2>3. On(s) = S
    BY <2>1
  <2>. QED
    BY <2>1, <2>2, <2>3
<1>. QED
  BY <1>4, <1>5

\* The handler of a fill works for its order, and with its end for the one replaced.
LEMMA WorkReplaced ==
  ASSUME TypeOK, Flow, NEW i \in Orders, Replenish(i)
  PROVE  \A s : Cardinality(Work(s)') = Cardinality(Work(s))
<1>. TAKE s
<1>0. StateOK /\ OrdersFlow
  BY DEF TypeOK, Flow
<1>1. PICK S \in SUBSET Orders :
         Mint(1, S) /\ Send(S, [j \in S |-> [side |-> plan[i].side, level |-> NextLevel(i)]])
  BY DEF Replenish
<1>2. PICK n : S = {n}
  BY <1>1, MintedAreNew, FS_Singleton, ExposureConstants, FS_Subset
<1>3. n \in Orders /\ n \notin active /\ task[n] = "idle" /\ n # i
  BY <1>1, <1>2, MintedAreNew DEF Replenish, Decides
<1>4. /\ active' = active \union {n} /\ i \in Orders /\ i \notin active /\ task[i] # "idle"
      /\ task' = [task EXCEPT ![i] = "idle"]
      /\ \A j \in Orders : plan'[j].side = IF j = n THEN plan[i].side ELSE plan[j].side
  BY <1>0, <1>1, <1>2, <1>3 DEF Replenish, Decides, Send, Goto, OrdersFlow
<1>5. CASE plan[i].side = s
  <2>1. i \in Work(s) /\ n \notin Work(s) /\ Work(s)' = (Work(s) \ {i}) \union {n}
    BY <1>0, <1>3, <1>4, <1>5 DEF Work, StateOK
  <2>. HIDE DEF Work
  <2>2. IsFiniteSet(Work(s) \ {i}) /\ Cardinality(Work(s) \ {i}) = Cardinality(Work(s)) - 1
    BY <2>1, WorkCounted, FS_RemoveElement
  <2>3. Cardinality((Work(s) \ {i}) \union {n}) = Cardinality(Work(s)) - 1 + 1
    BY <2>1, <2>2, FS_AddElement
  <2>. QED
    BY <2>1, <2>3, WorkCounted
<1>6. CASE plan[i].side # s
  <2>1. Work(s)' = Work(s)
    BY <1>0, <1>3, <1>4, <1>6 DEF Work, StateOK
  <2>. QED
    BY <2>1
<1>. QED
  BY <1>5, <1>6

\* The grid of the first process has all levels on each of its sides.
LEMMA GridPlaced ==
  ASSUME TypeOK, Flow, PlaceGrid
  PROVE  /\ \A s \in Sides : Cardinality(Work(s)') = Levels
         /\ \A i \in active' : plan'[i].level \in 1..Levels
<1>0. StateOK /\ OrdersFlow
  BY DEF TypeOK, Flow
<1>1. active = {} /\ \A i \in Orders : task[i] = "idle"
  BY <1>0 DEF PlaceGrid, Flow, Fresh, Once, OrdersFlow, StateOK
<1>2. MissingSides = Sides
  <2>1. \A s : ActiveOn(s) = {}
    BY <1>1 DEF ActiveOn
  <2>. QED
    BY <2>1, ExposureConstants, FS_EmptySet DEF MissingSides
<1>3. PICK S \in SUBSET Orders : /\ Mint(Levels * Cardinality(Sides), S)
         /\ \E p \in [S -> [side : Sides, level : 1..Levels]] :
              /\ \A i \in S, j \in S : i < j /\ p[i].side = p[j].side => p[i].level < p[j].level
              /\ Send(S, p)
  BY <1>2 DEF PlaceGrid
<1>4. PICK p \in [S -> [side : Sides, level : 1..Levels]] :
              /\ \A i \in S, j \in S : i < j /\ p[i].side = p[j].side => p[i].level < p[j].level
              /\ Send(S, p)
  BY <1>3
<1>5. Cardinality(S) = Levels * Cardinality(Sides)
  BY <1>3, MintedAreNew
<1>6. \A s \in Sides : Cardinality({i \in S : p[i].side = s}) = Levels
  BY <1>4, <1>5, SidesFilled
<1>7. active' = S /\ task' = task /\ \A i \in S : plan'[i] = p[i]
  BY <1>1, <1>4 DEF PlaceGrid, Send
<1>8. \A s : Work(s)' = {i \in S : p[i].side = s}
  BY <1>1, <1>7 DEF Work
<1>. QED
  BY <1>6, <1>7, <1>8

\* No other step adds an order to those a side works on.
LEMMA WorkKept ==
  ASSUME TypeOK, Flow, [Next]_exposureVars, ~Crash, ~PlaceGrid, \A i \in Orders : ~Replenish(i)
  PROVE  /\ plan' = plan /\ active' \subseteq active
         /\ \A s : Work(s)' \subseteq Work(s)
<1>0. StateOK /\ FeedOK /\ Once /\ OrdersFlow
  BY DEF TypeOK, Flow
<1>1. plan' = plan
  BY DEF exposureVars, orderPart, Next, Handler, Closing, Main,
   OnFilled, AnswerPositions, UpdateFromRest, RebuildFirst, DoesNotReplenish,
   HandlerFails, OnUpdate, OnClosed, Sweep, SweepAnswered, EnterCooldown, CooldownEnds,
   Start, StartWithoutGrid, Rests, Refused, Fills, StopTriggers
<1>2. active' \subseteq active
  <2>1. CASE Start
    BY <1>0, <2>1 DEF Start, Flow, Fresh
  <2>. QED
    BY <2>1 DEF exposureVars, orderPart, Next, Handler, Closing, Main,
     OnFilled, AnswerPositions, UpdateFromRest, RebuildFirst, DoesNotReplenish,
     HandlerFails, OnUpdate, OnClosed, Sweep, SweepAnswered, EnterCooldown, CooldownEnds,
     StartWithoutGrid, Rests, Refused, Fills, StopTriggers
<1>3. \A i \in Orders : task'[i] # "idle" => task[i] # "idle" \/ i \in active
  <2>1. ASSUME NEW j \in Orders, OnFilled(j)
        PROVE  \A i \in Orders : task'[i] # "idle" => task[i] # "idle" \/ i \in active
    <3>1. FillAt(1, j)
      BY <1>0, <2>1 DEF OnFilled, FillAt, FeedOK
    <3>2. j \in known => j \in active
      BY <1>0, <3>1 DEF OrdersFlow, Told
    <3>. QED
      BY <1>0, <2>1, <3>2 DEF OnFilled, Goto, StateOK
  <2>2. ASSUME NEW j \in Orders, AnswerPositions(j) \/ UpdateFromRest(j) \/ RebuildFirst(j)
                                 \/ DoesNotReplenish(j) \/ HandlerFails(j)
        PROVE  \A i \in Orders : task'[i] # "idle" => task[i] # "idle" \/ i \in active
    BY <1>0, <2>2 DEF AnswerPositions, UpdateFromRest, RebuildFirst, DoesNotReplenish, Decides,
      HandlerFails, Goto, StateOK
  <2>. QED
    BY <2>1, <2>2 DEF exposureVars, orderPart, Next, Handler, Closing, Main,
     OnUpdate, OnClosed, Sweep, SweepAnswered, EnterCooldown, CooldownEnds,
     Start, StartWithoutGrid, Rests, Refused, Fills, StopTriggers
<1>. QED
  BY <1>1, <1>2, <1>3 DEF Work

\* The number of orders a side works on is bounded.
LEMMA BoundedStep ==
  ASSUME TypeOK, Flow, Bounded, [Next]_exposureVars, ~Crash PROVE Bounded'
<1>. SUFFICES ASSUME NEW s \in Sides PROVE Cardinality(Work(s)') <= Levels
  BY DEF Bounded
<1>1. Levels \in Nat /\ Cardinality(Work(s)) <= Levels
  BY ExposureConstants DEF Bounded
<1>2. CASE PlaceGrid
  BY <1>1, <1>2, GridPlaced
<1>3. ASSUME NEW i \in Orders, Replenish(i) PROVE Cardinality(Work(s)') <= Levels
  BY <1>1, <1>3, WorkReplaced
<1>4. CASE ~PlaceGrid /\ \A i \in Orders : ~Replenish(i)
  <2>1. Work(s)' \subseteq Work(s)
    BY <1>4, WorkKept
  <2>2. Cardinality(Work(s)') <= Cardinality(Work(s)) /\ Cardinality(Work(s)') \in Nat
    BY <2>1, WorkCounted, FS_Subset, FS_CardinalityType
  <2>. QED
    BY <1>1, <2>2, WorkCounted
<1>. QED
  BY <1>2, <1>3, <1>4

\* The active orders a handler counts are fewer than those its side works on.
LEMMA CountedFewer ==
  ASSUME TypeOK, Flow, NEW i \in Orders, task[i] # "idle"
  PROVE  /\ plan[i].side \in Sides
         /\ Cardinality(Counted(i)) + 1 <= Cardinality(Work(plan[i].side))
         /\ Cardinality(Counted(i)) \in Nat
<1>. DEFINE s == plan[i].side
<1>0. StateOK /\ OrdersFlow
  BY DEF TypeOK, Flow
<1>1. s \in Sides
  BY <1>0 DEF StateOK, Plans
<1>2. i \in Work(s) /\ i \notin active
  BY <1>0 DEF Work, OrdersFlow
<1>3. Counted(i) \subseteq Work(s) \ {i}
  <2>1. CASE Neutral
    BY <1>0, <1>2, <2>1 DEF Counted, ActiveOn, Work, StateOK
  <2>2. CASE ~Neutral
    <3>1. \A j \in Orders : plan[j].side = s
      BY <1>0, <1>1, <2>2, SidesAre DEF StateOK, Plans
    <3>. QED
      BY <1>0, <1>2, <2>2, <3>1 DEF Counted, Work, StateOK
  <2>. QED
    BY <2>1, <2>2
<1>. HIDE DEF s
<1>4. IsFiniteSet(Work(s)) /\ Cardinality(Work(s)) \in Nat
  BY WorkCounted
<1>5. IsFiniteSet(Work(s) \ {i}) /\ Cardinality(Work(s) \ {i}) = Cardinality(Work(s)) - 1
  BY <1>2, <1>4, FS_RemoveElement
<1>6. Cardinality(Counted(i)) <= Cardinality(Work(s) \ {i}) /\ Cardinality(Counted(i)) \in Nat
  BY <1>3, <1>5, FS_Subset, FS_CardinalityType
<1>. QED
  BY <1>1, <1>4, <1>5, <1>6 DEF s

\* So the level it asks for is one of the grid.
LEMMA InGridStep ==
  ASSUME TypeOK, Flow, Bounded, InGrid, [Next]_exposureVars, ~Crash PROVE InGrid'
<1>. SUFFICES \A j \in active' : plan'[j].level \in 1..Levels
  BY DEF InGrid
<1>1. CASE PlaceGrid
  BY <1>1, GridPlaced
<1>2. ASSUME NEW i \in Orders, Replenish(i)
      PROVE  \A j \in active' : plan'[j].level \in 1..Levels
  <2>1. PICK S \in SUBSET Orders :
           Send(S, [j \in S |-> [side |-> plan[i].side, level |-> NextLevel(i)]])
    BY <1>2 DEF Replenish
  <2>2. NextLevel(i) \in 1..Levels
    <3>1. task[i] # "idle"
      BY <1>2 DEF Replenish, Decides
    <3>2. /\ Cardinality(Counted(i)) + 1 <= Cardinality(Work(plan[i].side))
          /\ Cardinality(Work(plan[i].side)) <= Levels
          /\ Cardinality(Counted(i)) \in Nat
      BY <3>1, CountedFewer DEF Bounded
    <3>3. Levels \in Nat /\ Cardinality(Work(plan[i].side)) \in Nat
      BY ExposureConstants, WorkCounted
    <3>. QED
      BY <3>2, <3>3 DEF NextLevel
  <2>3. \A j \in active' : j \in Orders /\ plan'[j] = IF j \in S
                             THEN [side |-> plan[i].side, level |-> NextLevel(i)] ELSE plan[j]
    BY <2>1 DEF Send, TypeOK, StateOK
  <2>4. \A j \in active' : j \in S \/ j \in active
    BY <2>1 DEF Send
  <2>. QED
    BY <2>2, <2>3, <2>4 DEF InGrid
<1>3. CASE ~PlaceGrid /\ \A i \in Orders : ~Replenish(i)
  BY <1>3, WorkKept DEF InGrid
<1>. QED
  BY <1>1, <1>2, <1>3

\* While nothing interferes, every side works on all of its levels.
LEMMA WholeStep ==
  ASSUME TypeOK, Flow, OneWay, Bounded, Whole, [Next]_exposureVars, ~Crash PROVE Whole'
<1>. SUFFICES ASSUME phase' = "running", Clean'
              PROVE  closing' = {} /\ \A s \in Sides : Cardinality(Work(s)') = Levels
  BY DEF Whole
<1>0. StateOK /\ FeedOK /\ Once /\ OrdersFlow /\ Fresh
  BY DEF TypeOK, Flow
<1>1. /\ Without({"refusal", "error", "stop"})
      /\ ~Happens("refusal") /\ ~Happens("error") /\ ~Happens("stop")
  <2>1. {"refusal", "error", "stop"} \in SUBSET Kinds /\ Without({"refusal", "error", "stop"})'
    BY DEF Kinds, Clean
  <2>. QED
    BY <2>1, WithoutBefore
<1>2. Without({"stop"})
  BY <1>1 DEF Without
<1>3. ~cut' /\ ~OnClosed
  BY DEF Clean, OnClosed
<1>4. ~cut
  BY <1>3 DEF exposureVars, Next, Handler, Closing, Main,
   OnFilled, AnswerPositions, UpdateFromRest, RebuildFirst, Replenish, DoesNotReplenish,
   HandlerFails, OnUpdate, OnClosed, Sweep, SweepAnswered, EnterCooldown, CooldownEnds,
   Start, PlaceGrid, StartWithoutGrid, Crash, Rests, Refused, Fills, StopTriggers
<1>5. CASE PlaceGrid
  <2>1. closing' = {}
    BY <1>0, <1>5 DEF PlaceGrid, Fresh
  <2>. QED
    BY <1>5, <2>1, GridPlaced
<1>6. CASE Start \/ StartWithoutGrid
  BY <1>0, <1>6 DEF Start, StartWithoutGrid, Fresh
<1>7. CASE ~PlaceGrid /\ ~Start /\ ~StartWithoutGrid
  <2>1. phase = "running"
    BY <1>7 DEF exposureVars, mainPart, Next, Handler, Closing, Main,
     OnFilled, AnswerPositions, UpdateFromRest, RebuildFirst, Replenish, DoesNotReplenish,
     HandlerFails, OnUpdate, OnClosed, Sweep, SweepAnswered, EnterCooldown, CooldownEnds,
     Rests, Refused, Fills, StopTriggers
  <2>2. closing = {} /\ \A s \in Sides : Cardinality(Work(s)) = Levels
    BY <1>1, <1>4, <2>1 DEF Whole, Clean
  <2>3. ~Closing
    BY <1>1, <2>2 DEF Closing, Sweep, SweepAnswered, EnterCooldown, Moves
  <2>4. closing' = {}
    BY <1>3, <1>7, <2>2, <2>3 DEF exposureVars, mainPart, Next, Handler, Main,
     OnFilled, AnswerPositions, UpdateFromRest, RebuildFirst, Replenish, DoesNotReplenish,
     HandlerFails, OnUpdate, CooldownEnds, Rests, Refused, Fills, StopTriggers
  <2>5. ASSUME NEW i \in Orders, Replenish(i)
        PROVE  \A s \in Sides : Cardinality(Work(s)') = Levels
    BY <2>2, <2>5, WorkReplaced
  <2>6. CASE \A i \in Orders : ~Replenish(i)
    <3>1. plan' = plan
      BY <1>7, <2>6, WorkKept
    <3>2. ASSUME NEW i \in Orders, OnFilled(i) PROVE \A s : Work(s)' = Work(s)
      <4>1. i \in known <=> i \in active
        <5>1. FillAt(1, i)
          BY <1>0, <3>2 DEF OnFilled, FillAt, FeedOK
        <5>. QED
          BY <1>0, <5>1 DEF OrdersFlow, Told, StateOK
      <4>2. active' = active \ {i} /\ task' = IF i \in known THEN [task EXCEPT ![i] = "positions"] ELSE task
        BY <3>2 DEF OnFilled, Goto
      <4>. QED
        BY <1>0, <3>1, <4>1, <4>2 DEF Work, StateOK
    <3>3. ASSUME NEW i \in Orders, AnswerPositions(i) \/ UpdateFromRest(i) \/ RebuildFirst(i)
          PROVE  \A s : Work(s)' = Work(s)
      <4>1. RebuildFirst(i) => local # 0
        BY <1>2, <3>3 DEF OneWay, RebuildFirst
      <4>2. active' = active /\ task[i] # "idle" /\ \E a \in Awaits \ {"idle"} : task' = [task EXCEPT ![i] = a]
        BY <3>3, <4>1 DEF AnswerPositions, UpdateFromRest, RebuildFirst, Goto, Awaits, orderPart
      <4>. QED
        BY <1>0, <3>1, <4>2 DEF Work, StateOK
    <3>4. ASSUME NEW i \in Orders, DoesNotReplenish(i) PROVE FALSE
      <4>1. task[i] # "idle" /\ ~Neutral /\ Cardinality(active) >= Levels
        BY <1>3, <3>4 DEF DoesNotReplenish, Decides
      <4>2. /\ Cardinality(active) + 1 <= Cardinality(Work(plan[i].side))
            /\ Cardinality(Work(plan[i].side)) <= Levels /\ Cardinality(active) \in Nat
        BY <4>1, CountedFewer DEF Bounded, Counted
      <4>. QED
        BY <4>1, <4>2, ExposureConstants, WorkCounted
    <3>5. \A i \in Orders : ~HandlerFails(i) /\ ~Refused(i)
      BY <1>1 DEF HandlerFails, Refused
    <3>6. ~StopTriggers
      BY <1>1 DEF StopTriggers
    <3>7. ASSUME UNCHANGED <<active, task>> PROVE \A s : Work(s)' = Work(s)
      BY <3>1, <3>7 DEF Work
    <3>8. \A i \in Orders : Rests(i) \/ Fills(i) => UNCHANGED <<active, task>>
      BY DEF Rests, Fills
    <3>9. OnUpdate \/ CooldownEnds \/ UNCHANGED exposureVars => UNCHANGED <<active, task>>
      BY DEF OnUpdate, CooldownEnds, exposureVars, orderPart
    <3>10. \A s : Work(s)' = Work(s)
      BY <1>3, <1>7, <2>3, <2>6, <3>2, <3>3, <3>4, <3>5, <3>6, <3>7, <3>8, <3>9
      DEF Next, Handler, Main
    <3>. QED
      BY <2>2, <2>4, <3>10
  <2>. QED
    BY <2>4, <2>5, <2>6
<1>. QED
  BY <1>5, <1>6, <1>7

\* The ledger holds before the first process starts,
LEMMA LedgerInit == Init => Ledger
<1>. SUFFICES ASSUME Init PROVE Flow /\ OneWay /\ Bounded /\ InGrid /\ Whole
  BY DEF Ledger
<1>. USE DEF Init
<1>1. Flow
  BY DEF Flow, OrdersFlow, Once, Told, FillAt, Fresh
<1>2. OneWay
  BY DEF OneWay
<1>3. Bounded
  <2>1. \A s : Work(s) = {}
    BY DEF Work
  <2>2. Cardinality({}) = 0 /\ 0 <= Levels
    BY ExposureConstants, FS_EmptySet
  <2>. QED
    BY <2>1, <2>2, Zenon DEF Bounded
<1>4. InGrid /\ Whole
  BY DEF InGrid, Whole
<1>. QED
  BY <1>1, <1>2, <1>3, <1>4

\* and every step keeps it.
LEMMA LedgerStep ==
  TypeOK /\ Ledger /\ [Next]_exposureVars => Ledger'
<1>. SUFFICES ASSUME TypeOK, Ledger, [Next]_exposureVars, NoCrash'
              PROVE  (Flow /\ OneWay /\ Bounded /\ InGrid /\ Whole)'
  BY DEF Ledger
<1>1. NoCrash /\ ~Crash
  <2>1. {"crash"} \in SUBSET Kinds /\ Without({"crash"})'
    BY DEF Kinds, NoCrash
  <2>. QED
    BY <2>1, WithoutBefore DEF NoCrash, Crash
<1>2. Flow /\ OneWay /\ Bounded /\ InGrid /\ Whole
  BY <1>1 DEF Ledger
<1>. QED
  BY <1>1, <1>2, FlowStep, OneWayStep, BoundedStep, InGridStep, WholeStep

\* When the bot is done with its events, a side works on just its active orders.
LEMMA LedgerKeepsShape == TypeOK /\ Ledger => GridKeepsShape
<1>. SUFFICES ASSUME TypeOK, Ledger PROVE GridStaysComplete /\ LevelsInGrid
  BY DEF GridKeepsShape
<1>1. LevelsInGrid
  BY DEF LevelsInGrid, Ledger, NoCrash, InGrid
<1>2. ASSUME phase = "running", Settled, ~cut, Without({"refusal", "error", "stop", "crash"})
      PROVE  IF Neutral THEN \A s \in Sides : Cardinality(ActiveOn(s)) = Levels
                        ELSE Cardinality(active) = Levels
  <2>1. NoCrash /\ Clean
    BY <1>2 DEF NoCrash, Clean, Without
  <2>2. \A s \in Sides : Cardinality(Work(s)) = Levels
    BY <1>2, <2>1 DEF Ledger, Whole
  <2>3. \A s : Work(s) = ActiveOn(s)
    BY <1>2 DEF Settled, Work, ActiveOn, TypeOK, StateOK
  <2>4. CASE ~Neutral
    <3>1. PICK s : Sides = {s}
      BY <2>4, SidesAre
    <3>2. ActiveOn(s) = active
      BY <3>1 DEF ActiveOn, TypeOK, StateOK, Plans
    <3>. QED
      BY <2>2, <2>3, <2>4, <3>1, <3>2
  <2>. QED
    BY <2>2, <2>3, <2>4
<1>. QED
  BY <1>1, <1>2 DEF GridStaysComplete

\* For any grid, cap and number of orders: while the bot does not crash, counting
\* the active orders never asks for a level beyond the grid; and while neither the
\* cap nor a fault interferes, every fill is replaced exactly once, however the
\* fills, their handlers and the notices of the position interleave.
THEOREM ShapeIsKept == Spec => []GridKeepsShape
<1>1. TypeOK /\ Ledger /\ [Next]_exposureVars => Ledger'
  BY LedgerStep
<1>. QED
  BY <1>1, InitTyped, TypeStep, LedgerInit, LedgerKeepsShape, PTL DEF Spec

-----------------------------------------------------------------------------
(* The position is bounded.                                                *)
(*                                                                         *)
(* What an order of a side adds to the position, it takes from the orders  *)
(* that rest on the side.  Only a replenishment adds an order to them, and *)
(* it looks at a position that differs from the true one by the fills      *)
(* since, each of which is a burst.  What rests then is bounded, too: an   *)
(* order is under way from its request to the end of its handler, and only *)
(* the grid of a process that starts adds to these.                        *)

Signed(s)   == IF s = "BUY" THEN net ELSE 0 - net
Resting(s)  == {i \in Orders : plan[i].side = s /\ order[i] \in {"sent", "live"}}
Underway(s) == {i \in Orders : /\ plan[i].side = s
                               /\ order[i] \in {"sent", "live"} \/ task[i] # "idle" \/ Told(i)}

\* The levels of the grids placed so far, on each side.
Room == Levels * count.crash + IF phase = "running" THEN Levels ELSE 0

Capped ==
  \A s \in {"BUY", "SELL"} :
    /\ Cardinality(Underway(s)) <= Room
    /\ Signed(s) + Cardinality(Resting(s)) <= MaxNet - 1 + count.burst + Room

\* The size of the position a notice tells.
Size(notice) == IF notice.type = "closed" THEN 0 ELSE notice.of

\* What the bot was told, has read or decides on is behind by bursts only.
Aware ==
  /\ \A k \in 1..Len(feed) :
       feed[k].type # "filled" => Abs(net) <= Size(feed[k]) + count.burst
  /\ \A i \in Orders :
       /\ task[i] = "answered" => Abs(net) <= answer[i] + count.burst
       /\ task[i] \in {"price", "stop"} => Abs(net) <= local + count.burst

Cap == Once /\ Aware /\ Capped

\* A fill is told with the position it leads to, and is a burst for everything older.
LEMMA AwareStep ==
  ASSUME TypeOK, Once, Aware, [Next]_exposureVars PROVE Aware'
<1>. DEFINE Seen == \A i \in Orders :
                      /\ task[i] = "answered" => Abs(net) <= answer[i] + count.burst
                      /\ task[i] \in {"price", "stop"} => Abs(net) <= local + count.burst
            News == \A k \in 1..Len(feed) :
                      feed[k].type # "filled" => Abs(net) <= Size(feed[k]) + count.burst
<1>0. /\ StateOK /\ FeedOK /\ net' \in Int /\ Orders \subseteq Nat
      /\ count.burst \in Nat /\ count'.burst \in Nat /\ count'.burst >= count.burst
      /\ Happens("burst") => count'.burst = count.burst + 1
  BY CountsGrow, TypeStep, ExposureConstants DEF TypeOK, CountOK, Kinds, StateOK
<1>1. Seen /\ News
  BY DEF Aware
<1>2. \A k \in 1..Len(feed) : feed[k] \in Notices /\ (feed[k].type # "filled" => Size(feed[k]) \in Nat)
  <2>1. \A k \in 1..Len(feed) : feed[k] \in Notices
    BY <1>0 DEF FeedOK
  <2>2. \A n \in Notices : n.type # "filled" => Size(n) \in Nat
    BY <1>0 DEF Notices, Size
  <2>. QED
    BY <2>1, <2>2
<1>3. ASSUME UNCHANGED net, UNCHANGED feed \/ feed' = <<>> \/ (feed # <<>> /\ feed' = Tail(feed))
      PROVE  News'
  <2>1. \A k \in 1..Len(feed') : \E l \in 1..Len(feed) : feed'[k] = feed[l]
    BY <1>0, <1>3, TailFills
  <2>2. Abs(net') = Abs(net) /\ Abs(net) \in Nat
    BY <1>0, <1>3, AbsTyped DEF StateOK
  <2>3. ASSUME NEW k \in 1..Len(feed'), feed'[k].type # "filled"
        PROVE  Abs(net') <= Size(feed'[k]) + count'.burst
    <3>1. PICK l \in 1..Len(feed) : feed'[k] = feed[l]
      BY <2>1
    <3>2. Abs(net) <= Size(feed[l]) + count.burst /\ Size(feed[l]) \in Nat
      BY <1>1, <1>2, <2>3, <3>1
    <3>. QED
      BY <1>0, <2>2, <3>1, <3>2
  <2>. QED
    BY <2>3
<1>4. ASSUME UNCHANGED net,
             \A i \in Orders : /\ task'[i] = "answered" =>
                                    \/ task[i] = "answered" /\ answer'[i] = answer[i]
                                    \/ answer'[i] = Abs(net)
                               /\ task'[i] \in {"price", "stop"} =>
                                    \/ task[i] \in {"price", "stop"} /\ local' = local
                                    \/ local' \in Nat /\ Abs(net) <= local' + count.burst
      PROVE  Seen'
  <2>1. Abs(net') = Abs(net) /\ Abs(net) \in Nat /\ local \in Nat
    BY <1>0, <1>4, AbsTyped DEF StateOK
  <2>2. \A i \in Orders : answer[i] \in Nat
    BY <1>0 DEF StateOK
  <2>3. \A i \in Orders : task'[i] = "answered" => Abs(net') <= answer'[i] + count'.burst
    BY <1>0, <1>1, <1>4, <2>1, <2>2
  <2>4. \A i \in Orders : task'[i] \in {"price", "stop"} => Abs(net') <= local' + count'.burst
    BY <1>0, <1>1, <1>4, <2>1, <2>2
  <2>. QED
    BY <2>3, <2>4
<1>5. ASSUME NEW i \in Orders, OnFilled(i) PROVE Aware'
  <2>1. \A j \in Orders : task'[j] = task[j] \/ task'[j] = "positions"
    BY <1>0, <1>5 DEF OnFilled, Goto, StateOK
  <2>2. feed # <<>> /\ feed' = Tail(feed) /\ UNCHANGED <<net, local, answer>>
    BY <1>5 DEF OnFilled
  <2>. QED
    BY <1>3, <1>4, <2>1, <2>2 DEF Aware
<1>6. ASSUME NEW i \in Orders, AnswerPositions(i) PROVE Aware'
  <2>1. News' /\ UNCHANGED <<net, local>>
    BY <1>3, <1>6 DEF AnswerPositions, orderPart, mainPart
  <2>2. Seen'
    BY <1>0, <1>4, <1>6, <2>1 DEF AnswerPositions, Goto, StateOK
  <2>. QED
    BY <2>1, <2>2 DEF Aware
<1>7. ASSUME NEW i \in Orders, UpdateFromRest(i) PROVE Aware'
  <2>1. News' /\ UNCHANGED net
    BY <1>3, <1>7 DEF UpdateFromRest, orderPart, mainPart
  <2>2. local' \in Nat /\ Abs(net) <= local' + count.burst
    BY <1>0, <1>1, <1>7 DEF UpdateFromRest, StateOK
  <2>3. Seen'
    BY <1>0, <1>4, <1>7, <2>1, <2>2 DEF UpdateFromRest, Goto, StateOK
  <2>. QED
    BY <2>1, <2>3 DEF Aware
<1>8. ASSUME NEW i \in Orders, RebuildFirst(i) \/ Replenish(i) \/ DoesNotReplenish(i) \/ HandlerFails(i)
      PROVE  Aware'
  <2>1. News' /\ UNCHANGED <<net, local>>
    BY <1>3, <1>8 DEF RebuildFirst, Replenish, DoesNotReplenish, HandlerFails, orderPart, mainPart
  <2>2. \A j \in Orders : /\ task'[j] = "answered" => task[j] = "answered" /\ answer'[j] = answer[j]
                          /\ task'[j] \in {"price", "stop"} => task[j] \in {"price", "stop"}
    BY <1>0, <1>8 DEF RebuildFirst, Replenish, DoesNotReplenish, HandlerFails, Goto, StateOK
  <2>. QED
    BY <1>4, <2>1, <2>2 DEF Aware
<1>9. CASE OnUpdate \/ OnClosed
  <2>1. /\ feed # <<>> /\ feed' = Tail(feed) /\ UNCHANGED <<net, task, answer>>
        /\ Head(feed) = feed[1] /\ 1 \in 1..Len(feed)
        /\ feed[1].type # "filled" /\ local' = Size(feed[1])
    BY <1>0, <1>9 DEF OnUpdate, OnClosed, Size, FeedOK
  <2>2. local' \in Nat /\ Abs(net) <= local' + count.burst
    BY <1>1, <1>2, <2>1
  <2>. QED
    BY <1>3, <1>4, <2>1, <2>2 DEF Aware
<1>10. ASSUME NEW i \in Orders, Fills(i) PROVE Aware'
  <2>1. /\ Abs(net') <= Abs(net) + 1 /\ Abs(net) \in Nat /\ Abs(net') \in Nat
        /\ UNCHANGED <<task, answer, local>>
    BY <1>0, <1>10 DEF Fills, Abs, StateOK
  <2>2. \/ Settled
        \/ Abs(net') <= Abs(net) + 1 /\ count'.burst = count.burst + 1
    BY <1>0, <1>10, <2>1 DEF Fills
  <2>3. Seen'
    <3>1. \A j \in Orders : answer[j] \in Nat /\ local \in Nat
      BY <1>0 DEF StateOK
    <3>2. CASE Settled
      BY <2>1, <3>2 DEF Settled
    <3>3. CASE ~Settled
      BY <1>0, <1>1, <2>1, <2>2, <3>1, <3>3, SMTT(30)
    <3>. QED
      BY <3>2, <3>3
  <2>4. News'
    <3>1. \A k \in 1..Len(feed') :
              \/ k \in 1..Len(feed) /\ feed'[k] = feed[k]
              \/ feed'[k].type = "filled"
              \/ feed'[k].type = "update" /\ feed'[k].of = Abs(net')
              \/ feed'[k].type = "closed" /\ net' = 0
      <4>1. CASE phase = "down"
        BY <1>10, <4>1 DEF Fills, Emit
      <4>2. CASE phase # "down"
        BY <1>10, <4>2, FillTold
      <4>. QED
        BY <4>1, <4>2
    <3>2. \A k \in 1..Len(feed) :
             feed[k].type # "filled" => Abs(net') <= Size(feed[k]) + count'.burst
      BY <1>0, <1>1, <1>2, <2>1, <2>2, SMTT(30) DEF Settled
    <3>3. net' = 0 => Abs(net') = 0
      BY DEF Abs
    <3>. QED
      BY <1>0, <2>1, <3>1, <3>2, <3>3 DEF Size
  <2>. QED
    BY <2>3, <2>4 DEF Aware
<1>11. CASE StopTriggers
  <2>1. Abs(net') = 0 /\ UNCHANGED <<task, answer, local>>
    BY <1>11 DEF StopTriggers, Abs
  <2>2. Seen'
    BY <1>0, <2>1 DEF StateOK
  <2>3. News'
    BY <1>0, <1>2, <1>11, <2>1, StopTold DEF Size
  <2>. QED
    BY <2>2, <2>3 DEF Aware
<1>12. CASE Start
  <2>1. UNCHANGED <<net, feed, task, answer>> /\ local' = Abs(net)
    BY <1>12 DEF Start
  <2>2. local' \in Nat /\ Abs(net) <= local' + count.burst
    BY <1>0, <2>1, AbsTyped DEF StateOK
  <2>3. News' /\ Seen'
    BY <1>3, <1>4, <2>1, <2>2
  <2>. QED
    BY <2>3 DEF Aware
<1>13. CASE Crash
  <2>1. UNCHANGED net /\ feed' = <<>> /\ \A j \in Orders : task'[j] = "idle"
    BY <1>13 DEF Crash
  <2>2. News' /\ Seen'
    BY <1>3, <2>1
  <2>. QED
    BY <2>2 DEF Aware
<1>14. ASSUME UNCHANGED <<net, feed, task, answer, local>> PROVE Aware'
  <2>1. News' /\ Seen'
    BY <1>3, <1>4, <1>14
  <2>. QED
    BY <2>1 DEF Aware
<1>15. CASE \A i \in Orders : ~Handler(i) /\ ~Fills(i)
  <2>1. \/ OnUpdate \/ OnClosed \/ StopTriggers \/ Start \/ Crash
        \/ UNCHANGED <<net, feed, task, answer, local>>
    BY <1>15 DEF exposureVars, Next, Closing, Main, Sweep, SweepAnswered, EnterCooldown,
      CooldownEnds, PlaceGrid, StartWithoutGrid, Rests, Refused
  <2>. QED
    BY <1>9, <1>11, <1>12, <1>13, <1>14, <2>1
<1>. QED
  BY <1>5, <1>6, <1>7, <1>8, <1>10, <1>15 DEF Handler

\* The room for orders is never taken back, and a grid placed adds its levels.
LEMMA RoomStep ==
  ASSUME TypeOK, [Next]_exposureVars
  PROVE  /\ Room \in Nat /\ Room' \in Nat /\ Room' >= Room
         /\ PlaceGrid => Room' = Room + Levels
<1>1. Levels \in Nat /\ count.crash \in Nat /\ count'.crash \in Nat /\ count'.crash >= count.crash
  BY CountsGrow, TypeStep, ExposureConstants DEF TypeOK, CountOK, Kinds
<1>2. /\ Levels * count.crash \in Nat /\ Levels * count'.crash \in Nat
      /\ Levels * count'.crash >= Levels * count.crash
      /\ count'.crash = count.crash + 1 => Levels * count'.crash = Levels * count.crash + Levels
  <2>1. PICK d \in Nat : count'.crash = count.crash + d
    <3>1. count'.crash - count.crash \in Nat
      BY <1>1
    <3>. QED
      BY <1>1, <3>1
  <2>2. Levels * count'.crash = Levels * count.crash + Levels * d
    BY <1>1, <2>1
  <2>3. Levels * d \in Nat /\ Levels * count.crash \in Nat
    BY <1>1
  <2>4. count'.crash = count.crash + 1 => d = 1
    BY <1>1, <2>1
  <2>. QED
    BY <1>1, <2>2, <2>3, <2>4
<1>3. CASE Crash
  <2>1. phase' = "down" /\ count'.crash = count.crash + 1 /\ ~PlaceGrid
    BY <1>3, CountsGrow DEF Crash, PlaceGrid, Kinds
  <2>. QED
    BY <1>1, <1>2, <2>1 DEF Room
<1>4. CASE PlaceGrid
  <2>1. phase = "starting" /\ phase' = "running" /\ count' = count
    BY <1>4 DEF PlaceGrid
  <2>. QED
    BY <1>1, <1>2, <2>1 DEF Room
<1>5. CASE ~Crash /\ ~PlaceGrid
  <2>1. phase = "running" => phase' = "running"
    BY <1>5 DEF exposureVars, mainPart, Next, Handler, Closing, Main,
     OnFilled, AnswerPositions, UpdateFromRest, RebuildFirst, Replenish, DoesNotReplenish,
     HandlerFails, OnUpdate, OnClosed, Sweep, SweepAnswered, EnterCooldown, CooldownEnds,
     Start, StartWithoutGrid, Rests, Refused, Fills, StopTriggers
  <2>. QED
    BY <1>1, <1>2, <1>5, <2>1 DEF Room
<1>. QED
  BY <1>3, <1>4, <1>5

\* What rests is under way, and both are sets of orders.
LEMMA UnderwayCounted ==
  \A s : /\ Resting(s) \subseteq Underway(s) /\ Underway(s) \subseteq Orders
         /\ IsFiniteSet(Underway(s)) /\ Cardinality(Underway(s)) \in Nat
         /\ IsFiniteSet(Resting(s)) /\ Cardinality(Resting(s)) \in Nat
         /\ Cardinality(Resting(s)) <= Cardinality(Underway(s))
<1>. TAKE s
<1>1. Resting(s) \subseteq Underway(s) /\ Underway(s) \subseteq Orders /\ Resting(s) \subseteq Orders
  BY DEF Resting, Underway
<1>. HIDE DEF Resting, Underway
<1>. QED
  BY <1>1, OrdersCounted, FS_Subset

\* An order that is replaced is under way no more.
LEMMA UnderwayReplaced ==
  ASSUME TypeOK, Once, [Next]_exposureVars, NEW i \in Orders, Replenish(i)
  PROVE  \A s : /\ Cardinality(Underway(s)') <= Cardinality(Underway(s))
                /\ plan[i].side # s => Resting(s)' = Resting(s)
<1>. TAKE s
<1>0. StateOK
  BY DEF TypeOK
<1>1. PICK S \in SUBSET Orders :
         Mint(1, S) /\ Send(S, [j \in S |-> [side |-> plan[i].side, level |-> NextLevel(i)]])
  BY DEF Replenish
<1>2. PICK n \in Orders : S = {n} /\ order[n] = "none"
  BY <1>1, OrdersCounted, FS_Singleton DEF Mint
<1>3. /\ task[i] # "idle" /\ order[i] = "filled" /\ ~Told(i) /\ task[n] = "idle" /\ ~Told(n)
      /\ i # n /\ \A j \in Orders : ~Fills(j)
  BY <1>0, <1>2 DEF Replenish, Decides, Once, Fills, Goto, StateOK
<1>4. \A j \in Orders : Told(j)' => Told(j)
  BY <1>3, OnceStep
<1>5. /\ order' = [order EXCEPT ![n] = "sent"] /\ task' = [task EXCEPT ![i] = "idle"]
      /\ \A j \in Orders : plan'[j].side = IF j = n THEN plan[i].side ELSE plan[j].side
  BY <1>0, <1>1, <1>2 DEF Replenish, Send, Goto, StateOK
<1>6. CASE plan[i].side = s
  <2>1. i \in Underway(s) /\ n \notin Underway(s) /\ Underway(s)' \subseteq (Underway(s) \ {i}) \union {n}
    BY <1>0, <1>2, <1>3, <1>4, <1>5, <1>6 DEF Underway, StateOK
  <2>. HIDE DEF Underway
  <2>2. IsFiniteSet(Underway(s) \ {i}) /\ Cardinality(Underway(s) \ {i}) = Cardinality(Underway(s)) - 1
    BY <2>1, UnderwayCounted, FS_RemoveElement
  <2>3. /\ IsFiniteSet((Underway(s) \ {i}) \union {n})
        /\ Cardinality((Underway(s) \ {i}) \union {n}) = Cardinality(Underway(s)) - 1 + 1
    BY <2>1, <2>2, FS_AddElement
  <2>4. Cardinality(Underway(s)') <= Cardinality((Underway(s) \ {i}) \union {n})
    BY <2>1, <2>3, FS_Subset
  <2>. QED
    BY <1>6, <2>3, <2>4, UnderwayCounted
<1>7. CASE plan[i].side # s
  <2>1. Underway(s)' \subseteq Underway(s) /\ Resting(s)' = Resting(s)
    BY <1>0, <1>2, <1>3, <1>4, <1>5, <1>7 DEF Underway, Resting, StateOK
  <2>. QED
    BY <2>1, UnderwayCounted, FS_Subset
<1>. QED
  BY <1>6, <1>7

\* The grid of a process adds its levels to each side at most.
LEMMA UnderwayPlaced ==
  ASSUME TypeOK, Once, [Next]_exposureVars, PlaceGrid
  PROVE  \A s : /\ Cardinality(Underway(s)') <= Cardinality(Underway(s)) + Levels
                /\ Cardinality(Resting(s)') <= Cardinality(Resting(s)) + Levels
<1>. TAKE s
<1>0. StateOK
  BY DEF TypeOK
<1>1. PICK S \in SUBSET Orders : /\ \A j \in S : order[j] = "none"
         /\ \E p \in [S -> [side : Sides, level : 1..Levels]] :
              /\ \A i \in S, j \in S : i < j /\ p[i].side = p[j].side => p[i].level < p[j].level
              /\ Send(S, p)
  <2>1. MissingSides \subseteq Sides
    BY DEF MissingSides
  <2>. QED
    BY <2>1 DEF PlaceGrid, Mint
<1>2. PICK p \in [S -> [side : Sides, level : 1..Levels]] :
              /\ \A i \in S, j \in S : i < j /\ p[i].side = p[j].side => p[i].level < p[j].level
              /\ Send(S, p)
  BY <1>1
<1>. DEFINE New == {i \in S : p[i].side = s}
<1>3. /\ IsFiniteSet(New) /\ Cardinality(New) \in Nat
      /\ Cardinality(New) <= Levels /\ Levels \in Nat
  <2>1. New \subseteq Orders /\ Levels \in Nat
    BY ExposureConstants
  <2>2. Cardinality(New) <= Levels
    BY <1>2, LevelsDiffer
  <2>. HIDE DEF New
  <2>. QED
    BY <2>1, <2>2, OrdersCounted
<1>4. UNCHANGED task /\ \A j \in Orders : Told(j)' => Told(j)
  <2>1. \A j \in Orders : ~Fills(j)
    BY DEF PlaceGrid, Fills, mainPart
  <2>. QED
    BY <2>1, OnceStep DEF PlaceGrid
<1>5. Underway(s)' \subseteq Underway(s) \union New /\ Resting(s)' \subseteq Resting(s) \union New
  BY <1>0, <1>2, <1>4 DEF Underway, Resting, Send, StateOK
<1>6. ASSUME NEW A, NEW B, IsFiniteSet(A), Cardinality(A) \in Nat, B \subseteq A \union New
      PROVE  Cardinality(B) <= Cardinality(A) + Levels
  <2>. HIDE DEF New
  <2>1. /\ IsFiniteSet(A \union New)
        /\ Cardinality(A \union New) = Cardinality(A) + Cardinality(New) - Cardinality(A \intersect New)
    BY <1>3, <1>6, FS_Union
  <2>2. Cardinality(A \intersect New) \in Nat
    BY <1>6, FS_Subset, FS_CardinalityType
  <2>3. IsFiniteSet(B) /\ Cardinality(B) <= Cardinality(A \union New) /\ Cardinality(B) \in Nat
    BY <1>6, <2>1, FS_Subset, FS_CardinalityType
  <2>. QED
    BY <1>3, <1>6, <2>1, <2>2, <2>3
<1>. HIDE DEF Underway, Resting, New
<1>. QED
  BY <1>5, <1>6, UnderwayCounted

\* No other step adds to the orders under way or to those that rest.
LEMMA UnderwayKept ==
  ASSUME TypeOK, Once, [Next]_exposureVars, ~PlaceGrid, \A i \in Orders : ~Replenish(i)
  PROVE  \A s : Underway(s)' \subseteq Underway(s) /\ Resting(s)' \subseteq Resting(s)
<1>0. StateOK /\ FeedOK
  BY DEF TypeOK
<1>1. plan' = plan
  BY DEF exposureVars, orderPart, Next, Handler, Closing, Main,
   OnFilled, AnswerPositions, UpdateFromRest, RebuildFirst, DoesNotReplenish,
   HandlerFails, OnUpdate, OnClosed, Sweep, SweepAnswered, EnterCooldown, CooldownEnds,
   Start, StartWithoutGrid, Crash, Rests, Refused, Fills, StopTriggers
<1>2. \A i \in Orders : order'[i] \in {"sent", "live"} => order[i] \in {"sent", "live"}
  BY <1>0 DEF exposureVars, orderPart, Next, Handler, Closing, Main, StateOK,
   OnFilled, AnswerPositions, UpdateFromRest, RebuildFirst, DoesNotReplenish,
   HandlerFails, OnUpdate, OnClosed, Sweep, SweepAnswered, EnterCooldown, CooldownEnds,
   Start, StartWithoutGrid, Crash, Rests, Refused, Fills, StopTriggers
<1>3. \A i \in Orders : OnFilled(i) => Told(i)
  BY <1>0 DEF OnFilled, Told, FillAt, FeedOK
<1>4. \A i \in Orders : task'[i] # "idle" => task[i] # "idle" \/ Told(i)
  <2>1. ASSUME NEW j \in Orders, OnFilled(j)
        PROVE  \A i \in Orders : task'[i] # "idle" => task[i] # "idle" \/ Told(i)
    BY <1>0, <1>3, <2>1 DEF OnFilled, Goto, StateOK
  <2>2. ASSUME NEW j \in Orders, \/ AnswerPositions(j) \/ UpdateFromRest(j) \/ RebuildFirst(j)
                                 \/ DoesNotReplenish(j) \/ HandlerFails(j)
        PROVE  \A i \in Orders : task'[i] # "idle" => task[i] # "idle"
    BY <1>0, <2>2 DEF AnswerPositions, UpdateFromRest, RebuildFirst, DoesNotReplenish, Decides,
      HandlerFails, Goto, StateOK
  <2>. QED
    BY <2>1, <2>2 DEF exposureVars, Next, Handler, Closing, Main,
     OnUpdate, OnClosed, Sweep, SweepAnswered, EnterCooldown, CooldownEnds,
     Start, StartWithoutGrid, Crash, Rests, Refused, Fills, StopTriggers
<1>5. \A i \in Orders : Told(i)' => Told(i) \/ order[i] = "live"
  BY OnceStep
<1>. QED
  BY <1>1, <1>2, <1>4, <1>5 DEF Underway, Resting

\* Orders and position stay within the cap, what it cannot see, and the grids placed.
LEMMA CappedStep ==
  ASSUME TypeOK, Cap, [Next]_exposureVars PROVE Capped'
<1>. SUFFICES ASSUME NEW s \in {"BUY", "SELL"}
              PROVE  /\ Cardinality(Underway(s)') <= Room'
                     /\ Signed(s)' + Cardinality(Resting(s)') <= MaxNet' - 1 + count'.burst + Room'
  BY DEF Capped
<1>0. /\ StateOK /\ Once /\ Aware /\ Capped /\ net \in Int /\ net' \in Int /\ MaxNet \in Nat \ {0}
      /\ count.burst \in Nat /\ count'.burst \in Nat /\ count'.burst >= count.burst
  BY CountsGrow, TypeStep, ExposureConstants DEF TypeOK, CountOK, Kinds, StateOK, Cap
<1>1. Room \in Nat /\ Room' \in Nat /\ Room' >= Room /\ (PlaceGrid => Room' = Room + Levels)
  BY RoomStep
<1>2. /\ Cardinality(Underway(s)) \in Nat /\ Cardinality(Underway(s)) <= Room
      /\ Cardinality(Resting(s)) \in Nat /\ Cardinality(Resting(s)) <= Cardinality(Underway(s))
      /\ Signed(s) + Cardinality(Resting(s)) <= MaxNet - 1 + count.burst + Room
      /\ Signed(s) \in Int /\ Signed(s)' \in Int /\ Levels \in Nat
  BY <1>0, UnderwayCounted, ExposureConstants DEF Capped, Signed
<1>3. /\ Cardinality(Underway(s)') \in Nat /\ Cardinality(Resting(s)') \in Nat
      /\ Cardinality(Resting(s)') <= Cardinality(Underway(s)')
  <2>1. \A r : Resting(r)' \subseteq Underway(r)' /\ Underway(r)' \subseteq Orders
    BY DEF Resting, Underway
  <2>. HIDE DEF Resting, Underway
  <2>. QED
    BY <2>1, OrdersCounted, FS_Subset
<1>. HIDE DEF Underway, Resting, Room
<1>4. CASE PlaceGrid
  <2>1. Signed(s)' = Signed(s)
    BY <1>4 DEF PlaceGrid, Signed
  <2>2. /\ Cardinality(Underway(s)') <= Cardinality(Underway(s)) + Levels
        /\ Cardinality(Resting(s)') <= Cardinality(Resting(s)) + Levels
    BY <1>0, <1>4, UnderwayPlaced
  <2>. QED
    BY <1>0, <1>1, <1>2, <1>3, <1>4, <2>1, <2>2
<1>5. ASSUME NEW i \in Orders, Replenish(i)
      PROVE  /\ Cardinality(Underway(s)') <= Room'
             /\ Signed(s)' + Cardinality(Resting(s)') <= MaxNet' - 1 + count'.burst + Room'
  <2>1. Signed(s)' = Signed(s)
    BY <1>5 DEF Replenish, Signed
  <2>2. /\ Cardinality(Underway(s)') <= Cardinality(Underway(s))
        /\ plan[i].side # s => Resting(s)' = Resting(s)
    BY <1>0, <1>5, UnderwayReplaced
  <2>3. Signed(s) <= MaxNet - 1 + count.burst
    <3>1. Abs(net) <= local + count.burst /\ local + 1 <= MaxNet /\ local \in Nat
      BY <1>0, <1>5 DEF Replenish, Decides, WithinCap, Aware, StateOK
    <3>2. Signed(s) <= Abs(net) /\ Abs(net) \in Nat
      BY <1>0 DEF Signed, Abs
    <3>. QED
      BY <1>0, <1>2, <3>1, <3>2
  <2>. QED
    BY <1>0, <1>1, <1>2, <1>3, <2>1, <2>2, <2>3
<1>6. CASE ~PlaceGrid /\ \A i \in Orders : ~Replenish(i)
  <2>1. Underway(s)' \subseteq Underway(s) /\ Resting(s)' \subseteq Resting(s)
    BY <1>0, <1>6, UnderwayKept
  <2>2. /\ Cardinality(Underway(s)') <= Cardinality(Underway(s))
        /\ Cardinality(Resting(s)') <= Cardinality(Resting(s))
    BY <2>1, UnderwayCounted, FS_Subset
  <2>3. ASSUME NEW i \in Orders, Fills(i)
        PROVE  Signed(s)' + Cardinality(Resting(s)') <= Signed(s) + Cardinality(Resting(s))
    <3>1. CASE plan[i].side = s
      <4>1. i \in Resting(s) /\ Resting(s)' = Resting(s) \ {i}
        BY <1>0, <2>3, <3>1 DEF Fills, Resting, StateOK
      <4>2. Cardinality(Resting(s)') = Cardinality(Resting(s)) - 1
        BY <4>1, UnderwayCounted, FS_RemoveElement
      <4>3. Signed(s)' <= Signed(s) + 1
        BY <1>0, <2>3 DEF Fills, Signed
      <4>. QED
        BY <1>2, <1>3, <4>2, <4>3
    <3>2. CASE plan[i].side # s
      <4>1. plan[i].side \in {"BUY", "SELL"}
        BY <1>0, ExposureConstants DEF StateOK, Plans
      <4>2. Signed(s)' <= Signed(s)
        BY <1>0, <2>3, <3>2, <4>1 DEF Fills, Signed
      <4>. QED
        BY <1>2, <1>3, <2>2, <4>2
    <3>. QED
      BY <3>1, <3>2
  <2>4. StopTriggers => Signed(s)' = 0
    <3>1. StopTriggers => net' = 0
      BY DEF StopTriggers
    <3>2. 0 - 0 = 0
      OBVIOUS
    <3>. QED
      BY <3>1, <3>2 DEF Signed
  <2>5. \/ UNCHANGED net \/ StopTriggers \/ \E i \in Orders : Fills(i)
    BY <1>6 DEF exposureVars, Next, Handler, Closing, Main,
     OnFilled, AnswerPositions, UpdateFromRest, RebuildFirst, DoesNotReplenish,
     HandlerFails, OnUpdate, OnClosed, Sweep, SweepAnswered, EnterCooldown, CooldownEnds,
     Start, StartWithoutGrid, Crash, Rests, Refused
  <2>6. UNCHANGED net => Signed(s)' = Signed(s)
    BY DEF Signed
  <2>7. Signed(s)' + Cardinality(Resting(s)') <= MaxNet - 1 + count.burst + Room
    BY <1>0, <1>1, <1>2, <1>3, <2>2, <2>3, <2>4, <2>5, <2>6
  <2>. QED
    BY <1>0, <1>1, <1>2, <1>3, <2>2, <2>7
<1>. QED
  BY <1>4, <1>5, <1>6

\* Nothing is under way before the first process starts.
LEMMA CapInit == Init => Cap
<1>. SUFFICES ASSUME Init PROVE Once /\ Aware /\ Capped
  BY DEF Cap
<1>1. Once /\ Aware
  BY DEF Init, Once, Told, FillAt, Aware
<1>2. \A s : Underway(s) = {} /\ Resting(s) = {}
  BY DEF Init, Underway, Resting, Told, FillAt
<1>3. Room = 0 /\ count.burst = 0 /\ \A s : Signed(s) = 0
  <2>1. count.burst = 0 /\ count.crash = 0 /\ phase = "down" /\ net = 0
    BY DEF Init, Kinds
  <2>2. 0 - 0 = 0 /\ Levels * 0 + 0 = 0
    BY ExposureConstants
  <2>. QED
    BY <2>1, <2>2 DEF Room, Signed
<1>4. Cardinality({}) = 0 /\ MaxNet \in Nat \ {0}
  BY ExposureConstants, FS_EmptySet
<1>5. Capped
  BY <1>2, <1>3, <1>4 DEF Capped
<1>. QED
  BY <1>1, <1>5

\* A position is as large as it is in its own direction.
LEMMA CapBoundsExposure == TypeOK /\ Cap => ExposureBounded
<1>. SUFFICES ASSUME TypeOK, Cap PROVE ExposureBounded
  OBVIOUS
<1>1. /\ net \in Int /\ count.burst \in Nat /\ count.crash \in Nat
      /\ Levels \in Nat /\ MaxNet \in Nat \ {0} /\ Levels * count.crash \in Nat
  BY ExposureConstants DEF TypeOK, StateOK, CountOK, Kinds
<1>2. PICK s \in {"BUY", "SELL"} : Signed(s) = Abs(net)
  BY <1>1 DEF Signed, Abs
<1>3. /\ Signed(s) + Cardinality(Resting(s)) <= MaxNet - 1 + count.burst + Room
      /\ Cardinality(Resting(s)) \in Nat
  BY UnderwayCounted DEF Cap, Capped
<1>4. Room <= Levels * count.crash + Levels /\ Room \in Nat /\ Abs(net) \in Nat
  BY <1>1, AbsTyped DEF Room
<1>. QED
  BY <1>1, <1>2, <1>3, <1>4 DEF ExposureBounded

\* For any grid and cap and any number of disturbances: the position never exceeds
\* the cap by more than what the check of a single order cannot see, that is a side
\* of the grid but for one order, the fills of a burst, and the grids of restarts.
THEOREM ExposureStaysBounded == Spec => []ExposureBounded
<1>1. TypeOK /\ Cap /\ [Next]_exposureVars => Cap'
  BY OnceStep, AwareStep, CappedStep DEF Cap
<1>. QED
  BY <1>1, InitTyped, TypeStep, CapInit, CapBoundsExposure, PTL DEF Spec

-----------------------------------------------------------------------------
(* The prices of the levels.                                              *)
(*                                                                         *)
(* Powers are computed one after another, and what holds of them is proved *)
(* by induction, through the least exponent for which it would fail.       *)

\* A set of naturals that is not empty has a least element.
LEMMA Least ==
  ASSUME NEW T \in SUBSET Nat, T # {}
  PROVE  \E n \in T : \A m \in T : n <= m
<1> DEFINE F == {1..n : n \in T}
<1>1. IsWellFoundedOn(StrictSubsetOrdering(Nat), FiniteSubsetsOf(Nat))
  BY FS_StrictSubsetOrderingWellFounded
<1>2. F \subseteq FiniteSubsetsOf(Nat)
  <2> SUFFICES ASSUME NEW n \in T PROVE 1..n \in SUBSET Nat /\ IsFiniteSet(1..n)
    BY DEF FiniteSubsetsOf
  <2> QED BY FS_Interval
<1>3. F # {}
  OBVIOUS
<1> HIDE DEF F
<1>4. PICK X \in F : \A Y \in F : ~(<<Y, X>> \in StrictSubsetOrdering(Nat))
  BY <1>1, <1>2, <1>3, WFMin
<1> USE DEF F
<1>5. PICK n \in T : X = 1..n
  BY <1>4
<1>6. ASSUME NEW m \in T, m < n PROVE FALSE
  <2>1. 1..m \in F /\ 1..m \in SUBSET Nat /\ 1..n \in SUBSET Nat
    OBVIOUS
  <2>2. 1..m \subseteq 1..n /\ 1..m # 1..n
    <3>1. n \in 1..n /\ n \notin 1..m
      BY <1>6
    <3> QED BY <1>6, <3>1
  <2> QED BY <1>4, <1>5, <2>1, <2>2 DEF StrictSubsetOrdering
<1> QED BY <1>5, <1>6

\* A set of naturals with 0 and every successor is all of them, and so is one
\* up to n.
LEMMA Inductive ==
  ASSUME NEW n \in Nat, NEW T, 0 \in T, \A k \in 0..n : k \in T /\ k < n => k + 1 \in T
  PROVE  0..n \subseteq T
<1> SUFFICES ASSUME NEW x \in 0..n, x \notin T PROVE FALSE
  OBVIOUS
<1> DEFINE B == {k \in 0..n : k \notin T}
<1>1. PICK k \in B : \A m \in B : k <= m
  <2>1. B \in SUBSET Nat /\ B # {}
    OBVIOUS
  <2> HIDE DEF B
  <2> QED BY <2>1, Least
<1>2. k # 0 /\ k - 1 \in 0..n
  BY <1>1
<1>3. k - 1 \in T
  BY <1>1, <1>2
<1> QED BY <1>1, <1>2, <1>3

\* The powers of a base up to n, one after another.
Powers(base, n, p) == p[0] = 1 /\ \A i \in 1..n : p[i] = p[i - 1] * base

LEMMA PowersExist ==
  ASSUME NEW n \in Nat, NEW base \in Nat
  PROVE  \E p \in [0..n -> Nat] : Powers(base, n, p)
<1> DEFINE T == {k \in 0..n : \E p \in [0..k -> Nat] : Powers(base, k, p)}
<1>1. 0 \in T
  <2>1. [i \in 0..0 |-> 1] \in [0..0 -> Nat] /\ Powers(base, 0, [i \in 0..0 |-> 1])
    BY DEF Powers
  <2> QED BY <2>1
<1>2. ASSUME NEW k \in 0..n, k \in T, k < n PROVE k + 1 \in T
  <2>1. PICK p \in [0..k -> Nat] : Powers(base, k, p)
    BY <1>2
  <2>2. PICK x \in Nat : x = p[k] * base
    <3>1. p[k] \in Nat
      BY <1>2, <2>1
    <3> QED BY <3>1
  <2> DEFINE q == [i \in 0..k + 1 |-> IF i = k + 1 THEN x ELSE p[i]]
  <2>3. q \in [0..k + 1 -> Nat]
    BY <1>2
  <2>4. q[0] = 1
    BY <2>1, <1>2 DEF Powers
  <2>5. ASSUME NEW i \in 1..k + 1 PROVE q[i] = q[i - 1] * base
    <3>1. CASE i = k + 1
      <4>1. q[i] = x /\ q[i - 1] = p[k]
        BY <1>2, <3>1
      <4> QED BY <4>1, <2>2
    <3>2. CASE i # k + 1
      <4>1. i \in 1..k /\ i - 1 \in 0..k /\ q[i] = p[i] /\ q[i - 1] = p[i - 1]
        BY <1>2, <3>2
      <4> QED BY <2>1, <4>1 DEF Powers
    <3> QED BY <3>1, <3>2
  <2> HIDE DEF q
  <2>6. Powers(base, k + 1, q)
    BY <2>4, <2>5 DEF Powers
  <2> QED BY <1>2, <2>3, <2>6
<1> HIDE DEF T
<1>3. \A j \in 0..n : j \in T /\ j < n => j + 1 \in T
  BY <1>2
<1>4. n \in T
  BY <1>1, <1>3, Inductive
<1> QED BY <1>4 DEF T

\* The power of an exponent does not depend on how far they are computed.
LEMMA PowersUnique ==
  ASSUME NEW m \in Nat, NEW n \in Nat, m <= n, NEW base, NEW p, NEW q,
         Powers(base, m, p), Powers(base, n, q)
  PROVE  p[m] = q[m]
<1> DEFINE T == {k \in 0..m : p[k] = q[k]}
<1>1. 0 \in T
  BY DEF Powers
<1>2. ASSUME NEW k \in 0..m, k \in T, k < m PROVE k + 1 \in T
  <2>1. k + 1 \in 1..m /\ k + 1 \in 1..n /\ (k + 1) - 1 = k
    BY <1>2
  <2>2. p[k + 1] = p[k] * base /\ q[k + 1] = q[k] * base
    BY <2>1 DEF Powers
  <2> QED BY <1>2, <2>1, <2>2
<1> HIDE DEF T
<1>3. \A j \in 0..m : j \in T /\ j < m => j + 1 \in T
  BY <1>2
<1>4. m \in T
  BY <1>1, <1>3, Inductive
<1> QED BY <1>4 DEF T

\* Power is the last of them.
LEMMA PowerIsLast ==
  ASSUME NEW n \in Nat, NEW base \in Nat
  PROVE  \E p \in [0..n -> Nat] : Powers(base, n, p) /\ Power(base, n) = p[n]
<1> DEFINE Is(p) == p = [i \in 0..n |-> IF i = 0 THEN 1 ELSE p[i - 1] * base]
           p0 == CHOOSE p : Is(p)
<1>1. Power(base, n) = p0[n]
  BY DEF Power
<1>2. PICK p1 \in [0..n -> Nat] : Powers(base, n, p1)
  BY PowersExist
<1>3. p1 = [i \in 0..n |-> p1[i]]
  OBVIOUS
<1>4. \A i \in 0..n : p1[i] = IF i = 0 THEN 1 ELSE p1[i - 1] * base
  BY <1>2 DEF Powers
<1>5. Is(p1)
  BY <1>3, <1>4, Zenon
<1> HIDE DEF Is
<1>6. Is(p0)
  BY <1>5, Zenon
<1> HIDE DEF p0
<1>7. p0 = [i \in 0..n |-> IF i = 0 THEN 1 ELSE p0[i - 1] * base]
  BY <1>6 DEF Is
<1>8. Powers(base, n, p0)
  BY <1>7 DEF Powers
<1>9. Power(base, n) = p1[n]
  BY <1>1, <1>2, <1>8, PowersUnique
<1> QED BY <1>2, <1>9

\* The first power is 1, and each is the one before times the base.
LEMMA PowerNext ==
  ASSUME NEW n \in Nat, NEW base \in Nat
  PROVE  /\ Power(base, 0) = 1
         /\ Power(base, n) \in Nat
         /\ Power(base, n + 1) = Power(base, n) * base
<1>1. PICK o \in [0..0 -> Nat] : Powers(base, 0, o) /\ Power(base, 0) = o[0]
  BY PowerIsLast
<1>2. PICK p \in [0..n -> Nat] : Powers(base, n, p) /\ Power(base, n) = p[n]
  BY PowerIsLast
<1>3. PICK q \in [0..n + 1 -> Nat] : Powers(base, n + 1, q) /\ Power(base, n + 1) = q[n + 1]
  <2> n + 1 \in Nat
    OBVIOUS
  <2> QED BY PowerIsLast
<1>4. p[n] = q[n]
  <2> n + 1 \in Nat /\ n <= n + 1
    OBVIOUS
  <2> QED BY <1>2, <1>3, PowersUnique
<1>5. q[n + 1] = q[n] * base
  <2> n + 1 \in 1..n + 1 /\ (n + 1) - 1 = n
    OBVIOUS
  <2> QED BY <1>3 DEF Powers
<1> QED BY <1>1, <1>2, <1>3, <1>4, <1>5 DEF Powers

-----------------------------------------------------------------------------
(* Rounding keeps what is a tick apart.                                    *)

\* Products respect the order of a factor.
LEMMA TimesLarger ==
  ASSUME NEW x \in Int, NEW y \in Int, NEW z \in Nat
  PROVE  /\ x <= y => x * z <= y * z
         /\ x < y /\ z # 0 => x * z < y * z
OBVIOUS

\* Dividing rounds down.
LEMMA DividedDown ==
  ASSUME NEW x \in Int, NEW n \in Nat \ {0}, NEW z \in Int
  PROVE  x \div n \in Int /\ (z * n <= x <=> z <= x \div n)
<1>1. PICK q \in Int, r \in 0..n - 1 : q = x \div n /\ x = n * q + r
  OBVIOUS
<1>2. CASE z <= q
  <2>1. z * n <= q * n
    BY <1>2, TimesLarger
  <2> QED BY <1>1, <1>2, <2>1
<1>3. CASE q + 1 <= z
  <2>1. (q + 1) * n <= z * n
    BY <1>3, TimesLarger
  <2>2. z * n \in Int /\ n * q \in Int /\ (q + 1) * n = n * q + n
    OBVIOUS
  <2> QED BY <1>1, <1>3, <2>1, <2>2
<1> QED BY <1>1, <1>2, <1>3

\* Rounding goes down by less than a tick, and keeps prices in order that are a
\* tick apart.
LEMMA TicksApart ==
  ASSUME NEW x \in Int, NEW y \in Int, NEW tick \in Nat \ {0}
  PROVE  /\ RoundToTickSize(x, tick) \in Int
         /\ RoundToTickSize(x, tick) <= x /\ RoundToTickSize(x, tick) > x - tick
         /\ x >= y + tick => RoundToTickSize(x, tick) > RoundToTickSize(y, tick)
<1>1. PICK q \in Int, r \in 0..tick - 1 : q = x \div tick /\ x = tick * q + r
  OBVIOUS
<1>2. PICK p \in Int, o \in 0..tick - 1 : p = y \div tick /\ y = tick * p + o
  OBVIOUS
<1>3. PICK a \in Int, b \in Int : /\ a = q * tick /\ b = p * tick
                                  /\ a = tick * q /\ b = tick * p
  OBVIOUS
<1>4. RoundToTickSize(x, tick) = a /\ RoundToTickSize(y, tick) = b
  BY <1>1, <1>2, <1>3 DEF RoundToTickSize
<1>5. a <= x /\ a > x - tick /\ b <= y
  BY <1>1, <1>2, <1>3
<1>6. ASSUME x >= y + tick PROVE a > b
  <2>1. (p + 1) * tick <= x
    BY <1>2, <1>3, <1>5, <1>6
  <2>2. p + 1 <= q
    BY <1>1, <2>1, DividedDown
  <2>3. p < q
    BY <2>2
  <2> QED BY <1>3, <2>3, TimesLarger
<1> QED BY <1>4, <1>5, <1>6

-----------------------------------------------------------------------------
(* The levels of a grid are a tick apart when the closest two are.         *)

\* The price of a level of a percentage grid, cut to the unit.
Level(ref, base, i) == (ref * Power(base, i)) \div Power(100, i)

\* Level i and the next one are at least a tick apart.
Spaced(ref, base, spacing, tick, i) ==
  tick * Power(100, i + 1) <= ref * Power(base, i) * spacing

\* A power of 100 can be divided by.
LEMMA HundredsPositive ==
  ASSUME NEW n \in Nat
  PROVE  Power(100, n) \in Nat \ {0}
<1> DEFINE T == {k \in 0..n : Power(100, k) \in Nat \ {0}}
<1>1. 0 \in T
  BY PowerNext
<1>2. ASSUME NEW k \in 0..n, k \in T, k < n PROVE k + 1 \in T
  <2>1. Power(100, k + 1) = Power(100, k) * 100
    BY PowerNext
  <2> QED BY <1>2, <2>1
<1> HIDE DEF T
<1>3. \A j \in 0..n : j \in T /\ j < n => j + 1 \in T
  BY <1>2
<1>4. n \in T
  BY <1>1, <1>3, Inductive
<1> QED BY <1>4 DEF T

\* The amounts that Spaced compares, for a level and the next.
LEMMA SpacedNext ==
  ASSUME NEW ref \in Nat, NEW base \in Nat, NEW spacing \in Nat, NEW tick \in Nat, NEW i \in Nat
  PROVE  \E x, y \in Nat :
           /\ Spaced(ref, base, spacing, tick, i) <=> y <= x
           /\ Spaced(ref, base, spacing, tick, i + 1) <=> y * 100 <= x * base
<1>1. PICK p \in Nat, h \in Nat : p = Power(base, i) /\ h = Power(100, i + 1)
  <2>1. Power(base, i) \in Nat
    BY PowerNext
  <2>2. i + 1 \in Nat
    OBVIOUS
  <2>3. Power(100, i + 1) \in Nat
    BY <2>2, PowerNext
  <2> QED BY <2>1, <2>3
<1>2. Power(base, i + 1) = p * base
  BY <1>1, PowerNext
<1>3. Power(100, i + 1 + 1) = h * 100
  <2> i + 1 \in Nat
    OBVIOUS
  <2> QED BY <1>1, PowerNext
<1>4. PICK x \in Nat, y \in Nat : x = ref * p * spacing /\ y = tick * h
  OBVIOUS
<1>5. ref * (p * base) * spacing = x * base /\ tick * (h * 100) = y * 100
  BY <1>4
<1>6. Spaced(ref, base, spacing, tick, i) <=> y <= x
  BY <1>1, <1>4 DEF Spaced
<1>7. Spaced(ref, base, spacing, tick, i + 1) <=> y * 100 <= x * base
  BY <1>2, <1>3, <1>5 DEF Spaced
<1> QED BY <1>4, <1>6, <1>7

\* Buy levels come closer to each other the deeper they are ...
LEMMA BuySpaced ==
  ASSUME NEW n \in Nat \ {0}, NEW ref \in Nat, NEW spacing \in 1..99, NEW tick \in Nat,
         Spaced(ref, 100 - spacing, spacing, tick, n - 1)
  PROVE  \A i \in 0..n - 1 : Spaced(ref, 100 - spacing, spacing, tick, i)
<1>1. PICK base \in 1..100 : base = 100 - spacing
  OBVIOUS
<1>2. PICK m \in Nat : m = n - 1
  OBVIOUS
<1> DEFINE S(k) == Spaced(ref, base, spacing, tick, k)
           T == {k \in 0..m : S(m - k)}
<1>3. 0 \in T
  BY <1>1, <1>2
<1>4. ASSUME NEW k \in 0..m, k \in T, k < m PROVE k + 1 \in T
  <2>1. PICK i \in Nat : i = m - (k + 1)
    BY <1>4
  <2>2. i + 1 = m - k
    BY <1>4, <2>1
  <2>3. S(i + 1)
    BY <1>4, <2>2
  <2>4. PICK x \in Nat, y \in Nat : (S(i) <=> y <= x) /\ (S(i + 1) <=> y * 100 <= x * base)
    <3> base \in Nat /\ spacing \in Nat
      OBVIOUS
    <3> QED BY SpacedNext
  <2>5. ASSUME x < y PROVE FALSE
    <3>1. x * base < y * base
      BY <2>5, TimesLarger
    <3>2. base * y <= 100 * y
      BY TimesLarger
    <3>3. base * y = y * base /\ x * base \in Int /\ y * base \in Int
      OBVIOUS
    <3> QED BY <2>3, <2>4, <3>1, <3>2, <3>3
  <2>6. S(i)
    BY <2>4, <2>5
  <2>7. S(m - (k + 1)) /\ k + 1 \in 0..m
    BY <1>4, <2>1, <2>6
  <2> QED BY <2>7
<1> SUFFICES ASSUME NEW i \in 0..m PROVE S(i)
  BY <1>1, <1>2
<1>5. \A j \in 0..m : j \in T /\ j < m => j + 1 \in T
  BY <1>4
<1>6. m - i \in 0..m /\ m - (m - i) = i
  OBVIOUS
<1> HIDE DEF S
<1>7. m - i \in T
  <2> HIDE DEF T
  <2> QED BY <1>3, <1>5, <1>6, Inductive
<1> QED BY <1>6, <1>7

\* ... and sell levels move apart.
LEMMA SellSpaced ==
  ASSUME NEW n \in Nat \ {0}, NEW ref \in Nat, NEW spacing \in Nat, NEW tick \in Nat,
         Spaced(ref, 100 + spacing, spacing, tick, 0)
  PROVE  \A i \in 0..n - 1 : Spaced(ref, 100 + spacing, spacing, tick, i)
<1>1. PICK base \in Nat : base = 100 + spacing
  OBVIOUS
<1>2. PICK m \in Nat : m = n - 1
  OBVIOUS
<1> DEFINE S(k) == Spaced(ref, base, spacing, tick, k)
           T == {k \in 0..m : S(k)}
<1>3. 0 \in T
  BY <1>1, <1>2
<1>4. ASSUME NEW k \in 0..m, k \in T, k < m PROVE k + 1 \in T
  <2>1. S(k) /\ k \in Nat
    BY <1>4
  <2>2. PICK x \in Nat, y \in Nat : (S(k) <=> y <= x) /\ (S(k + 1) <=> y * 100 <= x * base)
    BY <2>1, SpacedNext
  <2>3. y * base <= x * base
    BY <2>1, <2>2, TimesLarger
  <2>4. 100 * y <= base * y
    BY <1>1, TimesLarger
  <2>5. base * y = y * base /\ 100 * y = y * 100 /\ x * base \in Int /\ y * base \in Int
    OBVIOUS
  <2>6. S(k + 1)
    BY <2>2, <2>3, <2>4, <2>5
  <2> QED BY <1>4, <2>6
<1> SUFFICES ASSUME NEW i \in 0..m PROVE S(i)
  BY <1>1, <1>2
<1>5. \A j \in 0..m : j \in T /\ j < m => j + 1 \in T
  BY <1>4
<1> HIDE DEF S
<1>6. i \in T
  <2> HIDE DEF T
  <2> QED BY <1>3, <1>5, Inductive
<1> QED BY <1>6

\* Levels that are spaced are a tick apart once they are cut to the unit.
LEMMA NextLevelApart ==
  ASSUME NEW ref \in Nat, NEW base \in Nat, NEW spacing \in Nat, NEW tick \in Nat, NEW i \in Nat,
         Spaced(ref, base, spacing, tick, i)
  PROVE  /\ Level(ref, base, i) \in Int /\ Level(ref, base, i + 1) \in Int
         /\ base + spacing = 100 => Level(ref, base, i) >= Level(ref, base, i + 1) + tick
         /\ base = 100 + spacing => Level(ref, base, i + 1) >= Level(ref, base, i) + tick
<1>1. PICK x \in Nat : x = ref * Power(base, i)
  <2>1. Power(base, i) \in Nat
    BY PowerNext
  <2> QED BY <2>1
<1>2. PICK h \in Nat \ {0} : h = Power(100, i)
  BY HundredsPositive
<1>3. Power(100, i + 1) = h * 100
  BY <1>2, PowerNext
<1>4. ref * Power(base, i + 1) = x * base
  <2>1. PICK p \in Nat : p = Power(base, i)
    BY PowerNext
  <2>2. Power(base, i + 1) = p * base
    BY <2>1, PowerNext
  <2>3. ref * (p * base) = (ref * p) * base
    OBVIOUS
  <2> QED BY <1>1, <2>1, <2>2, <2>3
<1>5. PICK q \in Int, p \in Int : q = x \div h /\ p = (x * base) \div (h * 100)
  <2>1. x * base \in Int /\ h * 100 \in Nat \ {0}
    OBVIOUS
  <2> QED BY <2>1, DividedDown
<1>6. Level(ref, base, i) = q /\ Level(ref, base, i + 1) = p
  BY <1>1, <1>2, <1>3, <1>4, <1>5 DEF Level
<1>7. PICK u \in Nat, v \in Nat : u = x * spacing /\ v = tick * h
  OBVIOUS
<1>8. v * 100 <= u
  BY <1>1, <1>2, <1>3, <1>7 DEF Spaced
<1>9. PICK a \in Int, b \in Int : a = q * h /\ b = p * h
  OBVIOUS
<1>10. a <= x
  BY <1>5, <1>9, DividedDown
<1>11. b * 100 <= x * base
  <2>1. x * base \in Int /\ h * 100 \in Nat \ {0}
    OBVIOUS
  <2>2. p * (h * 100) <= x * base
    BY <1>5, <2>1, DividedDown
  <2>3. p * (h * 100) = (p * h) * 100
    OBVIOUS
  <2> QED BY <1>9, <2>2, <2>3
<1>12. ASSUME base + spacing = 100 PROVE q >= p + tick
  <2>1. x * base = x * 100 - u
    <3>1. x * base + x * spacing = x * 100
      BY <1>12
    <3> QED BY <1>7, <3>1
  <2>2. b + v <= x
    BY <1>8, <1>11, <2>1
  <2>3. (p + tick) * h = b + v /\ p + tick \in Int
    BY <1>7, <1>9
  <2>4. p + tick <= x \div h
    <3>1. (p + tick) * h <= x /\ x \in Int
      BY <2>2, <2>3
    <3>2. p + tick \in Int
      OBVIOUS
    <3> QED BY <3>1, <3>2, DividedDown
  <2> QED BY <1>5, <2>4
<1>13. ASSUME base = 100 + spacing PROVE p >= q + tick
  <2>1. x * base = x * 100 + u
    BY <1>7, <1>13
  <2>2. (q + tick) * (h * 100) = (a + v) * 100
    <3>1. (q + tick) * h = a + v
      BY <1>7, <1>9
    <3>2. (q + tick) * (h * 100) = ((q + tick) * h) * 100
      OBVIOUS
    <3> QED BY <3>1, <3>2
  <2>3. (q + tick) * (h * 100) <= x * base
    BY <1>8, <1>10, <2>1, <2>2
  <2>4. x * base \in Int /\ h * 100 \in Nat \ {0} /\ q + tick \in Int
    OBVIOUS
  <2> QED BY <1>5, <2>3, <2>4, DividedDown
<1> QED BY <1>6, <1>12, <1>13

\* The price of a level before it is rounded to a tick.
Unrounded(s, ref, spacing, mode, i) ==
  IF s = "BUY" THEN IF mode = "percent" THEN Level(ref, 100 - spacing, i) ELSE ref - spacing * i
               ELSE IF mode = "percent" THEN Level(ref, 100 + spacing, i) ELSE ref + spacing * i

\* Each level lies a tick further from the reference than the one before.
LEMMA LevelsStepApart ==
  ASSUME NEW s \in Sides, NEW ref \in Nat, NEW spacing \in Nat \ {0}, NEW mode \in Modes,
         NEW tick \in Nat, NEW n \in Nat \ {0},
         mode = "percent" => spacing < 100,
         Closest(ref, spacing, mode, n) >= tick
  PROVE  /\ Unrounded(s, ref, spacing, mode, 0) = ref
         /\ \A i \in 0..n - 1 :
              /\ Unrounded(s, ref, spacing, mode, i) \in Int
              /\ Unrounded(s, ref, spacing, mode, i + 1) \in Int
              /\ s = "BUY" => Unrounded(s, ref, spacing, mode, i)
                                >= Unrounded(s, ref, spacing, mode, i + 1) + tick
              /\ s # "BUY" => Unrounded(s, ref, spacing, mode, i + 1)
                                >= Unrounded(s, ref, spacing, mode, i) + tick
<1>1. CASE mode = "absolute"
  <2>1. spacing >= tick
    BY <1>1 DEF Closest
  <2>2. ASSUME NEW i \in 0..n - 1
        PROVE  /\ ref - spacing * i \in Int /\ ref - spacing * (i + 1) \in Int
               /\ ref + spacing * i \in Int /\ ref + spacing * (i + 1) \in Int
               /\ ref - spacing * i >= ref - spacing * (i + 1) + tick
               /\ ref + spacing * (i + 1) >= ref + spacing * i + tick
    <3>1. PICK a \in Int : a = spacing * i
      OBVIOUS
    <3>2. spacing * (i + 1) = a + spacing
      BY <3>1
    <3> QED BY <2>1, <3>1, <3>2
  <2>3. ref - spacing * 0 = ref /\ ref + spacing * 0 = ref
    OBVIOUS
  <2> QED BY <1>1, <2>2, <2>3 DEF Unrounded
<1>2. CASE mode = "percent"
  <2>1. spacing \in 1..99
    BY <1>2
  <2>2. PICK buy \in Nat, sell \in Nat : buy = 100 - spacing /\ sell = 100 + spacing
    BY <2>1
  <2>3. PICK m \in Nat : m = n - 1
    OBVIOUS
  <2>4. Spaced(ref, buy, spacing, tick, m)
    <3>1. PICK p \in Nat : p = Power(buy, m)
      BY PowerNext
    <3>2. PICK h \in Nat \ {0} : h = Power(100, n)
      BY HundredsPositive
    <3>3. PICK z \in Int : z = ref * p * spacing
      OBVIOUS
    <3>4. tick <= z \div h
      <4>1. Closest(ref, spacing, mode, n) = z \div h
        BY <1>2, <2>2, <2>3, <3>1, <3>2, <3>3 DEF Closest
      <4> QED BY <4>1
    <3>5. tick * h <= z
      BY <3>3, <3>4, DividedDown
    <3> QED BY <2>3, <3>1, <3>2, <3>3, <3>5 DEF Spaced
  <2>5. \A i \in 0..n - 1 : Spaced(ref, buy, spacing, tick, i)
    BY <2>1, <2>2, <2>3, <2>4, BuySpaced
  <2>6. \A i \in 0..n - 1 : Spaced(ref, sell, spacing, tick, i)
    <3>1. Spaced(ref, buy, spacing, tick, 0)
      BY <2>5
    <3>2. Power(buy, 0) = 1 /\ Power(sell, 0) = 1
      <4> 0 \in Nat
        OBVIOUS
      <4> QED BY PowerNext
    <3>3. Spaced(ref, sell, spacing, tick, 0)
      BY <3>1, <3>2 DEF Spaced
    <3> QED BY <2>2, <3>3, SellSpaced
  <2>7. ASSUME NEW i \in 0..n - 1
        PROVE  /\ Level(ref, buy, i) \in Int /\ Level(ref, buy, i + 1) \in Int
               /\ Level(ref, buy, i) >= Level(ref, buy, i + 1) + tick
    BY <2>2, <2>5, NextLevelApart
  <2>8. ASSUME NEW i \in 0..n - 1
        PROVE  /\ Level(ref, sell, i) \in Int /\ Level(ref, sell, i + 1) \in Int
               /\ Level(ref, sell, i + 1) >= Level(ref, sell, i) + tick
    BY <2>2, <2>6, NextLevelApart
  <2>9. Level(ref, buy, 0) = ref /\ Level(ref, sell, 0) = ref
    <3>1. Power(buy, 0) = 1 /\ Power(sell, 0) = 1 /\ Power(100, 0) = 1
      <4> 0 \in Nat /\ 100 \in Nat
        OBVIOUS
      <4> QED BY PowerNext
    <3>2. (ref * 1) \div 1 = ref
      OBVIOUS
    <3> QED BY <3>1, <3>2 DEF Level
  <2> QED BY <1>2, <2>2, <2>7, <2>8, <2>9 DEF Unrounded
<1> QED BY <1>1, <1>2 DEF Modes

\* What grows by a tick from each value to the next grows by one between any two.
LEMMA GrowsBetween ==
  ASSUME NEW n \in Nat, NEW e \in [0..n -> Int], NEW tick \in Nat,
         \A i \in 0..n : i < n => e[i + 1] >= e[i] + tick
  PROVE  \A j \in 0..n : \A i \in 0..n : i < j => e[j] >= e[i] + tick
<1> DEFINE T == {k \in 0..n : \A i \in 0..n : i < k => e[k] >= e[i] + tick}
<1>1. 0 \in T
  OBVIOUS
<1>2. ASSUME NEW k \in 0..n, k \in T, k < n PROVE k + 1 \in T
  <2>1. e[k + 1] >= e[k] + tick /\ e[k + 1] \in Int /\ e[k] \in Int /\ k + 1 \in 0..n
    BY <1>2
  <2>2. ASSUME NEW i \in 0..n, i < k + 1 PROVE e[k + 1] >= e[i] + tick
    <3>1. CASE i = k
      BY <2>1, <3>1
    <3>2. CASE i < k
      <4>1. e[k] >= e[i] + tick /\ e[i] \in Int
        BY <1>2, <3>2
      <4> QED BY <2>1, <4>1
    <3> QED BY <2>2, <3>1, <3>2
  <2> QED BY <2>1, <2>2
<1>3. \A j \in 0..n : j \in T /\ j < n => j + 1 \in T
  BY <1>2
<1>4. 0..n \subseteq T
  <2> HIDE DEF T
  <2> QED BY <1>1, <1>3, Inductive
<1> QED BY <1>4

\* Two levels of a side are a tick apart before they are rounded.
LEMMA UnroundedApart ==
  ASSUME NEW s \in Sides, NEW ref \in Nat, NEW spacing \in Nat \ {0}, NEW mode \in Modes,
         NEW tick \in Nat, NEW n \in Nat \ {0},
         mode = "percent" => spacing < 100,
         Closest(ref, spacing, mode, n) >= tick,
         NEW i \in 0..n, NEW j \in 0..n, i < j
  PROVE  LET a == Unrounded(s, ref, spacing, mode, i)
             b == Unrounded(s, ref, spacing, mode, j)
         IN  /\ a \in Int /\ b \in Int
             /\ s = "BUY" => a >= b + tick
             /\ s # "BUY" => b >= a + tick
<1> DEFINE U(k) == Unrounded(s, ref, spacing, mode, k)
           e == [k \in 0..n |-> IF s = "BUY" THEN -U(k) ELSE U(k)]
<1>1. \A k \in 0..n - 1 : /\ U(k) \in Int /\ U(k + 1) \in Int
                          /\ s = "BUY" => U(k) >= U(k + 1) + tick
                          /\ s # "BUY" => U(k + 1) >= U(k) + tick
  BY LevelsStepApart
<1> HIDE DEF U
<1>2. \A k \in 0..n : U(k) \in Int
  <2>1. ASSUME NEW k \in 0..n PROVE U(k) \in Int
    <3>1. CASE k < n
      BY <1>1, <3>1
    <3>2. CASE k = n
      <4>1. n - 1 \in 0..n - 1 /\ (n - 1) + 1 = n
        OBVIOUS
      <4> QED BY <1>1, <3>2, <4>1
    <3> QED BY <3>1, <3>2
  <2> QED BY <2>1
<1>3. e \in [0..n -> Int]
  BY <1>2
<1>4. \A k \in 0..n : k < n => e[k + 1] >= e[k] + tick
  <2>1. ASSUME NEW k \in 0..n, k < n PROVE e[k + 1] >= e[k] + tick
    <3>1. k \in 0..n - 1 /\ k + 1 \in 0..n
      BY <2>1
    <3>2. U(k) \in Int /\ U(k + 1) \in Int
      BY <1>1, <3>1
    <3>3. CASE s = "BUY"
      BY <1>1, <3>1, <3>2, <3>3
    <3>4. CASE s # "BUY"
      BY <1>1, <3>1, <3>2, <3>4
    <3> QED BY <3>3, <3>4
  <2> QED BY <2>1
<1>5. e[j] >= e[i] + tick
  <2> HIDE DEF e
  <2> QED BY <1>3, <1>4, GrowsBetween
<1>6. U(i) \in Int /\ U(j) \in Int
  BY <1>2
<1> QED BY <1>5, <1>6 DEF U

\* Rounding does not turn prices round.
LEMMA RoundedInOrder ==
  ASSUME NEW x \in Int, NEW y \in Int, NEW tick \in Nat \ {0}, x >= y
  PROVE  RoundToTickSize(x, tick) >= RoundToTickSize(y, tick)
<1>1. PICK q \in Int, p \in Int : q = x \div tick /\ p = y \div tick
  BY DividedDown
<1>2. PICK b \in Int : b = p * tick
  OBVIOUS
<1>3. b <= y
  BY <1>1, <1>2, DividedDown
<1>4. p <= q
  BY <1>1, <1>2, <1>3, DividedDown
<1>5. p * tick <= q * tick
  BY <1>4, TimesLarger
<1> QED BY <1>1, <1>5 DEF RoundToTickSize

\* No level is further from the reference than the next.
LEMMA ClosestCounts ==
  ASSUME NEW ref \in Nat, NEW spacing \in Nat \ {0}, NEW mode \in Modes, NEW n \in Nat \ {0},
         mode = "percent" => spacing < 100
  PROVE  Closest(ref, spacing, mode, n) \in Int /\ Closest(ref, spacing, mode, n) >= 0
<1>1. CASE mode = "percent"
  <2>1. PICK base \in Nat, m \in Nat : base = 100 - spacing /\ m = n - 1
    BY <1>1
  <2>2. PICK p \in Nat : p = Power(base, m)
    BY PowerNext
  <2>3. PICK h \in Nat \ {0} : h = Power(100, n)
    BY HundredsPositive
  <2>4. PICK z \in Nat : z = ref * p * spacing
    OBVIOUS
  <2>5. z \div h \in Int /\ (0 * h <= z <=> 0 <= z \div h)
    BY DividedDown
  <2>6. Closest(ref, spacing, mode, n) = z \div h
    BY <1>1, <2>1, <2>2, <2>3, <2>4 DEF Closest
  <2> QED BY <2>5, <2>6
<1>2. CASE mode # "percent"
  BY <1>2 DEF Closest
<1> QED BY <1>1, <1>2

\* Rounding keeps the levels of a side in order, and apart and on their side of
\* the reference where they are a tick apart, for every reference, spacing and tick.
LEMMA PricesInOrder ==
  ASSUME NEW s \in Sides, NEW ref \in Nat, NEW spacing \in Nat \ {0}, NEW mode \in Modes,
         NEW tick \in Nat \ {0}, NEW i \in Nat, NEW j \in Nat \ {0}, i < j,
         mode = "percent" => spacing < 100
  PROVE  LET far == Price(s, ref, spacing, mode, j, tick)
             near == IF i = 0 THEN ref ELSE Price(s, ref, spacing, mode, i, tick)
         IN  /\ i # 0 => ~Deeper(s, near, far)
             /\ Closest(ref, spacing, mode, j) >= tick => Deeper(s, far, near)
<1> DEFINE a == Unrounded(s, ref, spacing, mode, i)
           b == Unrounded(s, ref, spacing, mode, j)
<1>1. /\ a \in Int /\ b \in Int
      /\ s = "BUY" => a >= b
      /\ s # "BUY" => b >= a
  <2>1. 0 \in Nat /\ i \in 0..j /\ j \in 0..j /\ Closest(ref, spacing, mode, j) >= 0
    BY ClosestCounts
  <2>2. /\ a \in Int /\ b \in Int
        /\ s = "BUY" => a >= b + 0
        /\ s # "BUY" => b >= a + 0
    BY <2>1, UnroundedApart
  <2> HIDE DEF a, b
  <2> QED BY <2>2
<1>2. Closest(ref, spacing, mode, j) >= tick =>
        /\ s = "BUY" => a >= b + tick
        /\ s # "BUY" => b >= a + tick
  <2>1. i \in 0..j /\ j \in 0..j /\ tick \in Nat
    OBVIOUS
  <2> QED BY <2>1, UnroundedApart
<1>3. /\ Price(s, ref, spacing, mode, i, tick) = RoundToTickSize(a, tick)
      /\ Price(s, ref, spacing, mode, j, tick) = RoundToTickSize(b, tick)
  BY DEF Price, BuyLevelPrice, SellLevelPrice, PercentPrice, Unrounded, Level
<1>4. i = 0 => a = ref
  <2>1. Closest(ref, spacing, mode, j) >= 0 /\ 0 \in Nat
    BY ClosestCounts
  <2> QED BY <2>1, LevelsStepApart
<1> HIDE DEF a, b
<1>5. PICK p \in Int, q \in Int : p = RoundToTickSize(a, tick) /\ q = RoundToTickSize(b, tick)
  BY <1>1, TicksApart
<1>6. p <= a /\ q <= b /\ q > b - tick
  BY <1>1, <1>5, TicksApart
<1>7. (a >= b => p >= q) /\ (b >= a => q >= p)
  BY <1>1, <1>5, RoundedInOrder
<1>8. (a >= b + tick => p > q) /\ (b >= a + tick => q > p)
  BY <1>1, <1>5, TicksApart
<1>9. ~Deeper(s, p, q)
  BY <1>1, <1>7 DEF Deeper
<1>10. Closest(ref, spacing, mode, j) >= tick => Deeper(s, q, p) /\ Deeper(s, q, a)
  BY <1>1, <1>2, <1>6, <1>8 DEF Deeper
<1> QED BY <1>3, <1>4, <1>5, <1>9, <1>10

-----------------------------------------------------------------------------
(* The levels placed.                                                      *)

\* An order that was sent is on a level of the grid.
OnALevel == \A i \in Orders : order[i] # "none" => plan[i].level # 0

\* Orders sent for levels are on them.
LEMMA SendOnALevel ==
  ASSUME TypeOK, OnALevel, NEW S \in SUBSET Orders, NEW p, \A i \in S : p[i].level # 0,
         Send(S, p)
  PROVE  OnALevel'
BY DEF OnALevel, Send

LEMMA OnALevelStep == TypeOK /\ OnALevel /\ [Next]_exposureVars => OnALevel'
<1> SUFFICES ASSUME TypeOK, OnALevel, [Next]_exposureVars PROVE OnALevel'
  OBVIOUS
<1>0. StateOK
  BY DEF TypeOK
<1>1. ASSUME NEW i \in Orders, Replenish(i) PROVE OnALevel'
  <2>1. PICK S \in SUBSET Orders :
          Send(S, [j \in S |-> [side |-> plan[i].side, level |-> NextLevel(i)]])
    BY <1>1 DEF Replenish
  <2>2. NextLevel(i) # 0
    <3>1. Counted(i) \subseteq Orders
      BY <1>0 DEF Counted, ActiveOn, StateOK
    <3>2. Cardinality(Counted(i)) \in Nat
      BY <3>1, ExposureConstants, FS_Subset, FS_CardinalityType
    <3> QED BY <3>2 DEF NextLevel
  <2> QED BY <2>1, <2>2, SendOnALevel
<1>2. CASE PlaceGrid
  <2>0. PICK S \in SUBSET Orders :
          \E p \in [S -> [side : MissingSides, level : 1..Levels]] : Send(S, p)
    BY <1>2 DEF PlaceGrid
  <2>1. PICK p \in [S -> [side : MissingSides, level : 1..Levels]] : Send(S, p)
    BY <2>0
  <2>2. \A i \in S : p[i].level \in 1..Levels
    BY <2>1
  <2>3. \A i \in S : p[i].level # 0
    BY <2>2, ExposureConstants
  <2> QED BY <2>1, <2>3, SendOnALevel
<1>3. CASE Start
  BY <1>3 DEF Start, OnALevel
<1>4. ASSUME plan' = plan, \A i \in Orders : order'[i] = "none" <=> order[i] = "none"
      PROVE  OnALevel'
  BY <1>4 DEF OnALevel
<1>5. ASSUME NEW i \in Orders, Rests(i) \/ Refused(i) \/ Fills(i) PROVE OnALevel'
  <2>1. plan' = plan
    BY <1>5 DEF Rests, Refused, Fills
  <2>2. \A j \in Orders : order'[j] = "none" <=> order[j] = "none"
    BY <1>0, <1>5 DEF Rests, Refused, Fills, StateOK
  <2> QED BY <1>4, <2>1, <2>2
<1>6. CASE Sweep
  <2>1. plan' = plan
    BY <1>6 DEF Sweep
  <2>2. \A j \in Orders : order'[j] = "none" <=> order[j] = "none"
    BY <1>6 DEF Sweep
  <2> QED BY <1>4, <2>1, <2>2
<1>7. CASE SweepAnswered
  BY <1>4, <1>7 DEF SweepAnswered
<1>8. ASSUME UNCHANGED <<order, plan>> PROVE OnALevel'
  BY <1>4, <1>8
<1>9. ASSUME NEW i \in Orders,
             \/ OnFilled(i) \/ AnswerPositions(i) \/ UpdateFromRest(i)
             \/ RebuildFirst(i) \/ DoesNotReplenish(i) \/ HandlerFails(i)
      PROVE  UNCHANGED <<order, plan>>
  BY <1>9 DEF orderPart, OnFilled, AnswerPositions, UpdateFromRest, RebuildFirst,
    DoesNotReplenish, HandlerFails
<1>10. \/ OnUpdate \/ OnClosed \/ EnterCooldown \/ CooldownEnds \/ StartWithoutGrid
       \/ StopTriggers \/ Crash \/ UNCHANGED exposureVars
       => UNCHANGED <<order, plan>>
  BY DEF exposureVars, orderPart, OnUpdate, OnClosed, EnterCooldown, CooldownEnds,
    StartWithoutGrid, StopTriggers, Crash
<1> QED BY <1>1, <1>2, <1>3, <1>5, <1>6, <1>7, <1>8, <1>9, <1>10
        DEF Next, Handler, Closing, Main

\* The prices of levels of a side are in order.
LEMMA LevelsInOrder ==
  ASSUME NEW s \in Sides, NEW i \in 0..Deepest, NEW j \in 1..Deepest, i < j
  PROVE  InOrder[s][i][j]
<1> DEFINE P(mode, ref, spacing, tick) ==
             LET far == Price(s, ref, spacing, mode, j, tick)
                 near == IF i = 0 THEN ref ELSE Price(s, ref, spacing, mode, i, tick)
             IN  (mode = "percent" => spacing < 100)
                   => /\ i # 0 => ~Deeper(s, near, far)
                      /\ Closest(ref, spacing, mode, j) >= tick => Deeper(s, far, near)
           F == \A mode \in Modes, ref \in Prices, spacing \in Spacings, tick \in Ticks :
                  P(mode, ref, spacing, tick)
<1>1. ASSUME NEW mode \in Modes, NEW ref \in Prices, NEW spacing \in Spacings, NEW tick \in Ticks
      PROVE  P(mode, ref, spacing, tick)
  <2>1. /\ ref \in Nat /\ spacing \in Nat \ {0} /\ tick \in Nat \ {0}
        /\ i \in Nat /\ j \in Nat \ {0}
    BY PriceConstants
  <2>2. CASE mode = "percent" => spacing < 100
    BY <2>1, <2>2, PricesInOrder
  <2> QED BY <2>2
<1>2. F
  <2> HIDE DEF P
  <2> QED BY <1>1
<1>3. InOrder[s][i][j] = F
  BY Zenon DEF InOrder
<1> QED BY <1>2, <1>3, Zenon

\* What a step sends is in order.
LEMMA SentInOrder == TypeOK' /\ OnALevel' =>
  \A i \in Orders : Starts(i) /\ plan'[i].level <= Deepest =>
    /\ InOrder[plan'[i].side][0][plan'[i].level]
    /\ \A j \in Orders :
         Starts(j) /\ plan'[i].side = plan'[j].side /\ plan'[j].level \in plan'[i].level + 1..Deepest
           => InOrder[plan'[i].side][plan'[i].level][plan'[j].level]
<1> SUFFICES ASSUME TypeOK', OnALevel', NEW i \in Orders, Starts(i), plan'[i].level <= Deepest
    PROVE  /\ InOrder[plan'[i].side][0][plan'[i].level]
           /\ \A j \in Orders :
                Starts(j) /\ plan'[i].side = plan'[j].side
                          /\ plan'[j].level \in plan'[i].level + 1..Deepest
                  => InOrder[plan'[i].side][plan'[i].level][plan'[j].level]
  OBVIOUS
<1>1. plan'[i].side \in Sides /\ plan'[i].level \in Nat \ {0}
  BY DEF TypeOK, StateOK, Plans, OnALevel, Starts
<1>2. PICK s \in Sides, n \in 1..Deepest : s = plan'[i].side /\ n = plan'[i].level
  BY <1>1, PriceConstants
<1>3. InOrder[s][0][n]
  <2>1. 0 \in 0..Deepest /\ 0 < n
    BY PriceConstants
  <2> QED BY <2>1, LevelsInOrder
<1>4. ASSUME NEW j \in Orders, plan'[j].level \in n + 1..Deepest
      PROVE  InOrder[s][n][plan'[j].level]
  <2>1. PICK m \in 1..Deepest : m = plan'[j].level /\ n < m
    BY <1>4, PriceConstants
  <2>2. n \in 0..Deepest
    BY PriceConstants
  <2> QED BY <2>1, <2>2, LevelsInOrder
<1> QED BY <1>2, <1>3, <1>4

\* For any grid, references, spacings and ticks: rounding down to ticks does not
\* turn round what the bot sends at one moment, and keeps it apart and on its side
\* of the reference where the levels are a tick apart before.
THEOREM LevelsStayApart == Spec => LevelsApart
<1>1. Init => OnALevel
  BY DEF Init, OnALevel
<1>2. TypeOK /\ OnALevel /\ [Next]_exposureVars =>
        [\A i \in Orders : Starts(i) /\ plan'[i].level <= Deepest =>
           /\ InOrder[plan'[i].side][0][plan'[i].level]
           /\ \A j \in Orders :
                Starts(j) /\ plan'[i].side = plan'[j].side
                          /\ plan'[j].level \in plan'[i].level + 1..Deepest
                  => InOrder[plan'[i].side][plan'[i].level][plan'[j].level]]_exposureVars
  BY SentInOrder, OnALevelStep, TypeStep
<1> QED BY <1>1, <1>2, OnALevelStep, InitTyped, TypeStep, PTL DEF Spec, LevelsApart

================================================================================
