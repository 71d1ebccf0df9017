--------------------------- MODULE SpotFunds_proofs ---------------------------
(***************************************************************************)
(* The cache of InventoryClient is truthful, and the sales of the          *)
(* QuoteHealer are bounded, for any number of pairs, any balances and any  *)
(* interleaving of their tasks.                                            *)
(***************************************************************************)
EXTENDS SpotFunds, TLAPS, FiniteSetTheorems, SequenceTheorems

\* What the state is made of, as far as the cache is concerned: amounts do not
\* matter, only whose they are.
Shape ==
  /\ funds = [s \in Subs |-> funds[s]]
  /\ excused = [s \in Subs |-> excused[s]]
  /\ task = [p \in Bases |-> task[p]]
  /\ \A p \in Bases : {"at", "sub"} \subseteq DOMAIN task[p]
  /\ cache = [s \in Subs |-> [funds |-> cache[s].funds, fresh |-> cache[s].fresh]]
  /\ way = [p \in Bases |-> [funds |-> way[p].funds, here |-> way[p].here, good |-> way[p].good]]

\* An answer is on its way to a task that reads balances and to no other.
Awaited == \A p \in Bases : way[p].here => At(p) \in Forced \cup Cached

Inv == enabled \subseteq Bases /\ Shape /\ Awaited /\ CacheTruthful

\* Whatever a task makes of balances, it is somewhere afterwards.
LEMMA MovingPlaced ==
  ASSUME NEW p, NEW t, {"at", "sub"} \subseteq DOMAIN t, NEW u \in Moving(p, t)
  PROVE  {"at", "sub"} \subseteq DOMAIN u
BY DEF Moving, React, Done, Idle

\* The same once both subaccounts are weighed.
LEMMA WeighedPlaced ==
  ASSUME NEW p, NEW t, NEW a, NEW b, {"at", "sub"} \subseteq DOMAIN t, NEW u \in Weighed(p, t, a, b)
  PROVE  {"at", "sub"} \subseteq DOMAIN u
<1> DEFINE moved == [t EXCEPT !.held = 0, !.orders = @ \o Transfers(t.cur, a, b)]
<1>1. {"at", "sub"} \subseteq DOMAIN moved
  OBVIOUS
<1>2. \A v \in Moving(p, moved) : {"at", "sub"} \subseteq DOMAIN v
  BY <1>1, MovingPlaced
<1>3. {"at", "sub"} \subseteq DOMAIN [moved EXCEPT !.sub = "A", !.cur = Quote]
  BY <1>1
<1>4. {"at", "sub"} \subseteq DOMAIN [Idle(t.short) EXCEPT !.at = "surplus"] /\ \A v \in Done(t) : {"at", "sub"} \subseteq DOMAIN v
  BY DEF Idle, Done
<1>5. \/ u \in Moving(p, moved) \/ u = [moved EXCEPT !.sub = "A", !.cur = Quote]
      \/ u = [Idle(t.short) EXCEPT !.at = "surplus"] \/ u \in Done(t)
  <2> HIDE DEF moved
  <2> QED BY Zenon DEF Weighed, moved
<1> QED BY <1>2, <1>3, <1>4, <1>5

\* The same of the weighing.
LEMMA WeighPlaced ==
  ASSUME NEW p, NEW t, NEW f, {"at", "sub"} \subseteq DOMAIN t, NEW u \in Weigh(p, t, f)
  PROVE  {"at", "sub"} \subseteq DOMAIN u
BY WeighedPlaced DEF Weigh

\* The same of every reading.
LEMMA ProceedPlaced ==
  ASSUME NEW p, NEW t, NEW f, {"at", "sub"} \subseteq DOMAIN t, t.at \in Forced \cup Cached,
         NEW u \in Proceed(p, t, f)
  PROVE  {"at", "sub"} \subseteq DOMAIN u
<1>1. CASE t.at = "weigh"
  BY <1>1, WeighPlaced DEF Proceed
<1>2. CASE t.at = "seller"
  BY <1>2 DEF Proceed, Seller
<1>3. CASE t.at = "buyer"
  <2>1. u \in Buyer(p, t, f)
    BY <1>3 DEF Proceed
  <2>2. \A c : \A v \in Failed(t, c) : {"at", "sub"} \subseteq DOMAIN v
    BY DEF Failed
  <2>3. u = [t EXCEPT !.at = "trade"] \/ \E c : u \in Failed(t, c)
    BY <2>1, Zenon DEF Buyer
  <2> QED BY <2>2, <2>3
<1>4. CASE t.at \in {"look", "judge", "need", "again"}
  BY <1>4 DEF Proceed, Look, Judge, Need, Again, NextSub, Idle
<1>5. CASE t.at = "value"
  BY <1>5 DEF Proceed, Value, NextSub, Idle
<1>6. CASE t.at = "surplus"
  <2>1. u \in Surplus(p, t, f)
    BY <1>6 DEF Proceed
  <2>2. \/ u = [t EXCEPT !.at = "buy", !.orders = <<[cur |-> p, from |-> t.sub, amount |-> Spend(p, f)]>>]
        \/ u \in NextBuy(t)
    BY <2>1, Zenon DEF Surplus
  <2>3. {"at", "sub"} \subseteq DOMAIN Idle(t.short)
    BY DEF Idle
  <2>4. \A o : {"at", "sub"} \subseteq DOMAIN [t EXCEPT !.at = "buy", !.orders = o]
    OBVIOUS
  <2>5. {"at", "sub"} \subseteq DOMAIN [t EXCEPT !.at = "surplus", !.sub = "B", !.orders = <<>>]
    OBVIOUS
  <2>6. \A v \in NextBuy(t) : {"at", "sub"} \subseteq DOMAIN v
    BY <2>3, <2>5, Zenon DEF NextBuy, Done
  <2> QED BY <2>2, <2>4, <2>6
<1> QED BY <1>1, <1>2, <1>3, <1>4, <1>5, <1>6 DEF Forced, Cached

-----------------------------------------------------------------------------
(* Where tasks are does not depend on the others.                          *)

\* A task that moves on leaves the other tasks where they are.
LEMMA OthersStay ==
  ASSUME Shape, NEW p \in Bases, NEW ts, Now(p, ts), \A t \in ts : {"at", "sub"} \subseteq DOMAIN t
  PROVE  /\ task' = [q \in Bases |-> task'[q]]
         /\ \A q \in Bases : {"at", "sub"} \subseteq DOMAIN task'[q]
         /\ \A q \in Bases : q # p => task'[q] = task[q]
         /\ task'[p] \in ts
BY DEF Now, Shape

\* Dropping entries leaves nothing that is fresh and wrong.
LEMMA DroppedShape ==
  ASSUME Shape, NEW S, Invalidated(S)
  PROVE  /\ cache' = [s \in Subs |-> [funds |-> cache'[s].funds, fresh |-> cache'[s].fresh]]
         /\ excused' = [s \in Subs |-> excused'[s]]
         /\ \A s \in S \cap Subs : ~cache'[s].fresh /\ ~excused'[s]
         /\ \A s \in Subs \ S : cache'[s] = cache[s] /\ excused'[s] = excused[s]
<1>1. /\ cache' = [s \in Subs |-> IF s \in S THEN [funds |-> Zero, fresh |-> FALSE] ELSE cache[s]]
      /\ excused' = [s \in Subs |-> IF s \in S THEN FALSE ELSE excused[s]]
  BY DEF Invalidated, NoEntry
<1>2. \A s \in Subs : cache'[s] = [funds |-> cache'[s].funds, fresh |-> cache'[s].fresh]
  BY <1>1 DEF Shape
<1> QED BY <1>1, <1>2

\* A task moves and nothing else does.
LEMMA QuietStep ==
  ASSUME Inv, NEW p \in Bases, NEW ts, Quiet, Now(p, ts), UNCHANGED enabled,
         \A t \in ts : {"at", "sub"} \subseteq DOMAIN t, ~way[p].here, At(p) \notin {"settle", "refused"}
  PROVE  Inv'
<1>1. /\ task' = [q \in Bases |-> task'[q]] /\ \A q \in Bases : {"at", "sub"} \subseteq DOMAIN task'[q]
      /\ \A q \in Bases : q # p => task'[q] = task[q]
  BY OthersStay DEF Inv
<1>2. Shape'
  BY <1>1 DEF Inv, Shape, Quiet
<1>3. Awaited'
  BY <1>1 DEF Inv, Awaited, At, Quiet
<1>4. CacheTruthful'
  BY <1>1 DEF Inv, CacheTruthful, Closing, At, Quiet
<1> QED BY <1>2, <1>3, <1>4 DEF Inv

\* A task drops the entries of the subaccounts whose balances its order changed.
LEMMA DroppingStep ==
  ASSUME Inv, NEW p \in Bases, NEW ts, Now(p, ts), UNCHANGED <<enabled, way>>,
         \A t \in ts : {"at", "sub"} \subseteq DOMAIN t, ~way[p].here,
         NEW S, Invalidated(S),
         funds' = [s \in Subs |-> funds'[s]], \A s \in Subs \ S : funds'[s] = funds[s],
         At(p) = "settle" => Subs \subseteq S, At(p) = "refused" => task[p].sub \in S
  PROVE  Inv'
<1>1. /\ task' = [q \in Bases |-> task'[q]] /\ \A q \in Bases : {"at", "sub"} \subseteq DOMAIN task'[q]
      /\ \A q \in Bases : q # p => task'[q] = task[q]
  BY OthersStay DEF Inv
<1>2. /\ cache' = [s \in Subs |-> [funds |-> cache'[s].funds, fresh |-> cache'[s].fresh]]
      /\ excused' = [s \in Subs |-> excused'[s]]
      /\ \A s \in S \cap Subs : ~cache'[s].fresh
      /\ \A s \in Subs \ S : cache'[s] = cache[s] /\ excused'[s] = excused[s]
  BY DroppedShape DEF Inv
<1>3. Shape'
  BY <1>1, <1>2 DEF Inv, Shape
<1>4. Awaited'
  BY <1>1 DEF Inv, Awaited, At
<1>5. CacheTruthful'
  BY <1>1, <1>2 DEF Inv, CacheTruthful, Closing, At
<1> QED BY <1>3, <1>4, <1>5 DEF Inv

\* An order was carried out and the task does not know: both subaccounts are
\* excused.
LEMMA ExcusedStep ==
  ASSUME Inv, NEW p \in Bases, NEW ts, Now(p, ts), UNCHANGED <<enabled, way, cache>>,
         \A t \in ts : {"at", "sub"} \subseteq DOMAIN t, ~way[p].here,
         funds' = [s \in Subs |-> funds'[s]], excused' = [s \in Subs |-> TRUE]
  PROVE  Inv'
<1>1. /\ task' = [q \in Bases |-> task'[q]] /\ \A q \in Bases : {"at", "sub"} \subseteq DOMAIN task'[q]
      /\ \A q \in Bases : q # p => task'[q] = task[q]
  BY OthersStay DEF Inv
<1>2. Shape'
  BY <1>1 DEF Inv, Shape
<1>3. Awaited'
  BY <1>1 DEF Inv, Awaited, At
<1>4. CacheTruthful'
  BY DEF CacheTruthful
<1> QED BY <1>2, <1>3, <1>4 DEF Inv

\* What a task decides on after an order has a place.
LEMMA AfterwardsPlaced ==
  ASSUME NEW t, {"at", "sub"} \subseteq DOMAIN t
  PROVE  \A u \in Done(t) \cup NextSub(t) \cup NextBuy(t) : {"at", "sub"} \subseteq DOMAIN u
<1>1. {"at", "sub"} \subseteq DOMAIN Idle(t.short)
  BY DEF Idle
<1>2. \A u \in Done(t) : {"at", "sub"} \subseteq DOMAIN u
  BY <1>1 DEF Done
<1>3. \A u \in NextSub(t) : {"at", "sub"} \subseteq DOMAIN u
  BY <1>1, Zenon DEF NextSub
<1>4. {"at", "sub"} \subseteq DOMAIN [t EXCEPT !.at = "surplus", !.sub = "B", !.orders = <<>>]
  OBVIOUS
<1>5. \A u \in NextBuy(t) : {"at", "sub"} \subseteq DOMAIN u
  BY <1>2, <1>4, Zenon DEF NextBuy
<1> QED BY <1>2, <1>3, <1>5

-----------------------------------------------------------------------------
(* Every step keeps the invariant.                                         *)

\* Nobody waits for an answer who does not read balances.
LEMMA NotAwaited ==
  ASSUME Inv, NEW p \in Bases, At(p) \notin Forced \cup Cached
  PROVE  ~way[p].here
BY DEF Inv, Awaited

\* A cycle begins.
LEMMA BeginsKeeps == \A p \in Bases : Inv /\ UNCHANGED enabled /\ (StartCycle(p) \/ NoRoom(p)) => Inv'
<1> SUFFICES ASSUME NEW p \in Bases, Inv, UNCHANGED enabled, StartCycle(p) \/ NoRoom(p) PROVE Inv'
  OBVIOUS
<1>1. ~way[p].here
  BY NotAwaited DEF StartCycle, NoRoom, Begins, Forced, Cached
<1>2. {"at", "sub"} \subseteq DOMAIN task[p]
  BY DEF Inv, Shape
<1>3. CASE StartCycle(p)
  <2>1. PICK s \in Subs : Now(p, {[task[p] EXCEPT !.at = "seller", !.sub = s]})
    BY <1>3 DEF StartCycle
  <2>2. PICK ts : ts = {[task[p] EXCEPT !.at = "seller", !.sub = s]}
    OBVIOUS
  <2>3. Now(p, ts) /\ \A t \in ts : {"at", "sub"} \subseteq DOMAIN t
    BY <1>2, <2>1, <2>2
  <2>4. Quiet /\ At(p) \notin {"settle", "refused"}
    BY <1>3 DEF StartCycle, Begins
  <2> QED BY <1>1, <2>3, <2>4, QuietStep
<1>4. CASE NoRoom(p)
  <2>1. \A t \in Failed(task[p], "none") : {"at", "sub"} \subseteq DOMAIN t
    BY <1>2 DEF Failed
  <2> QED BY <1>1, <1>4, <2>1, QuietStep DEF NoRoom, Begins
<1> QED BY <1>3, <1>4

\* Balances are read from the cache.
LEMMA ReadKeeps == \A p \in Bases : Inv /\ UNCHANGED enabled /\ Read(p) => Inv'
<1> SUFFICES ASSUME NEW p \in Bases, Inv, UNCHANGED enabled, Read(p) PROVE Inv'
  OBVIOUS
<1> DEFINE f == cache[task[p].sub].funds
<1>1. \A t \in Proceed(p, task[p], f) : {"at", "sub"} \subseteq DOMAIN t
  BY ProceedPlaced DEF Inv, Shape, Read, At
<1>2. At(p) \notin {"settle", "refused"}
  BY DEF Read, Cached
<1> QED BY <1>1, <1>2, QuietStep DEF Read

\* An answer of the exchange takes the place of another.
LEMMA WayReplaced ==
  ASSUME Shape, NEW p \in Bases, NEW f, NEW h, NEW g,
         way' = [way EXCEPT ![p] = [funds |-> f, here |-> h, good |-> g]]
  PROVE  way' = [q \in Bases |-> [funds |-> way'[q].funds, here |-> way'[q].here, good |-> way'[q].good]]
<1>1. DOMAIN way = Bases
  BY DEF Shape
<1>2. way' = [q \in Bases |-> IF q = p THEN [funds |-> f, here |-> h, good |-> g] ELSE way[q]]
  BY <1>1
<1>3. \A q \in Bases : way'[q] = [funds |-> way'[q].funds, here |-> way'[q].here, good |-> way'[q].good]
  BY <1>2 DEF Shape
<1> QED BY <1>2, <1>3

\* Balances are asked for.
LEMMA AskKeeps == \A p \in Bases : Inv /\ UNCHANGED enabled /\ (Ask(p) \/ AskFails(p)) => Inv'
<1> SUFFICES ASSUME NEW p \in Bases, Inv, UNCHANGED enabled, Ask(p) \/ AskFails(p) PROVE Inv'
  OBVIOUS
<1>1. At(p) \in Forced \cup Cached /\ UNCHANGED <<funds, cache, task, excused>>
  BY DEF Ask, AskFails, Asks
<1>2. PICK f, g : way' = [way EXCEPT ![p] = [funds |-> f, here |-> TRUE, good |-> g]]
  BY DEF Ask, AskFails
<1>3. way' = [q \in Bases |-> [funds |-> way'[q].funds, here |-> way'[q].here, good |-> way'[q].good]]
  BY <1>2, WayReplaced DEF Inv
<1>4. Shape'
  BY <1>1, <1>3 DEF Inv, Shape
<1>5. Awaited'
  BY <1>1, <1>2 DEF Inv, Shape, Awaited, At
<1>6. CacheTruthful'
  BY <1>1 DEF Inv, CacheTruthful, Closing, At
<1> QED BY <1>4, <1>5, <1>6 DEF Inv

\* The answer arrives.
LEMMA AnswerKeeps == \A p \in Bases : Inv /\ UNCHANGED enabled /\ Answer(p) => Inv'
<1> SUFFICES ASSUME NEW p \in Bases, Inv, UNCHANGED enabled, Answer(p) PROVE Inv'
  OBVIOUS
<1> DEFINE s == task[p].sub
           ts == IF ~way[p].good /\ At(p) = "look" THEN {Idle("none")} ELSE Proceed(p, task[p], way[p].funds)
<1>1. At(p) \in Forced \cup Cached /\ At(p) \notin {"settle", "refused"}
  BY DEF Answer, Inv, Awaited, Forced, Cached
<1>2. Now(p, ts) /\ UNCHANGED funds /\ way' = [way EXCEPT ![p] = NoAnswer]
  BY DEF Answer
<1>3. \A t \in ts : {"at", "sub"} \subseteq DOMAIN t
  <2>1. {"at", "sub"} \subseteq DOMAIN Idle("none")
    BY DEF Idle
  <2>2. \A t \in Proceed(p, task[p], way[p].funds) : {"at", "sub"} \subseteq DOMAIN t
    BY <1>1, ProceedPlaced DEF Inv, Shape, At
  <2> QED BY <2>1, <2>2
<1> HIDE DEF ts
<1>4. /\ task' = [q \in Bases |-> task'[q]] /\ \A q \in Bases : {"at", "sub"} \subseteq DOMAIN task'[q]
      /\ \A q \in Bases : q # p => task'[q] = task[q]
  BY <1>2, <1>3, OthersStay DEF Inv
<1>5. way' = [q \in Bases |-> [funds |-> way'[q].funds, here |-> way'[q].here, good |-> way'[q].good]]
  BY <1>2, WayReplaced DEF Inv, NoAnswer
<1>6. Awaited'
  BY <1>2, <1>4 DEF Inv, Shape, Awaited, At, NoAnswer
<1>7. \/ /\ cache' = [cache EXCEPT ![s] = [funds |-> way[p].funds, fresh |-> TRUE]]
         /\ excused' = [excused EXCEPT ![s] = way[p].funds # funds[s]]
      \/ UNCHANGED <<cache, excused>>
  BY DEF Answer, Entry
<1>8. CASE UNCHANGED <<cache, excused>>
  <2>1. Shape'
    BY <1>2, <1>4, <1>5, <1>8 DEF Inv, Shape
  <2>2. CacheTruthful'
    BY <1>1, <1>2, <1>4, <1>8 DEF Inv, CacheTruthful, Closing, At
  <2> QED BY <1>6, <2>1, <2>2 DEF Inv
<1>9. CASE /\ cache' = [cache EXCEPT ![s] = [funds |-> way[p].funds, fresh |-> TRUE]]
           /\ excused' = [excused EXCEPT ![s] = way[p].funds # funds[s]]
  <2> HIDE DEF s
  <2>1. /\ cache' = [u \in Subs |-> IF u = s THEN [funds |-> way[p].funds, fresh |-> TRUE] ELSE cache[u]]
        /\ excused' = [u \in Subs |-> IF u = s THEN way[p].funds # funds[s] ELSE excused[u]]
    <3>1. DOMAIN cache = Subs /\ DOMAIN excused = Subs
      BY DEF Inv, Shape
    <3> QED BY <1>9, <3>1
  <2>2. \A u \in Subs : cache'[u] = [funds |-> cache'[u].funds, fresh |-> cache'[u].fresh]
    BY <2>1 DEF Inv, Shape
  <2>3. Shape'
    BY <1>2, <1>4, <1>5, <2>1, <2>2 DEF Inv, Shape
  <2>4. CacheTruthful'
    <3> SUFFICES ASSUME NEW u \in Subs, cache'[u].fresh, cache'[u].funds # funds'[u]
                 PROVE  excused'[u] \/ \E q \in enabled' : Closing(q, u)'
      BY DEF CacheTruthful
    <3>1. CASE u = s
      BY <1>2, <2>1, <3>1
    <3>2. CASE u # s
      <4>1. excused[u] \/ \E q \in enabled : Closing(q, u)
        BY <1>2, <2>1, <3>2 DEF Inv, CacheTruthful
      <4>2. \A q \in enabled : Closing(q, u) => Closing(q, u)'
        BY <1>1, <1>4 DEF Inv, Closing, At
      <4> QED BY <1>2, <2>1, <3>2, <4>1, <4>2
    <3> QED BY <3>1, <3>2
  <2> QED BY <1>6, <2>3, <2>4 DEF Inv
<1> QED BY <1>7, <1>8, <1>9

\* What changes balances keeps whose they are.
LEMMA GiveShape ==
  ASSUME NEW f, f = [s \in Subs |-> f[s]], NEW s, NEW c, NEW d, NEW n
  PROVE  /\ Give(f, s, c, d, n) = [u \in Subs |-> Give(f, s, c, d, n)[u]]
         /\ \A u \in Subs \ {s} : Give(f, s, c, d, n)[u] = f[u]
BY DEF Give

\* An order touches the balances of its subaccount only.
LEMMA CarryShape ==
  ASSUME NEW f, f = [s \in Subs |-> f[s]], NEW leg, NEW fate
  PROVE  /\ Carry(f, leg, fate) = [u \in Subs |-> Carry(f, leg, fate)[u]]
         /\ \A u \in Subs \ {leg[1]} : Carry(f, leg, fate)[u] = f[u]
         /\ fate = "gone" => Carry(f, leg, fate) = f
<1>1. Carry(f, leg, fate) \in {f, Give(f, leg[1], leg[2], leg[3], Lot), [f EXCEPT ![leg[1]][leg[2]] = @ - Lot]}
  BY DEF Carry
<1>2. fate = "gone" => Carry(f, leg, fate) = f
  BY DEF Carry
<1> QED BY <1>1, <1>2, GiveShape

\* The orders of a cycle are filled, gone or left: the task is to settle, to drop
\* the balances of the refused maker, or the error excuses both entries.
LEMMA TradeKeeps == \A p \in enabled : Inv /\ UNCHANGED enabled /\ Trade(p) => Inv'
<1> SUFFICES ASSUME NEW p \in enabled, Inv, UNCHANGED enabled, Trade(p) PROVE Inv'
  OBVIOUS
<1>1. p \in Bases /\ ~way[p].here /\ {"at", "sub"} \subseteq DOMAIN task[p] /\ UNCHANGED <<cache, way>>
  BY NotAwaited DEF Inv, Shape, Trade, Forced, Cached
<1>2. PICK s \in Subs, maker \in {"gone", "filled", "left"}, taker \in {"gone", "filled"} :
        /\ funds' = Carry(Carry(funds, Leg(p, s), maker), Leg(p, Other(s)), taker)
        /\ \/ excused' = [x \in Subs |-> TRUE] /\ Now(p, {Idle("none")})
           \/ UNCHANGED excused /\ Now(p, {[task[p] EXCEPT !.at = "settle"]})
           \/ /\ UNCHANGED excused /\ taker = "gone"
              /\ Now(p, {[task[p] EXCEPT !.at = "refused", !.sub = s]})
  BY DEF Trade, Now
<1>3. /\ funds' = [x \in Subs |-> funds'[x]]
      /\ taker = "gone" => \A x \in Subs \ {s} : funds'[x] = funds[x]
  <2>1. PICK f : f = Carry(funds, Leg(p, s), maker)
    OBVIOUS
  <2>2. funds = [x \in Subs |-> funds[x]]
    BY DEF Inv, Shape
  <2>3. f = [x \in Subs |-> f[x]] /\ \A x \in Subs \ {s} : f[x] = funds[x]
    BY <2>1, <2>2, CarryShape DEF Leg
  <2>4. funds' = Carry(f, Leg(p, Other(s)), taker)
    BY <1>2, <2>1
  <2> QED BY <2>3, <2>4, CarryShape
<1>4. CASE excused' = [x \in Subs |-> TRUE] /\ Now(p, {Idle("none")})
  <2>1. {"at", "sub"} \subseteq DOMAIN Idle("none")
    BY DEF Idle
  <2> QED BY <1>1, <1>3, <1>4, <2>1, ExcusedStep
<1>5. ASSUME NEW t, Now(p, {t}), {"at", "sub"} \subseteq DOMAIN t, UNCHANGED excused,
             \/ t.at = "settle"
             \/ t.at = "refused" /\ t.sub = s /\ taker = "gone"
      PROVE  Inv'
  <2>1. /\ task' = [q \in Bases |-> task'[q]] /\ \A q \in Bases : {"at", "sub"} \subseteq DOMAIN task'[q]
        /\ \A q \in Bases : q # p => task'[q] = task[q]
        /\ task'[p] = t
    BY <1>1, <1>5, OthersStay DEF Inv
  <2>2. Shape'
    BY <1>1, <1>3, <1>5, <2>1 DEF Inv, Shape
  <2>3. Awaited'
    BY <1>1, <2>1 DEF Inv, Awaited, At
  <2>4. ASSUME NEW x \in Subs, cache'[x].fresh, cache'[x].funds # funds'[x]
        PROVE  excused'[x] \/ \E q \in enabled' : Closing(q, x)'
    <3>1. CASE t.at = "settle" \/ x = s
      BY <1>5, <2>1, <3>1 DEF Closing, At
    <3>2. CASE t.at # "settle" /\ x # s
      <4>1. funds'[x] = funds[x] /\ cache'[x] = cache[x] /\ excused'[x] = excused[x]
        BY <1>1, <1>3, <1>5, <3>2
      <4>2. excused[x] \/ \E q \in enabled : Closing(q, x)
        BY <2>4, <4>1 DEF Inv, CacheTruthful
      <4>3. \A q \in enabled : q # p /\ Closing(q, x) => Closing(q, x)'
        BY <2>1 DEF Closing, At, Inv
      <4>4. ~Closing(p, x)
        BY DEF Trade, Closing, At
      <4> QED BY <4>1, <4>2, <4>3, <4>4
    <3> QED BY <3>1, <3>2
  <2>5. CacheTruthful'
    BY <2>4 DEF CacheTruthful
  <2> QED BY <2>2, <2>3, <2>5 DEF Inv
<1>6. CASE UNCHANGED excused /\ Now(p, {[task[p] EXCEPT !.at = "settle"]})
  <2>1. PICK t : t = [task[p] EXCEPT !.at = "settle"]
    OBVIOUS
  <2>2. {"at", "sub"} \subseteq DOMAIN t /\ t.at = "settle"
    BY <1>1, <2>1
  <2> QED BY <1>5, <1>6, <2>1, <2>2
<1>7. CASE /\ UNCHANGED excused /\ taker = "gone"
           /\ Now(p, {[task[p] EXCEPT !.at = "refused", !.sub = s]})
  <2>1. PICK t : t = [task[p] EXCEPT !.at = "refused", !.sub = s]
    OBVIOUS
  <2>2. {"at", "sub"} \subseteq DOMAIN t /\ t.at = "refused" /\ t.sub = s
    BY <1>1, <2>1
  <2> QED BY <1>5, <1>7, <2>1, <2>2
<1> QED BY <1>2, <1>4, <1>6, <1>7

\* The maker's order is refused, or the cycle is settled.
LEMMA SettleKeeps == \A p \in Bases : Inv /\ UNCHANGED enabled /\ (Refused(p) \/ Settle(p)) => Inv'
<1> SUFFICES ASSUME NEW p \in Bases, Inv, UNCHANGED enabled, Refused(p) \/ Settle(p) PROVE Inv'
  OBVIOUS
<1>1. /\ ~way[p].here /\ UNCHANGED <<way, funds>> /\ funds' = [s \in Subs |-> funds'[s]]
  BY NotAwaited DEF Inv, Shape, Refused, Settle, Forced, Cached
<1>2. \A c : \A t \in Failed(task[p], c) : {"at", "sub"} \subseteq DOMAIN t
  BY DEF Inv, Shape, Failed
<1>3. CASE Refused(p)
  <2>1. Invalidated({task[p].sub}) /\ At(p) = "refused" /\ Now(p, Failed(task[p], "none"))
    BY <1>3 DEF Refused
  <2> QED BY <1>1, <1>2, <2>1, DroppingStep
<1>4. CASE Settle(p)
  BY <1>1, <1>2, <1>4, DroppingStep DEF Settle
<1> QED BY <1>3, <1>4

\* After a cycle, and past a cooldown.
LEMMA AfterKeeps == \A p \in Bases : Inv /\ UNCHANGED enabled /\ (AfterCycle(p) \/ SkipCooling(p)) => Inv'
<1> SUFFICES ASSUME NEW p \in Bases, Inv, UNCHANGED enabled, AfterCycle(p) \/ SkipCooling(p) PROVE Inv'
  OBVIOUS
<1>1. \A e : {"at", "sub"} \subseteq DOMAIN Idle(e)
  BY DEF Idle
<1>2. ~way[p].here /\ At(p) \notin {"settle", "refused"} /\ Quiet
  BY NotAwaited DEF AfterCycle, SkipCooling, Forced, Cached
<1>3. CASE AfterCycle(p)
  <2> DEFINE ts == React(p, task[p]) \cup
                     {[Idle(task[p].short) EXCEPT !.at = "weigh", !.cur = p, !.periodic = TRUE]}
  <2>1. \A e, x : /\ {"at", "sub"} \subseteq DOMAIN [Idle(e) EXCEPT !.at = x]
                  /\ {"at", "sub"} \subseteq DOMAIN [Idle(e) EXCEPT !.at = "weigh", !.cur = p, !.periodic = TRUE]
    BY <1>1
  <2>2. \A t \in React(p, task[p]) : {"at", "sub"} \subseteq DOMAIN t
    BY <1>1, <2>1, Zenon DEF React, Done
  <2>3. \A t \in ts : {"at", "sub"} \subseteq DOMAIN t
    BY <2>1, <2>2
  <2>4. Now(p, ts)
    BY <1>3 DEF AfterCycle
  <2> QED BY <1>2, <2>3, <2>4, QuietStep
<1>4. CASE SkipCooling(p)
  <2>1. \A t \in NextBuy(task[p]) : {"at", "sub"} \subseteq DOMAIN t
    BY AfterwardsPlaced DEF Inv, Shape
  <2> QED BY <1>2, <1>4, <2>1, QuietStep DEF SkipCooling
<1> QED BY <1>3, <1>4

\* An order whose subaccounts are S, whatever became of it.
LEMMA OrderKeeps ==
  ASSUME Inv, NEW p \in Bases, UNCHANGED <<enabled, way>>, ~way[p].here, At(p) \notin {"settle", "refused"},
         NEW after, after = [s \in Subs |-> after[s]],
         NEW S, \A s \in Subs \ S : after[s] = funds[s],
         NEW ts, \A t \in ts : {"at", "sub"} \subseteq DOMAIN t,
         NEW us, \A t \in us : {"at", "sub"} \subseteq DOMAIN t,
         \/ funds' = after /\ Invalidated(S) /\ Now(p, ts)
         \/ UNCHANGED <<funds, cache, excused>> /\ Now(p, us)
         \/ funds' = after /\ excused' = [s \in Subs |-> TRUE] /\ UNCHANGED cache /\ Now(p, us)
  PROVE  Inv'
<1>1. CASE funds' = after /\ Invalidated(S) /\ Now(p, ts)
  BY <1>1, DroppingStep
<1>2. CASE funds' = after /\ excused' = [s \in Subs |-> TRUE] /\ UNCHANGED cache /\ Now(p, us)
  BY <1>2, ExcusedStep
<1>3. CASE UNCHANGED <<funds, cache, excused>> /\ Now(p, us)
  <2>1. /\ task' = [q \in Bases |-> task'[q]] /\ \A q \in Bases : {"at", "sub"} \subseteq DOMAIN task'[q]
        /\ \A q \in Bases : q # p => task'[q] = task[q]
    BY <1>3, OthersStay DEF Inv
  <2>2. Shape'
    BY <1>3, <2>1 DEF Inv, Shape
  <2>3. Awaited'
    BY <2>1 DEF Inv, Awaited, At
  <2>4. CacheTruthful'
    BY <1>3, <2>1 DEF Inv, CacheTruthful, Closing, At
  <2> QED BY <2>2, <2>3, <2>4 DEF Inv
<1> QED BY <1>1, <1>2, <1>3

\* Base is sold for quote, or quote spent on base.
LEMMA SellKeeps == \A p \in Bases : Inv /\ UNCHANGED enabled /\ (Sell(p) \/ Buy(p)) => Inv'
<1> SUFFICES ASSUME NEW p \in Bases, Inv, UNCHANGED enabled, Sell(p) \/ Buy(p) PROVE Inv'
  OBVIOUS
<1> DEFINE o == Sent(p)
<1>1. /\ UNCHANGED way /\ ~way[p].here /\ At(p) \notin {"settle", "refused"}
      /\ \A t \in Done(task[p]) \cup NextSub(task[p]) \cup NextBuy(task[p]) : {"at", "sub"} \subseteq DOMAIN t
  BY NotAwaited, AfterwardsPlaced DEF Inv, Shape, Sell, Buy, Forced, Cached
<1>2. funds = [s \in Subs |-> funds[s]]
  BY DEF Inv, Shape
<1>3. CASE Sell(p)
  <2> DEFINE after == Give(funds, o.from, o.cur, Quote, o.amount)
  <2>1. after = [s \in Subs |-> after[s]] /\ \A s \in Subs \ {o.from} : after[s] = funds[s]
    BY <1>2, GiveShape
  <2>2. \/ funds' = after /\ Invalidated({o.from}) /\ Now(p, Done(task[p]))
        \/ UNCHANGED <<funds, cache, excused>> /\ Now(p, NextSub(task[p]))
        \/ /\ funds' = after /\ excused' = [s \in Subs |-> TRUE] /\ UNCHANGED cache
           /\ Now(p, NextSub(task[p]))
    BY <1>3, Zenon DEF Sell, Order
  <2> HIDE DEF after
  <2> QED BY <1>1, <2>1, <2>2, OrderKeeps
<1>4. CASE Buy(p)
  <2> DEFINE after == Give(funds, o.from, Quote, p, o.amount)
  <2>1. after = [s \in Subs |-> after[s]] /\ \A s \in Subs \ {o.from} : after[s] = funds[s]
    BY <1>2, GiveShape
  <2>2. \/ funds' = after /\ Invalidated({o.from}) /\ Now(p, NextBuy(task[p]))
        \/ UNCHANGED <<funds, cache, excused>> /\ Now(p, NextBuy(task[p]))
        \/ /\ funds' = after /\ excused' = [s \in Subs |-> TRUE] /\ UNCHANGED cache
           /\ Now(p, NextBuy(task[p]))
    BY <1>4, Zenon DEF Buy, Order
  <2> HIDE DEF after
  <2> QED BY <1>1, <2>1, <2>2, OrderKeeps
<1> QED BY <1>3, <1>4

\* A transfer.
LEMMA MoveKeeps == \A p \in Bases : Inv /\ UNCHANGED enabled /\ Move(p) => Inv'
<1> SUFFICES ASSUME NEW p \in Bases, Inv, UNCHANGED enabled, Move(p) PROVE Inv'
  OBVIOUS
<1> DEFINE o == Sent(p)
           next == Moving(p, [task[p] EXCEPT !.orders = Tail(@)])
           after == [funds EXCEPT ![o.from][o.cur] = @ - o.amount, ![Other(o.from)][o.cur] = @ + o.amount]
<1>1. UNCHANGED way /\ ~way[p].here /\ At(p) \notin {"settle", "refused"}
  BY NotAwaited DEF Move, Forced, Cached
<1>2. \A t \in next : {"at", "sub"} \subseteq DOMAIN t
  <2>1. {"at", "sub"} \subseteq DOMAIN [task[p] EXCEPT !.orders = Tail(@)]
    BY DEF Inv, Shape
  <2> QED BY <2>1, MovingPlaced
<1>3. after = [s \in Subs |-> after[s]] /\ \A s \in Subs \ Subs : after[s] = funds[s]
  BY DEF Inv, Shape
<1>4. \/ funds' = after /\ Invalidated(Subs) /\ Now(p, next)
      \/ UNCHANGED <<funds, cache, excused>> /\ Now(p, next)
      \/ funds' = after /\ excused' = [s \in Subs |-> TRUE] /\ UNCHANGED cache /\ Now(p, next)
  BY Zenon DEF Move, Order
<1>5. PICK f, ts : f = after /\ ts = next
  OBVIOUS
<1> HIDE DEF next, after
<1>6. /\ f = [s \in Subs |-> f[s]] /\ \A s \in Subs \ Subs : f[s] = funds[s]
      /\ \A t \in ts : {"at", "sub"} \subseteq DOMAIN t
      /\ \/ funds' = f /\ Invalidated(Subs) /\ Now(p, ts)
         \/ UNCHANGED <<funds, cache, excused>> /\ Now(p, ts)
         \/ funds' = f /\ excused' = [s \in Subs |-> TRUE] /\ UNCHANGED cache /\ Now(p, ts)
  BY <1>2, <1>3, <1>4, <1>5
<1> QED BY <1>1, <1>6, OrderKeeps

\* Entries grow old and cooldowns run out.
LEMMA TimeKeeps == Inv /\ UNCHANGED enabled /\ Time => Inv'
<1> SUFFICES ASSUME Inv, UNCHANGED enabled, Time PROVE Inv'
  OBVIOUS
<1>1. /\ UNCHANGED <<funds, task, way, excused>>
      /\ \/ UNCHANGED cache
         \/ \E s \in Subs : cache' = [cache EXCEPT ![s] = [funds |-> @.funds, fresh |-> FALSE]]
  BY DEF Time, Expire, RunsOut
<1>2. CASE UNCHANGED cache
  BY <1>1, <1>2 DEF Inv, Shape, Awaited, CacheTruthful, Closing, At
<1>3. ASSUME NEW s \in Subs, cache' = [cache EXCEPT ![s] = [funds |-> @.funds, fresh |-> FALSE]] PROVE Inv'
  <2>1. /\ \A u \in Subs : cache'[u] = [funds |-> cache'[u].funds, fresh |-> cache'[u].fresh]
        /\ \A u \in Subs : cache'[u].funds = cache[u].funds /\ (cache'[u].fresh => cache[u].fresh)
        /\ cache' = [u \in Subs |-> cache'[u]]
    <3>1. DOMAIN cache = Subs /\ \A u \in Subs : cache[u] = [funds |-> cache[u].funds, fresh |-> cache[u].fresh]
      BY DEF Inv, Shape
    <3>2. cache' = [u \in Subs |-> IF u = s THEN [funds |-> cache[s].funds, fresh |-> FALSE] ELSE cache[u]]
      BY <1>3, <3>1
    <3> QED BY <3>1, <3>2
  <2>2. Shape'
    BY <1>1, <2>1 DEF Inv, Shape
  <2>3. Awaited'
    BY <1>1 DEF Inv, Awaited, At
  <2>4. CacheTruthful'
    BY <1>1, <2>1 DEF Inv, CacheTruthful, Closing, At
  <2> QED BY <2>2, <2>3, <2>4 DEF Inv
<1> QED BY <1>1, <1>2, <1>3

\* An order that was left resting is filled: its subaccount is excused.
LEMMA FillKeeps == \A leg \in Legs : Inv /\ MakerFills(leg) => Inv'
<1> SUFFICES ASSUME NEW leg \in Legs, Inv, MakerFills(leg) PROVE Inv'
  OBVIOUS
<1>1. /\ UNCHANGED <<enabled, cache, task, way>>
      /\ funds' = [funds EXCEPT ![leg[1]][leg[3]] = @ + Lot]
      /\ excused' = [excused EXCEPT ![leg[1]] = TRUE]
  BY DEF MakerFills
<1>2. /\ funds' = [s \in Subs |-> funds'[s]] /\ \A s \in Subs \ {leg[1]} : funds'[s] = funds[s]
      /\ excused' = [s \in Subs |-> IF s = leg[1] THEN TRUE ELSE excused[s]]
  BY <1>1 DEF Inv, Shape
<1>3. Shape'
  BY <1>1, <1>2 DEF Inv, Shape
<1>4. Awaited'
  BY <1>1 DEF Inv, Awaited, At
<1>5. CacheTruthful'
  BY <1>1, <1>2 DEF Inv, CacheTruthful, Closing, At
<1> QED BY <1>1, <1>3, <1>4, <1>5 DEF Inv

\* A fresh entry of the cache is what the exchange would answer, however many
\* pairs there are and however their requests interleave, but for the
\* exceptions that CacheTruthful names.
THEOREM CacheStaysTruthful == Spec => []CacheTruthful
<1>1. Init => Inv
  <2> SUFFICES ASSUME Init PROVE Inv
    OBVIOUS
  <2>1. PICK setup \in Setups : enabled = setup[1] /\ funds = setup[2]
    BY DEF Init
  <2>2. enabled \subseteq Bases /\ funds = [s \in Subs |-> funds[s]]
    BY <2>1, SpotAssumption
  <2>3. Shape
    BY <2>2 DEF Init, Shape, Idle, NoEntry, NoAnswer
  <2>4. Awaited /\ CacheTruthful
    BY DEF Init, Awaited, CacheTruthful, NoEntry, NoAnswer
  <2> QED BY <2>2, <2>3, <2>4 DEF Inv
<1>2. Inv /\ [Next]_vars => Inv'
  <2> SUFFICES ASSUME Inv, [Next]_vars PROVE Inv'
    OBVIOUS
  <2>1. ASSUME NEW p \in Bases, Turn(p) PROVE Inv'
    <3>1. p \in enabled /\ UNCHANGED enabled
      BY <2>1 DEF Turn
    <3> QED BY <2>1, <3>1, BeginsKeeps, ReadKeeps, AskKeeps, AnswerKeeps, TradeKeeps, SettleKeeps,
               AfterKeeps, SellKeeps, MoveKeeps DEF Turn, Step
  <2>2. CASE Time /\ UNCHANGED <<enabled, cycles>>
    BY <2>2, TimeKeeps
  <2>3. CASE UNCHANGED vars
    BY <2>3 DEF vars, Inv, Shape, Awaited, CacheTruthful, Closing, At
  <2>4. ASSUME NEW leg \in Legs, MakerFills(leg) PROVE Inv'
    BY <2>4, FillKeeps
  <2> QED BY <2>1, <2>2, <2>3, <2>4 DEF Next
<1>3. Inv => CacheTruthful
  BY DEF Inv
<1> QED BY <1>1, <1>2, <1>3, PTL DEF Spec
-----------------------------------------------------------------------------
(* Sales on a subaccount.                                                  *)

OrderSet == [cur : Currencies, from : Subs, amount : Nat]
Tasks == [at : Places, short : Currencies \cup {"none"}, sub : Subs, cur : Currencies, held : Nat,
          offer : SUBSET Bases, orders : Seq(OrderSet), periodic : BOOLEAN]

\* Past the check of the cooldown a task is about to sell.
Selling == {"need", "value", "sell"}

\* What a task of p keeps, and where it may keep orders: it has none while it
\* goes round for a transfer, and one for each currency it has weighed.
Fit(p, t) ==
  /\ t \in Tasks
  /\ t.short \in {"none", Quote, p} /\ t.cur \in {Quote, p}
  /\ t.at \in Selling \cup {"look", "judge", "again"} => t.short # "none"
  /\ t.at = "again" => t.orders = <<>> /\ ~t.periodic
  /\ t.at = "weigh" => IF t.periodic /\ t.cur = Quote THEN Len(t.orders) <= 1 ELSE t.orders = <<>>
  /\ Len(t.orders) <= 2
  /\ t.at \in {"sell", "buy", "move"} => t.orders # <<>>
  /\ t.at = "sell" => t.orders[1].from = t.sub /\ t.orders[1].cur # Quote
  /\ t.at = "buy"  => t.orders[1].cur = p

Fitting == task = [p \in Bases |-> task[p]] /\ \A p \in Bases : Fit(p, task[p])

StateTyped ==
  /\ enabled \subseteq Bases /\ funds \in [Subs -> Balances]
  /\ cache \in [Subs -> [funds : Balances, fresh : BOOLEAN]]
  /\ way \in [Bases -> [funds : Balances, here : BOOLEAN, good : BOOLEAN]]
  /\ cooling \subseteq Subs \X Currencies
  /\ excused \in [Subs -> BOOLEAN] /\ healed \in [Subs -> Nat]

\* Who is about to sell on a subaccount passed the check before the cooldown
\* was marked, and counts against the sales that are still possible.
Sellers(s) == {p \in enabled : At(p) \in Selling /\ task[p].sub = s}
Counted ==
  \A s \in Subs :
    /\ healed[s] > 0 => <<s, Quote>> \in cooling
    /\ healed[s] + Cardinality(Sellers(s)) <= Cardinality(enabled)

HealsInv == StateTyped /\ Fitting /\ Awaited /\ Counted
-----------------------------------------------------------------------------
(* What tasks decide on stays well formed.                                 *)

\* From one decision to the next a task is past the check of the cooldown only
\* if it was, on the same subaccount, or if there is no cooldown.
Checked(t, u) ==
  u.at \in Selling => (t.at \in Selling /\ u.sub = t.sub) \/ <<u.sub, Quote>> \notin cooling

\* What a task may become.
Follows(p, t, u) == Fit(p, u) /\ Checked(t, u)

LEMMA ThresholdsTyped ==
  /\ Lot \in Nat \ {0} /\ Target \in Nat \ {0} /\ BaseTarget \in Nat \ {0}
  /\ MinSell \in Nat \ {0} /\ MinOrder \in Nat \ {0}
BY SpotAssumption

\* What the bound depends on in a task, and what it has to be like.
Fields(u, x, e, s, c, o, r) ==
  u \in Tasks /\ u.at = x /\ u.short = e /\ u.sub = s /\ u.cur = c /\ u.orders = o /\ u.periodic = r

\* The fields of a task.
LEMMA TaskFields ==
  ASSUME NEW p, NEW t, Fit(p, t)
  PROVE  /\ t \in Tasks /\ t.at \in Places /\ t.sub \in Subs /\ t.held \in Nat /\ t.offer \subseteq Bases
         /\ t.orders \in Seq(OrderSet) /\ t.periodic \in BOOLEAN
         /\ t.short \in {"none", Quote, p} /\ t.cur \in {Quote, p} /\ Len(t.orders) <= 2
BY DEF Fit, Tasks

\* Only that it is a task.
LEMMA TaskTyped == ASSUME NEW p, NEW t, Fit(p, t) PROVE t \in Tasks
BY DEF Fit

\* Names of places, subaccounts and currencies.
LEMMA Names ==
  /\ {"cycle", "after", "trade", "refused", "settle", "sell", "buy", "move", "seller", "buyer", "judge", "value",
      "weigh", "look", "need", "again", "surplus"} = Places
  /\ Selling = {"need", "value", "sell"} /\ Subs = {"A", "B"}
  /\ \A p \in Bases : p # Quote /\ p # "none" /\ Quote # "none" /\ {Quote, p} \subseteq Currencies
  /\ <<>> \in Seq(OrderSet) /\ Len(<<>>) = 0
<1>1. {"cycle", "after", "trade", "refused", "settle", "sell", "buy", "move", "seller", "buyer", "judge", "value",
       "weigh", "look", "need", "again", "surplus"} = Places
  BY DEF Places, Forced, Cached
<1>2. \A p \in Bases : p # Quote /\ p # "none" /\ Quote # "none" /\ {Quote, p} \subseteq Currencies
  BY SpotAssumption DEF Currencies, Quote
<1> QED BY <1>1, <1>2 DEF Selling, Subs

\* A task that is idle is well formed wherever its reaction starts.
LEMMA IdleTyped ==
  ASSUME NEW p \in Bases, NEW e \in {"none", Quote, p}
  PROVE  Fields(Idle(e), "cycle", e, "A", Quote, <<>>, FALSE)
<1>1. e \in Currencies \cup {"none"} /\ "cycle" \in Places /\ "A" \in Subs /\ Quote \in Currencies
  BY Names
<1>2. <<>> \in Seq(OrderSet)
  OBVIOUS
<1>3. Idle(e) \in Tasks
  BY <1>1, <1>2 DEF Tasks, Idle
<1>4. /\ Idle(e).at = "cycle" /\ Idle(e).short = e /\ Idle(e).orders = <<>> /\ Idle(e).periodic = FALSE
      /\ Idle(e).sub = "A" /\ Idle(e).cur = Quote
  BY DEF Idle
<1> QED BY <1>3, <1>4 DEF Fields

LEMMA IdleFits ==
  ASSUME NEW p \in Bases, NEW e \in {"none", Quote, p}, NEW t
  PROVE  /\ Follows(p, t, Idle(e))
         /\ \A x \in {"surplus", "after", "seller"} : Follows(p, t, [Idle(e) EXCEPT !.at = x])
         /\ e # "none" => \A x \in {"look", "again"} : Follows(p, t, [Idle(e) EXCEPT !.at = x])
         /\ Follows(p, t, [Idle(e) EXCEPT !.at = "weigh", !.cur = p, !.periodic = TRUE])
<1>1. PICK i : i = Idle(e)
  OBVIOUS
<1>2. Fields(i, "cycle", e, "A", Quote, <<>>, FALSE)
  BY <1>1, IdleTyped
<1>3. <<>> \in Seq(OrderSet) /\ Len(<<>>) = 0
  OBVIOUS
<1>4. Follows(p, t, i)
  BY <1>2, <1>3, Names DEF Follows, Fit, Checked, Fields
<1>5. ASSUME NEW x \in {"surplus", "after", "seller", "look", "again"}, x \in {"look", "again"} => e # "none"
      PROVE  Follows(p, t, [i EXCEPT !.at = x])
  <2>1. PICK u : u = [i EXCEPT !.at = x]
    OBVIOUS
  <2>2. x \in Places /\ x \notin Selling
    BY Names
  <2>3. Fields(u, x, e, "A", Quote, <<>>, FALSE)
    BY <1>2, <2>1, <2>2 DEF Fields, Tasks
  <2>4. Follows(p, t, u)
    BY <1>3, <1>5, <2>2, <2>3 DEF Follows, Fit, Checked, Fields
  <2> QED BY <2>1, <2>4
<1>6. Follows(p, t, [i EXCEPT !.at = "weigh", !.cur = p, !.periodic = TRUE])
  <2>1. PICK u : u = [i EXCEPT !.at = "weigh", !.cur = p, !.periodic = TRUE]
    OBVIOUS
  <2>2. "weigh" \in Places /\ "weigh" \notin Selling /\ p \in Currencies /\ p # Quote
    BY Names
  <2>3. Fields(u, "weigh", e, "A", p, <<>>, TRUE)
    BY <1>2, <2>1, <2>2 DEF Fields, Tasks
  <2>4. Follows(p, t, u)
    BY <1>3, <2>2, <2>3 DEF Follows, Fit, Checked, Fields
  <2> QED BY <2>1, <2>4
<1> QED BY <1>1, <1>4, <1>5, <1>6

\* What is done, reacted to and looked at next.
LEMMA DoneFits ==
  ASSUME NEW p \in Bases, NEW t, NEW m, m.short \in {"none", Quote, p}, NEW u
  PROVE  /\ u \in Done(m) => Follows(p, t, u)
         /\ u \in React(p, m) => Follows(p, t, u)
<1>1. u \in Done(m) => Follows(p, t, u)
  BY IdleFits DEF Done
<1>2. u \in React(p, m) => Follows(p, t, u)
  <2>1. CASE m.short = "none"
    BY <2>1, <1>1 DEF React, Quote
  <2>2. CASE m.short = Quote
    <3>1. Quote # "none"
      BY DEF Quote
    <3> QED BY <2>2, <3>1, IdleFits DEF React
  <2>3. CASE m.short # "none" /\ m.short # Quote
    BY <2>3, IdleFits DEF React
  <2> QED BY <2>1, <2>2, <2>3
<1> QED BY <1>1, <1>2

\* The next subaccount is judged, or a transfer considered.
LEMMA NextSubFits ==
  ASSUME NEW p \in Bases, NEW t, Fit(p, t), t.short # "none", NEW u \in NextSub(t)
  PROVE  Follows(p, t, u)
<1>0. t \in Tasks
  BY TaskTyped
<1>1. CASE t.sub = "A"
  <2>1. u = [t EXCEPT !.at = "judge", !.sub = "B"]
    BY <1>1 DEF NextSub
  <2>2. "judge" \in Places /\ "B" \in Subs /\ "judge" \notin Selling
    BY Names
  <2>3. Fields(u, "judge", t.short, "B", t.cur, t.orders, t.periodic)
    BY <2>1, <2>2, <1>0 DEF Fields, Tasks
  <2> QED BY <2>2, <2>3, TaskFields DEF Follows, Fit, Checked, Fields
<1>2. CASE t.sub # "A"
  <2>1. u = [Idle(t.short) EXCEPT !.at = "again"]
    BY <1>2 DEF NextSub
  <2> QED BY <2>1, TaskFields, IdleFits
<1> QED BY <1>1, <1>2

\* A cycle has failed.
LEMMA FailedFits ==
  ASSUME NEW p \in Bases, NEW t, Fit(p, t), NEW c \in {"none", Quote, p}, NEW u \in Failed(t, c)
  PROVE  Follows(p, t, u)
<1>0. t \in Tasks
  BY TaskTyped
<1>1. u = [t EXCEPT !.at = "after", !.short = c]
  BY DEF Failed
<1>2. "after" \in Places /\ "after" \notin Selling /\ c \in Currencies \cup {"none"}
  BY Names
<1>3. Fields(u, "after", c, t.sub, t.cur, t.orders, t.periodic)
  BY <1>1, <1>2, <1>0 DEF Fields, Tasks
<1> QED BY <1>2, <1>3, TaskFields DEF Follows, Fit, Checked, Fields

\* heal_base goes on to the other subaccount.
LEMMA NextBuyFits ==
  ASSUME NEW p \in Bases, NEW t, Fit(p, t), NEW u \in NextBuy(t)
  PROVE  Follows(p, t, u)
<1>0. t \in Tasks
  BY TaskTyped
<1>1. CASE t.sub = "A"
  <2>1. u = [t EXCEPT !.at = "surplus", !.sub = "B", !.orders = <<>>]
    BY <1>1 DEF NextBuy
  <2>2. "surplus" \in Places /\ "surplus" \notin Selling /\ "B" \in Subs
    BY Names
  <2>3. <<>> \in Seq(OrderSet) /\ Len(<<>>) = 0
    OBVIOUS
  <2>4. Fields(u, "surplus", t.short, "B", t.cur, <<>>, t.periodic)
    BY <2>1, <2>2, <2>3, <1>0 DEF Fields, Tasks
  <2> QED BY <2>2, <2>3, <2>4, TaskFields DEF Follows, Fit, Checked, Fields
<1>2. CASE t.sub # "A"
  BY <1>2, TaskFields, DoneFits DEF NextBuy
<1> QED BY <1>1, <1>2

\* The preflight.
LEMMA PreflightFits ==
  ASSUME NEW p \in Bases, NEW t, Fit(p, t), t.at \in {"seller", "buyer"}, NEW f \in Balances,
         NEW u \in Seller(p, t, f) \cup Buyer(p, t, f)
  PROVE  Follows(p, t, u)
<1>0. t \in Tasks
  BY TaskTyped
<1>1. PICK h \in Nat, s \in Subs : h = f[p] /\ s = Other(t.sub)
  BY Names, TaskFields DEF Balances, Currencies, Other
<1>2. CASE u \in Seller(p, t, f)
  <2>1. u = [t EXCEPT !.at = "buyer", !.held = h, !.sub = s]
    BY <1>1, <1>2 DEF Seller
  <2>2. "buyer" \in Places /\ "buyer" \notin Selling
    BY Names
  <2>3. Fields(u, "buyer", t.short, s, t.cur, t.orders, t.periodic)
    BY <1>1, <2>1, <2>2, <1>0 DEF Fields, Tasks
  <2> QED BY <2>2, <2>3, TaskFields DEF Follows, Fit, Checked, Fields
<1>3. CASE u \in Buyer(p, t, f)
  <2>1. u = [t EXCEPT !.at = "trade"] \/ \E c \in {p, Quote} : u \in Failed(t, c)
    BY <1>3, Zenon DEF Buyer
  <2>2. CASE u = [t EXCEPT !.at = "trade"]
    <3>1. "trade" \in Places /\ "trade" \notin Selling
      BY Names
    <3>2. Fields(u, "trade", t.short, t.sub, t.cur, t.orders, t.periodic)
      BY <2>2, <3>1, <1>0 DEF Fields, Tasks
    <3> QED BY <3>1, <3>2, TaskFields DEF Follows, Fit, Checked, Fields
  <2>3. CASE \E c \in {p, Quote} : u \in Failed(t, c)
    BY <2>3, FailedFits
  <2> QED BY <2>1, <2>2, <2>3
<1> QED BY <1>2, <1>3

\* A single order.
LEMMA OneOrder ==
  ASSUME NEW c \in Currencies, NEW s \in Subs, NEW n \in Nat
  PROVE  \E o \in Seq(OrderSet) : /\ o = <<[cur |-> c, from |-> s, amount |-> n]>>
                                   /\ Len(o) = 1 /\ o # <<>> /\ o[1].from = s /\ o[1].cur = c
<1>1. PICK r \in OrderSet : r = [cur |-> c, from |-> s, amount |-> n]
  BY DEF OrderSet
<1>2. r.from = s /\ r.cur = c
  BY <1>1
<1>3. <<r>> \in Seq(OrderSet) /\ Len(<<r>>) = 1 /\ <<r>> # <<>> /\ <<r>>[1] = r
  OBVIOUS
<1> QED BY <1>1, <1>2, <1>3

\* The checks of heal on a subaccount: the cooldown is looked at first.
LEMMA HealFits ==
  ASSUME NEW p \in Bases, NEW t, Fit(p, t), NEW f \in Balances, NEW u,
         \/ t.at = "look"  /\ u \in Look(t)
         \/ t.at = "judge" /\ u \in Judge(t, f)
         \/ t.at = "need"  /\ u \in Need(t, f)
         \/ t.at = "value" /\ u \in Value(t, f)
  PROVE  Follows(p, t, u)
<1>0. t \in Tasks
  BY TaskTyped
<1>1. t.short # "none"
  BY DEF Fit, Selling
<1>2. CASE t.at = "look" /\ u \in Look(t)
  <2>1. u = [t EXCEPT !.sub = "B"] \/ u = [t EXCEPT !.at = "judge", !.sub = "A"]
    BY <1>2 DEF Look
  <2>2. {"look", "judge"} \subseteq Places /\ {"look", "judge"} \cap Selling = {} /\ {"A", "B"} \subseteq Subs
    BY Names
  <2>3. CASE u = [t EXCEPT !.sub = "B"]
    <3>1. Fields(u, "look", t.short, "B", t.cur, t.orders, t.periodic)
      BY <1>0, <1>2, <2>2, <2>3 DEF Fields, Tasks
    <3> QED BY <1>1, <2>2, <3>1, TaskFields DEF Follows, Fit, Checked, Fields
  <2>4. CASE u = [t EXCEPT !.at = "judge", !.sub = "A"]
    <3>1. Fields(u, "judge", t.short, "A", t.cur, t.orders, t.periodic)
      BY <1>0, <1>2, <2>2, <2>4 DEF Fields, Tasks
    <3> QED BY <1>1, <2>2, <3>1, TaskFields DEF Follows, Fit, Checked, Fields
  <2> QED BY <2>1, <2>3, <2>4
<1>3. CASE t.at = "judge" /\ u \in Judge(t, f)
  <2>1. CASE u \in NextSub(t)
    BY <1>1, <2>1, NextSubFits
  <2>2. CASE u \notin NextSub(t)
    <3>1. PICK held \in SUBSET Bases : <<t.sub, Quote>> \notin cooling /\ u = [t EXCEPT !.at = "need", !.offer = held]
      BY <1>3, <2>2 DEF Judge
    <3>2. "need" \in Places
      BY Names
    <3>3. Fields(u, "need", t.short, t.sub, t.cur, t.orders, t.periodic)
      BY <1>0, <3>1, <3>2 DEF Fields, Tasks
    <3> QED BY <1>1, <3>1, <3>3, TaskFields DEF Follows, Fit, Checked, Fields
  <2> QED BY <2>1, <2>2
<1>4. CASE t.at = "need" /\ u \in Need(t, f)
  <2>1. CASE ~Low(f[Quote])
    BY <1>1, <1>4, <2>1, NextSubFits DEF Need
  <2>2. CASE Low(f[Quote])
    <3>1. PICK n \in Nat : n = Target - f[Quote]
      <4>1. f[Quote] \in Nat
        BY DEF Balances, Currencies
      <4> QED BY <2>2, <4>1, ThresholdsTyped DEF Low
    <3>2. u = [t EXCEPT !.at = "value", !.held = n]
      BY <1>4, <2>2, <3>1 DEF Need
    <3>3. "value" \in Places /\ t.at \in Selling
      BY <1>4, Names
    <3>4. Fields(u, "value", t.short, t.sub, t.cur, t.orders, t.periodic)
      BY <1>0, <3>2, <3>3 DEF Fields, Tasks
    <3> QED BY <1>1, <3>3, <3>4, TaskFields DEF Follows, Fit, Checked, Fields
  <2> QED BY <2>1, <2>2
<1>5. CASE t.at = "value" /\ u \in Value(t, f)
  <2>1. CASE u \in NextSub(t)
    BY <1>1, <2>1, NextSubFits
  <2>2. CASE u \notin NextSub(t)
    <3>1. PICK b \in t.offer :
            u = [t EXCEPT !.at = "sell",
                          !.orders = <<[cur |-> b, from |-> t.sub, amount |-> SellAmount(f[b], t.held)]>>]
      BY <1>5, <2>2, Zenon DEF Value
    <3>2. b \in Bases /\ f[b] \in Nat /\ b \in Currencies
      BY <3>1, TaskFields DEF Balances, Currencies
    <3>3. PICK n \in Nat : n = SellAmount(f[b], t.held)
      BY <3>2, TaskFields DEF SellAmount
    <3>4. PICK o \in Seq(OrderSet) : /\ o = <<[cur |-> b, from |-> t.sub, amount |-> n]>>
                                     /\ Len(o) = 1 /\ o # <<>> /\ o[1].from = t.sub /\ o[1].cur # Quote
      <4>1. t.sub \in Subs
        BY TaskFields
      <4>2. b # Quote
        BY <3>2, Names
      <4> QED BY <3>2, <4>1, <4>2, OneOrder
    <3>5. u = [t EXCEPT !.at = "sell", !.orders = o]
      BY <3>1, <3>3, <3>4
    <3>6. "sell" \in Places /\ t.at \in Selling
      BY <1>5, Names
    <3>7. Fields(u, "sell", t.short, t.sub, t.cur, o, t.periodic)
      BY <1>0, <3>5, <3>6 DEF Fields, Tasks
    <3> QED BY <1>1, <3>4, <3>6, <3>7, TaskFields DEF Follows, Fit, Checked, Fields
  <2> QED BY <2>1, <2>2
<1> QED BY <1>2, <1>3, <1>4, <1>5

\* What may be transferred is a whole number, from one of the subaccounts.
LEMMA TransfersTyped ==
  ASSUME NEW c \in Currencies, NEW a \in Nat, NEW b \in Nat
  PROVE  Transfers(c, a, b) \in Seq(OrderSet) /\ Len(Transfers(c, a, b)) <= 1
<1>1. Away(a, b) \in Nat
  BY DEF Away
<1>2. CASE Transfers(c, a, b) = <<>>
  BY <1>2
<1>3. CASE Transfers(c, a, b) # <<>>
  <2>1. PICK s \in Subs : Transfers(c, a, b) = <<[cur |-> c, from |-> s, amount |-> Away(a, b)]>>
    BY <1>3 DEF Transfers, Subs
  <2> QED BY <1>1, <2>1 DEF OrderSet
<1> QED BY <1>2, <1>3

\* Transfers are made, or what comes after them.
LEMMA MovingFits ==
  ASSUME NEW p \in Bases, NEW t, NEW m \in Tasks, Len(m.orders) <= 2,
         m.short \in {"none", Quote, p}, m.cur \in {Quote, p}, NEW u \in Moving(p, m)
  PROVE  Follows(p, t, u)
<1>1. CASE m.orders # <<>>
  <2>1. u = [m EXCEPT !.at = "move"]
    BY <1>1, Zenon DEF Moving
  <2>2. "move" \in Places /\ "move" \notin Selling
    BY Names
  <2>3. Fields(u, "move", m.short, m.sub, m.cur, m.orders, m.periodic)
    BY <2>1, <2>2 DEF Fields, Tasks
  <2> QED BY <1>1, <2>2, <2>3 DEF Follows, Fit, Checked, Fields
<1>2. CASE m.orders = <<>>
  <2>1. u \in React(p, m) \/ u \in Done(m)
    BY <1>2, Zenon DEF Moving
  <2>2. (u \in Done(m) => Follows(p, t, u)) /\ (u \in React(p, m) => Follows(p, t, u))
    BY DoneFits
  <2> QED BY <2>1, <2>2
<1> QED BY <1>1, <1>2

\* A transfer is considered on one subaccount after the other.
LEMMA AgainFits ==
  ASSUME NEW p \in Bases, NEW t, Fit(p, t), t.at = "again", NEW u \in Again(t)
  PROVE  Follows(p, t, u)
<1>0. t \in Tasks
  BY TaskTyped
<1>1. t.short # "none" /\ t.short \in {Quote, p} /\ t.orders = <<>> /\ ~t.periodic /\ Len(t.orders) = 0
  BY DEF Fit
<1>2. {"again", "weigh"} \subseteq Places /\ {"again", "weigh"} \cap Selling = {} /\ {"A", "B"} \subseteq Subs
      /\ t.short \in Currencies
  BY <1>1, Names
<1>3. CASE t.sub = "A"
  <2>1. u = [t EXCEPT !.sub = "B"]
    BY <1>3 DEF Again
  <2>2. Fields(u, "again", t.short, "B", t.cur, t.orders, t.periodic)
    BY <1>0, <1>2, <2>1 DEF Fields, Tasks
  <2> QED BY <1>1, <1>2, <2>2, TaskFields DEF Follows, Fit, Checked, Fields
<1>4. CASE t.sub # "A"
  <2>1. u = [t EXCEPT !.at = "weigh", !.sub = "A", !.cur = t.short]
    BY <1>4 DEF Again
  <2>2. Fields(u, "weigh", t.short, "A", t.short, t.orders, t.periodic)
    BY <1>0, <1>2, <2>1 DEF Fields, Tasks
  <2> QED BY <1>1, <1>2, <2>2, TaskFields DEF Follows, Fit, Checked, Fields
<1> QED BY <1>3, <1>4

\* Both subaccounts are weighed, first in one currency and then in the other.
LEMMA WeighFits ==
  ASSUME NEW p \in Bases, NEW t, Fit(p, t), t.at = "weigh", NEW f \in Balances, NEW u \in Weigh(p, t, f)
  PROVE  Follows(p, t, u)
<1>0. t \in Tasks
  BY TaskTyped
<1>1. PICK n \in Nat : n = f[t.cur]
  BY Names, TaskFields DEF Balances
<1>2. {"A", "B"} \subseteq Subs /\ "weigh" \in Places /\ "weigh" \notin Selling
      /\ p # Quote /\ {p, Quote} \subseteq Currencies /\ t.cur \in Currencies
  BY Names, TaskFields
<1>3. IF t.periodic /\ t.cur = Quote THEN Len(t.orders) <= 1 ELSE t.orders = <<>>
  BY DEF Fit
<1>4. CASE t.sub = "A"
  <2>1. u = [t EXCEPT !.sub = "B", !.held = n]
    BY <1>1, <1>4 DEF Weigh
  <2>2. Fields(u, "weigh", t.short, "B", t.cur, t.orders, t.periodic)
    BY <1>0, <1>2, <2>1 DEF Fields, Tasks
  <2> QED BY <1>2, <1>3, <2>2, TaskFields DEF Follows, Fit, Checked, Fields
<1>5. CASE t.sub # "A"
  <2>1. PICK h \in Nat : h = t.held
    BY TaskFields
  <2>2. u \in Weighed(p, t, h, n)
    BY <1>1, <1>5, <2>1 DEF Weigh
  <2>3. PICK more \in Seq(OrderSet) : more = Transfers(t.cur, h, n) /\ Len(more) <= 1
    BY <1>2, TransfersTyped
  <2>4. PICK old \in Seq(OrderSet) : old = t.orders /\ Len(old) <= 1 /\ (t.periodic /\ t.cur # Quote => old = <<>>)
    BY <1>3, TaskFields
  <2>5. PICK o \in Seq(OrderSet) : o = old \o more /\ Len(o) <= 2 /\ (t.periodic /\ t.cur # Quote => Len(o) <= 1)
    <3>1. PICK o \in Seq(OrderSet) : o = old \o more /\ Len(o) = Len(old) + Len(more)
      BY ConcatProperties
    <3>2. Len(old) \in Nat /\ Len(more) \in Nat
      OBVIOUS
    <3>3. Len(old) <= 1 /\ Len(more) <= 1 /\ (t.periodic /\ t.cur # Quote => Len(old) = 0)
      BY <2>3, <2>4
    <3>4. Len(o) <= 2 /\ (t.periodic /\ t.cur # Quote => Len(o) <= 1)
      BY <3>1, <3>2, <3>3
    <3> QED BY <3>1, <3>4
  <2>6. PICK moved : moved = [t EXCEPT !.held = 0, !.orders = o]
    OBVIOUS
  <2>7. moved = [t EXCEPT !.held = 0, !.orders = @ \o Transfers(t.cur, h, n)]
    BY <2>3, <2>4, <2>5, <2>6
  <2>8. moved \in Tasks /\ Fields(moved, "weigh", t.short, t.sub, t.cur, o, t.periodic)
    BY <1>0, <2>6 DEF Fields, Tasks
  <2>9. \/ t.periodic /\ t.cur = p /\ u = [moved EXCEPT !.sub = "A", !.cur = Quote]
        \/ u \in Moving(p, moved)
        \/ u = [Idle(t.short) EXCEPT !.at = "surplus"]
        \/ u \in Done(t)
    BY <2>2, <2>7, Zenon DEF Weighed
  <2>10. CASE t.periodic /\ t.cur = p /\ u = [moved EXCEPT !.sub = "A", !.cur = Quote]
    <3>1. Fields(u, "weigh", t.short, "A", Quote, o, t.periodic)
      BY <1>2, <2>8, <2>10 DEF Fields, Tasks
    <3> QED BY <1>2, <2>5, <2>10, <3>1, TaskFields DEF Follows, Fit, Checked, Fields
  <2>11. CASE u \in Moving(p, moved)
    <3>1. Len(moved.orders) <= 2 /\ moved.short \in {"none", Quote, p} /\ moved.cur \in {Quote, p}
      BY <2>5, <2>8, TaskFields DEF Fields
    <3> QED BY <2>8, <2>11, <3>1, MovingFits
  <2>12. CASE u = [Idle(t.short) EXCEPT !.at = "surplus"] \/ u \in Done(t)
    <3>1. t.short \in {"none", Quote, p}
      BY TaskFields
    <3>2. (u \in Done(t) => Follows(p, t, u)) /\ Follows(p, t, [Idle(t.short) EXCEPT !.at = "surplus"])
      <4>1. u \in Done(t) => Follows(p, t, u)
        BY <3>1, DoneFits
      <4> QED BY <3>1, <4>1, IdleFits
    <3> QED BY <2>12, <3>2
  <2> QED BY <2>9, <2>10, <2>11, <2>12
<1> QED BY <1>4, <1>5

\* What is spent on base is a whole number.
LEMMA SpendTyped == ASSUME NEW p \in Bases, NEW f \in Balances PROVE Spend(p, f) \in Nat
<1>1. PICK q \in Nat, b \in Nat : q = f[Quote] /\ b = f[p]
  BY DEF Balances, Currencies
<1>2. PICK floor \in Nat : floor = Target \div 2
  BY ThresholdsTyped
<1> QED BY <1>1, <1>2, ThresholdsTyped DEF Spend

\* Base is bought, or the other subaccount looked at.
LEMMA SurplusFits ==
  ASSUME NEW p \in Bases, NEW t, Fit(p, t), NEW f \in Balances, NEW u \in Surplus(p, t, f)
  PROVE  Follows(p, t, u)
<1>0. t \in Tasks
  BY TaskTyped
<1>1. CASE u \in NextBuy(t)
  BY <1>1, NextBuyFits
<1>2. CASE u \notin NextBuy(t)
  <2>1. PICK n \in Nat : n = Spend(p, f)
    BY SpendTyped
  <2>2. PICK o \in Seq(OrderSet) : /\ o = <<[cur |-> p, from |-> t.sub, amount |-> n]>>
                                   /\ Len(o) = 1 /\ o # <<>> /\ o[1].cur = p
    <3>1. t.sub \in Subs /\ p \in Currencies
      BY Names, TaskFields
    <3> QED BY <3>1, OneOrder
  <2>3. u = [t EXCEPT !.at = "buy", !.orders = <<[cur |-> p, from |-> t.sub, amount |-> n]>>]
    BY <1>2, <2>1, Zenon DEF Surplus
  <2>4. u = [t EXCEPT !.at = "buy", !.orders = o]
    BY <2>2, <2>3
  <2>5. "buy" \in Places /\ "buy" \notin Selling
    BY Names
  <2>6. Fields(u, "buy", t.short, t.sub, t.cur, o, t.periodic)
    BY <1>0, <2>4, <2>5 DEF Fields, Tasks
  <2> QED BY <2>2, <2>5, <2>6, TaskFields DEF Follows, Fit, Checked, Fields
<1> QED BY <1>1, <1>2

\* Whatever a task makes of balances is well formed.
LEMMA ProceedFits ==
  ASSUME NEW p \in Bases, NEW t, Fit(p, t), t.at \in Forced \cup Cached,
         NEW f \in Balances, NEW u \in Proceed(p, t, f)
  PROVE  Follows(p, t, u)
<1>1. CASE t.at \in {"seller", "buyer"}
  BY <1>1, PreflightFits DEF Proceed
<1>2. CASE t.at \in {"look", "judge", "need", "value"}
  BY <1>2, HealFits DEF Proceed
<1>3. CASE t.at = "again"
  BY <1>3, AgainFits DEF Proceed
<1>4. CASE t.at = "weigh"
  BY <1>4, WeighFits DEF Proceed
<1>5. CASE t.at = "surplus"
  BY <1>5, SurplusFits DEF Proceed
<1> QED BY <1>1, <1>2, <1>3, <1>4, <1>5 DEF Forced, Cached

-----------------------------------------------------------------------------
(* What a step of one task leaves of the bound.                            *)

\* Tasks are counted among the finitely many that are enabled.
LEMMA Countable ==
  ASSUME StateTyped, NEW S, S \subseteq enabled
  PROVE  /\ IsFiniteSet(S) /\ Cardinality(S) \in Nat
         /\ IsFiniteSet(enabled) /\ Cardinality(enabled) \in Nat
         /\ Cardinality(S) <= Cardinality(enabled)
<1>1. IsFiniteSet(enabled)
  BY FS_Subset, SpotAssumption DEF StateTyped
<1>2. IsFiniteSet(S) /\ Cardinality(S) <= Cardinality(enabled)
  BY <1>1, FS_Subset
<1> QED BY <1>1, <1>2, FS_CardinalityType

\* A task that moves on leaves the others alone, and is about to sell only where
\* it was before or where there is no cooldown.
LEMMA TaskStep ==
  ASSUME Fitting, NEW p \in Bases, NEW ts, Now(p, ts), UNCHANGED enabled,
         \A u \in ts : Follows(p, task[p], u)
  PROVE  /\ Fitting' /\ task'[p] \in ts
         /\ \A q \in Bases : q # p => task'[q] = task[q]
         /\ \A s \in Subs : Sellers(s)' \cap Bases \subseteq Sellers(s) \/ <<s, Quote>> \notin cooling
<1>1. PICK u \in ts : task' = [task EXCEPT ![p] = u]
  BY DEF Now
<1>2. task'[p] = u /\ task' = [q \in Bases |-> task'[q]] /\ \A q \in Bases : q # p => task'[q] = task[q]
  BY <1>1 DEF Fitting
<1>3. Fit(p, u) /\ Checked(task[p], u)
  BY DEF Follows
<1>4. Fitting'
  BY <1>2, <1>3 DEF Fitting, Fit
<1>5. ASSUME NEW s \in Subs, <<s, Quote>> \in cooling, NEW q \in Bases, q \in Sellers(s)'
      PROVE  q \in Sellers(s)
  <2>1. CASE q # p
    BY <1>2, <1>5, <2>1 DEF Sellers, At
  <2>2. CASE q = p
    BY <1>2, <1>3, <1>5, <2>2 DEF Sellers, At, Checked
  <2> QED BY <2>1, <2>2
<1> QED BY <1>2, <1>4, <1>5

\* The bound survives a step that sells nothing.
LEMMA CountedStep ==
  ASSUME StateTyped, Counted, UNCHANGED <<enabled, healed>>, cooling \subseteq cooling',
         \A s \in Subs : Sellers(s)' \cap Bases \subseteq Sellers(s) \/ <<s, Quote>> \notin cooling
  PROVE  Counted'
<1> SUFFICES ASSUME NEW s \in Subs
             PROVE  /\ healed'[s] > 0 => <<s, Quote>> \in cooling'
                    /\ healed'[s] + Cardinality(Sellers(s)') <= Cardinality(enabled')
  BY DEF Counted
<1>1. healed[s] \in Nat /\ (healed[s] > 0 => <<s, Quote>> \in cooling)
      /\ healed[s] + Cardinality(Sellers(s)) <= Cardinality(enabled)
  BY DEF Counted, StateTyped
<1>2. PICK T : T = Sellers(s)'
  OBVIOUS
<1>3. T \subseteq enabled /\ T \subseteq Bases
  BY <1>2 DEF Sellers, StateTyped
<1>4. Sellers(s) \subseteq enabled
  BY DEF Sellers
<1>5. CASE T \subseteq Sellers(s)
  <2>1. IsFiniteSet(Sellers(s)) /\ Cardinality(Sellers(s)) \in Nat /\ Cardinality(enabled) \in Nat
    BY <1>4, Countable
  <2>2. Cardinality(T) <= Cardinality(Sellers(s)) /\ Cardinality(T) \in Nat
    BY <1>3, <1>5, <2>1, FS_Subset, Countable
  <2> QED BY <1>1, <1>2, <2>1, <2>2
<1>6. CASE <<s, Quote>> \notin cooling
  <2>1. healed[s] = 0
    BY <1>1, <1>6
  <2>2. Cardinality(T) <= Cardinality(enabled) /\ Cardinality(T) \in Nat
    BY <1>3, Countable
  <2> QED BY <1>2, <2>1, <2>2
<1> QED BY <1>2, <1>3, <1>5, <1>6

\* A step of one task keeps the invariant, if it sells nothing and leaves no
\* answer on its way to the task.
LEMMA StepKeeps ==
  ASSUME HealsInv, NEW p \in Bases, NEW ts, Now(p, ts), UNCHANGED <<enabled, healed>>,
         \A u \in ts : Follows(p, task[p], u), cooling \subseteq cooling', StateTyped',
         \A q \in Bases : q # p => way'[q] = way[q], ~way'[p].here
  PROVE  HealsInv'
<1>1. /\ Fitting' /\ \A q \in Bases : q # p => task'[q] = task[q]
      /\ \A s \in Subs : Sellers(s)' \cap Bases \subseteq Sellers(s) \/ <<s, Quote>> \notin cooling
  BY TaskStep DEF HealsInv
<1>2. Awaited'
  BY <1>1 DEF HealsInv, Awaited, At
<1>3. Counted'
  BY <1>1, CountedStep DEF HealsInv
<1> QED BY <1>1, <1>2, <1>3 DEF HealsInv

\* The same where only the task changes.
LEMMA QuietKeeps ==
  ASSUME HealsInv, NEW p \in Bases, NEW ts, Quiet, Now(p, ts), UNCHANGED enabled,
         \A u \in ts : Follows(p, task[p], u), ~way[p].here
  PROVE  HealsInv'
<1>1. StateTyped'
  BY DEF HealsInv, StateTyped, Quiet
<1> QED BY <1>1, StepKeeps DEF Quiet

-----------------------------------------------------------------------------
(* Balances, the cache and answers.                                        *)

\* A subaccount gives no more than it has.
LEMMA GiveTyped ==
  ASSUME NEW f \in [Subs -> Balances], NEW s \in Subs, NEW out \in Currencies, NEW in \in Currencies,
         NEW n \in Nat, n <= f[s][out], out # in
  PROVE  /\ Give(f, s, out, in, n) \in [Subs -> Balances]
         /\ \A r \in Subs : r # s => Give(f, s, out, in, n)[r] = f[r]
<1>1. f \in [Subs -> [Currencies -> Nat]]
  BY DEF Balances
<1>2. PICK g : g = Give(f, s, out, in, n)
  OBVIOUS
<1>3. \A c \in Currencies : g[s][c] \in Nat
  BY <1>1, <1>2 DEF Give
<1>4. g[s] = [c \in Currencies |-> g[s][c]]
  BY <1>1, <1>2 DEF Give
<1>5. g = [r \in Subs |-> g[r]] /\ \A r \in Subs : r # s => g[r] = f[r]
  BY <1>1, <1>2 DEF Give
<1>6. g[s] \in Balances
  BY <1>3, <1>4 DEF Balances
<1> QED BY <1>2, <1>5, <1>6

\* Nor does an order of a cycle, filled or left resting.
LEMMA CarryTyped ==
  ASSUME NEW f \in [Subs -> Balances], NEW leg \in Legs, leg[2] # leg[3],
         NEW fate \in {"gone", "filled", "left"}, fate # "gone" => f[leg[1]][leg[2]] >= Lot
  PROVE  /\ Carry(f, leg, fate) \in [Subs -> Balances]
         /\ \A r \in Subs : r # leg[1] => Carry(f, leg, fate)[r] = f[r]
<1>1. PICK s \in Subs, out \in Currencies, in \in Currencies : s = leg[1] /\ out = leg[2] /\ in = leg[3]
  BY DEF Legs
<1>2. Lot \in Nat /\ f[s] \in [Currencies -> Nat]
  BY ThresholdsTyped DEF Balances
<1>3. CASE fate = "gone"
  BY <1>3 DEF Carry
<1>4. CASE fate = "filled"
  <2>1. Carry(f, leg, fate) = Give(f, s, out, in, Lot)
    BY <1>1, <1>4 DEF Carry
  <2>2. Lot <= f[s][out] /\ out # in
    BY <1>1, <1>2, <1>4
  <2> QED BY <1>1, <1>2, <2>1, <2>2, GiveTyped
<1>5. CASE fate = "left"
  <2>1. Carry(f, leg, fate) = [f EXCEPT ![s][out] = @ - Lot]
    BY <1>1, <1>5 DEF Carry
  <2>2. PICK a \in [Currencies -> Nat] : a = f[s]
    BY <1>2
  <2>3. PICK n \in Nat : n = a[out] - Lot
    BY <1>1, <1>2, <1>5, <2>2
  <2>4. PICK b \in [Currencies -> Nat] : b = [a EXCEPT ![out] = n]
    OBVIOUS
  <2>5. Carry(f, leg, fate) = [f EXCEPT ![s] = b]
    BY <2>1, <2>2, <2>3, <2>4
  <2> QED BY <1>1, <2>4, <2>5 DEF Balances
<1> QED BY <1>3, <1>4, <1>5

\* A transfer as well.
LEMMA MoveTyped ==
  ASSUME NEW f \in [Subs -> Balances], NEW s \in Subs, NEW c \in Currencies, NEW n \in Nat, n <= f[s][c]
  PROVE  [f EXCEPT ![s][c] = @ - n, ![Other(s)][c] = @ + n] \in [Subs -> Balances]
<1>1. Other(s) \in Subs /\ Other(s) # s
  BY DEF Other, Subs
<1>2. PICK a \in [Currencies -> Nat], b \in [Currencies -> Nat] : a = f[s] /\ b = f[Other(s)]
  BY <1>1 DEF Balances
<1>3. PICK m \in Nat, k \in Nat : m = a[c] - n /\ k = b[c] + n
  BY <1>2
<1>4. PICK g \in [Currencies -> Nat] : g = [a EXCEPT ![c] = m]
  OBVIOUS
<1>5. PICK h \in [Currencies -> Nat] : h = [b EXCEPT ![c] = k]
  OBVIOUS
<1>6. [f EXCEPT ![s][c] = @ - n, ![Other(s)][c] = @ + n] = [f EXCEPT ![s] = g, ![Other(s)] = h]
  BY <1>1, <1>2, <1>3, <1>4, <1>5
<1> QED BY <1>1, <1>4, <1>5, <1>6 DEF Balances

\* Entries that are dropped leave the cache well formed.
LEMMA InvalidatedTyped ==
  ASSUME StateTyped, NEW S, Invalidated(S)
  PROVE  /\ cache' \in [Subs -> [funds : Balances, fresh : BOOLEAN]]
         /\ excused' \in [Subs -> BOOLEAN]
<1>1. NoEntry \in [funds : Balances, fresh : BOOLEAN]
  BY DEF NoEntry, Zero, Balances
<1> QED BY <1>1, Zenon DEF Invalidated, StateTyped

\* The order a task carries out.
LEMMA SentTyped ==
  ASSUME Fitting, NEW p \in Bases, At(p) \in {"sell", "buy", "move"}
  PROVE  /\ Sent(p) \in OrderSet /\ Sent(p) = task[p].orders[1]
         /\ Sent(p).cur \in Currencies /\ Sent(p).from \in Subs /\ Sent(p).amount \in Nat
         /\ Tail(task[p].orders) \in Seq(OrderSet) /\ Len(Tail(task[p].orders)) <= 1
<1>1. /\ task[p].orders \in Seq(OrderSet) /\ task[p].orders # <<>> /\ Len(task[p].orders) <= 2
  BY DEF Fitting, Fit, Tasks, At
<1>2. PICK o \in Seq(OrderSet) : o = task[p].orders /\ o # <<>> /\ Len(o) <= 2
  BY <1>1
<1>3. Head(o) \in OrderSet /\ Head(o) = o[1] /\ Tail(o) \in Seq(OrderSet) /\ Len(Tail(o)) <= 1
  BY <1>2
<1> QED BY <1>2, <1>3 DEF Sent, OrderSet
-----------------------------------------------------------------------------
(* The steps of a task.                                                    *)

\* A task has well-formed fields, and no answer is on its way to it where it
\* does not read balances.
LEMMA TaskOf ==
  ASSUME HealsInv, NEW p \in Bases
  PROVE  /\ Fit(p, task[p]) /\ task[p] \in Tasks
         /\ At(p) \notin Forced \cup Cached => ~way[p].here
BY TaskTyped DEF HealsInv, Fitting, Awaited

\* A task that goes somewhere else, with all it keeps.
LEMMA ElsewhereFits ==
  ASSUME NEW p \in Bases, NEW t, Fit(p, t), NEW x \in {"trade", "settle", "after"}
  PROVE  Follows(p, t, [t EXCEPT !.at = x])
<1>0. t \in Tasks
  BY TaskTyped
<1>1. PICK u : u = [t EXCEPT !.at = x]
  OBVIOUS
<1>2. x \in Places /\ x \notin Selling
  BY Names
<1>3. Fields(u, x, t.short, t.sub, t.cur, t.orders, t.periodic)
  BY <1>0, <1>1, <1>2 DEF Fields, Tasks
<1>4. Follows(p, t, u)
  BY <1>2, <1>3, TaskFields DEF Follows, Fit, Checked, Fields
<1> QED BY <1>1, <1>4

\* The placement of the maker's order of a cycle counts as refused.
LEMMA RefusedFits ==
  ASSUME NEW p \in Bases, NEW t, Fit(p, t), NEW s \in Subs
  PROVE  Follows(p, t, [t EXCEPT !.at = "refused", !.sub = s])
<1>0. t \in Tasks
  BY TaskTyped
<1>1. PICK u : u = [t EXCEPT !.at = "refused", !.sub = s]
  OBVIOUS
<1>2. "refused" \in Places /\ "refused" \notin Selling
  BY Names
<1>3. Fields(u, "refused", t.short, s, t.cur, t.orders, t.periodic)
  BY <1>0, <1>1, <1>2 DEF Fields, Tasks
<1>4. Follows(p, t, u)
  BY <1>2, <1>3, TaskFields DEF Follows, Fit, Checked, Fields
<1> QED BY <1>1, <1>4

\* A cycle begins.
LEMMA HealsBegins ==
  \A p \in Bases : HealsInv /\ UNCHANGED enabled /\ (StartCycle(p) \/ NoRoom(p)) => HealsInv'
<1> SUFFICES ASSUME NEW p \in Bases, HealsInv, UNCHANGED enabled, StartCycle(p) \/ NoRoom(p)
             PROVE  HealsInv'
  OBVIOUS
<1>1. Quiet /\ Fit(p, task[p]) /\ task[p] \in Tasks /\ ~way[p].here
  BY TaskOf DEF StartCycle, NoRoom, Begins, Forced, Cached
<1>2. CASE StartCycle(p)
  <2>1. PICK s \in Subs : Now(p, {[task[p] EXCEPT !.at = "seller", !.sub = s]})
    BY <1>2 DEF StartCycle
  <2>2. PICK u : u = [task[p] EXCEPT !.at = "seller", !.sub = s]
    OBVIOUS
  <2>3. "seller" \in Places /\ "seller" \notin Selling
    BY Names
  <2>4. Fields(u, "seller", task[p].short, s, task[p].cur, task[p].orders, task[p].periodic)
    BY <1>1, <2>2, <2>3 DEF Fields, Tasks
  <2>5. Follows(p, task[p], u)
    BY <1>1, <2>3, <2>4, TaskFields DEF Follows, Fit, Checked, Fields
  <2>6. Now(p, {u}) /\ \A v \in {u} : Follows(p, task[p], v)
    BY <2>1, <2>2, <2>5
  <2> QED BY <1>1, <2>6, QuietKeeps
<1>3. CASE NoRoom(p)
  <2>1. Now(p, Failed(task[p], "none")) /\ \A u \in Failed(task[p], "none") : Follows(p, task[p], u)
    BY <1>1, <1>3, FailedFits DEF NoRoom
  <2> QED BY <1>1, <2>1, QuietKeeps
<1> QED BY <1>2, <1>3

\* The balances that a task reads are well formed.
LEMMA Proceeds ==
  ASSUME HealsInv, NEW p \in Bases, At(p) \in Forced \cup Cached, NEW f \in Balances,
         NEW u \in Proceed(p, task[p], f)
  PROVE  Follows(p, task[p], u)
BY TaskOf, ProceedFits DEF At

\* A task reads the cache.
LEMMA HealsRead == \A p \in Bases : HealsInv /\ UNCHANGED enabled /\ Read(p) => HealsInv'
<1> SUFFICES ASSUME NEW p \in Bases, HealsInv, UNCHANGED enabled, Read(p) PROVE HealsInv'
  OBVIOUS
<1>1. Quiet /\ ~way[p].here /\ At(p) \in Cached /\ Now(p, Proceed(p, task[p], cache[task[p].sub].funds))
  BY DEF Read
<1>2. cache[task[p].sub].funds \in Balances
  <2>1. task[p].sub \in Subs
    BY TaskOf DEF Tasks
  <2> QED BY <2>1 DEF HealsInv, StateTyped
<1>3. \A u \in Proceed(p, task[p], cache[task[p].sub].funds) : Follows(p, task[p], u)
  BY <1>1, <1>2, Proceeds
<1> QED BY <1>1, <1>3, QuietKeeps

\* A task asks the exchange.
LEMMA HealsAsk == \A p \in Bases : HealsInv /\ UNCHANGED enabled /\ (Ask(p) \/ AskFails(p)) => HealsInv'
<1> SUFFICES ASSUME NEW p \in Bases, HealsInv, UNCHANGED enabled, Ask(p) \/ AskFails(p) PROVE HealsInv'
  OBVIOUS
<1>1. At(p) \in Forced \cup Cached /\ UNCHANGED <<funds, cache, cooling, task, excused, healed>>
  BY DEF Ask, AskFails, Asks
<1>2. task[p].sub \in Subs
  BY TaskOf DEF Tasks
<1>3. PICK a \in [funds : Balances, here : BOOLEAN, good : BOOLEAN] : way' = [way EXCEPT ![p] = a]
  <2>1. funds[task[p].sub] \in Balances /\ cache[task[p].sub].funds \in Balances
    BY <1>2 DEF HealsInv, StateTyped
  <2>2. CASE Ask(p)
    BY <2>1, <2>2 DEF Ask
  <2>3. CASE AskFails(p)
    BY <2>1, <2>3 DEF AskFails
  <2> QED BY <2>2, <2>3
<1>4. way' \in [Bases -> [funds : Balances, here : BOOLEAN, good : BOOLEAN]]
      /\ \A q \in Bases : q # p => way'[q] = way[q]
  BY <1>3 DEF HealsInv, StateTyped
<1>5. StateTyped'
  BY <1>1, <1>4 DEF HealsInv, StateTyped
<1>6. Fitting' /\ Awaited'
  BY <1>1, <1>4 DEF HealsInv, Fitting, Fit, Awaited, At
<1>7. Counted'
  BY <1>1 DEF HealsInv, Counted, Sellers, At
<1> QED BY <1>5, <1>6, <1>7 DEF HealsInv

\* The exchange answers.
LEMMA HealsAnswer == \A p \in Bases : HealsInv /\ UNCHANGED enabled /\ Answer(p) => HealsInv'
<1> SUFFICES ASSUME NEW p \in Bases, HealsInv, UNCHANGED enabled, Answer(p) PROVE HealsInv'
  OBVIOUS
<1>1. way[p].here /\ way' = [way EXCEPT ![p] = NoAnswer] /\ UNCHANGED <<funds, cooling, troubles, healed>>
  BY DEF Answer
<1>2. At(p) \in Forced \cup Cached /\ task[p].sub \in Subs /\ Fit(p, task[p])
  BY <1>1, TaskOf DEF HealsInv, Awaited, Tasks
<1>3. way[p].funds \in Balances
  BY DEF HealsInv, StateTyped
<1>4. cache' \in [Subs -> [funds : Balances, fresh : BOOLEAN]] /\ excused' \in [Subs -> BOOLEAN]
  <2>1. CASE way[p].good
    <3>1. cache' = [cache EXCEPT ![task[p].sub] = Entry(way[p].funds)]
      BY <2>1 DEF Answer
    <3>2. Entry(way[p].funds) \in [funds : Balances, fresh : BOOLEAN]
      BY <1>3 DEF Entry
    <3>3. excused' \in [Subs -> BOOLEAN]
      BY <1>2, <2>1, Zenon DEF Answer, HealsInv, StateTyped
    <3> QED BY <3>1, <3>2, <3>3, <1>2 DEF HealsInv, StateTyped
  <2>2. CASE ~way[p].good
    BY <2>2 DEF Answer, HealsInv, StateTyped
  <2> QED BY <2>1, <2>2
<1>5. way' \in [Bases -> [funds : Balances, here : BOOLEAN, good : BOOLEAN]]
      /\ ~way'[p].here /\ \A q \in Bases : q # p => way'[q] = way[q]
  <2>1. NoAnswer \in [funds : Balances, here : BOOLEAN, good : BOOLEAN] /\ ~NoAnswer.here
    BY DEF NoAnswer, Zero, Balances
  <2> QED BY <1>1, <2>1 DEF HealsInv, StateTyped
<1>6. StateTyped'
  BY <1>1, <1>4, <1>5 DEF HealsInv, StateTyped
<1>7. PICK ts : Now(p, ts) /\ \A u \in ts : Follows(p, task[p], u)
  <2>1. CASE ~way[p].good /\ At(p) = "look"
    <3>1. Now(p, {Idle("none")})
      BY <2>1 DEF Answer
    <3>2. Follows(p, task[p], Idle("none"))
      BY IdleFits
    <3>3. \A u \in {Idle("none")} : Follows(p, task[p], u)
      BY <3>2
    <3> QED BY <3>1, <3>3
  <2>2. CASE ~(~way[p].good /\ At(p) = "look")
    <3>1. Now(p, Proceed(p, task[p], way[p].funds))
      BY <2>2 DEF Answer
    <3> QED BY <1>2, <1>3, <3>1, Proceeds
  <2> QED BY <2>1, <2>2
<1> QED BY <1>1, <1>5, <1>6, <1>7, StepKeeps

\* The orders of a cycle.
LEMMA HealsTrade == \A p \in Bases : HealsInv /\ UNCHANGED enabled /\ Trade(p) => HealsInv'
<1> SUFFICES ASSUME NEW p \in Bases, HealsInv, UNCHANGED enabled, Trade(p) PROVE HealsInv'
  OBVIOUS
<1>1. UNCHANGED <<cache, cooling, way, healed>> /\ Fit(p, task[p]) /\ ~way[p].here
  BY TaskOf DEF Trade, Forced, Cached
<1>2. funds' \in [Subs -> Balances]
  <2>1. PICK s \in Subs, maker \in {"gone", "filled", "left"}, taker \in {"gone", "filled"} :
           /\ maker # "gone" => Covered(Leg(p, s))
           /\ taker # "gone" => Covered(Leg(p, Other(s)))
           /\ funds' = Carry(Carry(funds, Leg(p, s), maker), Leg(p, Other(s)), taker)
    BY DEF Trade
  <2>2. Other(s) \in Subs /\ Other(s) # s
    BY DEF Other, Subs
  <2>3. funds \in [Subs -> Balances] /\ p \in Currencies /\ Quote \in Currencies /\ p # Quote
    BY Names DEF HealsInv, StateTyped
  <2>4. \A x \in Subs : Leg(p, x) \in Legs /\ Leg(p, x)[1] = x /\ Leg(p, x)[2] # Leg(p, x)[3]
    BY <2>3 DEF Leg, Legs
  <2>5. PICK one \in Legs, two \in Legs :
           /\ one = Leg(p, s) /\ two = Leg(p, Other(s))
           /\ one[1] # two[1] /\ one[2] # one[3] /\ two[2] # two[3] /\ two[1] \in Subs
    BY <2>2, <2>4
  <2>6. PICK f : f = Carry(funds, one, maker)
    OBVIOUS
  <2>7. f \in [Subs -> Balances] /\ f[two[1]] = funds[two[1]]
    BY <2>1, <2>3, <2>5, <2>6, CarryTyped DEF Covered
  <2>8. taker # "gone" => f[two[1]][two[2]] >= Lot
    BY <2>1, <2>5, <2>7 DEF Covered
  <2>9. Carry(f, two, taker) \in [Subs -> Balances]
    BY <2>5, <2>7, <2>8, CarryTyped
  <2> QED BY <2>1, <2>5, <2>6, <2>9
<1>3. excused' \in [Subs -> BOOLEAN]
  BY Zenon DEF Trade, HealsInv, StateTyped
<1>4. StateTyped'
  BY <1>1, <1>2, <1>3 DEF HealsInv, StateTyped
<1>5. PICK ts : Now(p, ts) /\ \A u \in ts : Follows(p, task[p], u)
  <2>1. PICK s \in Subs :
           \/ Now(p, {[task[p] EXCEPT !.at = "settle"]}) \/ Now(p, {Idle("none")})
           \/ Now(p, {[task[p] EXCEPT !.at = "refused", !.sub = s]})
    BY DEF Trade, Now
  <2>2. /\ Follows(p, task[p], [task[p] EXCEPT !.at = "settle"]) /\ Follows(p, task[p], Idle("none"))
        /\ Follows(p, task[p], [task[p] EXCEPT !.at = "refused", !.sub = s])
    BY <1>1, ElsewhereFits, IdleFits, RefusedFits
  <2> QED BY <2>1, <2>2
<1> QED BY <1>1, <1>4, <1>5, StepKeeps

\* A cycle settles, or its maker's order is refused.
LEMMA HealsSettle ==
  \A p \in Bases : HealsInv /\ UNCHANGED enabled /\ (Refused(p) \/ Settle(p)) => HealsInv'
<1> SUFFICES ASSUME NEW p \in Bases, HealsInv, UNCHANGED enabled, Refused(p) \/ Settle(p) PROVE HealsInv'
  OBVIOUS
<1>1. UNCHANGED <<funds, cooling, way, healed>> /\ Fit(p, task[p]) /\ ~way[p].here
  BY TaskOf DEF Refused, Settle, Forced, Cached
<1>2. PICK S : Invalidated(S)
  BY DEF Refused, Settle
<1>3. StateTyped'
  BY <1>1, <1>2, InvalidatedTyped DEF HealsInv, StateTyped
<1>4. PICK c \in {"none", Quote, p} : Now(p, Failed(task[p], c))
  BY <1>1, TaskFields DEF Refused, Settle
<1>5. \A u \in Failed(task[p], c) : Follows(p, task[p], u)
  BY <1>1, FailedFits
<1> QED BY <1>1, <1>3, <1>4, <1>5, StepKeeps

\* After a cycle, and where a purchase is skipped.
LEMMA HealsAfter ==
  \A p \in Bases : HealsInv /\ UNCHANGED enabled /\ (AfterCycle(p) \/ SkipCooling(p)) => HealsInv'
<1> SUFFICES ASSUME NEW p \in Bases, HealsInv, UNCHANGED enabled, AfterCycle(p) \/ SkipCooling(p)
             PROVE  HealsInv'
  OBVIOUS
<1>1. Quiet /\ Fit(p, task[p]) /\ ~way[p].here
  BY TaskOf DEF AfterCycle, SkipCooling, Forced, Cached
<1>2. CASE AfterCycle(p)
  <2>1. PICK ts : /\ Now(p, ts)
                  /\ ts = React(p, task[p]) \cup
                          {[Idle(task[p].short) EXCEPT !.at = "weigh", !.cur = p, !.periodic = TRUE]}
    BY <1>2 DEF AfterCycle
  <2>2. task[p].short \in {"none", Quote, p}
    BY <1>1, TaskFields
  <2>3. \A u \in React(p, task[p]) : Follows(p, task[p], u)
    BY <2>2, DoneFits
  <2>4. Follows(p, task[p], [Idle(task[p].short) EXCEPT !.at = "weigh", !.cur = p, !.periodic = TRUE])
    BY <2>2, IdleFits
  <2>5. \A u \in ts : Follows(p, task[p], u)
    BY <2>1, <2>3, <2>4
  <2> QED BY <1>1, <2>1, <2>5, QuietKeeps
<1>3. CASE SkipCooling(p)
  <2>1. Now(p, NextBuy(task[p])) /\ \A u \in NextBuy(task[p]) : Follows(p, task[p], u)
    BY <1>1, <1>3, NextBuyFits DEF SkipCooling
  <2> QED BY <1>1, <2>1, QuietKeeps
<1> QED BY <1>2, <1>3

-----------------------------------------------------------------------------
(* Orders to even and to refill the subaccounts.                           *)

\* An order that is not accepted sells nothing, whatever becomes of balances.
LEMMA UnacceptedKeeps ==
  ASSUME HealsInv, NEW p \in Bases, At(p) \in {"sell", "buy", "move"}, NEW ts, Now(p, ts),
         UNCHANGED <<enabled, way, cache, cooling, healed>>, \A u \in ts : Follows(p, task[p], u),
         funds' \in [Subs -> Balances],
         UNCHANGED excused \/ excused' = [s \in Subs |-> TRUE]
  PROVE  HealsInv'
<1>1. excused' \in [Subs -> BOOLEAN]
  BY Zenon DEF HealsInv, StateTyped
<1>2. StateTyped'
  BY <1>1 DEF HealsInv, StateTyped
<1>3. ~way[p].here
  BY TaskOf DEF Forced, Cached
<1> QED BY <1>2, <1>3, StepKeeps

\* heal sells: what counted against the bound as about to sell counts as sold,
\* and the cooldown is marked.
LEMMA HealsSell == \A p \in enabled : HealsInv /\ UNCHANGED enabled /\ Sell(p) => HealsInv'
<1> SUFFICES ASSUME NEW p \in enabled, HealsInv, UNCHANGED enabled, Sell(p) PROVE HealsInv'
  OBVIOUS
<1>1. p \in Bases /\ At(p) = "sell" /\ UNCHANGED way /\ funds \in [Subs -> Balances]
  BY DEF HealsInv, StateTyped, Sell
<1>2. Fit(p, task[p]) /\ ~way[p].here
  BY <1>1, TaskOf DEF Forced, Cached
<1>3. PICK s \in Subs, c \in Currencies, n \in Nat :
         s = Sent(p).from /\ c = Sent(p).cur /\ n = Sent(p).amount /\ s = task[p].sub /\ c # Quote
  <2>1. Sent(p) = task[p].orders[1] /\ Sent(p).from \in Subs /\ Sent(p).cur \in Currencies /\ Sent(p).amount \in Nat
    BY <1>1, SentTyped DEF HealsInv
  <2> QED BY <1>1, <1>2, <2>1 DEF Fit, At
<1>4. PICK after : after = Give(funds, s, c, Quote, n)
  OBVIOUS
<1>5. \/ /\ ~(funds[s][c] < n) /\ funds' = after
         /\ cooling' = cooling \cup {<<s, Quote>>} /\ Invalidated({s})
         /\ healed' = [healed EXCEPT ![s] = @ + 1] /\ Now(p, Done(task[p]))
      \/ /\ Now(p, NextSub(task[p])) /\ UNCHANGED <<cache, cooling, healed>>
         /\ UNCHANGED funds \/ (funds' = after /\ ~(funds[s][c] < n))
         /\ UNCHANGED excused \/ excused' = [r \in Subs |-> TRUE]
  <2>1. PICK o : o = Sent(p)
    OBVIOUS
  <2>2. Order(p, Give(funds, o.from, o.cur, Quote, o.amount),
              /\ cooling' = cooling \cup {<<o.from, Quote>>} /\ Invalidated({o.from})
              /\ healed' = [healed EXCEPT ![o.from] = @ + 1] /\ Now(p, Done(task[p])),
              funds[o.from][o.cur] < o.amount \/ o.amount < MinOrder,
              Now(p, NextSub(task[p])))
    BY <2>1, Zenon DEF Sell
  <2>3. o.from = s /\ o.cur = c /\ o.amount = n
    BY <1>3, <2>1
  <2>4. Order(p, after,
              /\ cooling' = cooling \cup {<<s, Quote>>} /\ Invalidated({s})
              /\ healed' = [healed EXCEPT ![s] = @ + 1] /\ Now(p, Done(task[p])),
              funds[s][c] < n \/ n < MinOrder,
              Now(p, NextSub(task[p])))
    BY <1>4, <2>2, <2>3 DEF Order
  <2> QED BY <2>4, Zenon DEF Order
<1>6. ~(funds[s][c] < n) => after \in [Subs -> Balances]
  <2>1. Quote \in Currencies /\ funds[s][c] \in Nat
    BY <1>1, <1>3 DEF Currencies, Balances
  <2> QED BY <1>1, <1>3, <1>4, <2>1, GiveTyped
<1>7. CASE /\ ~(funds[s][c] < n) /\ funds' = after
           /\ cooling' = cooling \cup {<<s, Quote>>} /\ Invalidated({s})
           /\ healed' = [healed EXCEPT ![s] = @ + 1] /\ Now(p, Done(task[p]))
  <2>1. PICK t : t = Idle(task[p].short)
    OBVIOUS
  <2>2. Now(p, {t}) /\ t.at = "cycle" /\ Follows(p, task[p], t)
    BY <1>1, <1>2, <1>7, <2>1, TaskFields, IdleFits DEF Done, Idle
  <2>3. /\ Fitting' /\ task'[p] = t
        /\ \A q \in Bases : q # p => task'[q] = task[q]
    BY <1>1, <2>2, TaskStep DEF HealsInv
  <2>4. Awaited'
    BY <1>1, <1>2, <2>3 DEF HealsInv, Awaited, At
  <2>5. StateTyped'
    <3>1. healed' \in [Subs -> Nat]
      BY <1>7 DEF HealsInv, StateTyped
    <3>2. cooling' \subseteq Subs \X Currencies
      BY <1>7 DEF HealsInv, StateTyped, Currencies
    <3>3. cache' \in [Subs -> [funds : Balances, fresh : BOOLEAN]] /\ excused' \in [Subs -> BOOLEAN]
      BY <1>7, InvalidatedTyped DEF HealsInv
    <3> QED BY <1>1, <1>6, <1>7, <3>1, <3>2, <3>3 DEF HealsInv, StateTyped
  <2>6. p \in Sellers(s)
    BY <1>1, <1>3 DEF Sellers, Selling
  <2>7. Counted'
    <3> SUFFICES ASSUME NEW r \in Subs
                 PROVE  /\ healed'[r] > 0 => <<r, Quote>> \in cooling'
                        /\ healed'[r] + Cardinality(Sellers(r)') <= Cardinality(enabled')
      BY DEF Counted
    <3>1. PICK T : T = Sellers(r)'
      OBVIOUS
    <3>2. T \subseteq Sellers(r) \ {p}
      <4> SUFFICES ASSUME NEW q \in T PROVE q \in Sellers(r) \ {p}
        OBVIOUS
      <4>1. q \in enabled /\ q \in Bases /\ task'[q].at \in Selling /\ task'[q].sub = r
        BY <3>1 DEF Sellers, At, HealsInv, StateTyped
      <4>2. q # p
        BY <2>2, <2>3, <4>1 DEF Selling
      <4> QED BY <2>3, <4>1, <4>2 DEF Sellers, At
    <3>3. /\ healed[r] \in Nat /\ (healed[r] > 0 => <<r, Quote>> \in cooling)
          /\ healed[r] + Cardinality(Sellers(r)) <= Cardinality(enabled)
      BY DEF HealsInv, Counted, StateTyped
    <3>4. /\ Sellers(r) \subseteq enabled
          /\ IsFiniteSet(Sellers(r)) /\ Cardinality(Sellers(r)) \in Nat /\ Cardinality(enabled) \in Nat
      <4>1. Sellers(r) \subseteq enabled
        BY DEF Sellers
      <4> QED BY <4>1, Countable DEF HealsInv
    <3>5. T \subseteq enabled /\ T \subseteq Sellers(r)
      BY <3>2, <3>4
    <3>6. Cardinality(T) \in Nat
      BY <3>5, Countable DEF HealsInv
    <3>7. CASE r = s
      <4>1. IsFiniteSet(Sellers(r) \ {p}) /\ Cardinality(Sellers(r) \ {p}) = Cardinality(Sellers(r)) - 1
        BY <2>6, <3>4, <3>7, FS_RemoveElement
      <4>2. Cardinality(T) <= Cardinality(Sellers(r)) - 1
        BY <3>2, <4>1, FS_Subset
      <4>3. healed'[r] = healed[r] + 1 /\ <<r, Quote>> \in cooling'
        BY <1>7, <3>7 DEF HealsInv, StateTyped
      <4> QED BY <3>1, <3>3, <3>4, <3>6, <4>2, <4>3
    <3>8. CASE r # s
      <4>1. Cardinality(T) <= Cardinality(Sellers(r))
        BY <3>4, <3>5, FS_Subset
      <4>2. healed'[r] = healed[r] /\ cooling \subseteq cooling'
        BY <1>7, <3>8 DEF HealsInv, StateTyped
      <4> QED BY <3>1, <3>3, <3>4, <3>6, <4>1, <4>2
    <3> QED BY <3>7, <3>8
  <2> QED BY <2>3, <2>4, <2>5, <2>7 DEF HealsInv
<1>8. CASE /\ Now(p, NextSub(task[p])) /\ UNCHANGED <<cache, cooling, healed>>
           /\ UNCHANGED funds \/ (funds' = after /\ ~(funds[s][c] < n))
           /\ UNCHANGED excused \/ excused' = [r \in Subs |-> TRUE]
  <2>1. task[p].short # "none"
    BY <1>1, <1>2 DEF Fit, At, Selling
  <2>2. \A u \in NextSub(task[p]) : Follows(p, task[p], u)
    BY <1>1, <1>2, <2>1, NextSubFits
  <2>3. funds' \in [Subs -> Balances]
    BY <1>1, <1>6, <1>8
  <2> QED BY <1>1, <1>8, <2>2, <2>3, UnacceptedKeeps
<1> QED BY <1>5, <1>7, <1>8

\* heal_base buys: its cooldown is of the base, not of the quote.
LEMMA HealsBuy == \A p \in Bases : HealsInv /\ UNCHANGED enabled /\ Buy(p) => HealsInv'
<1> SUFFICES ASSUME NEW p \in Bases, HealsInv, UNCHANGED enabled, Buy(p) PROVE HealsInv'
  OBVIOUS
<1>1. At(p) = "buy" /\ UNCHANGED <<way, healed>> /\ funds \in [Subs -> Balances]
  BY DEF HealsInv, StateTyped, Buy, Order
<1>2. Fit(p, task[p]) /\ ~way[p].here
  BY <1>1, TaskOf DEF Forced, Cached
<1>3. PICK s \in Subs, n \in Nat : s = Sent(p).from /\ n = Sent(p).amount
  BY <1>1, SentTyped DEF HealsInv
<1>4. PICK after : after = Give(funds, s, Quote, p, n)
  OBVIOUS
<1>5. /\ Now(p, NextBuy(task[p]))
      /\ UNCHANGED funds \/ (funds' = after /\ ~(funds[s][Quote] < n))
      /\ \/ cooling' = cooling \cup {<<s, p>>} /\ Invalidated({s})
         \/ /\ UNCHANGED <<cache, cooling>>
            /\ UNCHANGED excused \/ excused' = [r \in Subs |-> TRUE]
  <2>1. PICK o : o = Sent(p)
    OBVIOUS
  <2>2. Order(p, Give(funds, o.from, Quote, p, o.amount),
              /\ cooling' = cooling \cup {<<o.from, p>>} /\ Invalidated({o.from})
              /\ UNCHANGED healed /\ Now(p, NextBuy(task[p])),
              funds[o.from][Quote] < o.amount,
              Now(p, NextBuy(task[p])))
    BY <2>1, Zenon DEF Buy
  <2>3. o.from = s /\ o.amount = n
    BY <1>3, <2>1
  <2>4. Order(p, after,
              /\ cooling' = cooling \cup {<<s, p>>} /\ Invalidated({s})
              /\ UNCHANGED healed /\ Now(p, NextBuy(task[p])),
              funds[s][Quote] < n,
              Now(p, NextBuy(task[p])))
    BY <1>4, <2>2, <2>3 DEF Order
  <2> QED BY <2>4, Zenon DEF Order
<1>6. funds' \in [Subs -> Balances]
  <2>1. Quote \in Currencies /\ p \in Currencies /\ p # Quote /\ funds[s][Quote] \in Nat
    BY <1>1, Names DEF Balances
  <2>2. ~(funds[s][Quote] < n) => after \in [Subs -> Balances]
    BY <1>1, <1>4, <2>1, GiveTyped
  <2> QED BY <1>1, <1>5, <2>2
<1>7. \A u \in NextBuy(task[p]) : Follows(p, task[p], u)
  BY <1>2, NextBuyFits
<1>8. CASE cooling' = cooling \cup {<<s, p>>} /\ Invalidated({s})
  <2>1. cooling' \subseteq Subs \X Currencies /\ cooling \subseteq cooling'
    BY <1>8 DEF HealsInv, StateTyped, Currencies
  <2>2. StateTyped'
    BY <1>1, <1>6, <1>8, <2>1, InvalidatedTyped DEF HealsInv, StateTyped
  <2> QED BY <1>1, <1>2, <1>5, <1>7, <2>1, <2>2, StepKeeps
<1>9. CASE /\ UNCHANGED <<cache, cooling>>
           /\ UNCHANGED excused \/ excused' = [r \in Subs |-> TRUE]
  BY <1>1, <1>5, <1>6, <1>7, <1>9, UnacceptedKeeps
<1> QED BY <1>5, <1>8, <1>9

\* A transfer is made, and the next one considered.
LEMMA HealsMove == \A p \in Bases : HealsInv /\ UNCHANGED enabled /\ Move(p) => HealsInv'
<1> SUFFICES ASSUME NEW p \in Bases, HealsInv, UNCHANGED enabled, Move(p) PROVE HealsInv'
  OBVIOUS
<1>1. At(p) = "move" /\ UNCHANGED <<way, cooling, healed>> /\ funds \in [Subs -> Balances]
  BY DEF HealsInv, StateTyped, Move, Order
<1>2. Fit(p, task[p]) /\ ~way[p].here
  BY <1>1, TaskOf DEF Forced, Cached
<1>3. PICK s \in Subs, c \in Currencies, n \in Nat : s = Sent(p).from /\ c = Sent(p).cur /\ n = Sent(p).amount
  BY <1>1, SentTyped DEF HealsInv
<1>4. PICK after : after = [funds EXCEPT ![s][c] = @ - n, ![Other(s)][c] = @ + n]
  OBVIOUS
<1>5. PICK ts : ts = Moving(p, [task[p] EXCEPT !.orders = Tail(@)])
  OBVIOUS
<1>6. /\ Now(p, ts)
      /\ UNCHANGED funds \/ (funds' = after /\ ~(funds[s][c] < n))
      /\ \/ Invalidated(Subs)
         \/ UNCHANGED cache /\ (UNCHANGED excused \/ excused' = [r \in Subs |-> TRUE])
  <2>1. PICK o : o = Sent(p)
    OBVIOUS
  <2>2. Order(p, [funds EXCEPT ![o.from][o.cur] = @ - o.amount, ![Other(o.from)][o.cur] = @ + o.amount],
              Invalidated(Subs) /\ UNCHANGED <<cooling, healed>> /\ Now(p, ts),
              funds[o.from][o.cur] < o.amount,
              Now(p, ts))
    BY <1>5, <2>1, Zenon DEF Move
  <2>3. o.from = s /\ o.cur = c /\ o.amount = n
    BY <1>3, <2>1
  <2>4. Order(p, after,
              Invalidated(Subs) /\ UNCHANGED <<cooling, healed>> /\ Now(p, ts),
              funds[s][c] < n,
              Now(p, ts))
    BY <1>4, <2>2, <2>3 DEF Order
  <2> QED BY <2>4, Zenon DEF Order
<1>7. funds' \in [Subs -> Balances]
  <2>1. funds[s][c] \in Nat
    BY <1>1 DEF Balances
  <2>2. ~(funds[s][c] < n) => n <= funds[s][c]
    BY <2>1
  <2>3. n <= funds[s][c] => after \in [Subs -> Balances]
    BY <1>1, <1>4, MoveTyped
  <2> QED BY <1>1, <1>6, <2>2, <2>3
<1>8. \A u \in ts : Follows(p, task[p], u)
  <2>1. PICK rest \in Seq(OrderSet) : rest = Tail(task[p].orders) /\ Len(rest) <= 1
    BY <1>1, SentTyped DEF HealsInv
  <2>2. PICK m : m = [task[p] EXCEPT !.orders = rest]
    OBVIOUS
  <2>3. m \in Tasks /\ m.orders = rest /\ m.short = task[p].short /\ m.cur = task[p].cur
    BY <1>2, <2>2, TaskTyped DEF Tasks
  <2>4. m.short \in {"none", Quote, p} /\ m.cur \in {Quote, p} /\ Len(m.orders) <= 2
    BY <1>2, <2>1, <2>3, TaskFields
  <2>5. ts = Moving(p, m)
    BY <1>5, <2>1, <2>2
  <2> QED BY <2>3, <2>4, <2>5, MovingFits
<1>9. CASE Invalidated(Subs)
  <2>1. StateTyped'
    BY <1>1, <1>7, <1>9, InvalidatedTyped DEF HealsInv, StateTyped
  <2> QED BY <1>1, <1>2, <1>6, <1>8, <2>1, StepKeeps
<1>10. CASE UNCHANGED cache /\ (UNCHANGED excused \/ excused' = [r \in Subs |-> TRUE])
  BY <1>1, <1>6, <1>7, <1>8, <1>10, UnacceptedKeeps
<1> QED BY <1>6, <1>9, <1>10

\* Time: a cooldown that runs out lets the sales start from nothing, and those
\* who are past the check are no more than the tasks.
LEMMA HealsTime == HealsInv /\ UNCHANGED enabled /\ Time => HealsInv'
<1> SUFFICES ASSUME HealsInv, UNCHANGED enabled, Time PROVE HealsInv'
  OBVIOUS
<1>1. UNCHANGED <<funds, task, way, excused>> /\ \A s \in Subs : Sellers(s)' = Sellers(s)
  BY DEF Time, Expire, RunsOut, Sellers, At
<1>2. Fitting' /\ Awaited'
  BY <1>1 DEF HealsInv, Fitting, Fit, Awaited, At
<1>3. CASE \E s \in Subs : Expire(s)
  <2>1. PICK s \in Subs : Expire(s)
    BY <1>3
  <2>2. UNCHANGED <<cooling, healed>> /\ cache' = [cache EXCEPT ![s] = [funds |-> @.funds, fresh |-> FALSE]]
    BY <2>1 DEF Expire
  <2>3. StateTyped'
    BY <1>1, <2>2 DEF HealsInv, StateTyped
  <2>4. Counted'
    BY <1>1, <2>2 DEF HealsInv, Counted
  <2> QED BY <1>2, <2>3, <2>4 DEF HealsInv
<1>4. CASE \E c \in cooling : RunsOut(c)
  <2>1. PICK c \in cooling : RunsOut(c)
    BY <1>4
  <2>2. /\ cooling' = cooling \ {c} /\ UNCHANGED cache /\ c[1] \in Subs /\ c = <<c[1], c[2]>>
        /\ healed' = IF c[2] = Quote THEN [healed EXCEPT ![c[1]] = 0] ELSE healed
    BY <2>1 DEF RunsOut, HealsInv, StateTyped
  <2>3. StateTyped'
    BY <1>1, <2>2 DEF HealsInv, StateTyped
  <2>4. Counted'
    <3> SUFFICES ASSUME NEW s \in Subs
                 PROVE  /\ healed'[s] > 0 => <<s, Quote>> \in cooling'
                        /\ healed'[s] + Cardinality(Sellers(s)') <= Cardinality(enabled')
      BY DEF Counted
    <3>1. /\ healed[s] \in Nat /\ (healed[s] > 0 => <<s, Quote>> \in cooling)
          /\ healed[s] + Cardinality(Sellers(s)) <= Cardinality(enabled)
      BY DEF HealsInv, Counted, StateTyped
    <3>2. CASE c = <<s, Quote>>
      <4>1. healed'[s] = 0
        BY <2>2, <3>2 DEF HealsInv, StateTyped
      <4>2. Cardinality(Sellers(s)) <= Cardinality(enabled) /\ Cardinality(Sellers(s)) \in Nat
        <5>1. Sellers(s) \subseteq enabled
          BY DEF Sellers
        <5> QED BY <5>1, Countable DEF HealsInv
      <4> QED BY <1>1, <4>1, <4>2
    <3>3. CASE c # <<s, Quote>>
      <4>1. healed'[s] = healed[s]
        BY <2>2, <3>3 DEF HealsInv, StateTyped
      <4> QED BY <1>1, <2>2, <3>1, <3>3, <4>1
    <3> QED BY <3>2, <3>3
  <2> QED BY <1>2, <2>3, <2>4 DEF HealsInv
<1> QED BY <1>3, <1>4 DEF Time

\* An order that was left resting is filled.
LEMMA HealsFill == \A leg \in Legs : HealsInv /\ MakerFills(leg) => HealsInv'
<1> SUFFICES ASSUME NEW leg \in Legs, HealsInv, MakerFills(leg) PROVE HealsInv'
  OBVIOUS
<1>1. /\ UNCHANGED <<enabled, cache, cooling, task, way, healed>>
      /\ funds' = [funds EXCEPT ![leg[1]][leg[3]] = @ + Lot]
      /\ excused' = [excused EXCEPT ![leg[1]] = TRUE]
  BY DEF MakerFills
<1>2. PICK s \in Subs, in \in Currencies : s = leg[1] /\ in = leg[3]
  BY DEF Legs
<1>3. funds' \in [Subs -> Balances]
  <2>1. Lot \in Nat /\ funds \in [Subs -> Balances]
    BY ThresholdsTyped DEF HealsInv, StateTyped
  <2>2. PICK a \in [Currencies -> Nat] : a = funds[s]
    BY <2>1 DEF Balances
  <2>3. PICK n \in Nat : n = a[in] + Lot
    BY <2>1
  <2>4. PICK b \in [Currencies -> Nat] : b = [a EXCEPT ![in] = n]
    OBVIOUS
  <2>5. funds' = [funds EXCEPT ![s] = b]
    BY <1>1, <1>2, <2>2, <2>3, <2>4
  <2> QED BY <2>1, <2>4, <2>5 DEF Balances
<1>4. StateTyped'
  BY <1>1, <1>3 DEF HealsInv, StateTyped
<1>5. Fitting' /\ Awaited'
  BY <1>1 DEF HealsInv, Fitting, Fit, Awaited, At
<1>6. Counted'
  BY <1>1 DEF HealsInv, Counted, Sellers, At
<1> QED BY <1>4, <1>5, <1>6 DEF HealsInv

\* Orders that are left resting are counted, and only those there are are filled.
LEMMA RestingCounted == Spec => [](resting \in [Legs -> Nat])
<1>1. Init => resting \in [Legs -> Nat]
  BY DEF Init
<1>2. resting \in [Legs -> Nat] /\ [Next]_vars => (resting \in [Legs -> Nat])'
  <2> SUFFICES ASSUME resting \in [Legs -> Nat], [Next]_vars PROVE resting' \in [Legs -> Nat]
    OBVIOUS
  <2>1. ASSUME NEW p \in Bases, Turn(p) PROVE resting' \in [Legs -> Nat]
    <3>1. CASE Trade(p)
      <4>1. PICK s \in Subs, maker \in {"gone", "filled", "left"} :
               resting' = IF maker = "left" THEN [resting EXCEPT ![Leg(p, s)] = @ + 1] ELSE resting
        BY <3>1 DEF Trade
      <4>2. PICK leg \in Legs : leg = Leg(p, s)
        <5>1. p \in Currencies /\ Quote \in Currencies
          BY DEF Currencies
        <5>2. <<s, Quote, p>> \in Legs /\ <<s, p, Quote>> \in Legs
          BY <5>1 DEF Legs
        <5>3. Leg(p, s) \in Legs
          BY <5>2, Zenon DEF Leg
        <5> QED BY <5>3
      <4>3. PICK n \in Nat : n = resting[leg] + 1
        OBVIOUS
      <4>4. [resting EXCEPT ![Leg(p, s)] = @ + 1] = [resting EXCEPT ![leg] = n]
        BY <4>2, <4>3
      <4> QED BY <4>1, <4>4
    <3>2. CASE Refused(p) \/ Settle(p) \/ Sell(p) \/ Buy(p) \/ Move(p)
      BY <3>2 DEF Refused, Settle, Sell, Buy, Move
    <3>3. CASE StartCycle(p) \/ NoRoom(p) \/ Read(p) \/ AfterCycle(p) \/ SkipCooling(p)
      BY <3>3 DEF StartCycle, NoRoom, Begins, Read, AfterCycle, SkipCooling, Quiet
    <3>4. CASE Ask(p) \/ AskFails(p)
      BY <3>4 DEF Ask, AskFails, Asks
    <3>5. CASE Answer(p)
      BY <3>5 DEF Answer
    <3> QED BY <2>1, <3>1, <3>2, <3>3, <3>4, <3>5 DEF Turn, Step
  <2>2. CASE Time
    BY <2>2 DEF Time, Expire, RunsOut
  <2>3. ASSUME NEW leg \in Legs, MakerFills(leg) PROVE resting' \in [Legs -> Nat]
    BY <2>3 DEF MakerFills
  <2>4. CASE UNCHANGED vars
    BY <2>4 DEF vars
  <2> QED BY <2>1, <2>2, <2>3, <2>4 DEF Next
<1> QED BY <1>1, <1>2, PTL DEF Spec

\* heal marks the cooldown only when its sale is accepted: the tasks that passed
\* the check before still sell, but each of them once, whatever the number of
\* pairs, the balances and the interleaving; and no balance turns negative.
THEOREM HealsStayBounded == Spec => []HealsBounded
<1>1. Init => HealsInv
  <2> SUFFICES ASSUME Init PROVE HealsInv
    OBVIOUS
  <2>1. PICK setup \in Setups : enabled = setup[1] /\ funds = setup[2]
    BY DEF Init
  <2>2. enabled \subseteq Bases /\ funds \in [Subs -> Balances]
    BY <2>1, SpotAssumption DEF Balances
  <2>3. NoEntry \in [funds : Balances, fresh : BOOLEAN]
        /\ NoAnswer \in [funds : Balances, here : BOOLEAN, good : BOOLEAN] /\ ~NoAnswer.here
    BY DEF NoEntry, NoAnswer, Zero, Balances
  <2>4. StateTyped
    BY <2>2, <2>3 DEF Init, StateTyped
  <2>5. Awaited
    BY <2>3 DEF Init, Awaited
  <2>6. \A p \in Bases : Fit(p, Idle("none"))
    BY IdleFits DEF Follows
  <2>7. Fitting
    BY <2>6 DEF Init, Fitting
  <2>8. \A s \in Subs : Sellers(s) = {}
    BY <2>2 DEF Init, Sellers, At, Idle, Selling
  <2>9. Counted
    <3>1. Cardinality({}) = 0 /\ Cardinality(enabled) \in Nat
      BY <2>4, Countable, FS_EmptySet
    <3> QED BY <2>8, <3>1 DEF Init, Counted
  <2> QED BY <2>4, <2>5, <2>7, <2>9 DEF HealsInv
<1>2. HealsInv /\ [Next]_vars => HealsInv'
  <2> SUFFICES ASSUME HealsInv, [Next]_vars PROVE HealsInv'
    OBVIOUS
  <2>1. CASE UNCHANGED vars
    BY <2>1 DEF vars, HealsInv, StateTyped, Fitting, Fit, Awaited, Counted, Sellers, At
  <2>2. ASSUME NEW p \in Bases, Turn(p) PROVE HealsInv'
    <3>1. p \in enabled /\ UNCHANGED enabled
      BY <2>2 DEF Turn
    <3> QED BY <2>2, <3>1, HealsBegins, HealsRead, HealsAsk, HealsAnswer, HealsTrade, HealsSettle,
               HealsAfter, HealsSell, HealsBuy, HealsMove DEF Turn, Step
  <2>3. CASE Time /\ UNCHANGED <<enabled, cycles>>
    BY <2>3, HealsTime
  <2>4. ASSUME NEW leg \in Legs, MakerFills(leg) PROVE HealsInv'
    BY <2>4, HealsFill
  <2> QED BY <2>1, <2>2, <2>3, <2>4 DEF Next
<1>3. HealsInv /\ resting \in [Legs -> Nat] => HealsBounded
  <2> SUFFICES ASSUME HealsInv, resting \in [Legs -> Nat] PROVE HealsBounded
    OBVIOUS
  <2>1. TypeOK
    <3> SUFFICES ASSUME NEW p \in Bases
                 PROVE  LET t == task[p] IN
                        /\ t.at \in Places /\ t.short \in {"none", Quote, p} /\ t.sub \in Subs
                        /\ t.cur \in {Quote, p} /\ t.held \in Nat /\ t.offer \subseteq Bases
                        /\ Len(t.orders) <= 2
                        /\ t.at \in {"sell", "buy", "move"} => t.orders # <<>>
      BY DEF HealsInv, StateTyped, TypeOK
    <3> QED BY TaskOf, TaskFields DEF Fit
  <2>2. ASSUME NEW s \in Subs PROVE healed[s] <= Cardinality(enabled)
    <3>1. healed[s] \in Nat /\ healed[s] + Cardinality(Sellers(s)) <= Cardinality(enabled)
      BY DEF HealsInv, Counted, StateTyped
    <3>2. Cardinality(Sellers(s)) \in Nat /\ Cardinality(enabled) \in Nat
      <4>1. Sellers(s) \subseteq enabled
        BY DEF Sellers
      <4> QED BY <4>1, Countable DEF HealsInv
    <3> QED BY <3>1, <3>2
  <2> QED BY <2>1, <2>2 DEF HealsBounded
<1> QED BY <1>1, <1>2, <1>3, RestingCounted, PTL DEF Spec
=============================================================================
