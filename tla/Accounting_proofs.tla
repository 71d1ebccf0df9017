--------------------------- MODULE Accounting_proofs ---------------------------
(***************************************************************************)
(* The workbook, the audit log and the sessions of the accounting bot stay *)
(* in step for any number of users, receipts, failures, restarts and edits *)
(* by hand.                                                                *)
(***************************************************************************)
EXTENDS Accounting, TLAPS, FiniteSetTheorems, SequenceTheorems

Entry == [user : Users, status : Status, value : Values, row : Nat, exported : BOOLEAN]

-----------------------------------------------------------------------------
(* The inductive invariant.                                                *)

\* What a session holds is waiting in the log, and is held in one place.
Waiting(u, i) == i \in DOMAIN log /\ log[i].user = u /\ log[i].status = "pending"

HeldWait ==
  \A u \in Users :
    /\ pending[u] # None => Waiting(u, pending[u].id)
    /\ \A k \in DOMAIN queue[u] :
         /\ Waiting(u, queue[u][k].id)
         /\ pending[u] # None => queue[u][k].id # pending[u].id
         /\ \A l \in DOMAIN queue[u] : queue[u][l].id = queue[u][k].id => l = k

\* Until a restart the session of its user holds every waiting entry.
Holds(u, i) ==
  (pending[u] # None /\ pending[u].id = i) \/ \E k \in DOMAIN queue[u] : queue[u][k].id = i

WaitingHeld ==
  faults = 0 => \A i \in DOMAIN log : log[i].status = "pending" => Holds(log[i].user, i)

\* An undo was asked for an entry that is still written, by its own user; an
\* export is of an entry that was completed, and so is whatever was exported.
ChosenDone ==
  \A u \in Users :
    /\ candidate[u] # NoEntry => /\ candidate[u] \in DOMAIN log
                                 /\ log[candidate[u]].user = u
                                 /\ log[candidate[u]].status = "written"
    /\ completed[u] # NoEntry => /\ completed[u] \in DOMAIN log
                                 /\ log[completed[u]].status \notin {"pending", "cancelled"}

ExportedDone == \A i \in DOMAIN log : log[i].exported => log[i].status \notin {"pending", "cancelled"}

\* The receipt the buttons act on was shown, or its preview could not be sent.
WasShown(u, p) == p \in shown[u] \/ p.id \in unsent
KeepsShown(u)  == \A p : WasShown(u, p) => WasShown(u, p)'

PendingShown == \A u \in Users : pending[u] # None => WasShown(u, pending[u])

Sessions ==
  /\ HeldWait /\ WaitingHeld /\ ChosenDone /\ ExportedDone
  /\ PendingShown /\ NotStranded /\ PostedWasShown

\* While nothing failed a written entry has its row for itself, and the row is
\* as the entry wrote it or was overwritten by hand.
RowsKept ==
  faults = 0 =>
    \A i \in LoggedAs("written") :
      /\ log[i].row \in DOMAIN sheet
      /\ LET r == sheet[log[i].row] IN
         \/ r.by = i /\ r.value = log[i].value
         \/ r.by = 0 /\ human > 0 /\ (r.value = log[i].value => human > 1)
      /\ \A j \in LoggedAs("written") : log[j].row = log[i].row => j = i

-----------------------------------------------------------------------------
(* The log.                                                                *)

\* The entries of the log are well formed.
LEMMA Indexed ==
  ASSUME TypeOK
  PROVE  /\ log \in Seq(Entry) /\ Len(log) \in Nat /\ DOMAIN log = 1..Len(log)
         /\ \A i \in DOMAIN log : i \in Nat \ {0} /\ log[i] \in Entry
<1>1. log \in Seq(Entry)
  BY DEF TypeOK, Entry
<1>2. Len(log) \in Nat /\ DOMAIN log = 1..Len(log)
  BY <1>1, LenProperties
<1>3. \A i \in 1..Len(log) : log[i] \in Entry
  BY <1>1, ElementOfSeq
<1> QED BY <1>1, <1>2, <1>3

\* A new entry stands behind the others, which stay what they are.
LEMMA Created ==
  ASSUME TypeOK, NEW u \in Users, NEW v \in Values, CreateEntry(u, v)
  PROVE  /\ log' \in Seq(Entry) /\ Len(log') = Len(log) + 1
         /\ DOMAIN log' = DOMAIN log \cup {Len(log) + 1} /\ Len(log) + 1 \notin DOMAIN log
         /\ \A i \in DOMAIN log : log'[i] = log[i]
         /\ log'[Len(log) + 1] = [user |-> u, status |-> "pending", value |-> v,
                                  row |-> NoEntry, exported |-> FALSE]
<1> DEFINE e == [user |-> u, status |-> "pending", value |-> v, row |-> NoEntry, exported |-> FALSE]
<1>1. e \in Entry
  BY DEF Entry, Status, NoEntry
<1>2. log \in Seq(Entry) /\ log' = Append(log, e)
  BY DEF TypeOK, Entry, CreateEntry
<1> HIDE DEF e
<1>3. /\ log' \in Seq(Entry) /\ Len(log') = Len(log) + 1
      /\ \A i \in 1..Len(log) : log'[i] = log[i]
      /\ log'[Len(log) + 1] = e
  BY <1>1, <1>2, AppendProperties
<1>4. DOMAIN log = 1..Len(log) /\ DOMAIN log' = 1..Len(log') /\ Len(log) \in Nat
  BY <1>2, <1>3, LenProperties
<1> QED BY <1>3, <1>4 DEF e

\* An update concerns one entry and leaves its user and its export alone.
LEMMA Updated ==
  ASSUME TypeOK, NEW id \in DOMAIN log, NEW status \in Status, NEW v \in Values, NEW row \in Nat,
         UpdateEntry(id, status, v, row)
  PROVE  /\ log' \in Seq(Entry) /\ DOMAIN log' = DOMAIN log
         /\ \A i \in DOMAIN log : i # id => log'[i] = log[i]
         /\ log'[id].user = log[id].user /\ log'[id].exported = log[id].exported
         /\ log'[id].status = status /\ log'[id].value = v /\ log'[id].row = row
<1> DEFINE e == [log[id] EXCEPT !.status = status, !.value = v, !.row = row]
<1>1. log \in Seq(Entry) /\ id \in 1..Len(log) /\ log[id] \in Entry
  BY Indexed
<1>2. /\ e \in Entry /\ e.user = log[id].user /\ e.exported = log[id].exported
      /\ e.status = status /\ e.value = v /\ e.row = row
  BY <1>1 DEF Entry
<1>3. log' = [log EXCEPT ![id] = e]
  BY <1>1 DEF UpdateEntry, Entry
<1> HIDE DEF e
<1>4. [log EXCEPT ![id] = e] \in Seq(Entry)
  BY <1>1, <1>2, ExceptSeq
<1>5. DOMAIN log' = DOMAIN log /\ log'[id] = e /\ \A i \in DOMAIN log : i # id => log'[i] = log[i]
  BY <1>3
<1> QED BY <1>2, <1>3, <1>4, <1>5

\* An export marks one entry.
LEMMA Marked ==
  ASSUME TypeOK, NEW id \in DOMAIN log, log' = [log EXCEPT ![id].exported = TRUE]
  PROVE  /\ log' \in Seq(Entry) /\ DOMAIN log' = DOMAIN log
         /\ \A i \in DOMAIN log : i # id => log'[i] = log[i]
         /\ \A i \in DOMAIN log : /\ log'[i].user = log[i].user /\ log'[i].status = log[i].status
                                  /\ log'[i].value = log[i].value /\ log'[i].row = log[i].row
<1> DEFINE e == [log[id] EXCEPT !.exported = TRUE]
<1>1. log \in Seq(Entry) /\ id \in 1..Len(log) /\ log[id] \in Entry
  BY Indexed
<1>2. /\ e \in Entry /\ e.user = log[id].user /\ e.status = log[id].status
      /\ e.value = log[id].value /\ e.row = log[id].row
  BY <1>1 DEF Entry
<1>3. log' = [log EXCEPT ![id] = e]
  BY <1>1
<1> HIDE DEF e
<1>4. [log EXCEPT ![id] = e] \in Seq(Entry)
  BY <1>1, <1>2, ExceptSeq
<1>5. DOMAIN log' = DOMAIN log /\ log'[id] = e /\ \A i \in DOMAIN log : i # id => log'[i] = log[i]
  BY <1>3
<1> QED BY <1>2, <1>3, <1>4, <1>5

-----------------------------------------------------------------------------
(* The queue of a session.                                                 *)

\* A receipt that is logged while another one is pending goes behind the queue.
LEMMA Queued ==
  ASSUME NEW q \in Seq(Receipt), NEW p \in Receipt
  PROVE  /\ Append(q, p) \in Seq(Receipt)
         /\ DOMAIN Append(q, p) = DOMAIN q \cup {Len(q) + 1} /\ Len(q) + 1 \notin DOMAIN q
         /\ \A k \in DOMAIN q : Append(q, p)[k] = q[k]
         /\ Append(q, p)[Len(q) + 1] = p
BY AppendProperties, LenProperties

\* Promotion takes the first receipt and moves the others up.
LEMMA Promoted ==
  ASSUME NEW q \in Seq(Receipt), q # <<>>
  PROVE  /\ Tail(q) \in Seq(Receipt) /\ Head(q) \in Receipt
         /\ 1 \in DOMAIN q /\ Head(q) = q[1]
         /\ \A k \in DOMAIN Tail(q) : k + 1 \in DOMAIN q /\ Tail(q)[k] = q[k + 1] /\ k \in Nat \ {0}
         /\ \A k \in DOMAIN q : k # 1 => k - 1 \in DOMAIN Tail(q) /\ Tail(q)[k - 1] = q[k]
<1>1. Len(q) \in Nat /\ Len(q) # 0 /\ DOMAIN q = 1..Len(q)
  BY EmptySeq, LenProperties
<1>2. /\ Tail(q) \in Seq(Receipt) /\ Len(Tail(q)) = Len(q) - 1
      /\ \A k \in 1..Len(q) - 1 : Tail(q)[k] = q[k + 1]
      /\ Head(q) = q[1] /\ Head(q) \in Receipt
  BY <1>1, HeadTailProperties
<1>3. DOMAIN Tail(q) = 1..Len(q) - 1
  BY <1>2, LenProperties
<1> QED BY <1>1, <1>2, <1>3

-----------------------------------------------------------------------------
(* The sessions.                                                           *)

\* Whatever leaves the log, the sessions and the previews alone.
LEMMA SessionsUntouched ==
  ASSUME Sessions, UNCHANGED <<log, pending, queue, candidate, completed, replies>>,
         faults' = 0 => faults = 0
  PROVE  Sessions'
BY DEF Sessions, HeldWait, Waiting, WaitingHeld, Holds, ChosenDone, ExportedDone, PendingShown,
       WasShown, NotStranded, PostedWasShown, replies

\* A preview is sent or cannot be sent; what was shown before stays shown.
LEMMA Showing ==
  ASSUME TypeOK, NEW u \in Users, NEW p \in Receipt, Show(u, p)
  PROVE  /\ WasShown(u, p)' /\ \A w \in Users : KeepsShown(w)
         /\ shown' \in [Users -> SUBSET Receipt] /\ unsent' \subseteq Nat \ {0}
<1>1. p.id \in Nat \ {0}
  BY DEF Receipt
<1>2. CASE shown' = [shown EXCEPT ![u] = @ \cup {p}] /\ UNCHANGED unsent
  BY <1>1, <1>2 DEF TypeOK, WasShown, KeepsShown
<1>3. CASE unsent' = unsent \cup {p.id} /\ UNCHANGED shown
  BY <1>1, <1>3 DEF TypeOK, WasShown, KeepsShown
<1> QED BY <1>2, <1>3 DEF Show

\* Where nothing is sent nothing changes.
LEMMA NothingShown ==
  ASSUME TypeOK, UNCHANGED replies
  PROVE  /\ \A w \in Users : KeepsShown(w)
         /\ shown' \in [Users -> SUBSET Receipt] /\ unsent' \subseteq Nat \ {0}
BY DEF replies, TypeOK, WasShown, KeepsShown

\* What one session holds, of the three conditions on it.
HeldBy(u) ==
  /\ pending[u] # None => Waiting(u, pending[u].id) /\ WasShown(u, pending[u])
  /\ queue[u] # <<>> => pending[u] # None
  /\ \A k \in DOMAIN queue[u] :
       /\ Waiting(u, queue[u][k].id)
       /\ pending[u] # None => queue[u][k].id # pending[u].id
       /\ \A l \in DOMAIN queue[u] : queue[u][l].id = queue[u][k].id => l = k

LEMMA HeldByAll == HeldWait /\ PendingShown /\ NotStranded <=> \A u \in Users : HeldBy(u)
BY DEF HeldWait, PendingShown, NotStranded, HeldBy

\* A session that is left alone holds what it held as long as it waits.
LEMMA OthersHold ==
  ASSUME NEW w \in Users, HeldBy(w), pending'[w] = pending[w], queue'[w] = queue[w],
         KeepsShown(w), \A i : Waiting(w, i) => Waiting(w, i)'
  PROVE  HeldBy(w)' /\ \A i : Holds(w, i)' <=> Holds(w, i)
BY DEF HeldBy, Waiting, Holds, KeepsShown, WasShown

\* A receipt enters: it waits in the log and in one place of its user's session.
LEMMA ReceiptEnters ==
  ASSUME TypeOK, Sessions, NEW u \in Users, NEW v \in Values, QueueExtraction(u, v),
         UNCHANGED <<candidate, completed, faults>>
  PROVE  Sessions'
<1>1. PICK n \in Nat \ {0} : n = Len(log) + 1
  BY Indexed
<1>2. PICK p : p = [id |-> n, value |-> v]
  OBVIOUS
<1>3. p \in Receipt /\ p.id = n /\ p # None
  BY <1>1, <1>2, AccountingAssumption DEF Receipt
<1>4. /\ DOMAIN log' = DOMAIN log \cup {n} /\ n \notin DOMAIN log
      /\ \A i \in DOMAIN log : log'[i] = log[i]
      /\ log'[n] = [user |-> u, status |-> "pending", value |-> v, row |-> NoEntry, exported |-> FALSE]
  BY <1>1, Created DEF QueueExtraction
<1>5. log'[n].user = u /\ log'[n].status = "pending" /\ ~log'[n].exported
  BY <1>4
<1>6. queue[u] \in Seq(Receipt) /\ u \in DOMAIN queue /\ u \in DOMAIN pending /\ u \in DOMAIN shown
  BY DEF TypeOK
<1>7. \A w \in Users : \A i : Waiting(w, i) => Waiting(w, i)' /\ i # n
  BY <1>4 DEF Waiting
<1>8. Waiting(u, n)'
  BY <1>4, <1>5 DEF Waiting
<1>9. /\ \A w \in Users : w # u => pending'[w] = pending[w] /\ queue'[w] = queue[w]
      /\ \A w \in Users : KeepsShown(w)
  <2>1. \A w \in Users : w # u => pending'[w] = pending[w] /\ queue'[w] = queue[w]
    BY DEF QueueExtraction, TypeOK
  <2>2. CASE pending[u] = None
    BY <1>1, <1>2, <1>3, <2>1, <2>2, Showing DEF QueueExtraction
  <2>3. CASE pending[u] # None
    BY <2>1, <2>3, NothingShown DEF QueueExtraction
  <2> QED BY <2>2, <2>3
<1>10. \A w \in Users : HeldBy(w)
  BY HeldByAll DEF Sessions
<1>11. HeldBy(u)' /\ Holds(u, n)' /\ \A i : Holds(u, i) => Holds(u, i)'
  <2>1. CASE pending[u] = None
    <3>1. queue' = queue /\ queue[u] = <<>> /\ pending'[u] = p /\ WasShown(u, p)'
      <4>1. Show(u, p)
        BY <1>1, <1>2, <2>1 DEF QueueExtraction
      <4>2. WasShown(u, p)'
        BY <1>3, <4>1, Showing
      <4> QED BY <1>1, <1>2, <1>6, <1>10, <2>1, <4>2 DEF QueueExtraction, HeldBy
    <3>2. queue'[u] = <<>> /\ DOMAIN queue[u] = {} /\ DOMAIN queue'[u] = {}
      BY <3>1
    <3>3. HeldBy(u)'
      BY <1>3, <1>8, <3>1, <3>2 DEF HeldBy, WasShown
    <3>4. Holds(u, n)' /\ \A i : ~Holds(u, i)
      BY <1>3, <2>1, <3>1, <3>2 DEF Holds
    <3> QED BY <3>1, <3>3, <3>4
  <2>2. CASE pending[u] # None
    <3>1. queue'[u] = Append(queue[u], p) /\ pending'[u] = pending[u]
      BY <1>1, <1>2, <1>6, <2>2 DEF QueueExtraction
    <3>2. PICK m : m = Len(queue[u]) + 1
      OBVIOUS
    <3>3. /\ DOMAIN queue'[u] = DOMAIN queue[u] \cup {m} /\ m \notin DOMAIN queue[u]
          /\ \A k \in DOMAIN queue[u] : queue'[u][k] = queue[u][k]
          /\ queue'[u][m] = p
      BY <1>3, <1>6, <3>1, <3>2, Queued
    <3>4. \A k \in DOMAIN queue[u] : Waiting(u, queue[u][k].id) /\ queue[u][k].id # pending[u].id
      BY <1>10, <2>2 DEF HeldBy
    <3>5. pending[u].id # n /\ \A k \in DOMAIN queue[u] : queue[u][k].id # n
      BY <1>7, <1>10, <2>2, <3>4 DEF HeldBy
    <3>6. \A k \in DOMAIN queue'[u] : Waiting(u, queue[u][k].id)' /\ queue'[u][k].id # pending[u].id
      BY <1>3, <1>7, <1>8, <3>3, <3>4, <3>5
    <3>7. \A k, l \in DOMAIN queue'[u] : queue'[u][l].id = queue'[u][k].id => l = k
      BY <1>3, <1>10, <3>3, <3>5 DEF HeldBy
    <3>8. Waiting(u, pending[u].id)' /\ WasShown(u, pending[u])'
      <4>1. Waiting(u, pending[u].id) /\ WasShown(u, pending[u])
        BY <1>10, <2>2 DEF HeldBy
      <4> QED BY <1>7, <1>9, <3>1, <4>1 DEF KeepsShown, WasShown
    <3>9. HeldBy(u)'
      BY <2>2, <3>1, <3>6, <3>7, <3>8 DEF HeldBy
    <3>10. Holds(u, n)' /\ \A i : Holds(u, i) => Holds(u, i)'
      BY <1>3, <3>1, <3>3 DEF Holds
    <3> QED BY <3>1, <3>9, <3>10
  <2> QED BY <2>1, <2>2
<1>12. \A w \in Users : w # u => HeldBy(w)' /\ \A i : Holds(w, i)' <=> Holds(w, i)
  BY <1>7, <1>9, <1>10, OthersHold
<1>13. HeldWait' /\ PendingShown' /\ NotStranded'
  <2>1. \A w \in Users : HeldBy(w)'
    BY <1>11, <1>12
  <2> QED BY <2>1 DEF HeldWait, PendingShown, NotStranded, HeldBy
<1>14. WaitingHeld'
  <2>1. \A i \in DOMAIN log : log[i].user \in Users
    BY Indexed DEF Entry
  <2> QED BY <1>4, <1>5, <1>11, <1>12, <2>1 DEF WaitingHeld, Sessions
<1>15. ChosenDone'
  BY <1>4 DEF ChosenDone, Sessions
<1>16. ExportedDone'
  BY <1>4, <1>5 DEF ExportedDone, Sessions
<1>17. PostedWasShown'
  <2>1. \A i \in DOMAIN log : log[i].user \in Users
    BY Indexed DEF Entry
  <2> QED BY <1>4, <1>5, <1>9, <2>1 DEF PostedWasShown, Sessions, KeepsShown, WasShown
<1> QED BY <1>13, <1>14, <1>15, <1>16, <1>17 DEF Sessions

\* A promotion leaves a session that holds the rest of what it held.
LEMMA PromotionHolds ==
  ASSUME TypeOK, NEW u \in Users, HeldBy(u), pending[u] # None,
         PromoteNextPending(u), ShowNext(u),
         \A i : Waiting(u, i) /\ i # pending[u].id => Waiting(u, i)'
  PROVE  /\ HeldBy(u)' /\ \A w \in Users : KeepsShown(w)
         /\ \A i : Holds(u, i) /\ i # pending[u].id => Holds(u, i)'
<1>1. queue[u] \in Seq(Receipt) /\ u \in DOMAIN queue /\ u \in DOMAIN pending /\ u \in DOMAIN shown
  BY DEF TypeOK
<1>2. CASE queue[u] = <<>>
  <2>1. queue'[u] = <<>> /\ pending'[u] = None /\ DOMAIN queue[u] = {} /\ DOMAIN queue'[u] = {}
    BY <1>1, <1>2 DEF PromoteNextPending
  <2>2. \A w \in Users : KeepsShown(w)
    BY <1>2, NothingShown DEF ShowNext
  <2> QED BY <1>2, <2>1, <2>2 DEF HeldBy, Holds
<1>3. CASE queue[u] # <<>>
  <2>1. PICK q : q = queue[u]
    OBVIOUS
  <2>2. pending'[u] = Head(q) /\ queue'[u] = Tail(q) /\ Show(u, Head(q))
    BY <1>1, <1>3, <2>1 DEF PromoteNextPending, ShowNext
  <2>3. /\ Head(q) \in Receipt
        /\ 1 \in DOMAIN q /\ Head(q) = q[1]
        /\ \A k \in DOMAIN Tail(q) : k + 1 \in DOMAIN q /\ Tail(q)[k] = q[k + 1] /\ k \in Nat \ {0}
        /\ \A k \in DOMAIN q : k # 1 => k - 1 \in DOMAIN Tail(q) /\ Tail(q)[k - 1] = q[k]
    BY <1>1, <1>3, <2>1, Promoted
  <2>4. Head(q) # None
    BY <2>3, AccountingAssumption
  <2>5. /\ \A k \in DOMAIN q : Waiting(u, q[k].id) /\ q[k].id # pending[u].id
        /\ \A k, l \in DOMAIN q : q[l].id = q[k].id => l = k
    BY <2>1 DEF HeldBy
  <2>6. \A k \in DOMAIN q : Waiting(u, q[k].id)'
    BY <2>5
  <2>7. Waiting(u, Head(q).id)' /\ WasShown(u, Head(q))' /\ \A w \in Users : KeepsShown(w)
    BY <2>2, <2>3, <2>6, Showing
  <2>8. \A k \in DOMAIN queue'[u] : Waiting(u, queue[u][k].id)' /\ queue'[u][k].id # pending'[u].id
    <3> SUFFICES ASSUME NEW k \in DOMAIN Tail(q)
                 PROVE  Waiting(u, Tail(q)[k].id)' /\ Tail(q)[k].id # Head(q).id
      BY <2>2
    <3>1. k + 1 \in DOMAIN q /\ Tail(q)[k] = q[k + 1] /\ k + 1 # 1
      BY <2>3
    <3> QED BY <2>3, <2>5, <2>6, <3>1
  <2>9. \A k, l \in DOMAIN queue'[u] : queue'[u][l].id = queue'[u][k].id => l = k
    <3> SUFFICES ASSUME NEW k \in DOMAIN Tail(q), NEW l \in DOMAIN Tail(q), Tail(q)[l].id = Tail(q)[k].id
                 PROVE  l = k
      BY <2>2
    <3>1. k + 1 = l + 1
      BY <2>3, <2>5
    <3> QED BY <2>3, <3>1
  <2>10. HeldBy(u)'
    BY <2>2, <2>4, <2>7, <2>8, <2>9 DEF HeldBy, WasShown
  <2>11. ASSUME NEW i, Holds(u, i), i # pending[u].id PROVE Holds(u, i)'
    <3>1. PICK k \in DOMAIN q : q[k].id = i
      BY <2>1, <2>11 DEF Holds
    <3>2. CASE k = 1
      BY <2>2, <2>3, <2>4, <3>1, <3>2 DEF Holds
    <3>3. CASE k # 1
      BY <2>2, <2>3, <3>1, <3>3 DEF Holds
    <3> QED BY <3>2, <3>3
  <2> QED BY <2>7, <2>10, <2>11
<1> QED BY <1>2, <1>3

\* A receipt is decided on: it leaves the session and the next one takes its place.
LEMMA ReceiptLeaves ==
  ASSUME TypeOK, Sessions, NEW u \in Users, pending[u] # None,
         NEW status \in Status, status # "pending", NEW v \in Values, NEW row \in Nat,
         UpdateEntry(pending[u].id, status, v, row), PromoteNextPending(u), ShowNext(u),
         UNCHANGED <<candidate, faults>>,
         \/ completed' = completed
         \/ completed' = [completed EXCEPT ![u] = pending[u].id] /\ status # "cancelled",
         status = "cancelled" \/ v = pending[u].value
  PROVE  Sessions'
<1>1. PICK id : id = pending[u].id
  OBVIOUS
<1>2. \A w \in Users : HeldBy(w)
  BY HeldByAll DEF Sessions
<1>3. id \in DOMAIN log /\ log[id].user = u /\ log[id].status = "pending" /\ WasShown(u, pending[u])
  BY <1>1, <1>2 DEF HeldBy, Waiting
<1>4. /\ DOMAIN log' = DOMAIN log
      /\ \A i \in DOMAIN log : i # id => log'[i] = log[i]
      /\ log'[id].user = u /\ log'[id].exported = log[id].exported /\ log'[id].status = status
      /\ log'[id].value = v
  BY <1>1, <1>3, Updated
<1>5. ~log'[id].exported
  BY <1>3, <1>4 DEF Sessions, ExportedDone
<1>6. \A w \in Users : \A i : Waiting(w, i) /\ i # id => Waiting(w, i)'
  BY <1>4 DEF Waiting
<1>7. \A w \in Users : w # u => \A i : Waiting(w, i) => i # id
  BY <1>3 DEF Waiting
<1>8. \A w \in Users : w # u => pending'[w] = pending[w] /\ queue'[w] = queue[w]
  BY DEF PromoteNextPending, TypeOK
<1>9. /\ HeldBy(u)' /\ \A w \in Users : KeepsShown(w)
      /\ \A i : Holds(u, i) /\ i # id => Holds(u, i)'
  BY <1>1, <1>2, <1>6, PromotionHolds
<1>10. \A w \in Users : w # u => HeldBy(w)' /\ \A i : Holds(w, i)' <=> Holds(w, i)
  BY <1>2, <1>6, <1>7, <1>8, <1>9, OthersHold
<1>11. HeldWait' /\ PendingShown' /\ NotStranded'
  <2>1. \A w \in Users : HeldBy(w)'
    BY <1>9, <1>10
  <2> QED BY <2>1 DEF HeldWait, PendingShown, NotStranded, HeldBy
<1>12. \A i \in DOMAIN log : log[i].user \in Users
  BY Indexed DEF Entry
<1>13. WaitingHeld'
  BY <1>4, <1>9, <1>10, <1>12 DEF WaitingHeld, Sessions
<1>14. ChosenDone'
  <2>1. \A w \in Users : candidate[w] # NoEntry => candidate[w] # id
    BY <1>3 DEF Sessions, ChosenDone
  <2>2. \A w \in Users : completed[w] # NoEntry => completed[w] # id
    BY <1>3 DEF Sessions, ChosenDone
  <2>3. \A w \in Users : \/ completed'[w] = completed[w]
                         \/ completed'[w] = id /\ status \notin {"pending", "cancelled"}
    BY <1>1 DEF TypeOK
  <2> QED BY <1>3, <1>4, <2>1, <2>2, <2>3 DEF Sessions, ChosenDone
<1>15. ExportedDone'
  BY <1>4, <1>5 DEF ExportedDone, Sessions
<1>16. PostedWasShown'
  <2>1. pending[u] \in Receipt
    BY DEF TypeOK
  <2>2. ASSUME status # "cancelled" PROVE [id |-> id, value |-> log'[id].value] = pending[u]
    BY <1>1, <1>4, <2>1, <2>2 DEF Receipt
  <2>3. status # "cancelled" => pending[u] \in shown'[u] \/ id \in unsent'
    BY <1>1, <1>3, <1>9 DEF KeepsShown, WasShown
  <2>4. \A i \in DOMAIN log : i # id /\ log[i].status \in {"written", "previewed"} =>
          [id |-> i, value |-> log[i].value] \in shown'[log[i].user] \/ i \in unsent'
    <3> SUFFICES ASSUME NEW i \in DOMAIN log, log[i].status \in {"written", "previewed"},
                        NEW e, e = [id |-> i, value |-> log[i].value]
                 PROVE  e \in shown'[log[i].user] \/ i \in unsent'
      OBVIOUS
    <3>1. WasShown(log[i].user, e) /\ e.id = i
      BY DEF PostedWasShown, Sessions, WasShown
    <3> QED BY <1>9, <1>12, <3>1 DEF KeepsShown, WasShown
  <2> QED BY <1>3, <1>4, <2>2, <2>3, <2>4 DEF PostedWasShown
<1> QED BY <1>11, <1>13, <1>14, <1>15, <1>16 DEF Sessions

\* An entry that was written is undone by its own user.
LEMMA SessionsUndo ==
  ASSUME TypeOK, Sessions, NEW u \in Users, ConfirmUndo(u)
  PROVE  Sessions'
<1>1. PICK c : c = candidate[u]
  OBVIOUS
<1>2. c \in DOMAIN log /\ log[c].user = u /\ log[c].status = "written"
  BY <1>1 DEF ConfirmUndo, Sessions, ChosenDone
<1>3. log[c].value \in Values /\ log[c].row \in Nat /\ \A i \in DOMAIN log : log[i].user \in Users
  BY <1>2, Indexed DEF Entry
<1>4. /\ DOMAIN log' = DOMAIN log /\ \A i \in DOMAIN log : i # c => log'[i] = log[i]
      /\ log'[c].user = u /\ log'[c].status = "undone"
  BY <1>1, <1>2, <1>3, Updated DEF ConfirmUndo, Status
<1>5. UNCHANGED <<pending, queue, completed, shown, unsent, faults>> /\ candidate' = [candidate EXCEPT ![u] = NoEntry]
  BY DEF ConfirmUndo, counters, replies
<1>6. \A w \in Users : \A i : Waiting(w, i) => Waiting(w, i)'
  BY <1>2, <1>4 DEF Waiting
<1>7. \A w \in Users : HeldBy(w)' /\ \A i : Holds(w, i)' <=> Holds(w, i)
  BY <1>5, <1>6, HeldByAll, OthersHold DEF Sessions, KeepsShown, WasShown
<1>8. HeldWait' /\ PendingShown' /\ NotStranded'
  BY <1>7 DEF HeldWait, PendingShown, NotStranded, HeldBy
<1>9. WaitingHeld'
  BY <1>3, <1>4, <1>5, <1>7 DEF WaitingHeld, Sessions
<1>10. ChosenDone'
  <2>1. candidate'[u] = NoEntry /\ \A w \in Users : w # u => candidate'[w] = candidate[w]
    BY <1>5 DEF TypeOK
  <2>2. \A w \in Users : w # u /\ candidate[w] # NoEntry => candidate[w] # c
    BY <1>2 DEF Sessions, ChosenDone
  <2> QED BY <1>2, <1>4, <1>5, <2>1, <2>2 DEF Sessions, ChosenDone
<1>11. ExportedDone' /\ PostedWasShown'
  BY <1>2, <1>4, <1>5 DEF ExportedDone, PostedWasShown, Sessions
<1> QED BY <1>8, <1>9, <1>10, <1>11 DEF Sessions

\* An edit replaces the value of the pending receipt and shows it again.
LEMMA SessionsEdit ==
  ASSUME TypeOK, Sessions, NEW u \in Users, NEW v \in Values, ApplyEdit(u, v)
  PROVE  Sessions' /\ pending' \in [Users -> Receipt \cup {None}]
<1>1. /\ UNCHANGED <<log, queue, candidate, completed, faults>> /\ pending[u] # None
      /\ pending' = [pending EXCEPT ![u].value = v]
      /\ Show(u, [id |-> pending[u].id, value |-> v])
  BY DEF ApplyEdit, counters
<1>2. pending[u] \in Receipt
  BY <1>1 DEF TypeOK
<1>3. /\ [pending[u] EXCEPT !.value = v] \in Receipt /\ [pending[u] EXCEPT !.value = v].id = pending[u].id
      /\ [pending[u] EXCEPT !.value = v] = [id |-> pending[u].id, value |-> v]
  BY <1>2 DEF Receipt
<1>4. /\ pending'[u] \in Receipt /\ pending'[u].id = pending[u].id
      /\ \A w \in Users : w # u => pending'[w] = pending[w]
      /\ pending' \in [Users -> Receipt \cup {None}]
  BY <1>1, <1>3 DEF TypeOK
<1>5. WasShown(u, pending[u])' /\ \A w \in Users : KeepsShown(w)
  <2>1. pending'[u] = [id |-> pending[u].id, value |-> v] /\ Show(u, pending'[u])
    BY <1>1, <1>3 DEF TypeOK
  <2>2. PICK p \in Receipt : p = pending'[u]
    BY <1>4
  <2>3. WasShown(u, p)' /\ \A w \in Users : KeepsShown(w)
    BY <2>1, <2>2, Showing
  <2> QED BY <2>2, <2>3 DEF WasShown
<1>6. pending'[u] # None
  BY <1>4, AccountingAssumption
<1>7. HeldWait' /\ PendingShown' /\ NotStranded'
  <2>1. \A w \in Users : w # u /\ pending[w] # None => WasShown(w, pending[w])'
    BY <1>4, <1>5 DEF Sessions, PendingShown, KeepsShown, WasShown
  <2>2. PendingShown'
    BY <1>4, <1>5, <2>1 DEF PendingShown
  <2> QED BY <1>1, <1>4, <1>6, <2>2 DEF Sessions, HeldWait, NotStranded, Waiting
<1>8. WaitingHeld' /\ ChosenDone' /\ ExportedDone'
  <2>1. \A i \in DOMAIN log : log[i].user \in Users
    BY Indexed DEF Entry
  <2> QED BY <1>1, <1>4, <1>6, <2>1 DEF Sessions, WaitingHeld, Holds, ChosenDone, ExportedDone
<1>9. PostedWasShown'
  <2>1. \A i \in DOMAIN log : log[i].user \in Users
    BY Indexed DEF Entry
  <2> QED BY <1>1, <1>5, <2>1 DEF Sessions, PostedWasShown, KeepsShown, WasShown
<1> QED BY <1>4, <1>7, <1>8, <1>9 DEF Sessions

\* An export is of an entry that was completed.
LEMMA SessionsExport ==
  ASSUME TypeOK, Sessions, NEW u \in Users, ExportLatest(u)
  PROVE  Sessions' /\ log' \in Seq(Entry)
<1>1. PICK c : c = completed[u]
  OBVIOUS
<1>2. c \in DOMAIN log /\ log[c].status \notin {"pending", "cancelled"}
  BY <1>1 DEF ExportLatest, Sessions, ChosenDone
<1>3. /\ log' \in Seq(Entry) /\ DOMAIN log' = DOMAIN log
      /\ \A i \in DOMAIN log : i # c => log'[i] = log[i]
      /\ \A i \in DOMAIN log : log'[i].user = log[i].user /\ log'[i].status = log[i].status
                                /\ log'[i].value = log[i].value
  BY <1>1, <1>2, Marked DEF ExportLatest
<1>4. UNCHANGED <<pending, queue, candidate, completed, shown, unsent, faults>>
  BY DEF ExportLatest, sessions, counters, replies
<1>5. HeldWait' /\ PendingShown' /\ NotStranded' /\ ChosenDone' /\ WaitingHeld' /\ PostedWasShown'
  BY <1>3, <1>4 DEF Sessions, HeldWait, Waiting, WaitingHeld, Holds, PendingShown, NotStranded,
                    ChosenDone, PostedWasShown, WasShown
<1>6. ExportedDone'
  BY <1>2, <1>3 DEF Sessions, ExportedDone
<1> QED BY <1>3, <1>5, <1>6 DEF Sessions

\* Restarted sessions hold nothing.
LEMMA SessionsRestart ==
  ASSUME TypeOK, Sessions, Restart
  PROVE  Sessions'
<1>1. UNCHANGED <<log, shown, unsent>> /\ NewSessions /\ faults' # 0
  BY DEF Restart, TypeOK, replies
<1>2. /\ \A u \in Users : pending'[u] = None /\ queue'[u] = <<>>
      /\ \A u \in Users : candidate'[u] = NoEntry /\ completed'[u] = NoEntry
  BY <1>1 DEF NewSessions
<1>3. \A u \in Users : DOMAIN queue'[u] = {}
  BY <1>2
<1>4. HeldWait' /\ PendingShown' /\ NotStranded' /\ ChosenDone' /\ WaitingHeld'
  BY <1>1, <1>2, <1>3 DEF HeldWait, PendingShown, NotStranded, ChosenDone, WaitingHeld
<1>5. ExportedDone' /\ PostedWasShown'
  BY <1>1 DEF Sessions, ExportedDone, PostedWasShown
<1> QED BY <1>4, <1>5 DEF Sessions

\* Every step keeps the sessions sound.
LEMMA SessionsStep ==
  ASSUME TypeOK, Sessions, [Next]_vars
  PROVE  Sessions'
<1>1. CASE UNCHANGED vars
  BY <1>1, SessionsUntouched DEF vars, sessions, counters
<1>2. CASE \E u \in Users : \E v \in Values : Upload(u, v)
  BY <1>2, ReceiptEnters DEF Upload
<1>3. CASE \E u \in Users : \E v \in Values : ApplyEdit(u, v)
  BY <1>3, SessionsEdit
<1>4. CASE \E u \in Users : \E v \in Values \cup {NoAmount} : UploadWithoutDate(u, v)
  BY <1>4, SessionsUntouched DEF UploadWithoutDate
<1>5. CASE \E u \in Users : CompleteMissingDate(u)
  BY <1>5, ReceiptEnters DEF CompleteMissingDate, counters
<1>6. CASE \E u \in Users : BeginEdit(u) \/ SetDryRun(u)
  BY <1>6, SessionsUntouched DEF BeginEdit, SetDryRun, counters
<1>7. CASE \E u \in Users : CancelPending(u)
  <2>1. PICK u \in Users : CancelPending(u)
    BY <1>7
  <2>2. pending[u] # None /\ pending[u].id \in DOMAIN log
    BY <2>1 DEF CancelPending, Pressable, Sessions, HeldWait, Waiting
  <2>3. log[pending[u].id].value \in Values /\ log[pending[u].id].row \in Nat
    BY <2>2, Indexed DEF Entry
  <2> QED BY <2>1, <2>2, <2>3, ReceiptLeaves DEF CancelPending, Status, counters
<1>8. CASE \E u \in Users : Preview(u) \/ Confirm(u)
  <2>1. PICK u \in Users : Preview(u) \/ Confirm(u)
    BY <1>8
  <2>2. pending[u] # None
    BY <2>1 DEF Preview, Confirm, Pressable
  <2>3. pending[u].value \in Values /\ Len(sheet) + 1 \in Nat
    <3>1. pending[u] \in Receipt
      BY <2>2 DEF TypeOK
    <3>2. Len(sheet) \in Nat
      BY LenProperties DEF TypeOK
    <3> QED BY <3>1, <3>2 DEF Receipt
  <2>4. \E status \in {"written", "previewed"} : Completed(u, status)
    BY <2>1 DEF Preview, Confirm
  <2> QED BY <2>2, <2>3, <2>4, ReceiptLeaves DEF Completed, Status, counters
<1>9. CASE \E u \in Users : ConfirmFails(u) \/ UndoFails(u)
  <2>1. UNCHANGED <<log, pending, queue, candidate, completed, replies>> /\ faults' = faults + 1
    BY <1>9 DEF ConfirmFails, UndoFails, sessions
  <2> QED BY <2>1, SessionsUntouched DEF TypeOK
<1>10. CASE \E u \in Users : ExportLatest(u)
  BY <1>10, SessionsExport
<1>11. CASE \E u \in Users : PrepareUndo(u)
  <2>1. PICK u \in Users : PrepareUndo(u)
    BY <1>11
  <2>2. PICK i \in LastWritten(u) : candidate' = [candidate EXCEPT ![u] = i]
    BY <2>1 DEF PrepareUndo
  <2>3. UNCHANGED <<log, pending, queue, completed, shown, unsent, faults>>
    BY <2>1 DEF PrepareUndo, counters, replies
  <2>4. ChosenDone'
    BY <2>2, <2>3 DEF Sessions, ChosenDone, LastWritten, TypeOK
  <2> QED BY <2>3, <2>4 DEF Sessions, HeldWait, Waiting, WaitingHeld, Holds, PendingShown,
                            WasShown, NotStranded, ExportedDone, PostedWasShown
<1>12. CASE \E u \in Users : ConfirmUndo(u)
  BY <1>12, SessionsUndo
<1>13. CASE Restart
  BY <1>13, SessionsRestart
<1>14. CASE \E v \in Values : HumanEdit(v)
  BY <1>14, SessionsUntouched DEF HumanEdit, sessions
<1> QED
  BY <1>1, <1>2, <1>3, <1>4, <1>5, <1>6, <1>7, <1>8, <1>9, <1>10, <1>11, <1>12, <1>13, <1>14 DEF Next

-----------------------------------------------------------------------------
(* Types.                                                                  *)

\* A sheet that grows by a row at its end.
LEMMA SheetGrows ==
  ASSUME TypeOK, NEW r \in [by : Nat, value : Values], sheet' = Append(sheet, r)
  PROVE  /\ sheet' \in Seq([by : Nat, value : Values])
         /\ Len(sheet) \in Nat /\ Len(sheet') = Len(sheet) + 1
         /\ DOMAIN sheet = 1..Len(sheet) /\ DOMAIN sheet' = 1..Len(sheet) + 1
         /\ sheet'[Len(sheet) + 1] = r
         /\ \A i \in DOMAIN sheet : sheet'[i] = sheet[i] /\ i # Len(sheet) + 1
<1> DEFINE R == [by : Nat, value : Values]
<1>1. sheet \in Seq(R)
  BY DEF TypeOK
<1> HIDE DEF R
<1>2. Len(sheet) \in Nat /\ DOMAIN sheet = 1..Len(sheet)
  BY <1>1, LenProperties
<1>3. /\ sheet' \in Seq(R) /\ Len(sheet') = Len(sheet) + 1
      /\ \A i \in 1..Len(sheet) : sheet'[i] = sheet[i]
      /\ sheet'[Len(sheet) + 1] = r
  BY <1>1, AppendProperties DEF R
<1>4. DOMAIN sheet' = 1..Len(sheet) + 1
  BY <1>3, LenProperties
<1> QED BY <1>2, <1>3, <1>4 DEF R

\* A sheet that loses its last row.
LEMMA SheetShrinks ==
  ASSUME TypeOK, sheet # <<>>, ClearLastRow
  PROVE  /\ sheet' \in Seq([by : Nat, value : Values])
         /\ Len(sheet) \in Nat \ {0} /\ Len(sheet') = Len(sheet) - 1
         /\ DOMAIN sheet = 1..Len(sheet) /\ DOMAIN sheet' = 1..Len(sheet) - 1
         /\ \A i \in DOMAIN sheet' : sheet'[i] = sheet[i]
<1> DEFINE R == [by : Nat, value : Values]
<1>1. sheet \in Seq(R)
  BY DEF TypeOK
<1> HIDE DEF R
<1>2. Len(sheet) \in Nat \ {0} /\ DOMAIN sheet = 1..Len(sheet)
  BY <1>1, LenProperties, EmptySeq
<1>3. \A i \in 1..Len(sheet) - 1 : sheet[i] \in R
  BY <1>1, <1>2, ElementOfSeq
<1>4. /\ sheet' \in Seq(R) /\ Len(sheet') = Len(sheet) - 1
      /\ \A i \in 1..Len(sheet) - 1 : sheet'[i] = sheet[i]
  <2>1. sheet' = SubSeq(sheet, 1, Len(sheet) - 1) /\ 1 \in Int /\ Len(sheet) - 1 \in Int
    BY <1>2 DEF ClearLastRow
  <2>2. /\ SubSeq(sheet, 1, Len(sheet) - 1) \in Seq(R)
        /\ Len(SubSeq(sheet, 1, Len(sheet) - 1)) =
             IF 1 <= Len(sheet) - 1 THEN Len(sheet) - 1 - 1 + 1 ELSE 0
        /\ \A i \in 1..Len(sheet) - 1 - 1 + 1 : SubSeq(sheet, 1, Len(sheet) - 1)[i] = sheet[1 + i - 1]
    BY <1>3, <2>1, SubSeqProperties
  <2> QED BY <1>2, <2>1, <2>2
<1>5. DOMAIN sheet' = 1..Len(sheet) - 1
  BY <1>4, LenProperties
<1> QED BY <1>2, <1>4, <1>5 DEF R

\* A sheet whose last row is overwritten by hand.
LEMMA SheetOverwritten ==
  ASSUME TypeOK, sheet # <<>>, NEW r \in [by : Nat, value : Values],
         sheet' = [sheet EXCEPT ![Len(sheet)] = r]
  PROVE  /\ sheet' \in Seq([by : Nat, value : Values])
         /\ Len(sheet) \in DOMAIN sheet /\ Len(sheet') = Len(sheet)
         /\ DOMAIN sheet' = DOMAIN sheet
         /\ sheet'[Len(sheet)] = r
         /\ \A i \in DOMAIN sheet : i # Len(sheet) => sheet'[i] = sheet[i]
<1> DEFINE R == [by : Nat, value : Values]
<1>1. sheet \in Seq(R)
  BY DEF TypeOK
<1> HIDE DEF R
<1>2. Len(sheet) \in Nat \ {0} /\ DOMAIN sheet = 1..Len(sheet)
  BY <1>1, LenProperties, EmptySeq
<1>3. r \in R /\ Len(sheet) \in 1..Len(sheet)
  BY <1>2 DEF R
<1>4. [sheet EXCEPT ![Len(sheet)] = r] \in Seq(R) /\ Len([sheet EXCEPT ![Len(sheet)] = r]) = Len(sheet)
  BY <1>1, <1>3, ExceptSeq
<1> QED BY <1>2, <1>4 DEF R

\* What the rows of the workbook and the log are, and what the bot writes is one.
LEMMA RowTyped ==
  ASSUME TypeOK
  PROVE  /\ \A u \in Users : pending[u] # None =>
              /\ pending[u] \in Receipt
              /\ [by |-> pending[u].id, value |-> pending[u].value] \in [by : Nat, value : Values]
         /\ \A v \in Values : [by |-> 0, value |-> v] \in [by : Nat, value : Values]
         /\ \A i \in DOMAIN sheet : sheet[i] \in [by : Nat, value : Values]
<1>1. \A u \in Users : pending[u] # None => pending[u] \in Receipt
  BY DEF TypeOK
<1>2. \A p \in Receipt : [by |-> p.id, value |-> p.value] \in [by : Nat, value : Values]
  BY DEF Receipt
<1>3. \A i \in DOMAIN sheet : sheet[i] \in [by : Nat, value : Values]
  <2>1. sheet \in Seq([by : Nat, value : Values])
    BY DEF TypeOK
  <2>2. DOMAIN sheet = 1..Len(sheet)
    BY <2>1, LenProperties
  <2> QED BY <2>1, <2>2, ElementOfSeq
<1> QED BY <1>1, <1>2, <1>3

\* The types a step keeps, apart from those of the log.
LEMMA SheetTyped ==
  ASSUME TypeOK, [Next]_vars
  PROVE  sheet' \in Seq([by : Nat, value : Values]) /\ covered' \in Nat
<1>1. sheet \in Seq([by : Nat, value : Values]) /\ covered \in Nat /\ Len(sheet) \in Nat
  BY LenProperties DEF TypeOK
<1>2. ASSUME NEW u \in Users, Pressable(u), AppendTransaction(pending[u])
      PROVE  sheet' \in Seq([by : Nat, value : Values]) /\ covered' \in Nat
  <2>1. [by |-> pending[u].id, value |-> pending[u].value] \in [by : Nat, value : Values]
    BY <1>2, RowTyped DEF Pressable
  <2>2. sheet' \in Seq([by : Nat, value : Values])
    BY <1>2, <2>1, SheetGrows DEF AppendTransaction
  <2> QED BY <1>1, <1>2, <2>2 DEF AppendTransaction, ExpandFormulas
<1>3. ASSUME NEW i, Undoable(i), ClearLastRow
      PROVE  sheet' \in Seq([by : Nat, value : Values])
  BY <1>3, SheetShrinks DEF Undoable
<1>4. ASSUME NEW v \in Values, HumanEdit(v)
      PROVE  sheet' \in Seq([by : Nat, value : Values]) /\ covered' = covered
  <2>1. [by |-> 0, value |-> v] \in [by : Nat, value : Values]
    BY RowTyped
  <2>2. CASE sheet' = Append(sheet, [by |-> 0, value |-> v])
    BY <1>4, <2>1, <2>2, SheetGrows DEF HumanEdit
  <2>3. CASE sheet # <<>> /\ sheet' = [sheet EXCEPT ![Len(sheet)] = [by |-> 0, value |-> v]]
    BY <1>4, <2>1, <2>3, SheetOverwritten DEF HumanEdit
  <2> QED BY <1>4, <2>2, <2>3 DEF HumanEdit
<1>5. CASE UNCHANGED <<sheet, covered>>
  BY <1>1, <1>5
<1>6. ASSUME NEW u \in Users, Preview(u) \/ Confirm(u) \/ ConfirmFails(u)
      PROVE  UNCHANGED <<sheet, covered>> \/ (Pressable(u) /\ AppendTransaction(pending[u]))
  BY <1>6 DEF Preview, Confirm, ConfirmFails
<1>7. ASSUME NEW u \in Users, ConfirmUndo(u) \/ UndoFails(u)
      PROVE  Undoable(candidate[u]) /\ ClearLastRow /\ UNCHANGED covered
  BY <1>7 DEF ConfirmUndo, UndoFails
<1>8. ASSUME Restart
      PROVE  \/ UNCHANGED <<sheet, covered>>
             \/ \E u \in Users : Pressable(u) /\ AppendTransaction(pending[u])
             \/ \E u \in Users : Undoable(candidate[u]) /\ ClearLastRow /\ UNCHANGED covered
  BY <1>8 DEF Restart
<1>9. ASSUME NEW u \in Users,
             \/ \E v \in Values : Upload(u, v) \/ ApplyEdit(u, v)
             \/ \E v \in Values \cup {NoAmount} : UploadWithoutDate(u, v)
             \/ CompleteMissingDate(u) \/ BeginEdit(u) \/ CancelPending(u)
             \/ SetDryRun(u) \/ ExportLatest(u) \/ PrepareUndo(u)
      PROVE  UNCHANGED <<sheet, covered>>
  BY <1>9 DEF Upload, ApplyEdit, UploadWithoutDate, CompleteMissingDate, BeginEdit, CancelPending,
              SetDryRun, ExportLatest, PrepareUndo
<1>10. UNCHANGED vars => UNCHANGED <<sheet, covered>>
  BY DEF vars
<1> QED BY <1>1, <1>2, <1>3, <1>4, <1>5, <1>6, <1>7, <1>8, <1>9, <1>10 DEF Next

\* The types a step keeps, of the log and the sessions.
LEMMA SessionsTyped ==
  ASSUME TypeOK, Sessions, [Next]_vars
  PROVE  /\ log' \in Seq(Entry)
         /\ pending' \in [Users -> Receipt \cup {None}] /\ queue' \in [Users -> Seq(Receipt)]
         /\ missing' \in [Users -> Values \cup {NoAmount, None}] /\ editing' \in [Users -> BOOLEAN]
         /\ candidate' \in [Users -> Nat] /\ completed' \in [Users -> Nat] /\ dry' \in [Users -> BOOLEAN]
         /\ shown' \in [Users -> SUBSET Receipt] /\ unsent' \subseteq Nat \ {0}
         /\ uploads' \in Nat /\ faults' \in Nat /\ human' \in Nat
<1> DEFINE LogT == log' \in Seq(Entry)
           HeldT == /\ pending' \in [Users -> Receipt \cup {None}] /\ queue' \in [Users -> Seq(Receipt)]
                    /\ shown' \in [Users -> SUBSET Receipt] /\ unsent' \subseteq Nat \ {0}
           TextT == missing' \in [Users -> Values \cup {NoAmount, None}] /\ editing' \in [Users -> BOOLEAN]
           DoneT == candidate' \in [Users -> Nat] /\ completed' \in [Users -> Nat]
                    /\ dry' \in [Users -> BOOLEAN]
           CountT == uploads' \in Nat /\ faults' \in Nat /\ human' \in Nat
<1>1. /\ log \in Seq(Entry)
      /\ pending \in [Users -> Receipt \cup {None}] /\ queue \in [Users -> Seq(Receipt)]
      /\ missing \in [Users -> Values \cup {NoAmount, None}] /\ editing \in [Users -> BOOLEAN]
      /\ candidate \in [Users -> Nat] /\ completed \in [Users -> Nat] /\ dry \in [Users -> BOOLEAN]
      /\ shown \in [Users -> SUBSET Receipt] /\ unsent \subseteq Nat \ {0}
      /\ uploads \in Nat /\ faults \in Nat /\ human \in Nat
  BY Indexed DEF TypeOK
<1>2. UNCHANGED <<pending, queue, replies>> => HeldT
  BY <1>1 DEF replies
<1>3. ASSUME NEW u \in Users, NEW v \in Values, QueueExtraction(u, v)
      PROVE  LogT /\ HeldT /\ editing' \in [Users -> BOOLEAN]
  <2>1. LogT
    BY <1>3, Created DEF QueueExtraction
  <2>2. PICK n \in Nat \ {0} : n = Len(log) + 1
    BY Indexed
  <2>3. PICK p \in Receipt : p = [id |-> n, value |-> v]
    BY DEF Receipt
  <2>4. CASE pending[u] = None
    <3>1. /\ pending' = [pending EXCEPT ![u] = p] /\ queue' = queue
          /\ Show(u, p) /\ editing' = [editing EXCEPT ![u] = FALSE]
      BY <1>3, <2>2, <2>3, <2>4 DEF QueueExtraction
    <3>2. shown' \in [Users -> SUBSET Receipt] /\ unsent' \subseteq Nat \ {0}
      BY <3>1, Showing
    <3> QED BY <1>1, <2>1, <3>1, <3>2
  <2>5. CASE pending[u] # None
    <3>1. queue' = [queue EXCEPT ![u] = Append(@, p)] /\ UNCHANGED <<pending, editing, replies>>
      BY <1>3, <2>2, <2>3, <2>5 DEF QueueExtraction
    <3>2. Append(queue[u], p) \in Seq(Receipt)
      BY <1>1, Queued
    <3> QED BY <1>1, <2>1, <3>1, <3>2 DEF replies
  <2> QED BY <2>4, <2>5
<1>4. ASSUME NEW u \in Users, PromoteNextPending(u), ShowNext(u)
      PROVE  HeldT
  <2>1. CASE queue[u] = <<>>
    <3>1. pending' = [pending EXCEPT ![u] = None] /\ UNCHANGED replies
      BY <1>4, <2>1 DEF PromoteNextPending, ShowNext
    <3>2. queue' = queue
      BY <1>1, <1>4, <2>1 DEF PromoteNextPending
    <3> QED BY <1>1, <3>1, <3>2 DEF replies
  <2>2. CASE queue[u] # <<>>
    <3>1. PICK h \in Receipt, t \in Seq(Receipt) : h = Head(queue[u]) /\ t = Tail(queue[u])
      BY <1>1, <2>2, Promoted
    <3>2. /\ pending' = [pending EXCEPT ![u] = h] /\ queue' = [queue EXCEPT ![u] = t]
          /\ Show(u, h)
      BY <1>1, <1>4, <2>2, <3>1 DEF PromoteNextPending, ShowNext
    <3>3. shown' \in [Users -> SUBSET Receipt] /\ unsent' \subseteq Nat \ {0}
      BY <3>2, Showing
    <3> QED BY <1>1, <3>1, <3>2, <3>3
  <2> QED BY <2>1, <2>2
<1>5. CASE UNCHANGED vars
  BY <1>1, <1>5 DEF vars, sessions, counters, replies
<1>6. CASE \E u \in Users : \E v \in Values : Upload(u, v)
  BY <1>1, <1>3, <1>6 DEF Upload
<1>7. CASE \E u \in Users : \E v \in Values : ApplyEdit(u, v)
  <2>1. PICK u \in Users, v \in Values : ApplyEdit(u, v)
    BY <1>7
  <2>2. pending' \in [Users -> Receipt \cup {None}]
    BY <2>1, SessionsEdit
  <2>3. shown' \in [Users -> SUBSET Receipt] /\ unsent' \subseteq Nat \ {0}
    <3>1. pending[u] \in Receipt
      BY <2>1 DEF ApplyEdit, TypeOK
    <3>2. [id |-> pending[u].id, value |-> v] \in Receipt
      BY <3>1 DEF Receipt
    <3> QED BY <2>1, <3>2, Showing DEF ApplyEdit
  <2>4. editing' = [editing EXCEPT ![u] = FALSE]
        /\ UNCHANGED <<log, queue, missing, candidate, completed, dry, counters>>
    BY <2>1 DEF ApplyEdit
  <2> QED BY <1>1, <2>2, <2>3, <2>4 DEF counters
<1>8. CASE \E u \in Users : \E v \in Values \cup {NoAmount} : UploadWithoutDate(u, v)
  BY <1>1, <1>8 DEF UploadWithoutDate, replies
<1>9. CASE \E u \in Users : CompleteMissingDate(u)
  <2>1. PICK u \in Users : CompleteMissingDate(u)
    BY <1>9
  <2>2. /\ missing[u] \in Values /\ QueueExtraction(u, missing[u])
        /\ missing' = [missing EXCEPT ![u] = None]
        /\ UNCHANGED <<candidate, completed, dry, counters>>
    BY <2>1 DEF CompleteMissingDate
  <2>3. LogT /\ HeldT /\ editing' \in [Users -> BOOLEAN]
    BY <1>3, <2>2
  <2> QED BY <1>1, <2>2, <2>3 DEF counters
<1>10. CASE \E u \in Users : BeginEdit(u) \/ SetDryRun(u)
  <2>1. PICK u \in Users : BeginEdit(u) \/ SetDryRun(u)
    BY <1>10
  <2>2. CASE BeginEdit(u)
    BY <1>1, <2>2 DEF BeginEdit, counters, replies
  <2>3. CASE SetDryRun(u)
    <3>1. dry' = [dry EXCEPT ![u] = ~@]
      BY <2>3 DEF SetDryRun
    <3>2. dry' \in [Users -> BOOLEAN]
      BY <1>1, <3>1
    <3> QED BY <1>1, <2>3, <3>2 DEF SetDryRun, counters, replies
  <2> QED BY <2>1, <2>2, <2>3
<1>11. CASE \E u \in Users : CancelPending(u)
  <2>1. PICK u \in Users : CancelPending(u)
    BY <1>11
  <2>2. pending[u] # None /\ pending[u].id \in DOMAIN log
    BY <2>1 DEF CancelPending, Pressable, Sessions, HeldWait, Waiting
  <2>3. log[pending[u].id].value \in Values /\ log[pending[u].id].row \in Nat
    BY <2>2, Indexed DEF Entry
  <2>4. LogT
    BY <2>1, <2>2, <2>3, Updated DEF CancelPending, Status
  <2>5. HeldT
    BY <1>4, <2>1 DEF CancelPending
  <2>6. editing' \in [Users -> BOOLEAN] /\ UNCHANGED <<missing, candidate, completed, dry, counters>>
    BY <1>1, <2>1 DEF CancelPending
  <2> QED BY <1>1, <2>4, <2>5, <2>6 DEF counters
<1>12. CASE \E u \in Users : Preview(u) \/ Confirm(u)
  <2>1. PICK u \in Users, status \in {"written", "previewed"} : Pressable(u) /\ Completed(u, status)
    BY <1>12 DEF Preview, Confirm
  <2>2. pending[u] # None /\ pending[u].id \in DOMAIN log
    BY <2>1 DEF Pressable, Sessions, HeldWait, Waiting
  <2>3. pending[u].value \in Values /\ pending[u].id \in Nat
    BY <1>1, <2>2 DEF Receipt
  <2>4. Len(sheet) + 1 \in Nat
    BY LenProperties DEF TypeOK
  <2>5. LogT
    BY <2>1, <2>2, <2>3, <2>4, Updated DEF Completed, Status
  <2>6. HeldT
    BY <1>4, <2>1 DEF Completed
  <2>7. completed' = [completed EXCEPT ![u] = pending[u].id] /\ editing' = [editing EXCEPT ![u] = FALSE]
        /\ UNCHANGED <<missing, candidate, dry, counters>>
    BY <2>1 DEF Completed
  <2> QED BY <1>1, <2>3, <2>5, <2>6, <2>7 DEF counters
<1>13. CASE \E u \in Users : ConfirmFails(u) \/ UndoFails(u)
  <2>1. UNCHANGED <<log, sessions, replies, uploads, human>> /\ faults' = faults + 1
    BY <1>13 DEF ConfirmFails, UndoFails
  <2> QED BY <1>1, <1>2, <2>1 DEF sessions
<1>14. CASE \E u \in Users : ExportLatest(u)
  BY <1>1, <1>14, SessionsExport DEF ExportLatest, sessions, counters, replies
<1>15. CASE \E u \in Users : PrepareUndo(u)
  <2>1. PICK u \in Users : PrepareUndo(u)
    BY <1>15
  <2>2. PICK i \in DOMAIN log : candidate' = [candidate EXCEPT ![u] = i]
    BY <2>1 DEF PrepareUndo, LastWritten
  <2>3. i \in Nat
    BY Indexed
  <2> QED BY <1>1, <2>1, <2>2, <2>3 DEF PrepareUndo, counters, replies
<1>16. CASE \E u \in Users : ConfirmUndo(u)
  <2>1. PICK u \in Users : ConfirmUndo(u)
    BY <1>16
  <2>2. PICK c : c = candidate[u]
    OBVIOUS
  <2>3. c \in DOMAIN log
    BY <2>1, <2>2 DEF ConfirmUndo, Sessions, ChosenDone
  <2>4. log[c].value \in Values /\ log[c].row \in Nat
    BY <2>3, Indexed DEF Entry
  <2>5. LogT
    BY <2>1, <2>2, <2>3, <2>4, Updated DEF ConfirmUndo, Status
  <2>6. candidate' = [candidate EXCEPT ![u] = NoEntry]
        /\ UNCHANGED <<pending, queue, missing, editing, completed, dry, replies, counters>>
    BY <2>1 DEF ConfirmUndo
  <2> QED BY <1>1, <2>5, <2>6 DEF counters, replies, NoEntry
<1>17. CASE Restart
  <2>1. /\ UNCHANGED <<log, replies, uploads, human>> /\ faults' = faults + 1 /\ NewSessions
    BY <1>17 DEF Restart
  <2>2. <<>> \in Seq(Receipt)
    BY EmptySeq
  <2> QED BY <1>1, <2>1, <2>2 DEF NewSessions, replies, NoEntry
<1>18. CASE \E v \in Values : HumanEdit(v)
  BY <1>1, <1>18 DEF HumanEdit, sessions, replies
<1> QED
  BY <1>5, <1>6, <1>7, <1>8, <1>9, <1>10, <1>11, <1>12, <1>13, <1>14, <1>15, <1>16, <1>17, <1>18 DEF Next

\* At the start nothing is held, shown or written by the bot.
LEMMA InitSessions == Init => TypeOK /\ Sessions /\ RowsKept /\ FormulasCover
<1> SUFFICES ASSUME Init PROVE TypeOK /\ Sessions /\ RowsKept /\ FormulasCover
  OBVIOUS
<1>1. PICK v \in Values : sheet = <<[by |-> 0, value |-> v]>>
  BY DEF Init
<1>2. [by |-> 0, value |-> v] \in [by : Nat, value : Values]
  OBVIOUS
<1>3. sheet \in Seq([by : Nat, value : Values]) /\ DOMAIN sheet = {1} /\ sheet[1].by = 0
  BY <1>1, <1>2
<1>4. log = <<>> /\ log \in Seq(Entry) /\ DOMAIN log = {}
  BY EmptySeq DEF Init
<1>5. <<>> \in Seq(Receipt) /\ \A u \in Users : queue[u] = <<>> /\ DOMAIN queue[u] = {}
  BY EmptySeq DEF Init
<1>6. TypeOK
  BY <1>3, <1>4, <1>5 DEF Init, TypeOK, Entry, NoEntry
<1>7. Sessions
  BY <1>4, <1>5 DEF Init, Sessions, HeldWait, WaitingHeld, ChosenDone, ExportedDone, PendingShown,
                    NotStranded, PostedWasShown
<1>8. RowsKept /\ FormulasCover
  BY <1>3, <1>4 DEF RowsKept, FormulasCover, LoggedAs
<1> QED BY <1>6, <1>7, <1>8

\* The values of the log, the workbook and the sessions are well formed in
\* every reachable state, and what a session holds waits in the log.
THEOREM TypeCorrect == Spec => [](TypeOK /\ Sessions)
<1>1. Init => TypeOK /\ Sessions
  BY InitSessions
<1>2. TypeOK /\ Sessions /\ [Next]_vars => TypeOK' /\ Sessions'
  BY SessionsStep, SessionsTyped, SheetTyped DEF TypeOK, Entry
<1> QED BY <1>1, <1>2, PTL DEF Spec

-----------------------------------------------------------------------------
(* What follows for the sessions.                                          *)

\* Places that differ from each other in what they hold give one place at most.
LEMMA OnePlace ==
  ASSUME NEW S, \A k, l \in S : l = k
  PROVE  /\ S = {} => Cardinality(S) = 0
         /\ S # {} => Cardinality(S) = 1
<1>1. S = {} => Cardinality(S) = 0
  BY FS_EmptySet
<1>2. ASSUME S # {} PROVE Cardinality(S) = 1
  <2>1. PICK k : S = {k}
    BY <1>2
  <2> QED BY <2>1, FS_Singleton
<1> QED BY <1>1, <1>2

\* An entry waits exactly as long as one place holds it.
LEMMA HeldInOnePlace == TypeOK /\ Sessions => HeldOnce
<1> SUFFICES ASSUME TypeOK, Sessions, faults = 0, NEW i \in DOMAIN log
             PROVE  (log[i].status = "pending") <=>
                      LET u == log[i].user
                          inQueue == {k \in DOMAIN queue[u] : queue[u][k].id = i}
                      IN Cardinality(inQueue) + (IF pending[u] # None /\ pending[u].id = i THEN 1 ELSE 0) = 1
  BY DEF HeldOnce
<1>1. PICK u \in Users : u = log[i].user
  BY Indexed DEF Entry
<1> DEFINE Q == {k \in DOMAIN queue[u] : queue[u][k].id = i}
<1>2. HeldBy(u)
  BY HeldByAll DEF Sessions
<1>3. \A k, l \in Q : l = k
  BY <1>2 DEF HeldBy
<1>4. (pending[u] # None /\ pending[u].id = i) => Q = {} /\ log[i].status = "pending"
  BY <1>2 DEF HeldBy, Waiting
<1>5. Q # {} => log[i].status = "pending"
  BY <1>2 DEF HeldBy, Waiting
<1>6. log[i].status = "pending" => (pending[u] # None /\ pending[u].id = i) \/ Q # {}
  BY <1>1 DEF Sessions, WaitingHeld, Holds
<1> HIDE DEF Q
<1>7. (Q = {} => Cardinality(Q) = 0) /\ (Q # {} => Cardinality(Q) = 1)
  BY <1>3, OnePlace
<1>8. (log[i].status = "pending") <=>
        Cardinality(Q) + (IF pending[u] # None /\ pending[u].id = i THEN 1 ELSE 0) = 1
  <2>1. CASE pending[u] # None /\ pending[u].id = i
    BY <1>4, <1>7, <2>1
  <2>2. CASE ~(pending[u] # None /\ pending[u].id = i)
    <3>1. CASE Q = {}
      BY <1>6, <1>7, <2>2, <3>1
    <3>2. CASE Q # {}
      BY <1>5, <1>7, <2>2, <3>2
    <3> QED BY <3>1, <3>2
  <2> QED BY <2>1, <2>2
<1> QED BY <1>1, <1>8 DEF Q

\* For any users, receipts, failures and restarts the receipts that wait are
\* held once each, behind one that is pending, and none is posted as no preview
\* showed it, but where the sending of its preview failed (SessionsSound).
THEOREM SessionsStaySound == Spec => []SessionsSound
<1>1. TypeOK /\ Sessions => SessionsSound
  BY HeldInOnePlace DEF Sessions, SessionsSound
<1> QED BY <1>1, TypeCorrect, PTL

-----------------------------------------------------------------------------
(* What a step may do to the log.                                          *)

\* Every step leaves the log alone, adds an entry, decides on a waiting one,
\* undoes a written one, or marks a completed one as exported.
LogStep ==
  \/ log' = log
  \/ \E u \in Users : \E v \in Values : CreateEntry(u, v)
  \/ \E id \in DOMAIN log : \E status \in {"previewed", "written", "cancelled"} :
       \E v \in Values : \E row \in Nat :
         log[id].status = "pending" /\ UpdateEntry(id, status, v, row)
  \/ \E id \in DOMAIN log :
       log[id].status = "written" /\ UpdateEntry(id, "undone", log[id].value, log[id].row)
  \/ \E id \in DOMAIN log :
       log[id].status \notin {"pending", "cancelled"} /\ log' = [log EXCEPT ![id].exported = TRUE]

LEMMA LogSteps ==
  ASSUME TypeOK, Sessions, [Next]_vars
  PROVE  LogStep
<1>1. CASE \E u \in Users : CancelPending(u)
  <2>1. PICK u \in Users : CancelPending(u)
    BY <1>1
  <2>2. pending[u].id \in DOMAIN log /\ log[pending[u].id].status = "pending"
    BY <2>1 DEF CancelPending, Pressable, Sessions, HeldWait, Waiting
  <2>3. log[pending[u].id].value \in Values /\ log[pending[u].id].row \in Nat
    BY <2>2, Indexed DEF Entry
  <2> QED BY <2>1, <2>2, <2>3 DEF CancelPending, LogStep
<1>2. CASE \E u \in Users : Preview(u) \/ Confirm(u)
  <2>1. PICK u \in Users, status \in {"written", "previewed"} : Pressable(u) /\ Completed(u, status)
    BY <1>2 DEF Preview, Confirm
  <2>2. pending[u].id \in DOMAIN log /\ log[pending[u].id].status = "pending" /\ pending[u] # None
    BY <2>1 DEF Pressable, Sessions, HeldWait, Waiting
  <2>3. pending[u].value \in Values /\ Len(sheet) + 1 \in Nat
    <3>1. pending[u] \in Receipt
      BY <2>2 DEF TypeOK
    <3>2. Len(sheet) \in Nat
      BY LenProperties DEF TypeOK
    <3> QED BY <3>1, <3>2 DEF Receipt
  <2> QED BY <2>1, <2>2, <2>3 DEF Completed, LogStep
<1>3. CASE \E u \in Users : ConfirmUndo(u)
  BY <1>3 DEF ConfirmUndo, Sessions, ChosenDone, LogStep
<1>4. CASE \E u \in Users : ExportLatest(u)
  BY <1>4 DEF ExportLatest, Sessions, ChosenDone, LogStep
<1>5. CASE \E u \in Users : \/ \E v \in Values : Upload(u, v)
                            \/ CompleteMissingDate(u)
  <2>1. \E u \in Users : \E v \in Values : QueueExtraction(u, v)
    BY <1>5 DEF Upload, CompleteMissingDate
  <2> QED BY <2>1 DEF QueueExtraction, LogStep
<1>6. CASE \E u \in Users :
             \/ \E v \in Values : ApplyEdit(u, v)
             \/ \E v \in Values \cup {NoAmount} : UploadWithoutDate(u, v)
             \/ BeginEdit(u) \/ SetDryRun(u) \/ ConfirmFails(u) \/ UndoFails(u) \/ PrepareUndo(u)
  BY <1>6 DEF ApplyEdit, UploadWithoutDate, BeginEdit, SetDryRun, ConfirmFails, UndoFails, PrepareUndo,
              LogStep
<1>7. CASE Restart \/ \E v \in Values : HumanEdit(v)
  BY <1>7 DEF Restart, HumanEdit, LogStep
<1>8. CASE UNCHANGED vars
  BY <1>8 DEF vars, LogStep
<1> QED BY <1>1, <1>2, <1>3, <1>4, <1>5, <1>6, <1>7, <1>8 DEF Next

\* What became of an entry.
Onward(i) ==
  /\ log'[i].status \in After[log[i].status] \ (IF log[i].status = "pending" THEN {"undone"} ELSE {})
  /\ log[i].status # "pending" => log'[i].value = log[i].value /\ log'[i].row = log[i].row
  /\ log'[i].exported => log'[i].status \notin {"pending", "cancelled"}

\* Each of those steps takes every entry onward.
LEMMA LogOnward ==
  ASSUME TypeOK, Sessions, LogStep, NEW i \in DOMAIN log
  PROVE  Onward(i)
<1>1. log[i] \in Entry /\ log[i].status \in Status
  BY Indexed DEF Entry
<1>2. log[i].exported => log[i].status \notin {"pending", "cancelled"}
  BY DEF Sessions, ExportedDone
<1>3. log[i].status \in After[log[i].status]
  BY <1>1 DEF After, Status
<1>4. log'[i] = log[i] => Onward(i)
  BY <1>1, <1>2, <1>3 DEF Onward
<1>5. CASE log' = log \/ \E u \in Users : \E v \in Values : CreateEntry(u, v)
  BY <1>4, <1>5, Created
<1>6. ASSUME NEW id \in DOMAIN log, NEW status \in {"previewed", "written", "cancelled"},
             NEW v \in Values, NEW row \in Nat,
             log[id].status = "pending", UpdateEntry(id, status, v, row)
      PROVE  Onward(i)
  <2>1. i # id => log'[i] = log[i]
    BY <1>6, Updated DEF Status
  <2>2. log'[id].status = status /\ log'[id].exported = log[id].exported
    BY <1>6, Updated DEF Status
  <2>3. ~log[id].exported
    BY <1>6 DEF Sessions, ExportedDone
  <2>4. status \in After["pending"] \ {"undone"}
    BY DEF After, Status
  <2>5. Onward(id)
    BY <1>6, <2>2, <2>3, <2>4 DEF Onward
  <2> QED BY <1>4, <2>1, <2>5
<1>7. ASSUME NEW id \in DOMAIN log,
             log[id].status = "written", UpdateEntry(id, "undone", log[id].value, log[id].row)
      PROVE  Onward(i)
  <2>1. log[id].value \in Values /\ log[id].row \in Nat
    BY Indexed DEF Entry
  <2>2. /\ i # id => log'[i] = log[i]
        /\ log'[id].status = "undone" /\ log'[id].value = log[id].value /\ log'[id].row = log[id].row
    BY <1>7, <2>1, Updated DEF Status
  <2>3. Onward(id)
    BY <1>7, <2>2 DEF Onward, After
  <2> QED BY <1>4, <2>2, <2>3
<1>8. ASSUME NEW id \in DOMAIN log, log[id].status \notin {"pending", "cancelled"},
             log' = [log EXCEPT ![id].exported = TRUE]
      PROVE  Onward(i)
  <2>1. /\ i # id => log'[i] = log[i]
        /\ log'[i].status = log[i].status /\ log'[i].value = log[i].value /\ log'[i].row = log[i].row
    BY <1>8, Marked
  <2> QED BY <1>1, <1>2, <1>3, <1>4, <1>8, <2>1 DEF Onward
<1> QED BY <1>5, <1>6, <1>7, <1>8 DEF LogStep

\* No step takes what became of a receipt back: a cancelled or previewed one is
\* not posted later, a written one only undone (LogMovesForward).
THEOREM LogStaysDecided == Spec => LogMovesForward
<1>1. TypeOK /\ Sessions /\ [Next]_vars => \A i \in DOMAIN log : Onward(i)
  BY LogSteps, LogOnward
<1>2. (\A i \in DOMAIN log : Onward(i)) =>
        [\A i \in DOMAIN log :
           /\ log'[i].status \in After[log[i].status] \ (IF log[i].status = "pending" THEN {"undone"} ELSE {})
           /\ log[i].status # "pending" => log'[i].value = log[i].value /\ log'[i].row = log[i].row
           /\ log'[i].exported => log'[i].status \notin {"pending", "cancelled"}]_log
  BY DEF Onward
<1> QED BY <1>1, <1>2, TypeCorrect, PTL DEF Spec, LogMovesForward

-----------------------------------------------------------------------------
(* What a step may do to the workbook.                                     *)

\* What the log calls written stays as it is.
WrittenStays ==
  /\ LoggedAs("written")' = LoggedAs("written")
  /\ \A i \in LoggedAs("written") : log'[i].row = log[i].row /\ log'[i].value = log[i].value

\* A receipt is posted and logged, or posted only.
Posts(i, v) ==
  /\ log[i].status = "pending" /\ UpdateEntry(i, "written", v, Len(sheet) + 1)
  /\ sheet' = Append(sheet, [by |-> i, value |-> v])
  /\ UNCHANGED <<faults, human>>

PostsOnly(i, v) ==
  /\ log[i].status = "pending" /\ log' = log
  /\ sheet' = Append(sheet, [by |-> i, value |-> v])
  /\ faults' = faults + 1 /\ UNCHANGED human

\* The last row is taken back and that is logged, or it is taken back only.
TakesBack(c) ==
  /\ Undoable(c) /\ ClearLastRow /\ UpdateEntry(c, "undone", log[c].value, log[c].row)
  /\ UNCHANGED <<faults, human>>

TakesOnly(c) ==
  /\ Undoable(c) /\ ClearLastRow /\ log' = log
  /\ faults' = faults + 1 /\ UNCHANGED human

Overwrites(v) ==
  /\ sheet # <<>> /\ sheet[Len(sheet)].value # v
  /\ sheet' = [sheet EXCEPT ![Len(sheet)] = [by |-> 0, value |-> v]]
  /\ human' = human + 1 /\ UNCHANGED <<log, faults>>

Adds(v) ==
  /\ sheet' = Append(sheet, [by |-> 0, value |-> v])
  /\ human' = human + 1 /\ UNCHANGED <<log, faults>>

BookStep ==
  \/ WrittenStays /\ UNCHANGED <<sheet, human>> /\ faults' \in {faults, faults + 1}
  \/ \E i \in DOMAIN log : \E v \in Values : Posts(i, v) \/ PostsOnly(i, v)
  \/ \E c \in LoggedAs("written") : TakesBack(c) \/ TakesOnly(c)
  \/ \E v \in Values : Adds(v) \/ Overwrites(v)

\* Only a confirmation and an undo change what the log calls written.
LEMMA WrittenStaysStep ==
  ASSUME TypeOK, Sessions,
         \/ log' = log
         \/ \E u \in Users : \E v \in Values : CreateEntry(u, v)
         \/ \E id \in DOMAIN log : \E status \in {"previewed", "cancelled"} :
              \E v \in Values : \E row \in Nat :
                log[id].status = "pending" /\ UpdateEntry(id, status, v, row)
         \/ \E id \in DOMAIN log : log' = [log EXCEPT ![id].exported = TRUE]
  PROVE  WrittenStays
<1>1. CASE log' = log
  BY <1>1 DEF WrittenStays, LoggedAs
<1>2. ASSUME NEW u \in Users, NEW v \in Values, CreateEntry(u, v)
      PROVE  WrittenStays
  <2>1. PICK n : n = Len(log) + 1
    OBVIOUS
  <2>2. /\ DOMAIN log' = DOMAIN log \cup {n} /\ n \notin DOMAIN log
        /\ \A i \in DOMAIN log : log'[i] = log[i]
        /\ log'[n] = [user |-> u, status |-> "pending", value |-> v, row |-> NoEntry, exported |-> FALSE]
    BY <1>2, <2>1, Created
  <2>3. log'[n].status = "pending"
    BY <2>2
  <2> QED BY <2>2, <2>3 DEF WrittenStays, LoggedAs
<1>3. ASSUME NEW id \in DOMAIN log, NEW status \in {"previewed", "cancelled"},
             NEW v \in Values, NEW row \in Nat,
             log[id].status = "pending", UpdateEntry(id, status, v, row)
      PROVE  WrittenStays
  <2>1. /\ DOMAIN log' = DOMAIN log /\ \A i \in DOMAIN log : i # id => log'[i] = log[i]
        /\ log'[id].status = status
    BY <1>3, Updated DEF Status
  <2> QED BY <1>3, <2>1 DEF WrittenStays, LoggedAs
<1>4. ASSUME NEW id \in DOMAIN log, log' = [log EXCEPT ![id].exported = TRUE]
      PROVE  WrittenStays
  <2>1. /\ DOMAIN log' = DOMAIN log
        /\ \A i \in DOMAIN log : /\ log'[i].status = log[i].status
                                 /\ log'[i].value = log[i].value /\ log'[i].row = log[i].row
    BY <1>4, Marked
  <2> QED BY <2>1 DEF WrittenStays, LoggedAs
<1> QED BY <1>1, <1>2, <1>3, <1>4

\* What a receipt under the buttons is: a waiting entry.
LEMMA PressedWaits ==
  ASSUME TypeOK, Sessions, NEW u \in Users, Pressable(u)
  PROVE  /\ pending[u].id \in DOMAIN log /\ log[pending[u].id].status = "pending"
         /\ pending[u].value \in Values
<1>1. pending[u] # None /\ pending[u] \in Receipt
  BY DEF Pressable, TypeOK
<1>2. pending[u].id \in DOMAIN log /\ log[pending[u].id].status = "pending"
  BY <1>1 DEF Sessions, HeldWait, Waiting
<1> QED BY <1>1, <1>2 DEF Receipt

LEMMA BookSteps ==
  ASSUME TypeOK, Sessions, [Next]_vars
  PROVE  BookStep
<1>1. CASE \E u \in Users : Confirm(u)
  <2>1. PICK u \in Users : Confirm(u)
    BY <1>1
  <2>2. Posts(pending[u].id, pending[u].value)
    BY <2>1, PressedWaits DEF Confirm, AppendTransaction, Completed, Posts, counters
  <2> QED BY <2>1, <2>2, PressedWaits DEF Confirm, BookStep
<1>2. CASE \E u \in Users : ConfirmFails(u)
  <2>1. PICK u \in Users : ConfirmFails(u)
    BY <1>2
  <2>2. PostsOnly(pending[u].id, pending[u].value)
    BY <2>1, PressedWaits DEF ConfirmFails, AppendTransaction, PostsOnly
  <2> QED BY <2>1, <2>2, PressedWaits DEF ConfirmFails, BookStep
<1>3. CASE \E u \in Users : ConfirmUndo(u) \/ UndoFails(u)
  <2>1. PICK u \in Users : ConfirmUndo(u) \/ UndoFails(u)
    BY <1>3
  <2>2. candidate[u] \in LoggedAs("written")
    BY <2>1 DEF ConfirmUndo, UndoFails, Sessions, ChosenDone, LoggedAs
  <2>3. TakesBack(candidate[u]) \/ TakesOnly(candidate[u])
    BY <2>1 DEF ConfirmUndo, UndoFails, TakesBack, TakesOnly, counters
  <2> QED BY <2>2, <2>3 DEF BookStep
<1>4. CASE Restart
  <2>1. log' = log /\ faults' = faults + 1 /\ human' = human
    BY <1>4 DEF Restart
  <2>2. CASE UNCHANGED sheet
    BY <2>1, <2>2, WrittenStaysStep DEF BookStep
  <2>3. CASE \E u \in Users : Pressable(u) /\ AppendTransaction(pending[u])
    <3>1. PICK u \in Users : Pressable(u) /\ AppendTransaction(pending[u])
      BY <2>3
    <3>2. PostsOnly(pending[u].id, pending[u].value)
      BY <2>1, <3>1, PressedWaits DEF AppendTransaction, PostsOnly
    <3> QED BY <3>1, <3>2, PressedWaits DEF BookStep
  <2>4. CASE \E u \in Users : candidate[u] # NoEntry /\ Undoable(candidate[u]) /\ ClearLastRow
    <3>1. PICK u \in Users : candidate[u] # NoEntry /\ Undoable(candidate[u]) /\ ClearLastRow
      BY <2>4
    <3>2. candidate[u] \in LoggedAs("written") /\ TakesOnly(candidate[u])
      BY <2>1, <3>1 DEF Sessions, ChosenDone, LoggedAs, TakesOnly
    <3> QED BY <3>2 DEF BookStep
  <2> QED BY <1>4, <2>2, <2>3, <2>4 DEF Restart
<1>5. CASE \E v \in Values : HumanEdit(v)
  <2>1. PICK v \in Values : HumanEdit(v)
    BY <1>5
  <2>2. Adds(v) \/ Overwrites(v)
    BY <2>1 DEF HumanEdit, Adds, Overwrites
  <2> QED BY <2>2 DEF BookStep
<1>6. CASE \E u \in Users : CancelPending(u)
  <2>1. PICK u \in Users : CancelPending(u)
    BY <1>6
  <2>2. pending[u].id \in DOMAIN log /\ log[pending[u].id].status = "pending"
    BY <2>1, PressedWaits DEF CancelPending
  <2>3. log[pending[u].id].value \in Values /\ log[pending[u].id].row \in Nat
    BY <2>2, Indexed DEF Entry
  <2>4. WrittenStays
    BY <2>1, <2>2, <2>3, WrittenStaysStep DEF CancelPending
  <2> QED BY <2>1, <2>4 DEF CancelPending, BookStep, counters
<1>7. CASE \E u \in Users : Preview(u)
  <2>1. PICK u \in Users : Preview(u)
    BY <1>7
  <2>2. Len(sheet) + 1 \in Nat
    BY LenProperties DEF TypeOK
  <2>3. WrittenStays
    BY <2>1, <2>2, PressedWaits, WrittenStaysStep DEF Preview, Completed
  <2> QED BY <2>1, <2>3 DEF Preview, Completed, BookStep, counters
<1>8. CASE \E u \in Users : \/ \E v \in Values : Upload(u, v)
                            \/ CompleteMissingDate(u)
  <2>1. /\ \E u \in Users : \E v \in Values : CreateEntry(u, v)
        /\ UNCHANGED <<sheet, faults, human>>
    BY <1>8 DEF Upload, CompleteMissingDate, QueueExtraction, counters
  <2> QED BY <2>1, WrittenStaysStep DEF BookStep
<1>9. CASE \E u \in Users : ExportLatest(u)
  <2>1. /\ \E id \in DOMAIN log : log' = [log EXCEPT ![id].exported = TRUE]
        /\ UNCHANGED <<sheet, faults, human>>
    BY <1>9 DEF ExportLatest, Sessions, ChosenDone, counters
  <2> QED BY <2>1, WrittenStaysStep DEF BookStep
<1>10. CASE \/ \E u \in Users :
                 \/ \E v \in Values : ApplyEdit(u, v)
                 \/ \E v \in Values \cup {NoAmount} : UploadWithoutDate(u, v)
                 \/ BeginEdit(u) \/ SetDryRun(u) \/ PrepareUndo(u)
            \/ UNCHANGED vars
  <2>1. UNCHANGED <<log, sheet, faults, human>>
    BY <1>10 DEF ApplyEdit, UploadWithoutDate, BeginEdit, SetDryRun, PrepareUndo, counters, vars
  <2> QED BY <2>1, WrittenStaysStep DEF BookStep
<1> QED BY <1>1, <1>2, <1>3, <1>4, <1>5, <1>6, <1>7, <1>8, <1>9, <1>10 DEF Next

\* The updates of the log in those steps.
LEMMA Logged ==
  ASSUME TypeOK, NEW i \in DOMAIN log
  PROVE  /\ \A v \in Values : Posts(i, v) =>
              /\ DOMAIN log' = DOMAIN log /\ \A j \in DOMAIN log : j # i => log'[j] = log[j]
              /\ log'[i].status = "written" /\ log'[i].value = v /\ log'[i].row = Len(sheet) + 1
         /\ TakesBack(i) =>
              /\ DOMAIN log' = DOMAIN log /\ \A j \in DOMAIN log : j # i => log'[j] = log[j]
              /\ log'[i].status = "undone"
<1>1. Len(sheet) + 1 \in Nat
  BY LenProperties DEF TypeOK
<1>2. log[i].value \in Values /\ log[i].row \in Nat
  BY Indexed DEF Entry
<1> QED BY <1>1, <1>2, Updated DEF Posts, TakesBack, Status

\* The rows such a step adds are well formed.
LEMMA RowAdded ==
  ASSUME TypeOK, NEW i \in DOMAIN log, NEW v \in Values
  PROVE  [by |-> i, value |-> v] \in [by : Nat, value : Values] /\ i \in Nat \ {0}
BY Indexed

\* While nothing fails a written entry keeps its row for itself.
LEMMA RowsKeptStep ==
  ASSUME TypeOK, RowsKept, BookStep
  PROVE  RowsKept'
<1>0. faults' \in {faults, faults + 1} /\ faults \in Nat
  BY DEF BookStep, Posts, PostsOnly, TakesBack, TakesOnly, Adds, Overwrites, TypeOK
<1> SUFFICES ASSUME faults' = 0, faults = 0
             PROVE  RowsKept'
  BY <1>0 DEF RowsKept
<1> DEFINE W == LoggedAs("written")
           Mine(i) == LET r == sheet[log[i].row] IN
                      \/ r.by = i /\ r.value = log[i].value
                      \/ r.by = 0 /\ human > 0 /\ (r.value = log[i].value => human > 1)
<1>1. /\ \A i \in W : log[i].row \in DOMAIN sheet /\ Mine(i)
      /\ \A i, j \in W : log[j].row = log[i].row => j = i
  BY DEF RowsKept
<1>2. W \subseteq DOMAIN log /\ \A i \in DOMAIN log : i \in Nat \ {0}
  BY Indexed DEF LoggedAs
<1>3. human \in Nat
  BY DEF TypeOK
<1>4. CASE WrittenStays /\ UNCHANGED <<sheet, human>>
  BY <1>1, <1>4 DEF WrittenStays, RowsKept
<1>5. ASSUME NEW i \in DOMAIN log, NEW v \in Values, Posts(i, v)
      PROVE  RowsKept'
  <2>1. /\ DOMAIN log' = DOMAIN log /\ \A j \in DOMAIN log : j # i => log'[j] = log[j]
        /\ log'[i].status = "written" /\ log'[i].value = v /\ log'[i].row = Len(sheet) + 1
    BY <1>5, Logged
  <2>2. LoggedAs("written")' = W \cup {i} /\ i \notin W
    BY <1>5, <2>1 DEF LoggedAs, Posts
  <2>3. /\ DOMAIN sheet' = DOMAIN sheet \cup {Len(sheet) + 1}
        /\ \A k \in DOMAIN sheet : sheet'[k] = sheet[k] /\ k # Len(sheet) + 1
        /\ sheet'[Len(sheet) + 1] = [by |-> i, value |-> v]
    BY <1>5, RowAdded, SheetGrows DEF Posts
  <2>4. /\ log'[i].row \in DOMAIN sheet'
        /\ sheet'[log'[i].row].by = i /\ sheet'[log'[i].row].value = log'[i].value
    BY <2>1, <2>3
  <2>5. \A j \in W : /\ log'[j] = log[j] /\ log[j].row \in DOMAIN sheet'
                     /\ sheet'[log[j].row] = sheet[log[j].row] /\ log[j].row # log'[i].row
    BY <1>1, <1>2, <2>1, <2>2, <2>3
  <2> QED BY <1>1, <1>5, <2>2, <2>4, <2>5 DEF RowsKept, Posts
<1>6. ASSUME NEW c \in W, TakesBack(c)
      PROVE  RowsKept'
  <2>1. /\ DOMAIN log' = DOMAIN log /\ \A j \in DOMAIN log : j # c => log'[j] = log[j]
        /\ log'[c].status = "undone"
    BY <1>2, <1>6, Logged
  <2>2. LoggedAs("written")' = W \ {c}
    BY <2>1 DEF LoggedAs
  <2>3. log[c].row = Len(sheet) /\ sheet # <<>> /\ UNCHANGED human
    BY <1>6 DEF TakesBack, Undoable
  <2>4. /\ DOMAIN sheet = 1..Len(sheet) /\ DOMAIN sheet' = 1..Len(sheet) - 1 /\ Len(sheet) \in Nat
        /\ \A k \in DOMAIN sheet' : sheet'[k] = sheet[k]
    BY <1>6, <2>3, SheetShrinks DEF TakesBack
  <2>5. \A j \in W \ {c} : /\ log'[j] = log[j] /\ log[j].row \in DOMAIN sheet'
                           /\ sheet'[log[j].row] = sheet[log[j].row]
    BY <1>1, <1>2, <2>1, <2>3, <2>4
  <2> QED BY <1>1, <2>2, <2>3, <2>5 DEF RowsKept
<1>7. ASSUME NEW v \in Values, Adds(v)
      PROVE  RowsKept'
  <2>1. [by |-> 0, value |-> v] \in [by : Nat, value : Values]
    OBVIOUS
  <2>2. /\ DOMAIN sheet' = DOMAIN sheet \cup {Len(sheet) + 1}
        /\ \A k \in DOMAIN sheet : sheet'[k] = sheet[k]
    BY <1>7, <2>1, SheetGrows DEF Adds
  <2>3. log' = log /\ human' = human + 1
    BY <1>7 DEF Adds
  <2>4. LoggedAs("written")' = W
    BY <2>3 DEF LoggedAs
  <2> QED BY <1>1, <1>3, <2>2, <2>3, <2>4 DEF RowsKept
<1>8. ASSUME NEW v \in Values, Overwrites(v)
      PROVE  RowsKept'
  <2>1. [by |-> 0, value |-> v] \in [by : Nat, value : Values]
    OBVIOUS
  <2>2. /\ DOMAIN sheet' = DOMAIN sheet /\ sheet'[Len(sheet)] = [by |-> 0, value |-> v]
        /\ \A k \in DOMAIN sheet : k # Len(sheet) => sheet'[k] = sheet[k]
    BY <1>8, <2>1, SheetOverwritten DEF Overwrites
  <2>3. log' = log /\ human' = human + 1 /\ sheet[Len(sheet)].value # v
    BY <1>8 DEF Overwrites
  <2>4. LoggedAs("written")' = W
    BY <2>3 DEF LoggedAs
  <2>5. ASSUME NEW i \in W, log[i].row = Len(sheet)
        PROVE  sheet'[log[i].row].by = 0 /\ (sheet'[log[i].row].value = log[i].value => human > 0)
    <3>1. sheet[Len(sheet)].value = log[i].value \/ human > 0
      BY <1>1, <2>5
    <3> QED BY <2>2, <2>3, <2>5, <3>1
  <2> QED BY <1>1, <1>3, <2>2, <2>3, <2>4, <2>5 DEF RowsKept
<1>9. ~(\E i \in DOMAIN log : \E v \in Values : PostsOnly(i, v)) /\ ~(\E c \in W : TakesOnly(c))
  BY DEF PostsOnly, TakesOnly
<1> HIDE DEF W
<1> QED BY <1>4, <1>5, <1>6, <1>7, <1>8, <1>9 DEF BookStep, W

-----------------------------------------------------------------------------
(* The differences between the workbook and the log.                       *)

\* The two sets of differences, by the entries that are logged as written.
LEMMA DifferencesAre ==
  /\ Missing = {i \in LoggedAs("written") :
                  ~(log[i].row \in DOMAIN sheet /\ sheet[log[i].row] = [by |-> i, value |-> log[i].value])}
  /\ Unlogged = {r \in DOMAIN sheet : sheet[r].by # 0 /\
                   ~(sheet[r].by \in LoggedAs("written") /\ log[sheet[r].by].row = r)}
BY DEF Missing, Unlogged, LoggedAs

\* They are finite.
LEMMA DifferencesFinite ==
  ASSUME TypeOK
  PROVE  IsFiniteSet(Missing) /\ IsFiniteSet(Unlogged)
<1>1. IsFiniteSet(1..Len(log)) /\ IsFiniteSet(1..Len(sheet))
  BY LenProperties, FS_Interval DEF TypeOK
<1>2. DOMAIN log = 1..Len(log) /\ DOMAIN sheet = 1..Len(sheet)
  BY LenProperties DEF TypeOK
<1> QED BY <1>1, <1>2, FS_Subset DEF Missing, Unlogged

\* What the size of a set becomes when it gains one element, or swaps one.
LEMMA SizeGrows ==
  ASSUME NEW S, IsFiniteSet(S), NEW T, NEW x
  PROVE  /\ T \subseteq S => Cardinality(T) <= Cardinality(S)
         /\ T \subseteq S \cup {x} => Cardinality(T) <= Cardinality(S) + 1
         /\ \A c \in S : T \subseteq (S \ {c}) \cup {x} => Cardinality(T) <= Cardinality(S)
<1>1. \A R : IsFiniteSet(R) => \A Q \in SUBSET R : Cardinality(Q) <= Cardinality(R) /\ Cardinality(Q) \in Nat
  BY FS_Subset, FS_CardinalityType
<1>2. \A R : IsFiniteSet(R) => IsFiniteSet(R \cup {x}) /\ Cardinality(R \cup {x}) <= Cardinality(R) + 1
  <2> SUFFICES ASSUME NEW R, IsFiniteSet(R)
               PROVE  IsFiniteSet(R \cup {x}) /\ Cardinality(R \cup {x}) <= Cardinality(R) + 1
    OBVIOUS
  <2>1. Cardinality(R) \in Nat
    BY FS_CardinalityType
  <2>2. x \in R => R \cup {x} = R
    OBVIOUS
  <2>3. x \notin R => IsFiniteSet(R \cup {x}) /\ Cardinality(R \cup {x}) = Cardinality(R) + 1
    BY FS_AddElement
  <2> QED BY <2>1, <2>2, <2>3
<1>3. Cardinality(S) \in Nat /\ Cardinality(S \cup {x}) \in Nat
  BY <1>2, FS_CardinalityType
<1>4. T \subseteq S => Cardinality(T) <= Cardinality(S)
  BY <1>1
<1>5. T \subseteq S \cup {x} => Cardinality(T) <= Cardinality(S) + 1
  <2>1. T \subseteq S \cup {x} => Cardinality(T) <= Cardinality(S \cup {x}) /\ Cardinality(T) \in Nat
    BY <1>1, <1>2
  <2> QED BY <1>2, <1>3, <2>1
<1>6. ASSUME NEW c \in S, T \subseteq (S \ {c}) \cup {x}
      PROVE  Cardinality(T) <= Cardinality(S)
  <2>1. IsFiniteSet(S \ {c}) /\ Cardinality(S \ {c}) = Cardinality(S) - 1
    BY FS_RemoveElement
  <2>2. IsFiniteSet((S \ {c}) \cup {x}) /\ Cardinality((S \ {c}) \cup {x}) <= Cardinality(S \ {c}) + 1
    BY <1>2, <2>1
  <2>3. Cardinality(T) <= Cardinality((S \ {c}) \cup {x}) /\ Cardinality(T) \in Nat
        /\ Cardinality((S \ {c}) \cup {x}) \in Nat
    BY <1>1, <1>6, <2>2
  <2> QED BY <1>3, <2>1, <2>2, <2>3
<1> QED BY <1>4, <1>5, <1>6

\* Two sets of differences against two counts: none is added, or one is and it
\* is counted, or one is swapped for another.
LEMMA SizesCounted ==
  ASSUME NEW M, IsFiniteSet(M), NEW L, IsFiniteSet(L), NEW M1, NEW L1,
         NEW f \in Nat, NEW h \in Nat, NEW f1 \in Nat, NEW h1 \in Nat, NEW x,
         \/ M1 \subseteq M /\ L1 \subseteq L /\ f + h <= f1 + h1
         \/ M1 \subseteq M \cup {x} /\ L1 \subseteq L /\ f1 + h1 = f + h + 1
         \/ M1 \subseteq M /\ L1 \subseteq L \cup {x} /\ f1 + h1 = f + h + 1
         \/ (\E c \in M : M1 \subseteq (M \ {c}) \cup {x}) /\ L1 \subseteq L /\ f1 + h1 = f + h
  PROVE  Cardinality(M1) + Cardinality(L1) + (f + h) <= Cardinality(M) + Cardinality(L) + (f1 + h1)
<1>1. IsFiniteSet(M \cup {x}) /\ IsFiniteSet(L \cup {x})
  BY FS_AddElement
<1>2. M1 \subseteq M \cup {x} /\ L1 \subseteq L \cup {x}
  OBVIOUS
<1>3. IsFiniteSet(M1) /\ IsFiniteSet(L1)
  BY <1>1, <1>2, FS_Subset
<1>4. Cardinality(M) \in Nat /\ Cardinality(L) \in Nat /\ Cardinality(M1) \in Nat /\ Cardinality(L1) \in Nat
  BY <1>3, FS_CardinalityType
<1>5. /\ M1 \subseteq M => Cardinality(M1) <= Cardinality(M)
      /\ L1 \subseteq L => Cardinality(L1) <= Cardinality(L)
      /\ M1 \subseteq M \cup {x} => Cardinality(M1) <= Cardinality(M) + 1
      /\ L1 \subseteq L \cup {x} => Cardinality(L1) <= Cardinality(L) + 1
      /\ (\E c \in M : M1 \subseteq (M \ {c}) \cup {x}) => Cardinality(M1) <= Cardinality(M)
  BY SizeGrows
<1>6. CASE M1 \subseteq M /\ L1 \subseteq L /\ f + h <= f1 + h1
  BY <1>4, <1>5, <1>6
<1>7. CASE M1 \subseteq M \cup {x} /\ L1 \subseteq L /\ f1 + h1 = f + h + 1
  BY <1>4, <1>5, <1>7
<1>8. CASE M1 \subseteq M /\ L1 \subseteq L \cup {x} /\ f1 + h1 = f + h + 1
  BY <1>4, <1>5, <1>8
<1>9. CASE (\E c \in M : M1 \subseteq (M \ {c}) \cup {x}) /\ L1 \subseteq L /\ f1 + h1 = f + h
  BY <1>4, <1>5, <1>9
<1> QED BY <1>6, <1>7, <1>8, <1>9

\* Every step that adds a difference counts a failure or an edit by hand.
LEMMA DifferencesStep ==
  ASSUME TypeOK, BookStep
  PROVE  Cardinality(Missing') + Cardinality(Unlogged') + (faults + human) <=
           Cardinality(Missing) + Cardinality(Unlogged) + (faults' + human')
<1>0. PICK f \in Nat, h \in Nat : f = faults /\ h = human
  BY DEF TypeOK
<1>4. PICK f1, h1 : f1 = faults' /\ h1 = human'
  OBVIOUS
<1> DEFINE W == LoggedAs("written")
           W1 == LoggedAs("written")'
           M == {i \in W : ~(log[i].row \in DOMAIN sheet /\ sheet[log[i].row] = [by |-> i, value |-> log[i].value])}
           M1 == {i \in W1 : ~(log'[i].row \in DOMAIN sheet' /\ sheet'[log'[i].row] = [by |-> i, value |-> log'[i].value])}
           L == {r \in DOMAIN sheet : sheet[r].by # 0 /\ ~(sheet[r].by \in W /\ log[sheet[r].by].row = r)}
           L1 == {r \in DOMAIN sheet' : sheet'[r].by # 0 /\ ~(sheet'[r].by \in W1 /\ log'[sheet'[r].by].row = r)}
           Sizes == Cardinality(M1) + Cardinality(L1) + (f + h) <= Cardinality(M) + Cardinality(L) + (f1 + h1)
<1>1. Missing = M /\ Missing' = M1 /\ Unlogged = L /\ Unlogged' = L1
  BY DEF Missing, Unlogged, LoggedAs
<1>2. IsFiniteSet(M) /\ IsFiniteSet(L)
  BY <1>1, DifferencesFinite
<1>3. W \subseteq DOMAIN log /\ \A i \in DOMAIN log : i \in Nat \ {0}
  BY Indexed DEF LoggedAs
<1>5. ASSUME M1 \subseteq M, L1 \subseteq L, f + h <= f1 + h1, f1 \in Nat, h1 \in Nat
      PROVE  Sizes
  <2> HIDE DEF M, M1, L, L1
  <2> QED BY <1>2, <1>5, SizesCounted
<1>6. ASSUME NEW x, M1 \subseteq M \cup {x}, L1 \subseteq L, f1 + h1 = f + h + 1,
             f1 \in Nat, h1 \in Nat
      PROVE  Sizes
  <2> HIDE DEF M, M1, L, L1
  <2> QED BY <1>2, <1>6, SizesCounted
<1>7. ASSUME NEW x, M1 \subseteq M, L1 \subseteq L \cup {x}, f1 + h1 = f + h + 1,
             f1 \in Nat, h1 \in Nat
      PROVE  Sizes
  <2> HIDE DEF M, M1, L, L1
  <2> QED BY <1>2, <1>7, SizesCounted
<1>8. ASSUME NEW x, NEW c \in M, M1 \subseteq (M \ {c}) \cup {x}, L1 \subseteq L,
             f1 = f, h1 = h
      PROVE  Sizes
  <2> HIDE DEF M, M1, L, L1
  <2> QED BY <1>2, <1>8, SizesCounted
<1>9. ASSUME WrittenStays, UNCHANGED <<sheet, human>>, faults' \in {faults, faults + 1}
      PROVE  Sizes
  <2>1. M1 \subseteq M /\ L1 \subseteq L
    BY <1>9 DEF WrittenStays
  <2> HIDE DEF Sizes, M, M1, L, L1
  <2>2. CASE faults' = faults /\ human' = human
    <3>1. f + h <= f1 + h1 /\ f1 \in Nat /\ h1 \in Nat
      BY <1>0, <1>4, <2>2
    <3> QED BY <1>5, <2>1, <3>1
  <2>3. CASE faults' = faults + 1 /\ human' = human
    <3>1. f + h <= f1 + h1 /\ f1 \in Nat /\ h1 \in Nat
      BY <1>0, <1>4, <2>3
    <3> QED BY <1>5, <2>1, <3>1
  <2> QED BY <1>9, <2>2, <2>3
<1>10. ASSUME NEW i \in DOMAIN log, NEW v \in Values, Posts(i, v)
       PROVE  Sizes
  <2>1. /\ DOMAIN log' = DOMAIN log /\ \A j \in DOMAIN log : j # i => log'[j] = log[j]
        /\ log'[i].status = "written" /\ log'[i].value = v /\ log'[i].row = Len(sheet) + 1
    BY <1>10, Logged
  <2>2. W1 = W \cup {i} /\ i \notin W
    BY <1>10, <2>1 DEF LoggedAs, Posts
  <2>3. /\ DOMAIN sheet' = DOMAIN sheet \cup {Len(sheet) + 1}
        /\ \A k \in DOMAIN sheet : sheet'[k] = sheet[k] /\ k # Len(sheet) + 1
        /\ sheet'[Len(sheet) + 1] = [by |-> i, value |-> v]
    BY <1>10, RowAdded, SheetGrows DEF Posts
  <2>4. sheet'[Len(sheet) + 1].by = i
    BY <2>3
  <2>5. i \notin M1
    BY <2>1, <2>3
  <2>6. M1 \subseteq M
    <3> SUFFICES ASSUME NEW j \in M1, j \notin M PROVE FALSE
      OBVIOUS
    <3>1. j \in W /\ j # i /\ log'[j] = log[j]
      BY <1>3, <2>1, <2>2, <2>5
    <3>2. log[j].row \in DOMAIN sheet /\ sheet[log[j].row] = [by |-> j, value |-> log[j].value]
      BY <3>1
    <3> QED BY <2>3, <3>1, <3>2
  <2>7. L1 \subseteq L
    <3> SUFFICES ASSUME NEW r \in L1 PROVE r \in L
      OBVIOUS
    <3>1. r # Len(sheet) + 1
      BY <2>1, <2>2, <2>4
    <3>2. r \in DOMAIN sheet /\ sheet'[r] = sheet[r]
      BY <2>3, <3>1
    <3>3. ~(sheet[r].by \in W /\ log[sheet[r].by].row = r)
      BY <1>3, <2>1, <2>2, <3>2
    <3> QED BY <3>2, <3>3
  <2>8. faults' = faults /\ human' = human
    BY <1>10 DEF Posts
  <2>9. f + h <= f1 + h1 /\ f1 \in Nat /\ h1 \in Nat
    BY <1>0, <1>4, <2>8
  <2> QED BY <1>5, <2>6, <2>7, <2>9
<1>11. ASSUME NEW i \in DOMAIN log, NEW v \in Values, PostsOnly(i, v)
       PROVE  Sizes
  <2>1. log' = log /\ W1 = W /\ i \notin W /\ faults' = faults + 1 /\ human' = human
    BY <1>11 DEF PostsOnly, LoggedAs
  <2>2. /\ DOMAIN sheet' = DOMAIN sheet \cup {Len(sheet) + 1}
        /\ \A k \in DOMAIN sheet : sheet'[k] = sheet[k]
    BY <1>11, RowAdded, SheetGrows DEF PostsOnly
  <2>3. M1 \subseteq M /\ L1 \subseteq L \cup {Len(sheet) + 1}
    BY <2>1, <2>2
  <2>4. f1 + h1 = f + h + 1 /\ f1 \in Nat /\ h1 \in Nat
    BY <1>0, <1>4, <2>1
  <2> QED BY <1>7, <2>3, <2>4
<1>12. ASSUME NEW c \in W, Undoable(c), ClearLastRow
       PROVE  /\ DOMAIN sheet = 1..Len(sheet) /\ DOMAIN sheet' = 1..Len(sheet) - 1 /\ Len(sheet) \in Nat \ {0}
              /\ \A k \in DOMAIN sheet' : k \in DOMAIN sheet /\ sheet'[k] = sheet[k] /\ k # Len(sheet)
              /\ log[c].row = Len(sheet) /\ sheet[Len(sheet)].value = log[c].value
              /\ \A k \in DOMAIN sheet : k # Len(sheet) => k \in DOMAIN sheet'
  BY <1>12, SheetShrinks DEF Undoable
<1>13. ASSUME NEW c \in W, TakesBack(c)
       PROVE  Sizes
  <2>1. /\ DOMAIN log' = DOMAIN log /\ \A j \in DOMAIN log : j # c => log'[j] = log[j]
        /\ log'[c].status = "undone"
    BY <1>3, <1>13, Logged
  <2>2. W1 = W \ {c}
    BY <2>1 DEF LoggedAs
  <2>3. /\ DOMAIN sheet = 1..Len(sheet) /\ DOMAIN sheet' = 1..Len(sheet) - 1 /\ Len(sheet) \in Nat \ {0}
        /\ \A k \in DOMAIN sheet' : k \in DOMAIN sheet /\ sheet'[k] = sheet[k] /\ k # Len(sheet)
        /\ log[c].row = Len(sheet) /\ sheet[Len(sheet)].value = log[c].value
        /\ \A k \in DOMAIN sheet : k # Len(sheet) => k \in DOMAIN sheet'
    BY <1>12, <1>13 DEF TakesBack
  <2>4. PICK x : x = sheet[Len(sheet)].by
    OBVIOUS
  <2>5. M1 \subseteq (M \ {c}) \cup {x}
    <3> SUFFICES ASSUME NEW j \in M1, j \notin M PROVE j = x
      BY <2>2
    <3>1. j \in W /\ log'[j] = log[j]
      BY <1>3, <2>1, <2>2
    <3>2. log[j].row \in DOMAIN sheet /\ sheet[log[j].row] = [by |-> j, value |-> log[j].value]
      BY <3>1
    <3>3. log[j].row = Len(sheet)
      BY <2>3, <3>1, <3>2
    <3> QED BY <2>4, <3>2, <3>3
  <2>6. L1 \subseteq L
    <3> SUFFICES ASSUME NEW r \in L1 PROVE r \in L
      OBVIOUS
    <3>1. r \in DOMAIN sheet /\ sheet'[r] = sheet[r] /\ r # Len(sheet)
      BY <2>3
    <3>2. ~(sheet[r].by \in W /\ log[sheet[r].by].row = r)
      BY <1>3, <2>1, <2>2, <2>3, <3>1
    <3> QED BY <3>1, <3>2
  <2>7. CASE c \in M
    BY <1>0, <1>4, <1>8, <1>13, <2>5, <2>6, <2>7 DEF TakesBack
  <2>8. CASE c \notin M
    <3>1. sheet[Len(sheet)] = [by |-> c, value |-> log[c].value]
      BY <2>3, <2>8
    <3>2. x = c
      BY <2>4, <3>1
    <3>3. M1 \subseteq M
      BY <2>2, <2>5, <3>2
    <3>4. faults' = faults /\ human' = human
      BY <1>13 DEF TakesBack
    <3>5. f + h <= f1 + h1 /\ f1 \in Nat /\ h1 \in Nat
      BY <1>0, <1>4, <3>4
    <3> QED BY <1>5, <2>6, <3>3, <3>5
  <2> QED BY <2>7, <2>8
<1>14. ASSUME NEW c \in W, TakesOnly(c)
       PROVE  Sizes
  <2>1. log' = log /\ W1 = W /\ faults' = faults + 1 /\ human' = human
    BY <1>14 DEF TakesOnly, LoggedAs
  <2>2. /\ \A k \in DOMAIN sheet' : k \in DOMAIN sheet /\ sheet'[k] = sheet[k] /\ k # Len(sheet)
        /\ \A k \in DOMAIN sheet : k # Len(sheet) => k \in DOMAIN sheet'
    BY <1>12, <1>14 DEF TakesOnly
  <2>3. PICK x : x = sheet[Len(sheet)].by
    OBVIOUS
  <2>4. M1 \subseteq M \cup {x}
    <3> SUFFICES ASSUME NEW j \in M1, j \notin M PROVE j = x
      OBVIOUS
    <3>1. log[j].row \in DOMAIN sheet /\ sheet[log[j].row] = [by |-> j, value |-> log[j].value]
      BY <2>1
    <3>2. log[j].row = Len(sheet)
      BY <2>1, <2>2, <3>1
    <3> QED BY <2>3, <3>1, <3>2
  <2>5. L1 \subseteq L
    BY <2>1, <2>2
  <2>6. f1 + h1 = f + h + 1 /\ f1 \in Nat /\ h1 \in Nat
    BY <1>0, <1>4, <2>1
  <2> QED BY <1>6, <2>4, <2>5, <2>6
<1>15. ASSUME NEW v \in Values, Adds(v)
       PROVE  Sizes
  <2>1. log' = log /\ W1 = W /\ faults' = faults /\ human' = human + 1
    BY <1>15 DEF Adds, LoggedAs
  <2>2. [by |-> 0, value |-> v] \in [by : Nat, value : Values]
    OBVIOUS
  <2>3. /\ DOMAIN sheet' = DOMAIN sheet \cup {Len(sheet) + 1}
        /\ \A k \in DOMAIN sheet : sheet'[k] = sheet[k]
        /\ sheet'[Len(sheet) + 1] = [by |-> 0, value |-> v]
    BY <1>15, <2>2, SheetGrows DEF Adds
  <2>4. sheet'[Len(sheet) + 1].by = 0
    BY <2>3
  <2>5. M1 \subseteq M /\ L1 \subseteq L
    BY <2>1, <2>3, <2>4
  <2>6. f + h <= f1 + h1 /\ f1 \in Nat /\ h1 \in Nat
    BY <1>0, <1>4, <2>1
  <2> QED BY <1>5, <2>5, <2>6
<1>16. ASSUME NEW v \in Values, Overwrites(v)
       PROVE  Sizes
  <2>1. log' = log /\ W1 = W /\ faults' = faults /\ human' = human + 1
    BY <1>16 DEF Overwrites, LoggedAs
  <2>2. [by |-> 0, value |-> v] \in [by : Nat, value : Values]
    OBVIOUS
  <2>3. /\ DOMAIN sheet' = DOMAIN sheet
        /\ \A k \in DOMAIN sheet : k # Len(sheet) => sheet'[k] = sheet[k]
        /\ sheet'[Len(sheet)] = [by |-> 0, value |-> v]
    BY <1>16, <2>2, SheetOverwritten DEF Overwrites
  <2>4. sheet'[Len(sheet)].by = 0
    BY <2>3
  <2>5. PICK x : x = sheet[Len(sheet)].by
    OBVIOUS
  <2>6. M1 \subseteq M \cup {x}
    <3> SUFFICES ASSUME NEW j \in M1, j \notin M PROVE j = x
      OBVIOUS
    <3>1. log[j].row \in DOMAIN sheet /\ sheet[log[j].row] = [by |-> j, value |-> log[j].value]
      BY <2>1
    <3>2. log[j].row = Len(sheet)
      BY <2>1, <2>3, <3>1
    <3> QED BY <2>5, <3>1, <3>2
  <2>7. L1 \subseteq L
    BY <2>1, <2>3, <2>4
  <2>8. f1 + h1 = f + h + 1 /\ f1 \in Nat /\ h1 \in Nat
    BY <1>0, <1>4, <2>1
  <2> QED BY <1>6, <2>6, <2>7, <2>8
<1>17. Sizes
  <2> HIDE DEF Sizes, M, M1, L, L1, W, W1
  <2> QED BY <1>9, <1>10, <1>11, <1>13, <1>14, <1>15, <1>16 DEF BookStep, W
<1> QED BY <1>0, <1>4, <1>1, <1>17

\* The formulas reach every row the bot wrote.
LEMMA CoveredStep ==
  ASSUME TypeOK, FormulasCover, [Next]_vars
  PROVE  FormulasCover'
<1>1. /\ \A r \in DOMAIN sheet : sheet[r].by # 0 => r <= covered
      /\ covered \in Nat /\ Len(sheet) \in Nat /\ DOMAIN sheet = 1..Len(sheet)
  BY LenProperties DEF FormulasCover, TypeOK
<1>2. ASSUME NEW u \in Users, Pressable(u), AppendTransaction(pending[u])
      PROVE  FormulasCover'
  <2>1. [by |-> pending[u].id, value |-> pending[u].value] \in [by : Nat, value : Values]
    BY <1>2, RowTyped DEF Pressable
  <2>2. /\ DOMAIN sheet' = 1..Len(sheet) + 1
        /\ \A r \in DOMAIN sheet : sheet'[r] = sheet[r]
    BY <1>2, <2>1, SheetGrows DEF AppendTransaction
  <2>3. covered' \in Nat /\ covered <= covered' /\ Len(sheet) + 1 <= covered'
    BY <1>1, <1>2 DEF AppendTransaction, ExpandFormulas
  <2> QED BY <1>1, <2>2, <2>3 DEF FormulasCover
<1>3. ASSUME NEW i, Undoable(i), ClearLastRow, UNCHANGED covered
      PROVE  FormulasCover'
  BY <1>1, <1>3, SheetShrinks DEF Undoable, FormulasCover
<1>4. ASSUME NEW v \in Values, HumanEdit(v)
      PROVE  FormulasCover'
  <2>1. [by |-> 0, value |-> v] \in [by : Nat, value : Values] /\ [by |-> 0, value |-> v].by = 0
    OBVIOUS
  <2>2. CASE sheet' = Append(sheet, [by |-> 0, value |-> v])
    <3>1. /\ DOMAIN sheet' = DOMAIN sheet \cup {Len(sheet) + 1}
          /\ sheet'[Len(sheet) + 1].by = 0
          /\ \A r \in DOMAIN sheet : sheet'[r] = sheet[r]
      BY <2>1, <2>2, SheetGrows
    <3> QED BY <1>1, <1>4, <3>1 DEF HumanEdit, FormulasCover
  <2>3. CASE sheet # <<>> /\ sheet' = [sheet EXCEPT ![Len(sheet)] = [by |-> 0, value |-> v]]
    <3>1. /\ DOMAIN sheet' = DOMAIN sheet /\ sheet'[Len(sheet)].by = 0
          /\ \A r \in DOMAIN sheet : r # Len(sheet) => sheet'[r] = sheet[r]
      BY <2>1, <2>3, SheetOverwritten
    <3> QED BY <1>1, <1>4, <3>1 DEF HumanEdit, FormulasCover
  <2> QED BY <1>4, <2>2, <2>3 DEF HumanEdit
<1>5. UNCHANGED <<sheet, covered>> => FormulasCover'
  BY <1>1 DEF FormulasCover
<1>6. ASSUME NEW u \in Users, Preview(u) \/ Confirm(u) \/ ConfirmFails(u)
      PROVE  UNCHANGED <<sheet, covered>> \/ (Pressable(u) /\ AppendTransaction(pending[u]))
  BY <1>6 DEF Preview, Confirm, ConfirmFails
<1>7. ASSUME NEW u \in Users, ConfirmUndo(u) \/ UndoFails(u)
      PROVE  Undoable(candidate[u]) /\ ClearLastRow /\ UNCHANGED covered
  BY <1>7 DEF ConfirmUndo, UndoFails
<1>8. ASSUME Restart
      PROVE  \/ UNCHANGED <<sheet, covered>>
             \/ \E u \in Users : Pressable(u) /\ AppendTransaction(pending[u])
             \/ \E u \in Users : Undoable(candidate[u]) /\ ClearLastRow /\ UNCHANGED covered
  BY <1>8 DEF Restart
<1>9. ASSUME NEW u \in Users,
             \/ \E v \in Values : Upload(u, v) \/ ApplyEdit(u, v)
             \/ \E v \in Values \cup {NoAmount} : UploadWithoutDate(u, v)
             \/ CompleteMissingDate(u) \/ BeginEdit(u) \/ CancelPending(u)
             \/ SetDryRun(u) \/ ExportLatest(u) \/ PrepareUndo(u)
      PROVE  UNCHANGED <<sheet, covered>>
  BY <1>9 DEF Upload, ApplyEdit, UploadWithoutDate, CompleteMissingDate, BeginEdit, CancelPending,
              SetDryRun, ExportLatest, PrepareUndo
<1>10. UNCHANGED vars => UNCHANGED <<sheet, covered>>
  BY DEF vars
<1> QED BY <1>2, <1>3, <1>4, <1>5, <1>6, <1>7, <1>8, <1>9, <1>10 DEF Next

\* The sizes of the differences are counts.
LEMMA DifferencesNat ==
  TypeOK => Cardinality(Missing) \in Nat /\ Cardinality(Unlogged) \in Nat /\ faults + human \in Nat
<1>1. TypeOK => faults + human \in Nat
  BY DEF TypeOK
<1> QED BY <1>1, DifferencesFinite, FS_CardinalityType

\* At the start there is no difference.
LEMMA InitDifferences == Init => DifferencesExplained
<1> SUFFICES ASSUME Init PROVE DifferencesExplained
  OBVIOUS
<1>1. DOMAIN log = {} /\ faults = 0 /\ human = 0
  BY DEF Init
<1>2. \A r \in DOMAIN sheet : sheet[r].by = 0
  BY DEF Init
<1>3. Missing = {} /\ Unlogged = {}
  BY <1>1, <1>2 DEF Missing, Unlogged
<1>4. Cardinality({}) = 0
  BY FS_EmptySet
<1> QED BY <1>1, <1>3, <1>4 DEF DifferencesExplained

\* For any users, receipts, failures, restarts and edits by hand the workbook
\* and the log differ once at most for each failure and each edit, and the
\* formulas reach every row the bot wrote (BooksAgree).
THEOREM BooksStayInStep == Spec => []BooksAgree
<1>1. Init => DifferencesExplained /\ FormulasCover
  BY InitDifferences, InitSessions
<1>2. ASSUME TypeOK, TypeOK', Sessions, DifferencesExplained, [Next]_vars
      PROVE  DifferencesExplained'
  <2>1. Cardinality(Missing') + Cardinality(Unlogged') + (faults + human) <=
          Cardinality(Missing) + Cardinality(Unlogged) + (faults' + human')
    BY <1>2, BookSteps, DifferencesStep
  <2>2. Cardinality(Missing) \in Nat /\ Cardinality(Unlogged) \in Nat /\ faults + human \in Nat
    BY <1>2, DifferencesNat
  <2>3. (Cardinality(Missing) \in Nat /\ Cardinality(Unlogged) \in Nat /\ faults + human \in Nat)'
    BY <1>2, DifferencesNat, PTL
  <2>4. PICK m \in Nat, l \in Nat, d \in Nat, m1 \in Nat, l1 \in Nat, d1 \in Nat :
          /\ m = Cardinality(Missing) /\ l = Cardinality(Unlogged) /\ d = faults + human
          /\ m1 = Cardinality(Missing') /\ l1 = Cardinality(Unlogged') /\ d1 = faults' + human'
    BY <2>2, <2>3
  <2>5. m1 + l1 + d <= m + l + d1 /\ m + l <= d
    BY <1>2, <2>1, <2>4 DEF DifferencesExplained
  <2>6. m1 + l1 <= d1
    BY <2>5
  <2> QED BY <2>4, <2>6 DEF DifferencesExplained
<1>3. TypeOK /\ TypeOK' /\ Sessions /\ DifferencesExplained /\ FormulasCover /\ [Next]_vars
        => DifferencesExplained' /\ FormulasCover'
  BY <1>2, CoveredStep
<1> QED BY <1>1, <1>3, TypeCorrect, PTL DEF Spec, BooksAgree

\* An undo takes the row its entry wrote (UndoTakesOwnRow), whatever the users
\* press and however the workbook is edited by hand in between.
THEOREM UndoIsOwn == Spec => UndoTakesOwnRow
<1>1. Init => RowsKept
  BY InitSessions
<1>2. TypeOK /\ Sessions /\ RowsKept /\ [Next]_vars => RowsKept'
  BY BookSteps, RowsKeptStep
<1>3. ASSUME TypeOK, Sessions, RowsKept, [Next]_vars, Len(sheet') < Len(sheet), faults' = 0
      PROVE  LET r == sheet[Len(sheet)] IN
             \E i \in LoggedAs("written") :
               /\ log'[i].status = "undone" /\ log[i].row = Len(sheet) /\ log[i].value = r.value
               /\ r.by = i \/ (r.by = 0 /\ human > 1)
  <2>1. BookStep
    BY <1>3, BookSteps
  <2>2. Len(sheet) \in Nat
    BY <1>3, LenProperties DEF TypeOK
  <2>3. faults' # faults + 1
    BY <1>3 DEF TypeOK
  <2>4. \A v \in Values : ~Adds(v)
    <3> SUFFICES ASSUME NEW v \in Values, Adds(v) PROVE FALSE
      OBVIOUS
    <3>1. [by |-> 0, value |-> v] \in [by : Nat, value : Values]
      OBVIOUS
    <3>2. Len(sheet') = Len(sheet) + 1
      BY <1>3, <3>1, SheetGrows DEF Adds
    <3> QED BY <1>3, <2>2, <3>2
  <2>5. \A v \in Values : ~Overwrites(v)
    <3> SUFFICES ASSUME NEW v \in Values, Overwrites(v) PROVE FALSE
      OBVIOUS
    <3>1. [by |-> 0, value |-> v] \in [by : Nat, value : Values]
      OBVIOUS
    <3>2. Len(sheet') = Len(sheet)
      BY <1>3, <3>1, SheetOverwritten DEF Overwrites
    <3> QED BY <1>3, <2>2, <3>2
  <2>6. \A i \in DOMAIN log : \A v \in Values : ~Posts(i, v)
    <3> SUFFICES ASSUME NEW i \in DOMAIN log, NEW v \in Values, Posts(i, v) PROVE FALSE
      OBVIOUS
    <3>1. Len(sheet') = Len(sheet) + 1
      BY <1>3, RowAdded, SheetGrows DEF Posts
    <3> QED BY <1>3, <2>2, <3>1
  <2>7. ~UNCHANGED sheet
    BY <1>3, <2>2
  <2>8. PICK c \in LoggedAs("written") : TakesBack(c)
    BY <2>1, <2>3, <2>4, <2>5, <2>6, <2>7 DEF BookStep, PostsOnly, TakesOnly
  <2>9. c \in DOMAIN log
    BY DEF LoggedAs
  <2>10. log'[c].status = "undone"
    BY <1>3, <2>8, <2>9, Logged
  <2>11. log[c].row = Len(sheet) /\ sheet[Len(sheet)].value = log[c].value /\ faults = 0
    BY <1>3, <2>8 DEF TakesBack, Undoable
  <2>12. sheet[Len(sheet)].by = c \/ (sheet[Len(sheet)].by = 0 /\ human > 1)
    BY <1>3, <2>11 DEF RowsKept
  <2> QED BY <2>10, <2>11, <2>12
<1>4. TypeOK /\ Sessions /\ RowsKept /\ [Next]_vars =>
        [Len(sheet') < Len(sheet) /\ faults' = 0 =>
           LET r == sheet[Len(sheet)] IN
           \E i \in LoggedAs("written") :
             /\ log'[i].status = "undone" /\ log[i].row = Len(sheet) /\ log[i].value = r.value
             /\ r.by = i \/ (r.by = 0 /\ human > 1)]_vars
  BY <1>3
<1> QED BY <1>1, <1>2, <1>4, TypeCorrect, PTL DEF Spec, UndoTakesOwnRow

================================================================================
