------------------------- MODULE AccountScripts_proofs -------------------------
(***************************************************************************)
(* The account scripts for any balances they may start with, any list of   *)
(* setups, any rate of exchange and any tolerance for troubles.            *)
(*                                                                         *)
(* Every script is a list of stages, and a stage plans requests from what  *)
(* was last read. Three invariants carry the results:                      *)
(*   Typed   at every stage the requests still to be made are requests of  *)
(*           that stage: they pay from the accounts and the currencies the *)
(*           stage may touch (Payers) and from nothing else;               *)
(*   Kept    what the queue may still take from a balance is on top of the *)
(*           reserve the script means to leave there;                      *)
(*   Frugal  what main has lost, with what the queue may still take from   *)
(*           it, is no more than what is due at the stage: the items and   *)
(*           the gaps inside the budget, in cents of rand.                 *)
(* Each is kept by the actions for its own reason: a request that is sent  *)
(* takes at most what was set aside for it, one that is refused or dropped *)
(* frees it, a look only makes the plan know more, and a new plan is sized *)
(* by the last look.                                                       *)
(***************************************************************************)
EXTENDS AccountScripts, TLAPS, FiniteSetTheorems, SequenceTheorems, WellFoundedInduction

-----------------------------------------------------------------------------
(* Induction, and what is computed of one element after another.           *)

\* A set of naturals that is not empty has a least element.
LEMMA Least ==
  ASSUME NEW T \in SUBSET Nat, T # {}
  PROVE  \E n \in T : \A m \in T : n <= m
<1> DEFINE F == {1..n : n \in T}
<1>1. IsWellFoundedOn(StrictSubsetOrdering(Nat), FiniteSubsetsOf(Nat))
  BY FS_StrictSubsetOrderingWellFounded
<1>2. F \subseteq FiniteSubsetsOf(Nat)
  <2> SUFFICES ASSUME NEW n \in T PROVE 1..n \in SUBSET Nat /\ IsFiniteSet(1..n)
    BY DEF FiniteSubsetsOf
  <2> QED BY FS_Interval
<1>3. F # {}
  OBVIOUS
<1> HIDE DEF F
<1>4. PICK X \in F : \A Y \in F : ~(<<Y, X>> \in StrictSubsetOrdering(Nat))
  BY <1>1, <1>2, <1>3, WFMin
<1> USE DEF F
<1>5. PICK n \in T : X = 1..n
  BY <1>4
<1>6. ASSUME NEW m \in T, m < n PROVE FALSE
  <2>1. 1..m \in F /\ 1..m \in SUBSET Nat /\ 1..n \in SUBSET Nat
    OBVIOUS
  <2>2. 1..m \subseteq 1..n /\ 1..m # 1..n
    <3>1. n \in 1..n /\ n \notin 1..m
      BY <1>6
    <3> QED BY <1>6, <3>1
  <2> QED BY <1>4, <1>5, <2>1, <2>2 DEF StrictSubsetOrdering
<1> QED BY <1>5, <1>6

\* A set with 1 and every successor up to n holds all of them.
LEMMA Inductive ==
  ASSUME NEW n \in Nat, NEW T, \A k \in 1..n : (k = 1 \/ k - 1 \in T) => k \in T
  PROVE  1..n \subseteq T
<1> SUFFICES ASSUME NEW x \in 1..n, x \notin T PROVE FALSE
  OBVIOUS
<1> DEFINE B == {k \in 1..n : k \notin T}
<1>1. PICK k \in B : \A m \in B : k <= m
  <2>1. B \in SUBSET Nat /\ B # {}
    OBVIOUS
  <2> HIDE DEF B
  <2> QED BY <2>1, Least
<1>2. k = 1 \/ k - 1 \in 1..n
  BY <1>1
<1>3. k = 1 \/ k - 1 \in T
  BY <1>1, <1>2
<1> QED BY <1>1, <1>3

\* What is computed of the first n values of G, beginning with v.
Runs(v, G, n, s) == \A i \in 1..n : s[i] = IF i = 1 THEN v ELSE G[i][s[i - 1]]

\* It exists.
LEMMA RunExists ==
  ASSUME NEW n \in Nat, NEW V, NEW v \in V, NEW G, \A i \in 1..n : \A u \in V : G[i][u] \in V
  PROVE  \E s \in [1..n -> V] : Runs(v, G, n, s)
<1> DEFINE T == {k \in 0..n : \E s \in [1..k -> V] : Runs(v, G, k, s)}
<1>1. ASSUME NEW k \in 1..n, k = 1 \/ k - 1 \in T PROVE k \in T
  <2>1. CASE k = 1
    <3>1. [i \in 1..1 |-> v] \in [1..1 -> V] /\ Runs(v, G, 1, [i \in 1..1 |-> v])
      BY DEF Runs
    <3> QED BY <2>1, <3>1
  <2>2. CASE k # 1 /\ k - 1 \in T
    <3>1. PICK s \in [1..k - 1 -> V] : Runs(v, G, k - 1, s)
      BY <2>2
    <3> DEFINE t == [i \in 1..k |-> IF i = k THEN G[k][s[k - 1]] ELSE s[i]]
    <3>2. k - 1 \in 1..k - 1
      BY <2>2
    <3>3. t \in [1..k -> V]
      BY <3>2
    <3>4. ASSUME NEW i \in 1..k PROVE t[i] = IF i = 1 THEN v ELSE G[i][t[i - 1]]
      <4>1. CASE i = k
        BY <2>2, <4>1
      <4>2. CASE i # k
        <5>1. i \in 1..k - 1 /\ (i # 1 => i - 1 \in 1..k - 1)
          BY <4>2
        <5> QED BY <3>1, <5>1 DEF Runs
      <4> QED BY <4>1, <4>2
    <3> HIDE DEF t
    <3>5. Runs(v, G, k, t)
      BY <3>4 DEF Runs
    <3> QED BY <3>3, <3>5
  <2> QED BY <1>1, <2>1, <2>2
<1> HIDE DEF T
<1>2. 1..n \subseteq T
  BY <1>1, Inductive
<1>3. CASE n = 0
  <2>1. [i \in 1..0 |-> v] \in [1..0 -> V] /\ Runs(v, G, 0, [i \in 1..0 |-> v])
    BY DEF Runs
  <2> QED BY <1>3, <2>1
<1>4. CASE n # 0
  BY <1>2, <1>4 DEF T
<1> QED BY <1>3, <1>4

\* The pieces of a sequence of sequences, put together one after the other.
LEMMA FlattenRuns ==
  ASSUME NEW S, NEW ss \in Seq(Seq(S)), Len(ss) # 0
  PROVE  \E g \in [1..Len(ss) -> Seq(S)] :
           /\ \A i \in 1..Len(ss) : g[i] = IF i = 1 THEN ss[1] ELSE g[i - 1] \o ss[i]
           /\ FlattenSeq(ss) = g[Len(ss)]
<1> DEFINE n == Len(ss)
           Is(p) == p = [i \in 1..n |-> IF i = 1 THEN ss[i] ELSE p[i - 1] \o ss[i]]
           p0 == CHOOSE p : Is(p)
<1>1. FlattenSeq(ss) = p0[n]
  BY DEF FlattenSeq
<1>2. n \in Nat \ {0} /\ \A i \in 1..n : ss[i] \in Seq(S)
  BY ElementOfSeq
<1>3. \E p \in [1..n -> Seq(S)] : Is(p)
  <2> DEFINE G == [i \in 1..n |-> [u \in Seq(S) |-> u \o ss[i]]]
  <2>1. \A i \in 1..n : \A u \in Seq(S) : G[i][u] = u \o ss[i] /\ G[i][u] \in Seq(S)
    BY <1>2, ConcatProperties
  <2>2. ss[1] \in Seq(S)
    BY <1>2
  <2> HIDE DEF G, n
  <2>3. PICK s \in [1..n -> Seq(S)] : Runs(ss[1], G, n, s)
    BY <1>2, <2>1, <2>2, RunExists
  <2>4. ASSUME NEW i \in 1..n PROVE s[i] = IF i = 1 THEN ss[i] ELSE s[i - 1] \o ss[i]
    <3>1. i # 1 => i - 1 \in 1..n /\ s[i - 1] \in Seq(S)
      BY <1>2
    <3> QED BY <2>1, <2>3, <3>1 DEF Runs
  <2>5. s = [i \in 1..n |-> s[i]]
    OBVIOUS
  <2>6. Is(s)
    BY <2>4, <2>5, Zenon
  <2> QED BY <2>6
<1>4. PICK p1 \in [1..n -> Seq(S)] : Is(p1)
  BY <1>3
<1>5. Is(p0)
  BY <1>4, Zenon
<1>6. \A i \in 1..n : p0[i] = IF i = 1 THEN ss[1] ELSE p0[i - 1] \o ss[i]
  <2>1. p0 = [i \in 1..n |-> IF i = 1 THEN ss[i] ELSE p0[i - 1] \o ss[i]]
    BY <1>5 DEF Is
  <2> HIDE DEF n, p0
  <2> QED BY <2>1
<1> HIDE DEF p0, Is
<1> DEFINE T == {k \in 1..n : p0[k] \in Seq(S)}
<1>7. ASSUME NEW k \in 1..n, k = 1 \/ k - 1 \in T PROVE k \in T
  <2>1. CASE k = 1
    BY <1>2, <1>6, <2>1
  <2>2. CASE k # 1
    <3>1. p0[k - 1] \in Seq(S) /\ ss[k] \in Seq(S)
      BY <1>2, <1>7, <2>2
    <3>2. p0[k] = p0[k - 1] \o ss[k]
      BY <1>6, <2>2
    <3>3. p0[k - 1] \o ss[k] \in Seq(S)
      BY <3>1, ConcatProperties
    <3> QED BY <3>2, <3>3
  <2> QED BY <2>1, <2>2
<1>8. 1..n \subseteq T
  <2> HIDE DEF T, n
  <2> QED BY <1>2, <1>7, Inductive
<1>9. p0 \in [1..n -> Seq(S)]
  <2>1. p0 = [i \in 1..n |-> IF i = 1 THEN ss[i] ELSE p0[i - 1] \o ss[i]]
    BY <1>5 DEF Is
  <2>2. p0 = [i \in 1..n |-> p0[i]]
    <3> HIDE DEF n
    <3> QED BY <2>1, <1>6
  <2> QED BY <1>8, <2>2
<1> QED BY <1>1, <1>6, <1>9

\* A sum is computed one element after the other.
LEMMA SumRuns ==
  ASSUME NEW s \in Seq(Int)
  PROVE  \E g \in [0..Len(s) -> Int] :
           /\ g[0] = 0 /\ \A i \in 1..Len(s) : g[i] = g[i - 1] + s[i]
           /\ SumOf(s) = g[Len(s)]
<1> DEFINE n == Len(s)
           Is(p) == p = [i \in 0..n |-> IF i = 0 THEN 0 ELSE p[i - 1] + s[i]]
           p0 == CHOOSE p : Is(p)
<1>1. SumOf(s) = p0[n]
  BY DEF SumOf
<1>2. n \in Nat /\ \A i \in 1..n : s[i] \in Int
  BY ElementOfSeq
<1>3. \E p \in [0..n -> Int] : Is(p)
  <2> DEFINE G == [i \in 1..n |-> [u \in Int |-> u + s[i]]]
  <2>1. \A i \in 1..n : \A u \in Int : G[i][u] = u + s[i] /\ G[i][u] \in Int
    BY <1>2
  <2> DEFINE first == IF n = 0 THEN 0 ELSE s[1]
  <2>2. first \in Int
    BY <1>2
  <2>3. n # 0 => first = s[1]
    OBVIOUS
  <2> HIDE DEF G, n, first
  <2>4. PICK t \in [1..n -> Int] : Runs(first, G, n, t)
    BY <1>2, <2>1, <2>2, RunExists
  <2> DEFINE p == [i \in 0..n |-> IF i = 0 THEN 0 ELSE t[i]]
  <2>5. p \in [0..n -> Int]
    BY <1>2
  <2>6. ASSUME NEW i \in 0..n PROVE p[i] = IF i = 0 THEN 0 ELSE p[i - 1] + s[i]
    <3>1. CASE i = 0
      BY <3>1
    <3>2. CASE i = 1
      <4>1. t[1] = s[1] /\ s[1] \in Int
        BY <1>2, <2>3, <2>4, <3>2 DEF Runs
      <4> QED BY <1>2, <3>2, <4>1
    <3>3. CASE i > 1
      <4>1. i \in 1..n /\ i - 1 \in 1..n /\ t[i] = G[i][t[i - 1]]
        BY <1>2, <2>4, <3>3 DEF Runs
      <4>2. t[i] = t[i - 1] + s[i]
        BY <2>1, <4>1
      <4> QED BY <3>3, <4>1, <4>2
    <3> QED BY <1>2, <3>1, <3>2, <3>3
  <2> HIDE DEF p
  <2>7. p = [i \in 0..n |-> p[i]]
    BY <2>5
  <2>8. Is(p)
    BY <2>6, <2>7, Zenon
  <2> QED BY <2>5, <2>8
<1>4. PICK p1 \in [0..n -> Int] : Is(p1)
  BY <1>3
<1>5. Is(p0)
  BY <1>4, Zenon
<1>6. \A i \in 0..n : p0[i] = IF i = 0 THEN 0 ELSE p0[i - 1] + s[i]
  <2>1. p0 = [i \in 0..n |-> IF i = 0 THEN 0 ELSE p0[i - 1] + s[i]]
    BY <1>5 DEF Is
  <2> HIDE DEF n, p0
  <2> QED BY <2>1
<1>7. p0 = [i \in 0..n |-> p0[i]]
  <2>1. p0 = [i \in 0..n |-> IF i = 0 THEN 0 ELSE p0[i - 1] + s[i]]
    BY <1>5 DEF Is
  <2> HIDE DEF n, p0
  <2> QED BY <2>1, <1>6
<1> HIDE DEF p0, Is
<1> DEFINE T == {k \in 1..n : p0[k] \in Int}
<1>8. p0[0] = 0
  BY <1>2, <1>6
<1>9. ASSUME NEW k \in 1..n, k = 1 \/ k - 1 \in T PROVE k \in T
  <2>1. p0[k - 1] \in Int /\ s[k] \in Int
    BY <1>2, <1>8, <1>9
  <2>2. p0[k] = p0[k - 1] + s[k]
    BY <1>6
  <2> QED BY <2>1, <2>2
<1>10. 1..n \subseteq T
  <2> HIDE DEF T, n
  <2> QED BY <1>2, <1>9, Inductive
<1>11. p0 \in [0..n -> Int]
  <2>1. \A i \in 0..n : p0[i] \in Int
    BY <1>2, <1>8, <1>10
  <2> QED BY <1>7, <2>1
<1>12. \A i \in 1..n : p0[i] = p0[i - 1] + s[i]
  BY <1>2, <1>6
<1> HIDE DEF n
<1> QED BY <1>1, <1>8, <1>11, <1>12 DEF n

\* What the elements of a sequence weigh together.
Total(q, w) == SumOf([i \in DOMAIN q |-> w[q[i]]])

\* They are weighed one after the other.
LEMMA TotalRuns ==
  ASSUME NEW S, NEW w \in [S -> Nat], NEW q \in Seq(S)
  PROVE  \E g \in [0..Len(q) -> Nat] :
           /\ g[0] = 0 /\ \A i \in 1..Len(q) : g[i] = g[i - 1] + w[q[i]]
           /\ Total(q, w) = g[Len(q)]
<1> DEFINE n == Len(q)
           s == [i \in DOMAIN q |-> w[q[i]]]
<1>1. n \in Nat /\ DOMAIN q = 1..n /\ \A i \in 1..n : w[q[i]] \in Nat
  BY ElementOfSeq
<1>2. s \in Seq(Int) /\ Len(s) = n /\ \A i \in 1..n : s[i] = w[q[i]]
  <2>1. s \in [1..n -> Int]
    BY <1>1
  <2> QED BY <1>1, <2>1
<1>3. Total(q, w) = SumOf(s)
  BY DEF Total
<1> HIDE DEF s
<1>4. PICK g \in [0..Len(s) -> Int] :
        /\ g[0] = 0 /\ \A i \in 1..Len(s) : g[i] = g[i - 1] + s[i]
        /\ SumOf(s) = g[Len(s)]
  BY <1>2, SumRuns
<1>5. g \in [0..n -> Int] /\ \A i \in 1..n : g[i] = g[i - 1] + w[q[i]]
  BY <1>2, <1>4
<1> DEFINE T == {k \in 1..n : g[k] \in Nat}
<1>6. ASSUME NEW k \in 1..n, k = 1 \/ k - 1 \in T PROVE k \in T
  BY <1>1, <1>4, <1>5, <1>6
<1>7. 1..n \subseteq T
  <2> HIDE DEF T, n
  <2> QED BY <1>1, <1>6, Inductive
<1>8. \A k \in 0..n : g[k] \in Nat
  BY <1>4, <1>7
<1>9. g \in [0..n -> Nat]
  BY <1>5, <1>8
<1> QED BY <1>2, <1>3, <1>4, <1>5, <1>9

\* A total is a natural number.
LEMMA TotalNat ==
  ASSUME NEW S, NEW w \in [S -> Nat], NEW q \in Seq(S)
  PROVE  Total(q, w) \in Nat
<1>1. PICK g \in [0..Len(q) -> Nat] : Total(q, w) = g[Len(q)]
  BY TotalRuns
<1>2. Len(q) \in 0..Len(q)
  BY LenProperties
<1> QED BY <1>1, <1>2

\* An empty plan weighs nothing.
LEMMA TotalEmpty == ASSUME NEW S, NEW w \in [S -> Nat] PROVE Total(<<>>, w) = 0
<1>1. <<>> \in Seq(S) /\ Len(<<>>) = 0
  OBVIOUS
<1>2. PICK g \in [0..Len(<<>>) -> Nat] : g[0] = 0 /\ Total(<<>>, w) = g[Len(<<>>)]
  BY <1>1, TotalRuns
<1> QED BY <1>1, <1>2

\* A plan of one request weighs what that request weighs.
LEMMA TotalOne == ASSUME NEW S, NEW w \in [S -> Nat], NEW r \in S PROVE Total(<<r>>, w) = w[r]
<1>1. <<r>> \in Seq(S) /\ Len(<<r>>) = 1 /\ <<r>>[1] = r
  OBVIOUS
<1>2. PICK g \in [0..Len(<<r>>) -> Nat] :
        /\ g[0] = 0 /\ \A i \in 1..Len(<<r>>) : g[i] = g[i - 1] + w[<<r>>[i]]
        /\ Total(<<r>>, w) = g[Len(<<r>>)]
  BY <1>1, TotalRuns
<1>3. Total(<<r>>, w) = g[1] /\ g[1] = g[0] + w[<<r>>[1]]
  BY <1>1, <1>2
<1>4. w[r] \in Nat
  OBVIOUS
<1> QED BY <1>1, <1>2, <1>3, <1>4

\* The total of two sequences one behind the other.
LEMMA TotalConcat ==
  ASSUME NEW S, NEW w \in [S -> Nat], NEW p \in Seq(S), NEW q \in Seq(S)
  PROVE  Total(p \o q, w) = Total(p, w) + Total(q, w)
<1> DEFINE m == Len(p)
           n == Len(q)
<1>1. m \in Nat /\ n \in Nat
  OBVIOUS
<1>2. p \o q \in Seq(S) /\ Len(p \o q) = m + n
  BY ConcatProperties
<1>3. /\ \A i \in 1..m : (p \o q)[i] = p[i]
      /\ \A i \in 1..n : (p \o q)[m + i] = q[i]
  <2>1. \A i \in 1..m + n : (p \o q)[i] = IF i <= m THEN p[i] ELSE q[i - m]
    BY ConcatProperties
  <2>2. \A i \in 1..n : m + i \in 1..m + n /\ ~(m + i <= m) /\ (m + i) - m = i
    BY <1>1
  <2> QED BY <1>1, <2>1, <2>2
<1>4. PICK f \in [0..m -> Nat] :
        f[0] = 0 /\ (\A i \in 1..m : f[i] = f[i - 1] + w[p[i]]) /\ Total(p, w) = f[m]
  BY TotalRuns
<1>5. PICK g \in [0..n -> Nat] :
        g[0] = 0 /\ (\A i \in 1..n : g[i] = g[i - 1] + w[q[i]]) /\ Total(q, w) = g[n]
  BY TotalRuns
<1>6. PICK h \in [0..m + n -> Nat] :
        /\ h[0] = 0 /\ \A i \in 1..m + n : h[i] = h[i - 1] + w[(p \o q)[i]]
        /\ Total(p \o q, w) = h[m + n]
  <2>1. \E h \in [0..Len(p \o q) -> Nat] :
          /\ h[0] = 0 /\ \A i \in 1..Len(p \o q) : h[i] = h[i - 1] + w[(p \o q)[i]]
          /\ Total(p \o q, w) = h[Len(p \o q)]
    BY <1>2, TotalRuns
  <2> QED BY <1>2, <2>1
<1>7. \A i \in 1..m : w[p[i]] \in Nat
  BY ElementOfSeq
<1>8. \A i \in 1..n : w[q[i]] \in Nat
  BY ElementOfSeq
<1> HIDE DEF m, n
<1> DEFINE T == {k \in 1..m : h[k] = f[k]}
           U == {k \in 1..n : h[m + k] = f[m] + g[k]}
<1>9. 1..m \subseteq T
  <2>1. ASSUME NEW k \in 1..m, k = 1 \/ k - 1 \in T PROVE k \in T
    <3>1. h[k - 1] = f[k - 1] /\ k \in 1..m + n
      BY <1>1, <1>4, <1>6, <2>1
    <3>2. h[k] = h[k - 1] + w[p[k]]
      BY <1>3, <1>6, <3>1
    <3> QED BY <1>4, <3>1, <3>2
  <2> HIDE DEF T
  <2> QED BY <1>1, <2>1, Inductive
<1>10. h[m] = f[m]
  <2>1. m = 0 \/ m \in T
    BY <1>1, <1>9
  <2> QED BY <1>4, <1>6, <2>1
<1>11. 1..n \subseteq U
  <2>1. ASSUME NEW k \in 1..n, k = 1 \/ k - 1 \in U PROVE k \in U
    <3>1. /\ m + k \in 1..m + n /\ (m + k) - 1 = m + (k - 1) /\ k - 1 \in 0..n
          /\ f[m] \in Nat /\ g[k - 1] \in Nat
      BY <1>1
    <3>2. h[m + (k - 1)] = f[m] + g[k - 1]
      <4>1. k = 1 => m + (k - 1) = m /\ g[k - 1] = 0
        BY <1>1, <1>5
      <4> QED BY <1>1, <1>10, <2>1, <4>1
    <3>3. h[m + k] = h[m + (k - 1)] + w[q[k]]
      BY <1>3, <1>6, <3>1
    <3>4. g[k] = g[k - 1] + w[q[k]] /\ w[q[k]] \in Nat
      BY <1>5, <1>8
    <3>5. h[m + k] = f[m] + g[k]
      <4> HIDE DEF U, T
      <4> DEFINE u == f[m]   v == g[k - 1]   x == w[q[k]]
      <4>1. u \in Nat /\ v \in Nat /\ x \in Nat /\ g[k] = v + x /\ h[m + k] = (u + v) + x
        BY <3>1, <3>2, <3>3, <3>4
      <4> HIDE DEF u, v, x
      <4>2. h[m + k] = u + g[k]
        BY <4>1
      <4> QED BY <4>2 DEF u
    <3> QED BY <3>5
  <2> HIDE DEF U
  <2> QED BY <1>1, <2>1, Inductive
<1>12. h[m + n] = f[m] + g[n]
  <2>1. n = 0 \/ n \in U
    BY <1>1, <1>11
  <2>2. n = 0 => m + n = m /\ g[n] = 0 /\ f[m] \in Nat
    BY <1>1, <1>5
  <2> QED BY <1>10, <2>1, <2>2
<1> QED BY <1>4, <1>5, <1>6, <1>12

\* A sequence is its head and its tail.
LEMMA TotalTail ==
  ASSUME NEW S, NEW w \in [S -> Nat], NEW q \in Seq(S), q # <<>>
  PROVE  Tail(q) \in Seq(S) /\ Head(q) \in S /\ Total(q, w) = w[Head(q)] + Total(Tail(q), w)
<1>1. Tail(q) \in Seq(S) /\ Head(q) \in S /\ Len(q) \in Nat \ {0}
  BY HeadTailProperties, EmptySeq
<1>2. q = <<Head(q)>> \o Tail(q)
  <2>1. 1 \in 1..Len(q) /\ Len(q) \in 1..Len(q)
    BY <1>1
  <2>2. SubSeq(q, 1, Len(q)) = <<q[1]>> \o SubSeq(q, 2, Len(q))
    BY <2>1, SubSeqRecursiveFirst
  <2>3. SubSeq(q, 1, Len(q)) = q /\ Tail(q) = SubSeq(q, 2, Len(q)) /\ Head(q) = q[1]
    BY SubSeqFull, TailIsSubSeq
  <2> QED BY <2>2, <2>3
<1>3. <<Head(q)>> \in Seq(S)
  BY <1>1
<1>4. Total(<<Head(q)>> \o Tail(q), w) = Total(<<Head(q)>>, w) + Total(Tail(q), w)
  BY <1>1, <1>3, TotalConcat
<1> QED BY <1>1, <1>2, <1>4, TotalOne

\* What is left of a sequence.
LEMMA Rests ==
  ASSUME NEW S, NEW q \in Seq(S), NEW m \in Nat \ {0}
  PROVE  SubSeq(q, m, Len(q)) \in Seq(S)
<1>1. Len(q) \in Nat /\ \A i \in 1..Len(q) : q[i] \in S
  BY ElementOfSeq
<1>2. \A i \in m..Len(q) : q[i] \in S
  BY <1>1
<1> QED BY <1>1, <1>2, SubSeqProperties

\* It weighs no more.
LEMMA TotalRest ==
  ASSUME NEW S, NEW w \in [S -> Nat], NEW q \in Seq(S), NEW m \in Nat \ {0}
  PROVE  Total(SubSeq(q, m, Len(q)), w) <= Total(q, w)
<1>1. Len(q) \in Nat /\ \A i \in 1..Len(q) : q[i] \in S
  BY ElementOfSeq
<1>2. CASE m <= Len(q)
  <2>1. SubSeq(q, 1, m - 1) \o SubSeq(q, (m - 1) + 1, Len(q)) = SubSeq(q, 1, Len(q))
    <3>1. 1 \in 1..Len(q) + 1 /\ m - 1 \in 1 - 1..Len(q) /\ Len(q) \in m - 1..Len(q)
      BY <1>1, <1>2
    <3> QED BY <3>1, ConcatAdjacentSubSeq
  <2>2. q = SubSeq(q, 1, m - 1) \o SubSeq(q, m, Len(q))
    <3>1. (m - 1) + 1 = m
      OBVIOUS
    <3> QED BY <2>1, <3>1, SubSeqFull
  <2>3. SubSeq(q, 1, m - 1) \in Seq(S)
    <3>1. \A i \in 1..m - 1 : q[i] \in S
      BY <1>1, <1>2
    <3> QED BY <3>1, SubSeqProperties
  <2>4. SubSeq(q, m, Len(q)) \in Seq(S)
    BY Rests
  <2>5. Total(q, w) = Total(SubSeq(q, 1, m - 1), w) + Total(SubSeq(q, m, Len(q)), w)
    BY <2>2, <2>3, <2>4, TotalConcat
  <2>6. Total(SubSeq(q, 1, m - 1), w) \in Nat /\ Total(SubSeq(q, m, Len(q)), w) \in Nat
    BY <2>3, <2>4, TotalNat
  <2> QED BY <2>5, <2>6
<1>3. CASE m > Len(q)
  <2>1. SubSeq(q, m, Len(q)) = <<>>
    BY <1>1, <1>3, SubSeqEmpty
  <2>2. Total(SubSeq(q, m, Len(q)), w) = 0
    BY <2>1, TotalEmpty
  <2> QED BY <2>2, TotalNat
<1> QED BY <1>1, <1>2, <1>3

\* Elements of no weight have none together.
LEMMA TotalZero ==
  ASSUME NEW S, NEW w \in [S -> Nat], NEW q \in Seq({r \in S : w[r] = 0})
  PROVE  q \in Seq(S) /\ Total(q, w) = 0
<1>1. q \in Seq(S)
  BY SeqMonotonic
<1>2. PICK g \in [0..Len(q) -> Nat] :
        /\ g[0] = 0 /\ \A i \in 1..Len(q) : g[i] = g[i - 1] + w[q[i]]
        /\ Total(q, w) = g[Len(q)]
  BY <1>1, TotalRuns
<1>3. Len(q) \in Nat /\ \A i \in 1..Len(q) : w[q[i]] = 0
  BY ElementOfSeq
<1> DEFINE T == {k \in 1..Len(q) : g[k] = 0}
<1>4. ASSUME NEW k \in 1..Len(q), k = 1 \/ k - 1 \in T PROVE k \in T
  <2>1. g[k - 1] = 0
    BY <1>2, <1>4
  <2> QED BY <1>2, <1>3, <2>1
<1>5. 1..Len(q) \subseteq T
  <2> HIDE DEF T
  <2> QED BY <1>3, <1>4, Inductive
<1> QED BY <1>1, <1>2, <1>3, <1>5

-----------------------------------------------------------------------------
(* Pieces put together.                                                    *)

\* Joining a sequence of plans over S gives a plan over S.
LEMMA FlattenTyped ==
  ASSUME NEW S, NEW ss \in Seq(Seq(S))
  PROVE  FlattenSeq(ss) \in Seq(S)
<1>1. CASE Len(ss) = 0
  BY <1>1 DEF FlattenSeq
<1>2. CASE Len(ss) # 0
  <2>1. PICK g \in [1..Len(ss) -> Seq(S)] : FlattenSeq(ss) = g[Len(ss)]
    BY <1>2, FlattenRuns
  <2>2. Len(ss) \in 1..Len(ss)
    BY <1>2, LenProperties
  <2> QED BY <2>1, <2>2
<1> QED BY <1>1, <1>2

\* They weigh what the pieces weigh, one after the other.
LEMMA FlattenTotal ==
  ASSUME NEW S, NEW w \in [S -> Nat], NEW ss \in Seq(Seq(S))
  PROVE  \E g \in [0..Len(ss) -> Nat] :
           /\ g[0] = 0 /\ \A i \in 1..Len(ss) : g[i] = g[i - 1] + Total(ss[i], w)
           /\ Total(FlattenSeq(ss), w) = g[Len(ss)]
<1> DEFINE n == Len(ss)
<1>1. n \in Nat /\ \A i \in 1..n : ss[i] \in Seq(S) /\ Total(ss[i], w) \in Nat
  <2>1. n \in Nat /\ \A i \in 1..n : ss[i] \in Seq(S)
    BY ElementOfSeq
  <2> QED BY <2>1, TotalNat
<1>2. CASE n = 0
  <2>1. ss = <<>>
    BY <1>2, EmptySeq
  <2>2. FlattenSeq(ss) = <<>>
    BY <1>2, <2>1 DEF FlattenSeq
  <2>3. Total(FlattenSeq(ss), w) = 0
    BY <2>2, TotalEmpty
  <2> DEFINE z == [i \in 0..0 |-> 0]
  <2>4. z \in [0..0 -> Nat] /\ z[0] = 0
    OBVIOUS
  <2>5. \A i \in 1..0 : z[i] = z[i - 1] + Total(ss[i], w)
    OBVIOUS
  <2> HIDE DEF z
  <2> QED BY <1>2, <2>3, <2>4, <2>5
<1>3. CASE n # 0
  <2>1. PICK p \in [1..n -> Seq(S)] :
          /\ \A i \in 1..n : p[i] = IF i = 1 THEN ss[1] ELSE p[i - 1] \o ss[i]
          /\ FlattenSeq(ss) = p[n]
    BY <1>3, FlattenRuns
  <2> DEFINE g == [i \in 0..n |-> IF i = 0 THEN 0 ELSE Total(p[i], w)]
  <2>2. g \in [0..n -> Nat]
    <3>1. \A i \in 0..n : i # 0 => Total(p[i], w) \in Nat
      <4> SUFFICES ASSUME NEW i \in 0..n, i # 0 PROVE Total(p[i], w) \in Nat
        OBVIOUS
      <4>1. p[i] \in Seq(S)
        BY <1>1
      <4> QED BY <4>1, TotalNat
    <3> QED BY <3>1
  <2>3. ASSUME NEW i \in 1..n PROVE g[i] = g[i - 1] + Total(ss[i], w)
    <3>1. CASE i = 1
      <4>1. 1 \in 1..n /\ p[1] = ss[1]
        BY <2>1, <3>1
      <4>2. g[1] = Total(ss[1], w) /\ g[0] = 0 /\ Total(ss[1], w) \in Nat
        BY <1>1, <4>1
      <4> QED BY <3>1, <4>2
    <3>2. CASE i # 1
      <4>1. i - 1 \in 1..n
        BY <1>1, <3>2
      <4>4. p[i - 1] \in Seq(S) /\ ss[i] \in Seq(S)
        BY <1>1, <4>1
      <4>2. p[i] = p[i - 1] \o ss[i]
        BY <2>1, <3>2
      <4>3. Total(p[i], w) = Total(p[i - 1], w) + Total(ss[i], w)
        BY <4>2, <4>4, TotalConcat
      <4> QED BY <1>1, <3>2, <4>1, <4>3
    <3> QED BY <3>1, <3>2
  <2>4. g[0] = 0 /\ g[n] = Total(FlattenSeq(ss), w)
    BY <1>1, <1>3, <2>1
  <2> HIDE DEF g, n
  <2> QED BY <2>2, <2>3, <2>4 DEF n
<1> QED BY <1>2, <1>3

\* If no two pieces weigh anything, they weigh no more than each does.
LEMMA FlattenOnce ==
  ASSUME NEW S, NEW w \in [S -> Nat], NEW ss \in Seq(Seq(S)), NEW m \in Nat,
         \A i \in 1..Len(ss) : Total(ss[i], w) <= m,
         \A i, j \in 1..Len(ss) : i # j => Total(ss[i], w) = 0 \/ Total(ss[j], w) = 0
  PROVE  Total(FlattenSeq(ss), w) <= m
<1> DEFINE n == Len(ss)
           t(i) == Total(ss[i], w)
<1>1. PICK g \in [0..n -> Nat] :
        /\ g[0] = 0 /\ \A i \in 1..n : g[i] = g[i - 1] + t(i)
        /\ Total(FlattenSeq(ss), w) = g[n]
  BY FlattenTotal
<1>2. n \in Nat /\ \A i \in 1..n : t(i) \in Nat
  <2>1. n \in Nat /\ \A i \in 1..n : ss[i] \in Seq(S)
    BY ElementOfSeq
  <2> QED BY <2>1, TotalNat
<1>3. \A i \in 1..n : t(i) <= m
  OBVIOUS
<1>4. \A i, j \in 1..n : i # j => t(i) = 0 \/ t(j) = 0
  OBVIOUS
<1> HIDE DEF t, n
<1> DEFINE OK(k) == g[k] <= m /\ (g[k] = 0 \/ \E i \in 1..k : t(i) # 0)
           T == {k \in 1..n : OK(k)}
<1>5. ASSUME NEW k \in 1..n, k = 1 \/ k - 1 \in T PROVE k \in T
  <2>5. k - 1 \in 0..n /\ g[k - 1] \in Nat /\ g[k] \in Nat
    BY <1>1, <1>2
  <2>6. k = 1 => OK(k - 1)
    BY <1>1
  <2>1. OK(k - 1) /\ k - 1 \in 0..n /\ g[k - 1] \in Nat /\ g[k] \in Nat
    BY <1>5, <2>5, <2>6
  <2>2. g[k] = g[k - 1] + t(k) /\ t(k) \in Nat /\ t(k) <= m
    BY <1>1, <1>2, <1>3
  <2>3. CASE t(k) = 0
    <3>1. g[k] = g[k - 1] /\ 1..k - 1 \subseteq 1..k
      BY <1>2, <2>1, <2>2, <2>3
    <3> QED BY <2>1, <3>1
  <2>4. CASE t(k) # 0
    <3>1. \A i \in 1..k - 1 : t(i) = 0
      <4> SUFFICES ASSUME NEW i \in 1..k - 1 PROVE t(i) = 0
        OBVIOUS
      <4>1. i \in 1..n /\ i # k
        BY <1>2
      <4> QED BY <1>4, <2>4, <4>1
    <3>2. g[k - 1] = 0
      BY <2>1, <3>1
    <3>3. g[k] <= m /\ k \in 1..k
      BY <2>1, <2>2, <3>2
    <3> QED BY <2>4, <3>3
  <2> QED BY <2>3, <2>4
<1>6. 1..n \subseteq T
  <2> HIDE DEF T, OK
  <2> QED BY <1>2, <1>5, Inductive
<1> QED BY <1>1, <1>2, <1>6

\* If each piece weighs the same by two measures, they do together.
LEMMA FlattenSame ==
  ASSUME NEW S, NEW v \in [S -> Nat], NEW w \in [S -> Nat], NEW ss \in Seq(Seq(S)),
         \A i \in 1..Len(ss) : Total(ss[i], v) = Total(ss[i], w)
  PROVE  Total(FlattenSeq(ss), v) = Total(FlattenSeq(ss), w)
<1> DEFINE n == Len(ss)
<1>1. n \in Nat
  OBVIOUS
<1>2. PICK f \in [0..n -> Nat] :
        /\ f[0] = 0 /\ \A i \in 1..n : f[i] = f[i - 1] + Total(ss[i], v)
        /\ Total(FlattenSeq(ss), v) = f[n]
  BY FlattenTotal
<1>3. PICK g \in [0..n -> Nat] :
        /\ g[0] = 0 /\ \A i \in 1..n : g[i] = g[i - 1] + Total(ss[i], w)
        /\ Total(FlattenSeq(ss), w) = g[n]
  BY FlattenTotal
<1>4. \A i \in 1..n : f[i] - f[i - 1] = g[i] - g[i - 1]
  <2> SUFFICES ASSUME NEW i \in 1..n PROVE f[i] - f[i - 1] = g[i] - g[i - 1]
    OBVIOUS
  <2>1. ss[i] \in Seq(S)
    BY ElementOfSeq
  <2>2. Total(ss[i], w) \in Nat
    BY <2>1, TotalNat
  <2>3. f[i] \in Nat /\ f[i - 1] \in Nat /\ g[i] \in Nat /\ g[i - 1] \in Nat
    <3>1. i \in 0..n /\ i - 1 \in 0..n
      BY <1>1
    <3> HIDE DEF n
    <3> QED BY <3>1
  <2>4. f[i] = f[i - 1] + Total(ss[i], v) /\ g[i] = g[i - 1] + Total(ss[i], w)
    BY <1>2, <1>3
  <2>5. Total(ss[i], v) = Total(ss[i], w)
    OBVIOUS
  <2> QED BY <2>2, <2>3, <2>4, <2>5
<1> HIDE DEF n
<1> DEFINE T == {k \in 1..n : f[k] = g[k]}
<1>5. ASSUME NEW k \in 1..n, k = 1 \/ k - 1 \in T PROVE k \in T
  <2>1. f[k - 1] = g[k - 1] /\ k - 1 \in 0..n /\ k \in 0..n
    BY <1>1, <1>2, <1>3, <1>5
  <2>2. f[k] \in Nat /\ g[k] \in Nat /\ f[k - 1] \in Nat
    BY <2>1
  <2> QED BY <1>4, <2>1, <2>2
<1>6. 1..n \subseteq T
  <2> HIDE DEF T
  <2> QED BY <1>1, <1>5, Inductive
<1> QED BY <1>1, <1>2, <1>3, <1>6

\* Pieces as many as the elements of a list.
LEMMA FlatOver ==
  ASSUME NEW S, NEW n \in Nat, NEW f, f = [i \in 1..n |-> f[i]], \A i \in 1..n : f[i] \in Seq(S)
  PROVE  f \in Seq(Seq(S)) /\ Len(f) = n /\ FlattenSeq(f) \in Seq(S)
<1>1. f \in [1..n -> Seq(S)]
  OBVIOUS
<1>2. f \in Seq(Seq(S)) /\ Len(f) = n
  BY <1>1
<1> QED BY <1>2, FlattenTyped

\* Joining two plans over S gives a plan over S: the shape a script written as a list of parts has.
LEMMA Flat2 ==
  ASSUME NEW S, NEW f, f = [i \in 1..2 |-> f[i]], f[1] \in Seq(S), f[2] \in Seq(S)
  PROVE  FlattenSeq(f) \in Seq(S)
<1>1. \A i \in 1..2 : f[i] \in Seq(S)
  OBVIOUS
<1> QED BY <1>1, FlatOver

\* Joining three plans over S gives a plan over S: the shape a script written as a list of parts
\* has.
LEMMA Flat3 ==
  ASSUME NEW S, NEW f, f = [i \in 1..3 |-> f[i]], f[1] \in Seq(S), f[2] \in Seq(S), f[3] \in Seq(S)
  PROVE  FlattenSeq(f) \in Seq(S)
<1>1. \A i \in 1..3 : f[i] \in Seq(S)
  OBVIOUS
<1> QED BY <1>1, FlatOver

\* Joining four plans over S gives a plan over S: the shape a script written as a list of parts has.
LEMMA Flat4 ==
  ASSUME NEW S, NEW f, f = [i \in 1..4 |-> f[i]], f[1] \in Seq(S), f[2] \in Seq(S), f[3] \in Seq(S),
         f[4] \in Seq(S)
  PROVE  FlattenSeq(f) \in Seq(S)
<1>1. \A i \in 1..4 : f[i] \in Seq(S)
  OBVIOUS
<1> QED BY <1>1, FlatOver

\* Joining five plans over S gives a plan over S: the shape a script written as a list of parts has.
LEMMA Flat5 ==
  ASSUME NEW S, NEW f, f = [i \in 1..5 |-> f[i]], f[1] \in Seq(S), f[2] \in Seq(S), f[3] \in Seq(S),
         f[4] \in Seq(S), f[5] \in Seq(S)
  PROVE  FlattenSeq(f) \in Seq(S)
<1>1. \A i \in 1..5 : f[i] \in Seq(S)
  OBVIOUS
<1> QED BY <1>1, FlatOver

\* Joining six plans over S gives a plan over S: the shape a script written as a list of parts has.
LEMMA Flat6 ==
  ASSUME NEW S, NEW f, f = [i \in 1..6 |-> f[i]], f[1] \in Seq(S), f[2] \in Seq(S), f[3] \in Seq(S),
         f[4] \in Seq(S), f[5] \in Seq(S), f[6] \in Seq(S)
  PROVE  FlattenSeq(f) \in Seq(S)
<1>1. \A i \in 1..6 : f[i] \in Seq(S)
  OBVIOUS
<1> QED BY <1>1, FlatOver

\* Joining seven plans over S gives a plan over S: the shape a script written as a list of parts
\* has.
LEMMA Flat7 ==
  ASSUME NEW S, NEW f, f = [i \in 1..7 |-> f[i]], f[1] \in Seq(S), f[2] \in Seq(S), f[3] \in Seq(S),
         f[4] \in Seq(S), f[5] \in Seq(S), f[6] \in Seq(S), f[7] \in Seq(S)
  PROVE  FlattenSeq(f) \in Seq(S)
<1>1. \A i \in 1..7 : f[i] \in Seq(S)
  OBVIOUS
<1> QED BY <1>1, FlatOver

\* Joining eight plans over S gives a plan over S: the shape a script written as a list of parts
\* has.
LEMMA Flat8 ==
  ASSUME NEW S, NEW f, f = [i \in 1..8 |-> f[i]], f[1] \in Seq(S), f[2] \in Seq(S), f[3] \in Seq(S),
         f[4] \in Seq(S), f[5] \in Seq(S), f[6] \in Seq(S), f[7] \in Seq(S), f[8] \in Seq(S)
  PROVE  FlattenSeq(f) \in Seq(S)
<1>1. \A i \in 1..8 : f[i] \in Seq(S)
  OBVIOUS
<1> QED BY <1>1, FlatOver

\* A branch that may not be taken.
LEMMA WhenIn ==
  ASSUME NEW S, NEW c, NEW s, c => s \in Seq(S)
  PROVE  When(c, s) \in Seq(S)
BY DEF When

\* An optional request (an `if` around one call) is a plan over S when the request made under the
\* condition is in S.
LEMMA WhenOneIn ==
  ASSUME NEW S, NEW c, NEW r, c => r \in S
  PROVE  When(c, <<r>>) \in Seq(S)
BY DEF When

\* A plan of one request of S.
LEMMA OneIn == ASSUME NEW S, NEW r \in S PROVE <<r>> \in Seq(S)
OBVIOUS

\* A plan of two requests of S.
LEMMA TwoIn == ASSUME NEW S, NEW r \in S, NEW q \in S PROVE <<r, q>> \in Seq(S)
OBVIOUS

\* A plan of three requests of S.
LEMMA ThreeIn == ASSUME NEW S, NEW r \in S, NEW q \in S, NEW p \in S PROVE <<r, q, p>> \in Seq(S)
OBVIOUS

\* One plan run after another is a plan.
LEMMA BehindIn == ASSUME NEW S, NEW p \in Seq(S), NEW q \in Seq(S) PROVE p \o q \in Seq(S)
BY ConcatProperties

-----------------------------------------------------------------------------
(* Requests.                                                               *)

Codes == {"no", "0", "1", "2"}
Marks == Codes \cup {"blank", "forget"}
Orders == Spends \cup {"look", "tick", "jump", "hop", "end"}
Shapes ==
  [op : Orders, on : Accounts, to : Accounts \cup {"U1?"}, give : Currencies \cup SUBSET Currencies,
   get : Currencies \cup {""}, amount : Int, drop : Nat, code : Marks, counts : BOOLEAN, ioc : BOOLEAN,
   picky : BOOLEAN]
\* Requests a script makes that pay from nothing but P; one that is refused
\* lets it go on or ends it with a code.
Paying(P) ==
  {r \in Shapes :
     /\ r.op \in Spends => r.give \in Currencies /\ r.get \in Currencies /\ <<r.on, r.give>> \in P
     /\ r.op = "look" => r.give \subseteq Currencies
     /\ r.op \notin Spends \cup {"look"} => r.code \in Codes
     /\ r.op # "jump"
     /\ r.drop = All => r.code \in Codes}
\* Those that have no mark.
Plain(P) == {r \in Paying(P) : r.code \in Codes}

\* A plain request (no code of a look) is one of the requests that pay from P.
LEMMA PlainPaying == ASSUME NEW P, NEW r \in Plain(P) PROVE r \in Paying(P)
BY DEF Plain

\* More payers admit more requests.
LEMMA PayingMore == ASSUME NEW P, NEW Q, P \subseteq Q PROVE Paying(P) \subseteq Paying(Q)
BY DEF Paying

\* A market order pays from its own account and the currency it gives.
LEMMA TradeIn ==
  ASSUME NEW P, NEW a \in Accounts, NEW g \in Currencies, NEW h \in Currencies, NEW n \in Int, <<a, g>> \in P
  PROVE  Trade(a, g, h, n) \in Plain(P)
BY DEF Trade, Request, Plain, Paying, Shapes, Orders, Spends, Marks, Codes, All

\* An order sized by what it buys pays from its own account and the currency it gives.
LEMMA WantIn ==
  ASSUME NEW P, NEW a \in Accounts, NEW g \in Currencies, NEW h \in Currencies, NEW n \in Int, <<a, g>> \in P
  PROVE  Want(a, g, h, n) \in Plain(P)
BY DEF Want, Request, Plain, Paying, Shapes, Orders, Spends, Marks, Codes, All

\* A transfer pays from the account and the currency it moves.
LEMMA MoveIn ==
  ASSUME NEW P, NEW a \in Accounts, NEW b \in Accounts \cup {"U1?"}, NEW c \in Currencies, NEW n \in Int,
         <<a, c>> \in P
  PROVE  Move(a, b, c, n) \in Plain(P)
BY DEF Move, Request, Plain, Paying, Shapes, Orders, Spends, Marks, Codes, All

\* Reading the balances of an account pays from nowhere.
LEMMA LookIn == ASSUME NEW P, NEW a \in Accounts PROVE Look(a) \in Plain(P)
<1>1. Currencies \in SUBSET Currencies
  OBVIOUS
<1>2. Look(a) \in Shapes
  BY <1>1 DEF Look, Request, Shapes, Orders, Marks, Codes, All
<1>3. Look(a).op = "look" /\ Look(a).give = Currencies /\ Look(a).code = "1"
  BY DEF Look, Request
<1> QED BY <1>2, <1>3 DEF Plain, Paying, Codes, Spends

\* Reading some currencies of an account pays from nowhere.
LEMMA LookForIn ==
  ASSUME NEW P, NEW a \in Accounts, NEW cs \in SUBSET Currencies
  PROVE  LookFor(a, cs) \in Plain(P) /\ LookFor(a, cs).op = "look"
<1>1. Look(a) \in Shapes /\ Look(a).op = "look" /\ Look(a).code = "1"
  BY LookIn DEF Plain, Paying, Look, Request
<1>2. LookFor(a, cs) \in Shapes
  BY <1>1 DEF LookFor, Shapes
<1>3. LookFor(a, cs).op = "look" /\ LookFor(a, cs).give = cs /\ LookFor(a, cs).code = "1"
  BY <1>1 DEF LookFor, Shapes
<1> QED BY <1>2, <1>3 DEF Plain, Paying, Codes, Spends

\* A look that gives an empty result when it fails pays from nowhere.
LEMMA BlankIn ==
  ASSUME NEW P, NEW r \in Plain(P), r.op = "look"
  PROVE  Blank(r) \in Paying(P)
<1>1. r \in Shapes /\ r.give \subseteq Currencies
  BY DEF Plain, Paying
<1>2. Blank(r) \in Shapes /\ Blank(r).op = "look" /\ Blank(r).drop = 0 /\ Blank(r).give = r.give
  BY <1>1 DEF Blank, Shapes, Marks
<1> QED BY <1>1, <1>2 DEF Paying, Spends, All

\* So does such a look of a whole account.
LEMMA BlankLookIn == ASSUME NEW P, NEW a \in Accounts PROVE Blank(Look(a)) \in Paying(P)
<1>1. Look(a).op = "look"
  BY DEF Look, Request
<1> QED BY <1>1, LookIn, BlankIn

\* So does such a look of some currencies.
LEMMA BlankLookForIn ==
  ASSUME NEW P, NEW a \in Accounts, NEW cs \in SUBSET Currencies
  PROVE  Blank(LookFor(a, cs)) \in Paying(P)
BY LookForIn, BlankIn

\* Leaving with an exit code pays from nowhere.
LEMMA EndIn == ASSUME NEW P, NEW code \in Codes PROVE End(code) \in Plain(P)
BY DEF End, Request, Plain, Paying, Shapes, Orders, Spends, Marks, Codes, All, Accounts, Currencies, Quotes

\* Counting a trouble pays from nowhere.
LEMMA TickIn == ASSUME NEW P PROVE Tick \in Plain(P)
BY DEF Tick, Request, Plain, Paying, Shapes, Orders, Spends, Marks, Codes, All, Accounts, Currencies, Quotes

\* The jump over two stages of rebuild_inventory.py is a request that drops nothing.
LEMMA JumpIn ==
  Jump(2) \in Shapes /\ Jump(2).op = "jump" /\ Jump(2).drop = 0 /\ Jump(2).amount = 2 /\ Jump(2).code = "no"
BY DEF Jump, Request, Shapes, Orders, Spends, Marks, Codes, Accounts, Currencies, Quotes

\* Skipping the next requests pays from nowhere.
LEMMA HopIn == ASSUME NEW P, NEW n \in Nat PROVE Hop(n) \in Plain(P)
BY DEF Hop, Request, Plain, Paying, Shapes, Orders, Spends, Marks, Codes, All, Accounts, Currencies, Quotes

\* The ways to treat a request.
LEMMA LenientIn == ASSUME NEW P, NEW r \in Plain(P) PROVE Lenient(r) \in Plain(P)
BY DEF Lenient, Plain, Paying, Shapes, Marks, Codes

\* A request with requests to drop on a refusal pays from where the request does.
LEMMA ElseIn == ASSUME NEW P, NEW r \in Plain(P), NEW n \in Nat PROVE Else(r, n) \in Plain(P)
BY DEF Else, Plain, Paying, Shapes, Marks, Codes

\* A request that ends the script on failure pays from where the request does.
LEMMA OrIn == ASSUME NEW P, NEW r \in Plain(P), NEW code \in Codes PROVE Or(r, code) \in Plain(P)
<1>1. r \in Shapes
  BY DEF Plain, Paying
<1>2. Or(r, code) \in Shapes
  BY <1>1 DEF Or, Shapes, Marks, All
<1>3. Or(r, code).op = r.op /\ Or(r, code).code = code /\ Or(r, code).on = r.on
      /\ Or(r, code).give = r.give /\ Or(r, code).get = r.get /\ Or(r, code).amount = r.amount
  BY <1>1 DEF Or, Shapes
<1> QED BY <1>2, <1>3 DEF Plain, Paying

\* A request whose failure is counted pays from where the request does.
LEMMA CountingIn == ASSUME NEW P, NEW r \in Plain(P) PROVE Counting(r) \in Plain(P)
BY DEF Counting, Plain, Paying, Shapes, Marks, Codes

\* A request that takes HTTP 202 for a refusal pays from where the request does.
LEMMA PickyIn == ASSUME NEW P, NEW r \in Plain(P) PROVE Picky(r) \in Plain(P)
BY DEF Picky, Plain, Paying, Shapes, Marks, Codes

\* An order that may fill in part pays from where the order does.
LEMMA IocIn == ASSUME NEW P, NEW r \in Plain(P) PROVE Ioc(r) \in Plain(P)
BY DEF Ioc, Plain, Paying, Shapes, Marks, Codes

\* An order or a transfer after whose refusal the balances are unknown pays from where the request
\* does.
LEMMA QuitsIn ==
  ASSUME NEW P, NEW r \in Plain(P), r.op \in Spends, NEW n \in Nat, n # All
  PROVE  Quits(r, n) \in Paying(P)
BY DEF Quits, Plain, Paying, Shapes, Marks, Codes, Spends

-----------------------------------------------------------------------------
(* What the variables range over.                                          *)

Everything == Accounts \X Currencies
FromMain   == {"main"} \X Currencies
\* What the k-th stage of the script may spend.
Payers(k) ==
  CASE script = "jul10" /\ k = 2 -> Zar \X {"USDC"}
    [] script \in Splitters \ {"btc"} /\ ~(script = "jul10" /\ k = 2) -> FromMain
    [] script = "btc" -> IF k = 2 THEN {<<"main", "USDT">>} ELSE {"main"} \X Bases
    [] script = "phase2" -> IF k \in 2..7 THEN {<<SweptSubs[k - 1], Bucket(SweptSubs[k - 1])>>} ELSE FromMain
    [] script \in Sellers -> {"main"} \X Bases
    [] script = "spot" -> Zar \X (Currencies \ {"ZAR"})
    [] script = "sweep" -> Accounts \X (Currencies \ {"USDT", "USDC"})
    [] script = "drain" ->
         IF k \in 1..8
         THEN {UsdcSubs[1 + ((k - 1) \div 4)]}
                \X (CASE (k - 1) % 4 = 1 -> {"EURC"} [] (k - 1) % 4 = 2 -> {"USDC"} [] OTHER -> {"ZAR"})
         ELSE {}
    [] script \in {"buffers", "normalize"} -> IF k = 2 THEN Everything ELSE {}
    [] script = "inventory" ->
         (CASE k = 2 -> (Accounts \ {"main"}) \X Bases
            [] k \in 4..9 -> {<<BucketSubs[k - 3], QuoteOf(BucketSubs[k - 3])>>}
            [] OTHER -> FromMain)
    [] OTHER -> Everything
\* What the k-th stage may ask for.
Asks(k) == Paying(Payers(k)) \cup (IF script = "inventory" /\ k >= 11 THEN {Jump(2)} ELSE {})
Purses == [Accounts -> [Currencies -> Nat]]
Books  == UNION {[cs -> Nat] : cs \in SUBSET Currencies}

Typed ==
  /\ script \in Scripts /\ held \in Purses /\ bal \in Purses
  /\ seen \in [Accounts -> Books] /\ old \in [Accounts -> Books]
  /\ dark \subseteq Currencies \X Currencies /\ log \in [Bases \X Quotes -> LogClasses]
  /\ stage \in Nat /\ queue \in Seq(Asks(stage))
  /\ faults \in Nat /\ trades \in Nat /\ faults + trades <= MaxTroubles
  /\ refused \subseteq Currencies /\ idle \in Nat /\ counted \in Nat /\ exit \in Codes

\* The accounts and currencies by name.
LEMMA Names ==
  /\ "main" \in Accounts /\ Zar \subseteq Accounts /\ Usdt \subseteq Accounts
  /\ Usdc \subseteq Accounts /\ Btc \subseteq Accounts
  /\ "Z1" \in Accounts /\ "Z2" \in Accounts /\ "U1" \in Accounts /\ "U2" \in Accounts
  /\ "C1" \in Accounts /\ "C2" \in Accounts /\ "B1" \in Accounts /\ "B2" \in Accounts
  /\ Quotes \subseteq Currencies /\ Bases \subseteq Currencies
  /\ "ZAR" \in Quotes /\ "USDT" \in Quotes /\ "USDC" \in Quotes
  /\ "BTC" \in Bases /\ "ETH" \in Bases /\ "XAUT" \in Bases /\ "JUP" \in Bases /\ "EURC" \in Bases
BY DEF Accounts, Zar, Usdt, Usdc, Btc, Currencies, Quotes, Bases

\* The constants are numbers: the rate is positive and the limit on troubles is a natural.
LEMMA RateTyped == Rate \in Nat \ {0} /\ Rate \in Int /\ MaxTroubles \in Nat /\ Bot \subseteq Everything
BY WalletAssumption DEF Everything

\* Cents, the lesser of two amounts, what is over zero and the rand value of integers are integers,
\* with their bounds.
LEMMA Amounts ==
  ASSUME NEW n \in Int, NEW m \in Int
  PROVE  D(n) \in Int /\ Less(n, m) \in Int /\ Over(n) \in Nat /\ InZar(n) \in Int /\ Less(n, m) <= n
         /\ Less(n, m) <= m
<1>1. n * Rate \in Int
  BY RateTyped
<1> QED BY <1>1 DEF D, Less, Over, InZar

\* A fraction of an integer is an integer.
LEMMA PartInt ==
  ASSUME NEW a \in Int, NEW n \in Int, NEW d \in Nat \ {0}
  PROVE  Part(a, n, d) \in Int
<1>1. \A x, y \in Int : x * y \in Int
  OBVIOUS
<1>2. a \div d \in Int /\ a % d \in Int
  OBVIOUS
<1>3. (a \div d) * n \in Int /\ (a % d) * n \in Int
  BY <1>1, <1>2
<1> QED BY <1>3 DEF Part

\* A fraction of a natural is a natural.
LEMMA PartNat ==
  ASSUME NEW a \in Nat, NEW n \in Nat, NEW d \in Nat \ {0}
  PROVE  Part(a, n, d) \in Nat
<1>1. \A x, y \in Nat : x * y \in Nat
  OBVIOUS
<1>2. a \div d \in Nat /\ a % d \in Nat
  OBVIOUS
<1>3. (a \div d) * n \in Nat /\ (a % d) * n \in Nat
  BY <1>1, <1>2
<1>4. \A x \in Nat : x \div d \in Nat
  OBVIOUS
<1> QED BY <1>3, <1>4 DEF Part

\* A converted integer is an integer.
LEMMA ConvertInt ==
  ASSUME NEW n \in Int, NEW c, NEW d
  PROVE  Convert(n, c, d) \in Int
<1>1. n * Rate \in Int /\ n \div Rate \in Int
  BY RateTyped
<1> QED BY <1>1 DEF Convert

\* A converted natural is a natural.
LEMMA ConvertNat ==
  ASSUME NEW n \in Nat, NEW c, NEW d
  PROVE  Convert(n, c, d) \in Nat
<1>1. n * Rate \in Nat /\ n \div Rate \in Nat
  BY RateTyped
<1> QED BY <1>1 DEF Convert

\* `balances.get(c, 0)` of a book of naturals is a natural.
LEMMA GetNat ==
  ASSUME NEW v \in [Accounts -> Books], NEW a \in Accounts, NEW c
  PROVE  Get(v, a, c) \in Nat
BY DEF Get, Books

\* What a script remembers of an account.
LEMMA Known ==
  ASSUME Typed, NEW a \in Accounts, NEW c
  PROVE  Get(seen, a, c) \in Nat /\ Get(old, a, c) \in Nat /\ Main(c) \in Nat
BY GetNat, Names DEF Typed, Main

-----------------------------------------------------------------------------
(* The stages of the scripts are made of well-formed requests.             *)

Market == [base : Currencies, quote : Currencies, subs : {ZarSubs, UsdtSubs, UsdcSubs, BtcSubs}]

\* One piece for each element of a list.
LEMMA FlatEach ==
  ASSUME NEW S, NEW T, NEW s \in Seq(T), NEW f, f = [i \in DOMAIN s |-> f[i]],
         \A i \in DOMAIN s : f[i] \in Seq(S)
  PROVE  f \in Seq(Seq(S)) /\ Len(f) = Len(s) /\ FlattenSeq(f) \in Seq(S)
<1>1. DOMAIN s = 1..Len(s) /\ Len(s) \in Nat
  OBVIOUS
<1> QED BY <1>1, FlatOver

\* A plan of plain requests is a plan.
LEMMA PlainSeq == ASSUME NEW P, NEW q \in Seq(Plain(P)) PROVE q \in Seq(Paying(P))
<1>1. Plain(P) \subseteq Paying(P)
  BY DEF Plain
<1> QED BY <1>1, SeqMonotonic

\* Every currency of main may pay when the payers are all of main.
LEMMA MainIn == \A c \in Currencies : <<"main", c>> \in FromMain
BY DEF FromMain

\* Every list of subaccounts has two accounts.
LEMMA SubsIn ==
  \A s \in {ZarSubs, UsdtSubs, UsdcSubs, BtcSubs} :
    DOMAIN s = 1..2 /\ s[1] \in Accounts /\ s[2] \in Accounts
BY Names DEF ZarSubs, UsdtSubs, UsdcSubs, BtcSubs

\* The pair of transfers to the two subaccounts of a pair pays from main alone, in one currency.
LEMMA BothIn ==
  ASSUME NEW P, NEW s, s[1] \in Accounts \cup {"U1?"}, s[2] \in Accounts \cup {"U1?"},
         NEW c \in Currencies, NEW n \in Int, <<"main", c>> \in P
  PROVE  Both(s, c, n) \in Seq(Plain(P))
<1>1. Move("main", s[1], c, n) \in Plain(P) /\ Move("main", s[2], c, n) \in Plain(P)
  BY MoveIn, Names
<1> QED BY <1>1, TwoIn DEF Both

\* The same pair of transfers among the payers of main.
LEMMA BothMainIn ==
  ASSUME NEW s \in {ZarSubs, UsdtSubs, UsdcSubs, BtcSubs}, NEW c \in Currencies, NEW n \in Int
  PROVE  Both(s, c, n) \in Seq(Plain(FromMain))
<1>1. s[1] \in Accounts \cup {"U1?"} /\ s[2] \in Accounts \cup {"U1?"} /\ <<"main", c>> \in FromMain
  BY SubsIn, MainIn
<1> QED BY <1>1, BothIn

\* The two halves of a split pay from the base in main.
LEMMA HalvesIn ==
  ASSUME Typed, NEW P, NEW p \in Market, <<"main", p.base>> \in P, NEW n \in Int, NEW d \in Nat \ {0}
  PROVE  Halves(p, n, d) \in Seq(Plain(P))
<1>1. p.base \in Currencies /\ p.subs[1] \in Accounts /\ p.subs[2] \in Accounts
  BY SubsIn DEF Market
<1>2. 2 * d \in Nat \ {0} /\ Main(p.base) \in Int
  BY Known, Names
<1>3. Part(Main(p.base), n, 2 * d) \in Int
  BY <1>2, PartInt
<1> QED BY <1>1, <1>3, BothIn DEF Halves

\* Splitting the bought bases pays from those bases in main, whichever way the balances are read.
LEMMA SplitIn ==
  ASSUME Typed, NEW P, NEW s \in Seq(Market), \A i \in DOMAIN s : <<"main", s[i].base>> \in P,
         NEW n \in Int, NEW d \in Nat \ {0}, NEW least
  PROVE  Split(s, n, d) \in Seq(Plain(P)) /\ SplitHeld(s, least, n, d) \in Seq(Plain(P))
<1>1. ASSUME NEW i \in DOMAIN s PROVE Halves(s[i], n, d) \in Seq(Plain(P))
  <2>1. s[i] \in Market
    OBVIOUS
  <2> QED BY <2>1, HalvesIn
<1>2. \A i \in DOMAIN s : When(Main(s[i].base) > least, Halves(s[i], n, d)) \in Seq(Plain(P))
  BY <1>1, WhenIn
<1> DEFINE f == [i \in DOMAIN s |-> Halves(s[i], n, d)]
           g == [i \in DOMAIN s |-> When(Main(s[i].base) > least, Halves(s[i], n, d))]
<1>3. f = [i \in DOMAIN s |-> f[i]] /\ \A i \in DOMAIN s : f[i] \in Seq(Plain(P))
  BY <1>1
<1>4. g = [i \in DOMAIN s |-> g[i]] /\ \A i \in DOMAIN s : g[i] \in Seq(Plain(P))
  BY <1>2
<1>5. Split(s, n, d) = FlattenSeq(f) /\ SplitHeld(s, least, n, d) = FlattenSeq(g)
  BY DEF Split, SplitHeld, Each
<1> HIDE DEF f, g
<1> QED BY <1>3, <1>4, <1>5, FlatEach

\* Everything on the main account.
LEMMA SplitMainIn ==
  ASSUME Typed, NEW s \in Seq(Market), NEW n \in Int, NEW d \in Nat \ {0}, NEW least
  PROVE  Split(s, n, d) \in Seq(Plain(FromMain)) /\ SplitHeld(s, least, n, d) \in Seq(Plain(FromMain))
<1>1. ASSUME NEW i \in DOMAIN s PROVE <<"main", s[i].base>> \in FromMain
  <2>1. s[i] \in Market
    OBVIOUS
  <2> QED BY <2>1, MainIn DEF Market
<1> QED BY <1>1, SplitIn

\* The lists of pairs.
LEMMA PairIn ==
  ASSUME NEW b \in Currencies, NEW q \in Currencies, NEW s \in {ZarSubs, UsdtSubs, UsdcSubs, BtcSubs}
  PROVE  Pair(b, q, s) \in Market
BY DEF Pair, Market

\* The lists of pairs the scripts trade are sequences of markets.
LEMMA PairsIn ==
  /\ ZarPairs \in Seq(Market) /\ UsdtPairs \in Seq(Market) /\ UsdcPair \in Market
  /\ ZarPairs \o UsdtPairs \in Seq(Market) /\ TripleUsdt \in Seq(Market) /\ TripleZar \in Seq(Market)
<1>1. /\ Pair("BTC", "ZAR", ZarSubs) \in Market /\ Pair("XAUT", "ZAR", ZarSubs) \in Market
      /\ Pair("JUP", "USDT", UsdtSubs) \in Market /\ Pair("XAUT", "USDT", UsdtSubs) \in Market
      /\ UsdcPair \in Market
  BY PairIn, Names DEF UsdcPair
<1>2. ZarPairs \in Seq(Market) /\ UsdtPairs \in Seq(Market) /\ TripleUsdt \in Seq(Market)
  BY <1>1, TwoIn, OneIn DEF ZarPairs, UsdtPairs, TripleUsdt
<1>3. TripleZar \in Seq(Market)
  BY <1>1, <1>2, AppendProperties DEF TripleZar
<1> QED BY <1>1, <1>2, <1>3, BehindIn

\* The market buys of a list of pairs pay from main.
LEMMA BuysIn ==
  ASSUME NEW s \in Seq(Market), NEW n \in Int
  PROVE  Buys(s, n) \in Seq(Plain(FromMain))
<1> DEFINE f == [i \in DOMAIN s |-> <<Want("main", s[i].quote, s[i].base, n)>>]
<1>1. \A i \in DOMAIN s : f[i] \in Seq(Plain(FromMain))
  <2> SUFFICES ASSUME NEW i \in DOMAIN s PROVE <<Want("main", s[i].quote, s[i].base, n)>> \in Seq(Plain(FromMain))
    OBVIOUS
  <2>0. s[i] \in Market
    OBVIOUS
  <2>1. s[i].quote \in Currencies /\ s[i].base \in Currencies
    BY <2>0 DEF Market
  <2> QED BY <2>1, WantIn, OneIn, MainIn, Names
<1>2. f = [i \in DOMAIN s |-> f[i]] /\ Buys(s, n) = FlattenSeq(f)
  BY DEF Buys, Each
<1> HIDE DEF f
<1> QED BY <1>1, <1>2, FlatEach

\* Reading the accounts of a list.
LEMMA EachLookIn ==
  ASSUME NEW P, NEW s \in Seq(Accounts)
  PROVE  /\ Each(s, LAMBDA a : <<Look(a)>>) \in Seq(Plain(P))
         /\ Each(s, LAMBDA a : <<Lenient(Look(a))>>) \in Seq(Plain(P))
         /\ Each(s, LAMBDA a : <<Blank(Look(a))>>) \in Seq(Paying(P))
<1> DEFINE f == [i \in DOMAIN s |-> <<Look(s[i])>>]
           g == [i \in DOMAIN s |-> <<Lenient(Look(s[i]))>>]
           h == [i \in DOMAIN s |-> <<Blank(Look(s[i]))>>]
<1>1. ASSUME NEW i \in DOMAIN s
      PROVE  f[i] \in Seq(Plain(P)) /\ g[i] \in Seq(Plain(P)) /\ h[i] \in Seq(Paying(P))
  <2>1. s[i] \in Accounts
    OBVIOUS
  <2>2. Look(s[i]) \in Plain(P) /\ Lenient(Look(s[i])) \in Plain(P) /\ Blank(Look(s[i])) \in Paying(P)
    BY <2>1, LookIn, LenientIn, BlankLookIn
  <2> QED BY <2>2, OneIn
<1>2. f = [i \in DOMAIN s |-> f[i]] /\ g = [i \in DOMAIN s |-> g[i]] /\ h = [i \in DOMAIN s |-> h[i]]
  OBVIOUS
<1>3. /\ Each(s, LAMBDA a : <<Look(a)>>) = FlattenSeq(f)
      /\ Each(s, LAMBDA a : <<Lenient(Look(a))>>) = FlattenSeq(g)
      /\ Each(s, LAMBDA a : <<Blank(Look(a))>>) = FlattenSeq(h)
  BY DEF Each
<1> HIDE DEF f, g, h
<1>4. FlattenSeq(f) \in Seq(Plain(P)) /\ FlattenSeq(g) \in Seq(Plain(P)) /\ FlattenSeq(h) \in Seq(Paying(P))
  BY <1>1, <1>2, FlatEach
<1> QED BY <1>3, <1>4 DEF Each

\* Two and two requests joined are four.
LEMMA Join4 == ASSUME NEW a, NEW b, NEW c, NEW d PROVE <<a, b>> \o <<c, d>> = <<a, b, c, d>>
<1> DEFINE s == <<a, b>> \o <<c, d>>
<1>1. Len(s) = 4 /\ s[1] = a /\ s[2] = b /\ s[3] = c /\ s[4] = d
      /\ s = [i \in 1..4 |-> s[i]]
  OBVIOUS
<1> HIDE DEF s
<1>2. s = <<a, b, c, d>>
  BY <1>1
<1> QED BY <1>2 DEF s

\* Four and two requests joined are six.
LEMMA Join6 == ASSUME NEW a, NEW b, NEW c, NEW d, NEW e, NEW f PROVE <<a, b, c, d>> \o <<e, f>> = <<a, b, c, d, e, f>>
<1> DEFINE s == <<a, b, c, d>> \o <<e, f>>
<1>1. Len(s) = 6 /\ s[1] = a /\ s[2] = b /\ s[3] = c /\ s[4] = d /\ s[5] = e /\ s[6] = f
      /\ s = [i \in 1..6 |-> s[i]]
  OBVIOUS
<1> HIDE DEF s
<1>2. s = <<a, b, c, d, e, f>>
  BY <1>1
<1> QED BY <1>2 DEF s

\* Six and two requests joined are eight.
LEMMA Join8 == ASSUME NEW a, NEW b, NEW c, NEW d, NEW e, NEW f, NEW g, NEW h PROVE <<a, b, c, d, e, f>> \o <<g, h>> = <<a, b, c, d, e, f, g, h>>
<1> DEFINE s == <<a, b, c, d, e, f>> \o <<g, h>>
<1>1. Len(s) = 8 /\ s[1] = a /\ s[2] = b /\ s[3] = c /\ s[4] = d /\ s[5] = e /\ s[6] = f /\ s[7] = g /\ s[8] = h
      /\ s = [i \in 1..8 |-> s[i]]
  OBVIOUS
<1> HIDE DEF s
<1>2. s = <<a, b, c, d, e, f, g, h>>
  BY <1>1
<1> QED BY <1>2 DEF s

\* Six requests and one more are seven.
LEMMA Append7 ==
  ASSUME NEW a, NEW b, NEW c, NEW d, NEW e, NEW f, NEW g
  PROVE  Append(<<a, b, c, d, e, f>>, g) = <<a, b, c, d, e, f, g>>
<1> DEFINE s == Append(<<a, b, c, d, e, f>>, g)
<1>1. Len(s) = 7 /\ s[1] = a /\ s[2] = b /\ s[3] = c /\ s[4] = d /\ s[5] = e /\ s[6] = f /\ s[7] = g
      /\ s = [i \in 1..7 |-> s[i]]
  OBVIOUS
<1> HIDE DEF s
<1>2. s = <<a, b, c, d, e, f, g>>
  BY <1>1
<1> QED BY <1>2 DEF s

\* The lists of subaccounts of the scripts, joined and written out.
LEMMA SubLists ==
  /\ ZarSubs \in Seq(Accounts) /\ UsdtSubs \in Seq(Accounts) /\ UsdcSubs \in Seq(Accounts) /\ BtcSubs \in Seq(Accounts)
  /\ ZarSubs \o UsdtSubs \o UsdcSubs = <<"Z1", "Z2", "U1", "U2", "C1", "C2">>
  /\ SixSubs = <<"Z1", "Z2", "U1", "U2", "C1", "C2">> /\ SixSubs \in Seq(Accounts)
  /\ SweptSubs = <<"Z1", "Z2", "U1", "U2", "C1", "C2">> /\ BucketSubs = <<"Z1", "Z2", "U1", "U2", "C1", "C2">>
  /\ EightSubs = <<"Z1", "Z2", "U1", "U2", "C1", "C2", "B1", "B2">> /\ EightSubs \in Seq(Accounts)
  /\ Append(BucketSubs, "main") = <<"Z1", "Z2", "U1", "U2", "C1", "C2", "main">>
  /\ Append(BucketSubs, "main") \in Seq(Accounts)
<1>1. ZarSubs \o UsdtSubs \o UsdcSubs = <<"Z1", "Z2", "U1", "U2", "C1", "C2">>
  <2>1. <<"Z1", "Z2">> \o <<"U1", "U2">> = <<"Z1", "Z2", "U1", "U2">>
    BY Join4
  <2>2. <<"Z1", "Z2", "U1", "U2">> \o <<"C1", "C2">> = <<"Z1", "Z2", "U1", "U2", "C1", "C2">>
    BY Join6
  <2> QED BY <2>1, <2>2 DEF ZarSubs, UsdtSubs, UsdcSubs
<1>2. <<"Z1", "Z2", "U1", "U2", "C1", "C2">> \o BtcSubs = <<"Z1", "Z2", "U1", "U2", "C1", "C2", "B1", "B2">>
  BY Join8 DEF BtcSubs
<1>3. Append(<<"Z1", "Z2", "U1", "U2", "C1", "C2">>, "main") = <<"Z1", "Z2", "U1", "U2", "C1", "C2", "main">>
  BY Append7
<1>4. /\ ZarSubs \in Seq(Accounts) /\ UsdtSubs \in Seq(Accounts) /\ UsdcSubs \in Seq(Accounts) /\ BtcSubs \in Seq(Accounts)
  BY Names, TwoIn DEF ZarSubs, UsdtSubs, UsdcSubs, BtcSubs
<1>5. SixSubs = <<"Z1", "Z2", "U1", "U2", "C1", "C2">> /\ SweptSubs = <<"Z1", "Z2", "U1", "U2", "C1", "C2">>
      /\ BucketSubs = <<"Z1", "Z2", "U1", "U2", "C1", "C2">>
  BY <1>1 DEF SixSubs, SweptSubs, BucketSubs
<1>6. SixSubs \in Seq(Accounts)
  BY <1>4, BehindIn DEF SixSubs
<1>7. SixSubs \o BtcSubs \in Seq(Accounts) /\ Append(SixSubs, "main") \in Seq(Accounts)
  BY <1>4, <1>6, BehindIn, AppendProperties, Names
<1> QED BY <1>1, <1>2, <1>3, <1>4, <1>5, <1>6, <1>7 DEF EightSubs

\* Three plans run one after another are a plan.
LEMMA Behind3In ==
  ASSUME NEW S, NEW p \in Seq(S), NEW q \in Seq(S), NEW r \in Seq(S)
  PROVE  p \o q \o r \in Seq(S)
BY BehindIn

\* Plans of three and of four requests of S.
LEMMA ShortSeqsIn ==
  ASSUME NEW S, NEW a \in S, NEW b \in S, NEW c \in S, NEW d \in S
  PROVE <<a, b, c>> \in Seq(S) /\ <<a, b, c, d>> \in Seq(S)
OBVIOUS

-----------------------------------------------------------------------------
(* Restock.                                                                *)

\* Cents and rand values of integers are integers.
LEMMA DollarsTyped == \A n \in Int : D(n) \in Int /\ InZar(D(n)) \in Int /\ InZar(n) \in Int
BY Amounts

\* At every stage jul10 asks only for requests that pay from main, save the stage that empties the
\* USDC of the rand subaccounts.
LEMMA Jul10In ==
  ASSUME Typed, NEW k \in Nat
  PROVE  Jul10(k) \in Seq(Plain(IF k = 2 THEN Zar \X {"USDC"} ELSE FromMain))
<1> DEFINE P == IF k = 2 THEN Zar \X {"USDC"} ELSE FromMain
<1>1. CASE k = 1
  BY <1>1, LookIn, ThreeIn, Names DEF Jul10
<1>2. CASE k = 2
  <2>1. \A a \in Zar : Get(seen, a, "USDC") - D(2) \in Int /\ <<a, "USDC">> \in P
    BY <1>2, Known, Names, DollarsTyped
  <2>2. \A a \in Zar : Move(a, "main", "USDC", Get(seen, a, "USDC") - D(2)) \in Plain(P)
    BY <2>1, MoveIn, Names
  <2>3. Each(ZarSubs, LAMBDA a : LET n == Get(seen, a, "USDC") - D(2)
                                 IN  When(n > 0, <<Move(a, "main", "USDC", n)>>)) \in Seq(Plain(P))
    BY <2>2, Flat2, WhenOneIn DEF Each, ZarSubs, Zar
  <2>4. <<Look("main")>> \in Seq(Plain(P))
    BY LookIn, OneIn, Names
  <2> QED BY <1>2, <2>3, <2>4, BehindIn DEF Jul10
<1>3. CASE k = 3
  <2>1. D(6 * 35) \div Rate \in Int
    BY RateTyped DEF D
  <2>2. Trade("main", "USDC", "ZAR", D(6 * 35) \div Rate) \in Plain(FromMain)
    BY <2>1, TradeIn, MainIn, Names
  <2> QED BY <1>3, <2>2, OrIn, LookIn, TwoIn, Names DEF Jul10, Codes
<1>4. CASE k = 4
  <2>1. Main("USDC") - D(1) \in Int
    BY Known, Names, DollarsTyped
  <2>2. <<Trade("main", "USDC", "USDT", Main("USDC") - D(1)), Look("main")>> \in Seq(Plain(FromMain))
    BY <2>1, TradeIn, LookIn, TwoIn, MainIn, Names
  <2>3. Jul10(k) = When(Main("USDC") - D(1) > 0,
                        <<Trade("main", "USDC", "USDT", Main("USDC") - D(1)), Look("main")>>)
    BY <1>4 DEF Jul10
  <2>4. Jul10(k) \in Seq(Plain(FromMain))
    BY <2>2, <2>3, WhenIn
  <2> QED BY <1>4, <2>4
<1>5. CASE k = 5
  BY <1>5, BuysIn, PairsIn, DollarsTyped, BehindIn, LookIn, OneIn, Names DEF Jul10
<1>6. CASE k = 6
  <2>1. Main("ZAR") \div 2 \in Int /\ Main("USDT") \div 2 \in Int
    BY Known, Names
  <2>2. Both(ZarSubs, "ZAR", Main("ZAR") \div 2) \in Seq(Plain(FromMain))
        /\ Both(UsdtSubs, "USDT", Main("USDT") \div 2) \in Seq(Plain(FromMain))
    BY <2>1, BothIn, SubsIn, MainIn, Names
  <2>3. Split(ZarPairs \o UsdtPairs, 1, 1) \in Seq(Plain(FromMain))
    <3>1. 1 \in Int /\ 1 \in Nat \ {0}
      OBVIOUS
    <3> QED BY <3>1, SplitMainIn, PairsIn
  <2> QED BY <1>6, <2>2, <2>3, WhenIn, BehindIn DEF Jul10
<1>7. CASE k \notin {1, 2, 3, 4, 5, 6}
  <2>1. Jul10(k) = <<End("0")>> /\ k # 2
    BY <1>7 DEF Jul10
  <2> QED BY <2>1, EndIn, OneIn DEF Codes
<1> QED BY <1>1, <1>2, <1>3, <1>4, <1>5, <1>6, <1>7

\* The pairs auto_restock.py trades, and what it finds to lack.
Traded == {p \in Market : p.quote \in {"ZAR", "USDT"} /\ p.base \in Bases}
Items  == [pair : Traded, need : MinBuy..D(35)]

\* The pairs of the auto-restock are markets quoted in rand or USDT on a base.
LEMMA TradedIn ==
  /\ ZarPairs[1] \in Traded /\ ZarPairs[2] \in Traded /\ UsdtPairs[1] \in Traded /\ UsdtPairs[2] \in Traded
  /\ DOMAIN ZarPairs = 1..2 /\ DOMAIN UsdtPairs = 1..2
BY DEF ZarPairs, UsdtPairs, Traded, Market, Pair, Currencies, Bases, Quotes

\* The findings of a scan are items: a pair the bot trades and a need between the smallest buy and
\* $35.
LEMMA FindingsIn ==
  ASSUME NEW v \in [Accounts -> Books]
  PROVE  Findings(v) \in Seq(Items)
<1> DEFINE need(p) == Over(D(35) - Get(v, "main", p.base))
           item(p) == When(Starved(p) /\ Price(p.base, p.quote) /\ need(p) >= MinBuy,
                           <<[pair |-> p, need |-> need(p)]>>)
           list(ps) == IF need(ps[2]) > need(ps[1]) THEN item(ps[2]) \o item(ps[1])
                       ELSE item(ps[1]) \o item(ps[2])
<1>1. ASSUME NEW p \in Traded PROVE item(p) \in Seq(Items)
  <2>1. Get(v, "main", p.base) \in Nat
    BY GetNat, Names
  <2>2. need(p) \in Nat /\ need(p) <= D(35)
    BY <2>1 DEF Over, D
  <2> HIDE DEF need
  <2>3. need(p) >= MinBuy => need(p) \in MinBuy..D(35)
    <3>1. MinBuy = 100 /\ D(35) = 3500
      BY DEF MinBuy, D
    <3> QED BY <2>2, <3>1
  <2>4. need(p) >= MinBuy => [pair |-> p, need |-> need(p)] \in Items
    BY <2>3 DEF Items
  <2> QED BY <2>4, WhenOneIn
<1> HIDE DEF item, need
<1>2. list(ZarPairs) \in Seq(Items) /\ list(UsdtPairs) \in Seq(Items)
  BY <1>1, TradedIn, BehindIn
<1>3. Findings(v) = list(UsdtPairs) \o list(ZarPairs)
  BY DEF Findings, item, need
<1> HIDE DEF list
<1> QED BY <1>2, <1>3, BehindIn

\* A list cut short.
LEMMA CutIn ==
  ASSUME NEW S, NEW s \in Seq(S), NEW n \in Nat, n <= Len(s)
  PROVE  SubSeq(s, 1, n) \in Seq(S) /\ Len(SubSeq(s, 1, n)) = n
         /\ \A i \in 1..n : SubSeq(s, 1, n)[i] = s[i]
<1>1. Len(s) \in Nat /\ 1..n \subseteq 1..Len(s) /\ s \in [1..Len(s) -> S]
  OBVIOUS
<1>2. SubSeq(s, 1, n) = [i \in 1..n |-> s[i]]
  BY <1>1, SubSeqProperties
<1> QED BY <1>1, <1>2

-----------------------------------------------------------------------------
(* What a budget allows.                                                   *)

\* The partial sums of a sequence of naturals, as a function of their length.
LEMMA SumNat ==
  ASSUME NEW c \in Seq(Nat)
  PROVE  \E g \in [0..Len(c) -> Nat] :
           /\ g[0] = 0 /\ \A i \in 1..Len(c) : g[i] = g[i - 1] + c[i]
           /\ \A i \in 0..Len(c) : SumOf(SubSeq(c, 1, i)) = g[i]
<1>1. c \in Seq(Int) /\ Len(c) \in Nat
  OBVIOUS
<1>2. PICK g \in [0..Len(c) -> Int] :
        /\ g[0] = 0 /\ \A i \in 1..Len(c) : g[i] = g[i - 1] + c[i]
        /\ SumOf(c) = g[Len(c)]
  BY <1>1, SumRuns
<1> DEFINE T == {i \in 1..Len(c) : g[i] \in Nat}
<1>3. ASSUME NEW k \in 1..Len(c), k = 1 \/ k - 1 \in T PROVE k \in T
  <2>1. g[k] = g[k - 1] + c[k] /\ c[k] \in Nat
    BY <1>2
  <2>2. g[k - 1] \in Nat
    BY <1>2, <1>3
  <2> QED BY <2>1, <2>2
<1>4. 1..Len(c) \subseteq T
  <2> HIDE DEF T
  <2> QED BY <1>1, <1>3, Inductive
<1>5. g \in [0..Len(c) -> Nat]
  BY <1>2, <1>4
<1>6. ASSUME NEW n \in 0..Len(c) PROVE SumOf(SubSeq(c, 1, n)) = g[n]
  <2> DEFINE s == SubSeq(c, 1, n)
  <2>1. s \in Seq(Int) /\ Len(s) = n /\ \A i \in 1..n : s[i] = c[i]
    BY <1>1, CutIn
  <2> HIDE DEF s
  <2>2. PICK h \in [0..n -> Int] :
          /\ h[0] = 0 /\ \A i \in 1..n : h[i] = h[i - 1] + s[i]
          /\ SumOf(s) = h[n]
    BY <2>1, SumRuns
  <2> DEFINE U == {i \in 1..n : h[i] = g[i]}
  <2>3. ASSUME NEW k \in 1..n, k = 1 \/ k - 1 \in U PROVE k \in U
    <3>0. k \in 1..Len(c) /\ s[k] = c[k]
      <4>1. Len(c) \in Nat
        BY <1>1
      <4>2. k \in 1..Len(c)
        BY <4>1
      <4> QED BY <2>1, <4>2
    <3>1. h[k] = h[k - 1] + c[k] /\ g[k] = g[k - 1] + c[k]
      BY <1>2, <2>2, <3>0
    <3>2. h[k - 1] = g[k - 1]
      BY <1>2, <2>2, <2>3
    <3> QED BY <3>1, <3>2
  <2>4. 1..n \subseteq U
    <3> HIDE DEF U
    <3>1. n \in Nat
      BY <1>1
    <3> QED BY <2>3, <3>1, Inductive
  <2>5. h[n] = g[n]
    <3>1. n \in 1..n \/ n = 0
      OBVIOUS
    <3> QED BY <1>2, <2>2, <2>4, <3>1
  <2> QED BY <2>2, <2>5 DEF s
<1> QED BY <1>2, <1>5, <1>6

\* The items that are taken are the first ones, and all of them but the last
\* leave at least "least" of the budget.
LEMMA WithinFirst ==
  ASSUME NEW c \in Seq(Nat), NEW b \in Int, NEW least \in Int
  PROVE  /\ Within(c, b, least) \in 0..Len(c)
         /\ Within(c, b, least) # 0 =>
              b - SumOf(SubSeq(c, 1, Within(c, b, least) - 1)) >= least
<1> DEFINE n == Len(c)
           I == {i \in DOMAIN c : b - SumOf(SubSeq(c, 1, i - 1)) >= least}
<1>1. PICK g \in [0..n -> Nat] :
        /\ g[0] = 0 /\ \A i \in 1..n : g[i] = g[i - 1] + c[i]
        /\ \A i \in 0..n : SumOf(SubSeq(c, 1, i)) = g[i]
  BY SumNat
<1>2. n \in Nat /\ DOMAIN c = 1..n /\ Within(c, b, least) = Cardinality(I)
  BY DEF Within
<1>3. I = {i \in 1..n : b - g[i - 1] >= least}
  <2>1. \A i \in 1..n : SumOf(SubSeq(c, 1, i - 1)) = g[i - 1]
    BY <1>1
  <2> QED BY <1>2, <2>1
<1> HIDE DEF I
<1>4. ASSUME NEW i \in 1..n, i \in I, i > 1 PROVE i - 1 \in I
  <2>1. i - 1 \in 1..n /\ i - 1 - 1 \in 0..n /\ i - 1 \in 0..n
    BY <1>2, <1>4
  <2>2. g[i - 1] = g[i - 1 - 1] + c[i - 1] /\ c[i - 1] \in Nat /\ g[i - 1 - 1] \in Nat /\ g[i - 1] \in Nat
    <3>1. g[i - 1] = g[i - 1 - 1] + c[i - 1]
      BY <1>1, <2>1
    <3>2. c[i - 1] \in Nat
      BY <2>1, <1>2
    <3>3. g[i - 1 - 1] \in Nat /\ g[i - 1] \in Nat
      BY <1>1, <2>1
    <3> QED BY <3>1, <3>2, <3>3
  <2>3. b - g[i - 1] >= least
    BY <1>3, <1>4
  <2>4. b - g[i - 1 - 1] >= least
    <3> DEFINE x == g[i - 1 - 1]   y == c[i - 1]   z == g[i - 1]
    <3>1. x \in Nat /\ y \in Nat /\ z = x + y /\ b - z >= least
      BY <2>2, <2>3
    <3> HIDE DEF x, y, z
    <3>2. b - x >= least
      BY <3>1
    <3> QED BY <3>2 DEF x
  <2> QED BY <2>1, <2>4, <1>3
<1> DEFINE M == {k \in Nat : \A i \in 1..n : i > k => i \notin I}
<1>5. n \in M /\ M \in SUBSET Nat
  BY <1>2
<1>6. PICK m \in M : \A k \in M : m <= k
  <2> HIDE DEF M
  <2> QED BY <1>5, Least
<1>7. m \in 0..n /\ \A i \in 1..n : i > m => i \notin I
  <2>1. m \in Nat /\ m <= n
    BY <1>5, <1>6
  <2> QED BY <2>1, <1>2
<1>8. m # 0 => m \in I
  <2> SUFFICES ASSUME m # 0, m \notin I PROVE FALSE
    OBVIOUS
  <2>1. m - 1 \in Nat /\ \A i \in 1..n : i > m - 1 => i = m \/ i > m
    BY <1>7, <1>2
  <2>2. m - 1 \in M
    BY <1>7, <2>1
  <2>3. m <= m - 1
    BY <2>2, <1>6
  <2> QED BY <2>3, <1>7, <1>2
<1>9. 1..m \subseteq I
  <2> DEFINE T == {k \in 1..m : m + 1 - k \in I}
  <2>1. ASSUME NEW k \in 1..m, k = 1 \/ k - 1 \in T PROVE k \in T
    <3>1. CASE k = 1
      BY <1>7, <1>8, <3>1
    <3>2. CASE k # 1
      <4>1. m + 1 - (k - 1) \in I /\ m + 1 - (k - 1) > 1 /\ m + 1 - (k - 1) \in 1..n
        BY <1>7, <2>1, <3>2
      <4> QED BY <1>4, <4>1, <1>7
    <3> QED BY <3>1, <3>2
  <2>2. 1..m \subseteq T
    <3> HIDE DEF T
    <3> QED BY <1>7, <2>1, Inductive
  <2>3. ASSUME NEW i \in 1..m PROVE i \in I
    <3>1. m + 1 - i \in 1..m
      BY <1>7
    <3>2. m + 1 - i \in T
      BY <2>2, <3>1
    <3> QED BY <3>2, <1>7
  <2> QED BY <2>3
<1>10. I = 1..m
  BY <1>7, <1>9, <1>3, <1>2
<1>11. Cardinality(1..m) = m
  BY <1>7, FS_Interval
<1>12. Within(c, b, least) = m
  BY <1>2, <1>10, <1>11
<1>13. m # 0 => b - SumOf(SubSeq(c, 1, m - 1)) >= least
  BY <1>8 DEF I
<1> QED BY <1>7, <1>12, <1>13

\* The parts of a finding: its need, its pair, and the currencies of the pair.
LEMMA ItemTyped ==
  ASSUME NEW f \in Items
  PROVE  /\ f.need \in Nat /\ f.need <= D(35) /\ f.pair \in Market /\ f.pair.quote \in {"ZAR", "USDT"}
         /\ f.pair.quote \in Currencies /\ f.pair.base \in Bases /\ f.pair.base \in Currencies
<1>1. f.need \in MinBuy..D(35) /\ f.pair \in Traded
  BY DEF Items
<1>2. MinBuy = 100 /\ D(35) = 3500
  BY DEF MinBuy, D
<1>3. f.need \in Nat /\ f.need <= D(35)
  BY <1>1, <1>2
<1> QED BY <1>1, <1>3, Names DEF Traded

\* The costs of the findings are naturals, one for each.
LEMMA CostsIn == ASSUME NEW f \in Seq(Items) PROVE Costs(f) \in Seq(Nat) /\ Len(Costs(f)) = Len(f)
<1>1. \A i \in 1..Len(f) : f[i].need \in Nat
  <2>1. ASSUME NEW i \in 1..Len(f) PROVE f[i].need \in Nat
    <3>1. f[i] \in Items
      OBVIOUS
    <3> QED BY <3>1, ItemTyped
  <2> QED BY <2>1
<1>2. Costs(f) = [i \in 1..Len(f) |-> f[i].need]
  BY DEF Costs
<1> QED BY <1>1, <1>2

\* What main is worth is a natural.
LEMMA WorthTyped ==
  ASSUME NEW v \in [Accounts -> Books]
  PROVE  MainWorth(v) \in Nat
<1>1. Get(v, "main", "USDC") \in Nat /\ Get(v, "main", "USDT") \in Nat /\ Get(v, "main", "ZAR") \in Nat
  BY GetNat, Names
<1>2. Get(v, "main", "ZAR") \div Rate \in Nat
  BY <1>1, RateTyped
<1> QED BY <1>1, <1>2 DEF MainWorth

\* The budget is an integer, negative by at most the $5 it holds back.
LEMMA BudgetTyped ==
  ASSUME Typed
  PROVE  EffectiveBudget \in Int /\ EffectiveBudget >= -D(5) /\ MinBuy \in Int
<1>1. MainWorth(old) \in Nat
  BY WorthTyped DEF Typed
<1> QED BY <1>1 DEF EffectiveBudget, Less, Budget, MinBuy, D

\* The findings inside the budget are a prefix of the findings, as long as `Within` counts.
LEMMA CappedIn ==
  ASSUME Typed
  PROVE  /\ Findings(old) \in Seq(Items) /\ Capped \in Seq(Items)
         /\ Len(Capped) = Within(Costs(Findings(old)), EffectiveBudget, MinBuy)
         /\ Len(Capped) <= Len(Findings(old)) /\ \A i \in 1..Len(Capped) : Capped[i] = Findings(old)[i]
<1>1. Findings(old) \in Seq(Items)
  BY FindingsIn DEF Typed
<1>2. Within(Costs(Findings(old)), EffectiveBudget, MinBuy) \in 0..Len(Findings(old))
  BY <1>1, CostsIn, BudgetTyped, WithinFirst
<1> QED BY <1>1, <1>2, CutIn DEF Capped

\* What is missing from the quote buffers.
Holes == [sub : Accounts, cur : Quotes, need : Nat]
\* The quote gaps are at most six, and each needs at most its target.
LEMMA GapsIn ==
  ASSUME Typed
  PROVE  /\ Gaps \in Seq(Holes) /\ Len(Gaps) <= 6
         /\ \A i \in 1..Len(Gaps) : Gaps[i].need <= [ZAR |-> D(2500), USDT |-> D(50), USDC |-> D(3)][Gaps[i].cur]
<1> DEFINE target == [ZAR |-> D(2500), USDT |-> D(50), USDC |-> D(3)]
           H == {h \in Holes : h.need <= target[h.cur]}
           gap(a, c) == When(seen[a] # Unread /\ target[c] > Get(seen, a, c),
                             <<[sub |-> a, cur |-> c, need |-> target[c] - Get(seen, a, c)]>>)
           gaps(subs, c) == gap(subs[1], c) \o gap(subs[2], c)
<1>1. ASSUME NEW a \in Accounts, NEW c \in Quotes
      PROVE  gap(a, c) \in Seq(H) /\ Len(gap(a, c)) <= 1
  <2>1. Get(seen, a, c) \in Nat /\ target[c] \in Nat
    BY Known DEF D, Quotes
  <2>2. target[c] > Get(seen, a, c) =>
          [sub |-> a, cur |-> c, need |-> target[c] - Get(seen, a, c)] \in H
    <3> HIDE DEF target
    <3> QED BY <2>1 DEF Holes
  <2> HIDE DEF target, H
  <2>3. gap(a, c) \in Seq(H)
    BY <2>2, WhenOneIn
  <2> QED BY <2>3 DEF When
<1> HIDE DEF gap
<1>2. ASSUME NEW s \in {ZarSubs, UsdtSubs, UsdcSubs, BtcSubs}, NEW c \in Quotes
      PROVE  gaps(s, c) \in Seq(H) /\ Len(gaps(s, c)) <= 2
  <2>1. s[1] \in Accounts /\ s[2] \in Accounts
    BY SubsIn
  <2> HIDE DEF H
  <2>2. gap(s[1], c) \in Seq(H) /\ gap(s[2], c) \in Seq(H) /\ Len(gap(s[1], c)) <= 1 /\ Len(gap(s[2], c)) <= 1
    BY <1>1, <2>1
  <2> QED BY <2>2, ConcatProperties
<1> HIDE DEF gaps
<1>3. /\ gaps(ZarSubs, "ZAR") \in Seq(H) /\ Len(gaps(ZarSubs, "ZAR")) <= 2
      /\ gaps(UsdtSubs, "USDT") \in Seq(H) /\ Len(gaps(UsdtSubs, "USDT")) <= 2
      /\ gaps(UsdcSubs, "USDC") \in Seq(H) /\ Len(gaps(UsdcSubs, "USDC")) <= 2
  BY <1>2, Names
<1>4. Gaps = gaps(ZarSubs, "ZAR") \o gaps(UsdtSubs, "USDT") \o gaps(UsdcSubs, "USDC")
  BY DEF Gaps, gaps, gap
<1>5. Gaps \in Seq(H) /\ Len(Gaps) <= 6
  <2> HIDE DEF H
  <2> QED BY <1>3, <1>4, ConcatProperties
<1>6. \A i \in 1..Len(Gaps) : Gaps[i] \in H
  <2> HIDE DEF H
  <2> QED BY <1>5
<1>7. Gaps \in Seq(Holes)
  BY <1>5, SeqMonotonic
<1> QED BY <1>5, <1>6, <1>7

GapCosts == [i \in DOMAIN Gaps |-> Convert(Gaps[i].need, Gaps[i].cur, "USDC")]
\* The dollar costs of the gaps are naturals, one for each.
LEMMA GapCostsIn == ASSUME Typed PROVE GapCosts \in Seq(Nat) /\ Len(GapCosts) = Len(Gaps)
<1>1. ASSUME NEW i \in DOMAIN Gaps PROVE Convert(Gaps[i].need, Gaps[i].cur, "USDC") \in Nat
  <2>1. Gaps[i] \in Holes
    BY GapsIn
  <2> QED BY <2>1, ConvertNat DEF Holes
<1>2. DOMAIN Gaps = 1..Len(Gaps) /\ Len(Gaps) \in Nat
  BY GapsIn
<1> QED BY <1>1, <1>2 DEF GapCosts

\* The gaps inside the rest of the budget are a prefix of the gaps.
LEMMA CappedGapsIn ==
  ASSUME Typed
  PROVE  /\ CappedGaps \in Seq(Holes)
         /\ Len(CappedGaps) = Within(GapCosts, EffectiveBudget - SumOf(Costs(Capped)), 50)
         /\ Len(CappedGaps) <= Len(Gaps) /\ \A i \in 1..Len(CappedGaps) : CappedGaps[i] = Gaps[i]
         /\ SumOf(Costs(Capped)) \in Nat
<1>1. SumOf(Costs(Capped)) \in Nat
  <2>1. Costs(Capped) \in Seq(Nat)
    BY CappedIn, CostsIn
  <2>2. PICK g \in [0..Len(Costs(Capped)) -> Nat] :
          SumOf(SubSeq(Costs(Capped), 1, Len(Costs(Capped)))) = g[Len(Costs(Capped))]
    <3>1. Len(Costs(Capped)) \in 0..Len(Costs(Capped))
      BY <2>1
    <3> QED BY <2>1, <3>1, SumNat
  <2>3. SubSeq(Costs(Capped), 1, Len(Costs(Capped))) = Costs(Capped)
    BY <2>1
  <2> QED BY <2>1, <2>2, <2>3
<1>2. Within(GapCosts, EffectiveBudget - SumOf(Costs(Capped)), 50) \in 0..Len(Gaps)
  <2>1. EffectiveBudget - SumOf(Costs(Capped)) \in Int
    BY <1>1, BudgetTyped
  <2> QED BY <2>1, GapCostsIn, WithinFirst
<1>3. CappedGaps = SubSeq(Gaps, 1, Within(GapCosts, EffectiveBudget - SumOf(Costs(Capped)), 50))
  BY DEF CappedGaps, GapCosts
<1> QED BY <1>1, <1>2, <1>3, CutIn, GapsIn

-----------------------------------------------------------------------------
(* auto_restock.py                                                         *)

\* The buy of one finding, with its top-up, pays from main.
LEMMA AutoBuyIn ==
  ASSUME Typed, NEW f \in Items
  PROVE  AutoBuy(f) \in Seq(Plain(FromMain))
<1> DEFINE cost  == Convert(f.need, "USDT", f.pair.quote)
           short == Part(cost, 105, 100) - Main("ZAR")
           sell  == short \div Rate
           tops  == Main("ZAR") < Part(cost, 110, 100) /\ short > D(1) /\ Main("USDT") > sell + D(1)
           buy   == Counting(Trade("main", f.pair.quote, f.pair.base, cost))
           top   == <<Else(Counting(Want("main", "USDT", "ZAR", sell)), 2), Lenient(LookFor("main", {"ZAR"}))>>
<1>1. f.need \in Int /\ f.pair.quote \in Currencies /\ f.pair.base \in Currencies
  BY ItemTyped
<1>2. cost \in Int
  BY <1>1, ConvertInt
<1>3. sell \in Int
  <2>1. Part(cost, 105, 100) \in Int
    BY <1>2, PartInt
  <2>2. Main("ZAR") \in Nat
    BY Known, Names
  <2>3. short \in Int
    BY <2>1, <2>2
  <2> HIDE DEF short
  <2> QED BY <2>3, RateTyped
<1>4. buy \in Plain(FromMain)
  BY <1>1, <1>2, TradeIn, CountingIn, MainIn, Names
<1> HIDE DEF sell
<1>5. Else(Counting(Want("main", "USDT", "ZAR", sell)), 2) \in Plain(FromMain)
  BY <1>3, WantIn, CountingIn, ElseIn, MainIn, Names
<1>6. Lenient(LookFor("main", {"ZAR"})) \in Plain(FromMain)
  BY LookForIn, LenientIn, Names
<1>7. top \in Seq(Plain(FromMain))
  BY <1>5, <1>6, TwoIn
<1>8. <<Tick>> \in Seq(Plain(FromMain)) /\ <<buy>> \in Seq(Plain(FromMain))
  BY TickIn, OneIn, <1>4
<1>9. AutoBuy(f) = IF f.pair.quote = "ZAR" /\ Main("ZAR") < cost THEN <<Tick>>
                   ELSE When(f.pair.quote = "ZAR" /\ tops, top) \o <<buy>>
  BY DEF AutoBuy, sell
<1> HIDE DEF cost, buy, top, tops
<1>10. When(f.pair.quote = "ZAR" /\ tops, top) \in Seq(Plain(FromMain))
  BY <1>7, WhenIn
<1> QED BY <1>8, <1>9, <1>10, BehindIn

\* The transfers of the quotes pay from main.
LEMMA AutoTransfersIn == ASSUME Typed PROVE AutoTransfers \in Seq(Plain(FromMain))
<1> DEFINE bases(f) == When(Main(f.pair.base) > 0,
                            Each(f.pair.subs, LAMBDA a : <<AutoMove(a, f.pair.base, Part(Main(f.pair.base), 499, 1000))>>))
           buffer(g) == LET n == Less(g.need, Part(Main(g.cur), 49, 100))
                        IN  When(Main(g.cur) >= g.need \div 2 /\ n > 0, <<AutoMove(g.sub, g.cur, n)>>)
           S == Plain(FromMain)
<1>1. ASSUME NEW a \in Accounts, NEW c \in Currencies, NEW n \in Int PROVE AutoMove(a, c, n) \in S
  BY MoveIn, PickyIn, CountingIn, MainIn, Names DEF AutoMove
<1>2. ASSUME NEW i \in DOMAIN Capped PROVE bases(Capped[i]) \in Seq(S)
  <2> DEFINE p == Capped[i].pair   n == Part(Main(p.base), 499, 1000)
             h == [j \in DOMAIN p.subs |-> <<AutoMove(p.subs[j], p.base, n)>>]
  <2>1. p \in Market
    <3>1. Capped[i] \in Items
      BY CappedIn
    <3> QED BY <3>1, ItemTyped
  <2>2. p.base \in Currencies /\ n \in Int /\ DOMAIN p.subs = 1..2 /\ p.subs[1] \in Accounts /\ p.subs[2] \in Accounts
    <3>1. p.base \in Currencies /\ p.subs \in {ZarSubs, UsdtSubs, UsdcSubs, BtcSubs}
      BY <2>1 DEF Market
    <3>2. Main(p.base) \in Int
      BY Known, Names
    <3>3. n \in Int
      <4> HIDE DEF p
      <4> QED BY <3>2, PartInt
    <3> QED BY <3>1, <3>3, SubsIn
  <2>3. h[1] \in Seq(S) /\ h[2] \in Seq(S) /\ h = [j \in 1..2 |-> h[j]]
    <3> HIDE DEF p, n, S
    <3> QED BY <1>1, <2>2, OneIn
  <2>4. bases(Capped[i]) = When(Main(p.base) > 0, FlattenSeq(h))
    BY DEF Each
  <2> HIDE DEF bases, h, S
  <2> QED BY <2>3, <2>4, Flat2, WhenIn
<1>3. ASSUME NEW i \in DOMAIN CappedGaps PROVE buffer(CappedGaps[i]) \in Seq(S)
  <2>1. CappedGaps[i] \in Holes
    BY CappedGapsIn
  <2>2. Less(CappedGaps[i].need, Part(Main(CappedGaps[i].cur), 49, 100)) \in Int
    <3>1. Main(CappedGaps[i].cur) \in Nat
      BY Known, Names
    <3>2. Part(Main(CappedGaps[i].cur), 49, 100) \in Int /\ CappedGaps[i].need \in Int
      BY <2>1, <3>1, PartInt DEF Holes
    <3> QED BY <3>2, Amounts
  <2>3. AutoMove(CappedGaps[i].sub, CappedGaps[i].cur,
                 Less(CappedGaps[i].need, Part(Main(CappedGaps[i].cur), 49, 100))) \in S
    BY <1>1, <2>1, <2>2, Names DEF Holes
  <2> HIDE DEF S
  <2> QED BY <2>3, WhenOneIn
<1> DEFINE f == [i \in DOMAIN Capped |-> bases(Capped[i])]
           g == [i \in DOMAIN CappedGaps |-> buffer(CappedGaps[i])]
<1>4. f = [i \in DOMAIN Capped |-> f[i]] /\ \A i \in DOMAIN Capped : f[i] \in Seq(S)
  <2> HIDE DEF bases, S
  <2> QED BY <1>2
<1>5. g = [i \in DOMAIN CappedGaps |-> g[i]] /\ \A i \in DOMAIN CappedGaps : g[i] \in Seq(S)
  <2> HIDE DEF buffer, S
  <2> QED BY <1>3
<1>6. AutoTransfers = FlattenSeq(f) \o FlattenSeq(g)
  BY DEF AutoTransfers, Each
<1> HIDE DEF f, g, S
<1>7. FlattenSeq(f) \in Seq(S) /\ FlattenSeq(g) \in Seq(S)
  BY <1>4, <1>5, FlatEach, CappedIn, CappedGapsIn
<1> QED BY <1>6, <1>7, BehindIn DEF S

\* At every stage the auto-restock asks only for requests that pay from main.
LEMMA AutoIn == ASSUME Typed, NEW k \in Nat PROVE AutoRestock(k) \in Seq(Plain(FromMain))
<1>1. CASE k = 1
  BY <1>1, LookIn, OrIn, OneIn, Names DEF Each, AutoRestock, Codes
<1>2. CASE k = 2
  <2>1. Each(ZarSubs \o UsdtSubs \o UsdcSubs, LAMBDA a : <<Lenient(Look(a))>>) \in Seq(Plain(FromMain))
    BY EachLookIn, SubLists DEF Each, SixSubs
  <2>2. AutoRestock(k) = IF Findings(seen) = <<>> THEN <<End("0")>>
                         ELSE Each(ZarSubs \o UsdtSubs \o UsdcSubs, LAMBDA a : <<Lenient(Look(a))>>)
    BY <1>2 DEF Each, AutoRestock
  <2> QED BY <2>1, <2>2, EndIn, OneIn DEF Each, Codes
<1>3. CASE k = 3
  BY <1>3, EndIn, WhenOneIn DEF Each, AutoRestock, Codes
<1>4. CASE k \in 4..7
  <2>1. k - 3 \in DOMAIN Capped => Capped[k - 3] \in Items
    BY CappedIn
  <2>2. AutoRestock(k) = IF k - 3 \in DOMAIN Capped THEN AutoBuy(Capped[k - 3]) ELSE <<>>
    BY <1>4 DEF Each, AutoRestock
  <2> QED BY <2>1, <2>2, AutoBuyIn
<1>5. CASE k = 8
  BY <1>5, LookIn, LenientIn, OneIn, Names DEF Each, AutoRestock
<1>6. CASE k = 9
  BY <1>6, AutoTransfersIn DEF Each, AutoRestock
<1>7. CASE k \notin {1, 2, 3, 4, 5, 6, 7, 8, 9}
  BY <1>7, EndIn, OneIn DEF Each, AutoRestock, Codes
<1> QED BY <1>1, <1>2, <1>3, <1>4, <1>5, <1>6, <1>7

\* The sum of a sequence of integers is an integer.
LEMMA SumInt == ASSUME NEW s \in Seq(Int) PROVE SumOf(s) \in Int
<1>1. PICK g \in [0..Len(s) -> Int] : SumOf(s) = g[Len(s)]
  BY SumRuns
<1>2. Len(s) \in 0..Len(s)
  OBVIOUS
<1> QED BY <1>1, <1>2

\* The parts of a pair: main may pay in both its currencies, and its subaccounts are accounts.
LEMMA MarketTyped ==
  ASSUME NEW p \in Market
  PROVE  /\ p.base \in Currencies /\ p.quote \in Currencies /\ p.subs \in {ZarSubs, UsdtSubs, UsdcSubs, BtcSubs}
         /\ <<"main", p.base>> \in FromMain /\ <<"main", p.quote>> \in FromMain
         /\ p.subs[1] \in Accounts /\ p.subs[2] \in Accounts
BY SubsIn DEF Market, FromMain

-----------------------------------------------------------------------------
(* restock_all.py                                                          *)

Needs == [pair : Market, cost : Int]
\* The needs restock-all computes for a list of pairs are pairs with an integer cost.
LEMMA AllNeedsIn ==
  ASSUME Typed, NEW s \in Seq(Market), NEW target \in Int, NEW least
  PROVE  AllNeeds(s, target, least) \in Seq(Needs)
<1> DEFINE cost(p) == Convert(Over(target - Main(p.base)), "USDT", p.quote)
           f == [i \in DOMAIN s |-> When(Price(s[i].base, s[i].quote) /\ cost(s[i]) > least,
                                         <<[pair |-> s[i], cost |-> cost(s[i])]>>)]
<1>1. ASSUME NEW i \in DOMAIN s PROVE f[i] \in Seq(Needs)
  <2>1. s[i] \in Market
    OBVIOUS
  <2>2. Main(s[i].base) \in Int
    BY <2>1, MarketTyped, Known, Names
  <2>3. Over(target - Main(s[i].base)) \in Nat
    <3>1. target - Main(s[i].base) \in Int
      BY <2>2
    <3> QED BY <3>1, Amounts
  <2>4. cost(s[i]) \in Int
    BY <2>3, ConvertInt
  <2> HIDE DEF cost
  <2>5. [pair |-> s[i], cost |-> cost(s[i])] \in Needs
    BY <2>1, <2>4 DEF Needs
  <2> QED BY <2>5, WhenOneIn
<1>2. f = [i \in DOMAIN s |-> f[i]]
  OBVIOUS
<1>3. AllNeeds(s, target, least) = FlattenSeq(f)
  BY DEF AllNeeds, Each
<1> HIDE DEF f
<1> QED BY <1>1, <1>2, <1>3, FlatEach

\* The buys of restock-all pay from main.
LEMMA AllBuysIn ==
  ASSUME Typed, NEW s \in Seq(Market), NEW target \in Int, NEW least
  PROVE  AllBuys(s, target, least) \in Seq(Plain(FromMain))
<1> DEFINE N == AllNeeds(s, target, least)
           f == [i \in DOMAIN N |-> <<Trade("main", N[i].pair.quote, N[i].pair.base, N[i].cost)>>]
<1>1. N \in Seq(Needs)
  BY AllNeedsIn
<1>2. AllBuys(s, target, least) = FlattenSeq(f)
  BY DEF AllBuys, Each
<1> HIDE DEF N
<1>3. ASSUME NEW i \in DOMAIN N PROVE f[i] \in Seq(Plain(FromMain))
  <2>1. N[i] \in Needs
    BY <1>1
  <2>2. N[i].pair \in Market /\ N[i].cost \in Int
    BY <2>1 DEF Needs
  <2>3. Trade("main", N[i].pair.quote, N[i].pair.base, N[i].cost) \in Plain(FromMain)
    BY <2>2, MarketTyped, TradeIn, Names
  <2> QED BY <2>3, OneIn
<1>4. f = [i \in DOMAIN N |-> f[i]]
  OBVIOUS
<1> HIDE DEF f
<1> QED BY <1>1, <1>2, <1>3, <1>4, FlatEach

\* The buffers restock-all sends to two subaccounts pay from main.
LEMMA AllBufferIn ==
  ASSUME Typed, NEW s \in {ZarSubs, UsdtSubs, UsdcSubs, BtcSubs}, NEW c \in Currencies, NEW keep \in Int,
         NEW n \in Int, NEW least
  PROVE  AllBuffer(s, c, keep, n, least) \in Seq(Plain(FromMain))
<1>1. Part(Main(c), n, 100) \in Int
  BY Known, Names, PartInt
<1>2. Less(keep, Part(Main(c), n, 100)) \in Int
  BY <1>1, Amounts
<1>3. Both(s, c, Less(keep, Part(Main(c), n, 100))) \in Seq(Plain(FromMain))
  BY <1>2, BothIn, SubsIn, MainIn
<1> QED BY <1>3, WhenIn DEF AllBuffer

\* The transfers of restock-all pay from main.
LEMMA AllTransfersIn == ASSUME Typed PROVE AllTransfers \in Seq(Plain(FromMain))
<1>1. Pair("EURC", "USDC", UsdcSubs) \in Market
  BY PairIn, Names
<1>2. ZarPairs \o UsdtPairs \o <<Pair("EURC", "USDC", UsdcSubs)>> \in Seq(Market)
  BY <1>1, PairsIn, OneIn, BehindIn
<1>3. 9998 \in Int /\ 10000 \in Nat \ {0} /\ 49 \in Int /\ 24 \in Int
  OBVIOUS
<1>4. SplitHeld(ZarPairs \o UsdtPairs \o <<Pair("EURC", "USDC", UsdcSubs)>>, 0, 9998, 10000) \in Seq(Plain(FromMain))
  <2> DEFINE s == ZarPairs \o UsdtPairs \o <<Pair("EURC", "USDC", UsdcSubs)>>
  <2> HIDE DEF s
  <2>1. s \in Seq(Market)
    BY <1>2 DEF s
  <2>2. SplitHeld(s, 0, 9998, 10000) \in Seq(Plain(FromMain))
    <3>1. \A n \in Int, d \in Nat \ {0} : SplitHeld(s, 0, n, d) \in Seq(Plain(FromMain))
      BY <2>1, SplitMainIn
    <3> QED BY <3>1, <1>3
  <2> QED BY <2>2 DEF s
<1>5. D(2500) \in Int /\ D(50) \in Int /\ D(3) \in Int
  BY DollarsTyped
<1>6. /\ AllBuffer(ZarSubs, "ZAR", D(2500), 49, D(1)) \in Seq(Plain(FromMain))
      /\ AllBuffer(UsdtSubs, "USDT", D(50), 24, 50) \in Seq(Plain(FromMain))
      /\ AllBuffer(UsdcSubs, "USDC", D(3), 49, 1) \in Seq(Plain(FromMain))
  BY <1>3, <1>5, AllBufferIn, Names
<1> QED BY <1>4, <1>6, BehindIn DEF AllTransfers

\* The conversion that funds restock-all pays from main.
LEMMA AllConversionIn == ASSUME Typed PROVE AllConversion \in Seq(Plain(FromMain))
<1> DEFINE needs == AllNeeds(ZarPairs, ZarPer \div Rate, 0)
           total == SumOf([i \in DOMAIN needs |-> needs[i].cost])
           lacks == Over(total + 2 * D(2500) - Main("ZAR")) \div Rate
<1>1. ZarPer \div Rate \in Int
  BY RateTyped DEF ZarPer, D
<1>2. needs \in Seq(Needs)
  BY <1>1, AllNeedsIn, PairsIn
<1>3. total \in Int
  <2> HIDE DEF needs
  <2>1. ASSUME NEW i \in DOMAIN needs PROVE needs[i].cost \in Int
    <3>1. needs[i] \in Needs
      BY <1>2
    <3> QED BY <3>1 DEF Needs
  <2>2. [i \in DOMAIN needs |-> needs[i].cost] \in Seq(Int)
    BY <1>2, <2>1
  <2> QED BY <2>2, SumInt
<1>4. lacks \in Int
  <2> HIDE DEF total
  <2>1. total + 2 * D(2500) - Main("ZAR") \in Int
    BY <1>3, DollarsTyped, Known, Names
  <2>2. Over(total + 2 * D(2500) - Main("ZAR")) \in Nat
    BY <2>1, Amounts
  <2> QED BY <2>2, RateTyped
<1>5. AllConversion = When(lacks > 50, <<Want("main", "USDT", "ZAR", Part(lacks, 101, 100)), LookFor("main", {})>>)
  BY DEF AllConversion
<1> HIDE DEF lacks
<1>6. Part(lacks, 101, 100) \in Int
  BY <1>4, PartInt
<1>7. <<Want("main", "USDT", "ZAR", Part(lacks, 101, 100)), LookFor("main", {})>> \in Seq(Plain(FromMain))
  BY <1>6, WantIn, LookForIn, TwoIn, MainIn, Names
<1> QED BY <1>5, <1>7, WhenIn

\* At every stage restock-all asks only for requests that pay from main.
LEMMA RestockAllIn == ASSUME Typed, NEW k \in Nat PROVE RestockAll(k) \in Seq(Plain(FromMain))
<1>1. CASE k = 3
  <2>1. ZarPer \div Rate \in Int /\ D(1) \in Int /\ D(100) \in Int /\ D(10) \in Int
    BY RateTyped, DollarsTyped DEF ZarPer, D
  <2>2. AllBuys(ZarPairs, ZarPer \div Rate, D(1)) \in Seq(Plain(FromMain))
        /\ AllBuys(UsdtPairs, D(100), 50) \in Seq(Plain(FromMain))
    BY <2>1, AllBuysIn, PairsIn
  <2>3. Trade("main", "USDC", "EURC", D(10)) \in Plain(FromMain)
    BY <2>1, TradeIn, MainIn, Names
  <2>4. When(D(10) - Main("EURC") > 1, <<Trade("main", "USDC", "EURC", D(10))>>) \in Seq(Plain(FromMain))
    BY <2>3, WhenOneIn
  <2>5. <<Look("main")>> \in Seq(Plain(FromMain))
    BY LookIn, OneIn, Names
  <2> QED BY <1>1, <2>2, <2>4, <2>5, BehindIn DEF RestockAll
<1>2. CASE k # 3
  BY <1>2, LookIn, OneIn, Names, AllConversionIn, AllTransfersIn, EndIn DEF RestockAll, Codes
<1> QED BY <1>1, <1>2

-----------------------------------------------------------------------------
(* restock_3x.py                                                           *)

\* A market buy for every pair of a list pays from main.
LEMMA EachBuyIn ==
  ASSUME Typed, NEW s \in Seq(Market)
  PROVE  Each(s, LAMBDA p : <<Trade("main", p.quote, p.base, Convert(Spend3, "USDT", p.quote))>>)
           \in Seq(Plain(FromMain))
<1> DEFINE f == [i \in DOMAIN s |-> <<Trade("main", s[i].quote, s[i].base, Convert(Spend3, "USDT", s[i].quote))>>]
<1>1. ASSUME NEW i \in DOMAIN s PROVE f[i] \in Seq(Plain(FromMain))
  <2>1. s[i] \in Market
    OBVIOUS
  <2>2. Convert(Spend3, "USDT", s[i].quote) \in Int
    BY ConvertInt, DollarsTyped DEF Spend3
  <2>3. Trade("main", s[i].quote, s[i].base, Convert(Spend3, "USDT", s[i].quote)) \in Plain(FromMain)
    BY <2>1, <2>2, MarketTyped, TradeIn, Names
  <2> QED BY <2>3, OneIn
<1>2. f = [i \in DOMAIN s |-> f[i]]
  OBVIOUS
<1>3. Each(s, LAMBDA p : <<Trade("main", p.quote, p.base, Convert(Spend3, "USDT", p.quote))>>) = FlattenSeq(f)
  BY DEF Each
<1> HIDE DEF f
<1>4. FlattenSeq(f) \in Seq(Plain(FromMain))
  BY <1>1, <1>2, FlatEach
<1> QED BY <1>3, <1>4 DEF Each

\* At every stage the triple restock asks only for requests that pay from main.
LEMMA TripleIn == ASSUME Typed, NEW k \in Nat PROVE Triple(k) \in Seq(Plain(FromMain))
<1> DEFINE lacks == InZar(Spend3) * Len(TripleZar) - Main("ZAR")
           sell  == lacks \div Rate + D(10)
<1>1. CASE k = 1
  BY <1>1, LookIn, OneIn, Names DEF Triple, Each
<1>2. CASE k = 2
  <2>1. Len(TripleZar) \in Nat
    BY PairsIn
  <2>2. InZar(Spend3) \in Int
    BY DollarsTyped DEF Spend3
  <2>3. InZar(Spend3) * Len(TripleZar) \in Int
    BY <2>1, <2>2
  <2>4. lacks \in Int
    <3> DEFINE x == InZar(Spend3) * Len(TripleZar)   y == Main("ZAR")
    <3>1. x \in Int /\ y \in Int
      BY <2>3, Known, Names
    <3> HIDE DEF x, y
    <3>2. x - y \in Int
      BY <3>1
    <3> QED BY <3>2 DEF x, y
  <2>5. sell \in Int
    <3> HIDE DEF lacks
    <3>1. lacks \div Rate \in Int
      BY <2>4, RateTyped
    <3> QED BY <3>1, DollarsTyped
  <2>6. Triple(k) = When(lacks > 0, IF Main("USDT") < sell THEN <<End("1")>>
                                    ELSE <<Or(Trade("main", "USDT", "ZAR", sell), "1"), Look("main")>>)
    BY <1>2 DEF Triple, Each
  <2> HIDE DEF lacks, sell
  <2>7. <<Or(Trade("main", "USDT", "ZAR", sell), "1"), Look("main")>> \in Seq(Plain(FromMain))
    BY <2>5, TradeIn, OrIn, LookIn, TwoIn, MainIn, Names DEF Codes
  <2>8. <<End("1")>> \in Seq(Plain(FromMain))
    BY EndIn, OneIn DEF Codes
  <2>9. (IF Main("USDT") < sell THEN <<End("1")>>
         ELSE <<Or(Trade("main", "USDT", "ZAR", sell), "1"), Look("main")>>) \in Seq(Plain(FromMain))
    BY <2>7, <2>8
  <2> QED BY <2>6, <2>9, WhenIn
<1>3. CASE k = 3
  <2>1. Triple(k) = Each(TripleZar, LAMBDA p : <<Trade("main", p.quote, p.base, Convert(Spend3, "USDT", p.quote))>>)
                    \o Each(TripleUsdt, LAMBDA p : <<Trade("main", p.quote, p.base, Convert(Spend3, "USDT", p.quote))>>)
                    \o <<Look("main")>>
    BY <1>3 DEF Triple, Each
  <2>2. <<Look("main")>> \in Seq(Plain(FromMain))
    BY LookIn, OneIn, Names
  <2> QED BY <2>1, <2>2, EachBuyIn, PairsIn, BehindIn DEF Each
<1>4. CASE k = 4
  <2>1. TripleZar \o TripleUsdt \in Seq(Market)
    BY PairsIn, BehindIn
  <2>2. 1 \in Int /\ 1 \in Nat \ {0}
    OBVIOUS
  <2>3. SplitHeld(TripleZar \o TripleUsdt, 0, 1, 1) \in Seq(Plain(FromMain))
    BY <2>1, <2>2, SplitMainIn
  <2> QED BY <1>4, <2>3 DEF Triple, Each
<1>5. CASE k \notin {1, 2, 3, 4}
  BY <1>5, EndIn, OneIn DEF Triple, Each, Codes
<1> QED BY <1>1, <1>2, <1>3, <1>4, <1>5

-----------------------------------------------------------------------------
(* restock_thin.py                                                         *)

\* At every stage the thin-pair restock asks only for requests that pay from main.
LEMMA ThinIn == ASSUME Typed, NEW k \in Nat PROVE Thin(k) \in Seq(Plain(FromMain))
<1> DEFINE lacks == D(750) - Main("ZAR")
           spend(p) == IF p.quote = "ZAR" THEN D(90) ELSE D(35)
           half(p)  == Convert(spend(p), p.quote, p.base) \div 2
           part(p)  == <<Picky(Else(Trade("main", p.quote, p.base, spend(p)), 2))>> \o Both(p.subs, p.base, half(p))
<1>1. CASE k = 1
  BY <1>1, LookIn, OneIn, Names DEF Thin, Each
<1>2. CASE k = 2
  <2>1. lacks \div Rate + D(5) \in Int
    <3>1. lacks \in Int /\ D(5) \in Int
      BY Known, Names, DollarsTyped
    <3> HIDE DEF lacks
    <3> QED BY <3>1, RateTyped
  <2>2. Picky(Trade("main", "USDT", "ZAR", lacks \div Rate + D(5))) \in Plain(FromMain)
    <3> HIDE DEF lacks
    <3> QED BY <2>1, TradeIn, PickyIn, MainIn, Names
  <2>3. Thin(k) = When(lacks > 0, <<Picky(Trade("main", "USDT", "ZAR", lacks \div Rate + D(5)))>>)
    BY <1>2 DEF Thin, Each
  <2> HIDE DEF lacks
  <2> QED BY <2>2, <2>3, WhenOneIn
<1>3. CASE k = 3
  <2>1. ASSUME NEW b \in Currencies, NEW q \in Currencies, NEW s,
               s[1] \in Accounts \cup {"U1?"}, s[2] \in Accounts \cup {"U1?"}
        PROVE  part(Pair(b, q, s)) \in Seq(Plain(FromMain))
    <3>1. Pair(b, q, s).base = b /\ Pair(b, q, s).quote = q /\ Pair(b, q, s).subs = s
      BY DEF Pair
    <3>2. spend(Pair(b, q, s)) \in Int
      BY DollarsTyped
    <3>3. Convert(spend(Pair(b, q, s)), q, b) \in Int
      <4> HIDE DEF spend
      <4> QED BY <3>2, ConvertInt
    <3>4. half(Pair(b, q, s)) \in Int
      <4> HIDE DEF spend
      <4> QED BY <3>1, <3>3
    <3> HIDE DEF spend, half
    <3>5. Picky(Else(Trade("main", q, b, spend(Pair(b, q, s))), 2)) \in Plain(FromMain)
      BY <3>2, TradeIn, ElseIn, PickyIn, MainIn, Names
    <3>6. Both(s, b, half(Pair(b, q, s))) \in Seq(Plain(FromMain))
      BY <2>1, <3>4, BothIn, MainIn
    <3> QED BY <3>1, <3>5, <3>6, OneIn, BehindIn
  <2>2. /\ part(Pair("XAUT", "ZAR", ZarSubs)) \in Seq(Plain(FromMain))
        /\ part(Pair("USDC", "ZAR", ZarSubs)) \in Seq(Plain(FromMain))
        /\ part(Pair("XAUT", "USDT", <<"U1?", "U2">>)) \in Seq(Plain(FromMain))
    <3>1. <<"U1?", "U2">>[1] = "U1?" /\ <<"U1?", "U2">>[2] = "U2"
      OBVIOUS
    <3> HIDE DEF part
    <3> QED BY <2>1, <3>1, SubsIn, Names
  <2> DEFINE f == [i \in 1..3 |-> part(ThinPairs[i])]
  <2>3. f[1] \in Seq(Plain(FromMain)) /\ f[2] \in Seq(Plain(FromMain)) /\ f[3] \in Seq(Plain(FromMain))
        /\ f = [i \in 1..3 |-> f[i]]
    <3> HIDE DEF part
    <3> QED BY <2>2 DEF ThinPairs, UsdcPair
  <2>4. Thin(k) = FlattenSeq(f)
    <3>1. DOMAIN ThinPairs = 1..3
      BY DEF ThinPairs
    <3> QED BY <1>3, <3>1 DEF Thin, Each
  <2> HIDE DEF f
  <2> QED BY <2>3, <2>4, Flat3
<1>4. CASE k \notin {1, 2, 3}
  BY <1>4, EndIn, OneIn DEF Thin, Each, Codes
<1> QED BY <1>1, <1>2, <1>3, <1>4

-----------------------------------------------------------------------------
(* restock_execute.py and restock_zar.py                                   *)

\* At every stage the executor of the restock asks only for requests that pay from main.
LEMMA ExecuteIn == ASSUME Typed, NEW k \in Nat PROVE Execute(k) \in Seq(Plain(FromMain))
<1> DEFINE pairs == <<ZarPairs[1], UsdcPair, ZarPairs[2]>> \o UsdtPairs
           buys == Buys(pairs, D(35))
<1>1. pairs \in Seq(Market)
  <2>1. ZarPairs[1] \in Market /\ UsdcPair \in Market /\ ZarPairs[2] \in Market
    BY PairsIn, TradedIn DEF Traded
  <2> QED BY <2>1, ThreeIn, PairsIn, BehindIn
<1>2. buys \in Seq(Plain(FromMain))
  <2> HIDE DEF pairs
  <2> QED BY <1>1, BuysIn, DollarsTyped
<1> DEFINE f == [i \in DOMAIN buys |-> <<Or(buys[i], "0")>>]
<1>3. ASSUME NEW i \in DOMAIN buys PROVE f[i] \in Seq(Plain(FromMain))
  <2> HIDE DEF buys
  <2>1. buys[i] \in Plain(FromMain)
    BY <1>2
  <2>2. Or(buys[i], "0") \in Plain(FromMain)
    BY <2>1, OrIn DEF Codes
  <2> QED BY <2>2, OneIn
<1>4. FlattenSeq(f) \in Seq(Plain(FromMain))
  <2>1. f = [i \in DOMAIN buys |-> f[i]]
    OBVIOUS
  <2> HIDE DEF f, buys
  <2> QED BY <1>2, <1>3, <2>1, FlatEach
<1>5. CASE k = 2
  <2>1. Execute(k) = FlattenSeq(f) \o <<Look("main")>>
    BY <1>5 DEF Execute, Each
  <2> HIDE DEF f
  <2> QED BY <1>4, <2>1, LookIn, OneIn, BehindIn, Names
<1>6. CASE k = 3
  <2>1. Execute(k) = Split(pairs, 1, 1)
    BY <1>6 DEF Execute, Each
  <2>2. 1 \in Int /\ 1 \in Nat \ {0}
    OBVIOUS
  <2> HIDE DEF pairs
  <2> QED BY <1>1, <2>1, <2>2, SplitMainIn
<1>7. CASE k \notin {2, 3}
  BY <1>7, LookIn, EndIn, OneIn, Names DEF Execute, Each, Codes
<1> QED BY <1>5, <1>6, <1>7

\* At every stage the rand restock asks only for requests that pay from main.
LEMMA RestockZarIn == ASSUME Typed, NEW k \in Nat PROVE RestockZar(k) \in Seq(Paying(FromMain))
<1> DEFINE lacks  == Over(D(5400) - Main("ZAR"))
           sell   == LET n == Less(lacks \div Rate, Main("USDT")) IN IF n < D(10) THEN Main("USDT") ELSE n
           eighth == (Main("ZAR") - D(200)) \div 8
           spend  == IF eighth < D(10) THEN D(50) ELSE eighth
           again  == Blank(Look("main"))
           S      == Paying(FromMain)
<1>1. Main("ZAR") \in Nat /\ Main("USDT") \in Nat
  BY Known, Names
<1>2. <<again>> \in Seq(S)
  BY BlankLookIn, OneIn, Names
<1>3. sell \in Int
  <2>1. D(5400) - Main("ZAR") \in Int
    BY <1>1, DollarsTyped
  <2>2. lacks \in Nat
    BY <2>1, Amounts
  <2> HIDE DEF lacks
  <2>3. lacks \div Rate \in Int
    BY <2>2, RateTyped
  <2>4. Less(lacks \div Rate, Main("USDT")) \in Int
    BY <1>1, <2>3, Amounts
  <2> QED BY <1>1, <2>4
<1>4. spend \in Int
  <2>1. eighth \in Int
    <3>1. Main("ZAR") - D(200) \in Int
      BY <1>1, DollarsTyped
    <3> QED BY <3>1
  <2> HIDE DEF eighth
  <2> QED BY <2>1, DollarsTyped
<1>5. CASE k = 2
  <2>1. RestockZar(k) = When(lacks > 0, <<Want("main", "USDT", "ZAR", sell)>>) \o <<again>>
    BY <1>5 DEF RestockZar, Each
  <2> HIDE DEF sell, lacks, again
  <2>2. Want("main", "USDT", "ZAR", sell) \in S
    BY <1>3, WantIn, PlainPaying, MainIn, Names
  <2>3. When(lacks > 0, <<Want("main", "USDT", "ZAR", sell)>>) \in Seq(S)
    BY <2>2, WhenOneIn
  <2> QED BY <1>2, <2>1, <2>3, BehindIn
<1>6. CASE k = 3
  <2> DEFINE f == [i \in 1..2 |-> <<Trade("main", "ZAR", ZarPairs[i].base, spend)>>]
  <2>1. RestockZar(k) = FlattenSeq(f) \o <<again>>
    BY <1>6, TradedIn DEF RestockZar, Each
  <2> HIDE DEF spend, again
  <2>2. ASSUME NEW i \in 1..2 PROVE <<Trade("main", "ZAR", ZarPairs[i].base, spend)>> \in Seq(S)
    <3>1. ZarPairs[i] \in Market
      BY TradedIn DEF Traded
    <3>2. ZarPairs[i].base \in Currencies
      BY <3>1, MarketTyped
    <3>3. Trade("main", "ZAR", ZarPairs[i].base, spend) \in S
      BY <3>2, <1>4, TradeIn, PlainPaying, MainIn, Names
    <3> QED BY <3>3, OneIn
  <2>3. f[1] \in Seq(S) /\ f[2] \in Seq(S) /\ f = [i \in 1..2 |-> f[i]]
    <3> HIDE DEF S
    <3> QED BY <2>2
  <2> HIDE DEF f, S
  <2>4. FlattenSeq(f) \in Seq(S)
    BY <2>3, Flat2
  <2> QED BY <1>2, <2>1, <2>4, BehindIn DEF S
<1>7. CASE k = 4
  <2>1. RestockZar(k) = Both(ZarSubs, "ZAR", (Main("ZAR") - D(50)) \div 2) \o <<again>>
    BY <1>7 DEF RestockZar, Each
  <2>2. (Main("ZAR") - D(50)) \div 2 \in Int
    <3>1. Main("ZAR") - D(50) \in Int
      BY <1>1, DollarsTyped
    <3> QED BY <3>1
  <2>3. Both(ZarSubs, "ZAR", (Main("ZAR") - D(50)) \div 2) \in Seq(S)
    BY <2>2, BothIn, PlainSeq, SubsIn, MainIn, Names
  <2> HIDE DEF again
  <2> QED BY <1>2, <2>1, <2>3, BehindIn
<1>8. CASE k = 5
  <2>1. 1 \in Int /\ 1 \in Nat \ {0}
    OBVIOUS
  <2>2. SplitHeld(ZarPairs, 1, 1, 1) \in Seq(S)
    BY <2>1, PairsIn, SplitMainIn, PlainSeq
  <2> QED BY <1>8, <2>2 DEF RestockZar, Each
<1>9. CASE k = 1
  BY <1>2, <1>9 DEF RestockZar, Each
<1>10. CASE k \notin {1, 2, 3, 4, 5}
  BY <1>10, EndIn, PlainPaying, OneIn DEF RestockZar, Each, Codes
<1> QED BY <1>5, <1>6, <1>7, <1>8, <1>9, <1>10

\* Every balance may pay when the payers are everything.
LEMMA AccountPayer == \A a \in Accounts, c \in Currencies : <<a, c>> \in Everything
BY DEF Everything

-----------------------------------------------------------------------------
(* The scripts that seed.                                                  *)

\* At every stage the quick top-up asks only for requests that pay from any account.
LEMMA QuickIn == ASSUME NEW k \in Nat PROVE Quick(k) \in Seq(Plain(Everything))
<1> DEFINE S == Plain(Everything)
<1>1. ASSUME NEW a \in Accounts, NEW q \in Currencies, NEW b \in Currencies, NEW n \in Int
      PROVE  <<Trade(a, q, b, n)>> \in Seq(S)
  BY TradeIn, OneIn, AccountPayer
<1>2. D(196) \in Int /\ D(292) \in Int /\ 1750 \in Int
  BY DollarsTyped
<1>3. ASSUME NEW s \in {ZarSubs, UsdtSubs}, NEW q \in Currencies, NEW b \in Currencies, NEW n \in Int
      PROVE  Each(s, LAMBDA a : <<Trade(a, q, b, n)>>) \in Seq(S)
  <2> DEFINE f == [i \in 1..2 |-> <<Trade(s[i], q, b, n)>>]
  <2>1. f[1] \in Seq(S) /\ f[2] \in Seq(S) /\ f = [i \in 1..2 |-> f[i]]
    <3>1. s[1] \in Accounts /\ s[2] \in Accounts
      BY SubsIn
    <3> HIDE DEF S
    <3> QED BY <1>1, <3>1
  <2>2. Each(s, LAMBDA a : <<Trade(a, q, b, n)>>) = FlattenSeq(f)
    BY SubsIn DEF Each
  <2> HIDE DEF f, S
  <2>3. FlattenSeq(f) \in Seq(S)
    BY <2>1, Flat2
  <2> QED BY <2>2, <2>3 DEF Each
<1> DEFINE buy(s, q, b, n) == Each(s, LAMBDA a : <<Trade(a, q, b, n)>>)
<1>4. CASE k = 1
  <2>1. ASSUME NEW s \in {ZarSubs, UsdtSubs}, NEW q \in Currencies, NEW b \in Currencies, NEW n \in Int
        PROVE  buy(s, q, b, n) \in Seq(S)
    BY <1>3
  <2>2. Quick(k) = buy(ZarSubs, "ZAR", "BTC", D(196)) \o buy(ZarSubs, "ZAR", "ETH", D(292))
                   \o buy(UsdtSubs, "USDT", "JUP", 1750)
    BY <1>4 DEF Quick, Each
  <2> HIDE DEF S, buy
  <2>3. /\ {"ZAR", "USDT", "BTC", "ETH", "JUP"} \subseteq Currencies
        /\ ZarSubs \in {ZarSubs, UsdtSubs} /\ UsdtSubs \in {ZarSubs, UsdtSubs}
    BY Names
  <2>4. buy(ZarSubs, "ZAR", "BTC", D(196)) \in Seq(S)
    BY <1>2, <2>1, <2>3
  <2>5. buy(ZarSubs, "ZAR", "ETH", D(292)) \in Seq(S)
    BY <1>2, <2>1, <2>3
  <2>6. buy(UsdtSubs, "USDT", "JUP", 1750) \in Seq(S)
    BY <1>2, <2>1, <2>3
  <2> QED BY <2>2, <2>4, <2>5, <2>6, BehindIn DEF S
<1>5. CASE k # 1
  BY <1>5, EndIn, OneIn DEF Quick, Each, Codes
<1> QED BY <1>4, <1>5

\* One step of seeding a pair pays from main.
LEMMA SeedIn ==
  ASSUME Typed, NEW p \in Market, NEW step \in Nat, NEW qa \in Int
  PROVE  Seed(step, p, qa) \in Seq(Plain(FromMain))
<1> DEFINE S == Plain(FromMain)
<1>1. LookFor("main", {p.quote}) \in S /\ LookFor("main", {p.base}) \in S
  <2>1. {p.quote} \in SUBSET Currencies /\ {p.base} \in SUBSET Currencies
    BY MarketTyped
  <2> QED BY <2>1, LookForIn, Names
<1>2. Trade("main", p.quote, p.base, qa) \in S
  BY MarketTyped, TradeIn, Names
<1>3. Main(p.base) \in Int /\ Main(p.base) \div 2 \in Int
  BY MarketTyped, Known, Names
<1>4. Move("main", p.subs[1], p.base, Main(p.base) \div 2) \in S
      /\ Move("main", p.subs[2], p.base, Main(p.base)) \in S
  BY <1>3, MarketTyped, MoveIn, Names
<1> HIDE DEF S
<1>5. /\ <<LookFor("main", {p.quote})>> \in Seq(S)
      /\ <<Trade("main", p.quote, p.base, qa), LookFor("main", {p.base})>> \in Seq(S)
      /\ <<Move("main", p.subs[1], p.base, Main(p.base) \div 2), LookFor("main", {p.base})>> \in Seq(S)
      /\ <<Move("main", p.subs[2], p.base, Main(p.base))>> \in Seq(S)
  BY <1>1, <1>2, <1>4, OneIn, TwoIn
<1> QED BY <1>5, WhenIn DEF Seed, S

\* At every stage the script that seeds a pair asks only for requests that pay from main.
LEMMA SeedPairIn == ASSUME Typed, NEW k \in Nat PROVE SeedPair(k) \in Seq(Plain(FromMain))
<1>1. SeedPairs \in Seq(Market) /\ Len(SeedPairs) = 2
  BY PairIn, TwoIn, Names DEF SeedPairs
<1>2. CASE k \in 1..8
  <2>1. 1 + (k - 1) \div 4 \in 1..2 /\ 1 + ((k - 1) % 4) \in Nat
    BY <1>2
  <2>2. SeedPairs[1 + (k - 1) \div 4] \in Market
    <3>1. \A i \in 1..2 : SeedPairs[i] \in Market
      BY PairIn, Names DEF SeedPairs
    <3> QED BY <2>1, <3>1
  <2>3. InZar(D(35)) \in Int
    BY DollarsTyped
  <2>4. Seed(1 + ((k - 1) % 4), SeedPairs[1 + (k - 1) \div 4], InZar(D(35))) \in Seq(Plain(FromMain))
    BY <2>1, <2>2, <2>3, SeedIn
  <2> QED BY <1>1, <1>2, <2>4 DEF SeedPair
<1>3. CASE k \notin 1..8
  BY <1>1, <1>3, EndIn, OneIn DEF SeedPair, Codes
<1> QED BY <1>2, <1>3

\* At every stage the script that seeds USDPC asks only for requests that pay from main.
LEMMA SeedUsdpcIn == ASSUME Typed, NEW k \in Nat PROVE SeedUsdpc(k) \in Seq(Plain(FromMain))
<1>1. Pair("JUP", "USDT", UsdtSubs) \in Market
  BY PairIn, Names
<1>2. Seed(k, Pair("JUP", "USDT", UsdtSubs), D(35)) \in Seq(Plain(FromMain))
  BY <1>1, SeedIn, DollarsTyped
<1> QED BY <1>2, EndIn, OneIn DEF SeedUsdpc, Codes

\* What the BTC seed spends is a natural.
LEMMA BtcSpendIn == ASSUME Typed, NEW n \in Nat PROVE BtcSpend(n) \in Nat
<1>1. Main("USDT") - Cushion \in Int
  BY Known, Names, DollarsTyped DEF Cushion
<1>2. Over(Main("USDT") - Cushion) \in Nat
  BY <1>1, Amounts
<1>3. Part(Over(Main("USDT") - Cushion), n, 75) \in Nat
  BY <1>2, PartNat
<1> QED BY <1>3 DEF BtcSpend, D

BtcPayers(k) == IF k = 2 THEN {<<"main", "USDT">>} ELSE {"main"} \X Bases
\* At every stage the BTC seed asks only for requests that pay from main: the USDT at the buy, a
\* base at any other.
LEMMA SeedBtcIn == ASSUME Typed, NEW k \in Nat PROVE SeedBtc(k) \in Seq(Plain(BtcPayers(k)))
<1> DEFINE S == Plain(BtcPayers(k))
<1>1. CASE k = 1
  <2>1. LookFor("main", {"USDT"}) \in S
    BY LookForIn, Names
  <2> QED BY <1>1, <2>1, OneIn DEF SeedBtc
<1>2. CASE k = 2
  <2>1. BtcSpend(35) \in Int /\ BtcSpend(40) \in Int
    BY BtcSpendIn
  <2>2. <<"main", "USDT">> \in BtcPayers(k)
    BY <1>2 DEF BtcPayers
  <2>3. Trade("main", "USDT", "ETH", BtcSpend(35)) \in S /\ Trade("main", "USDT", "BTC", BtcSpend(40)) \in S
    BY <2>1, <2>2, TradeIn, Names
  <2>4. Look("main") \in S /\ End("0") \in S
    BY LookIn, EndIn, Names DEF Codes
  <2> HIDE DEF S
  <2>5. <<End("0")>> \in Seq(S)
        /\ <<Trade("main", "USDT", "ETH", BtcSpend(35)), Trade("main", "USDT", "BTC", BtcSpend(40)), Look("main")>> \in Seq(S)
    BY <2>3, <2>4, OneIn, ThreeIn
  <2> QED BY <1>2, <2>5 DEF SeedBtc, S
<1>3. CASE k = 3
  <2> DEFINE s == <<Pair("ETH", "BTC", BtcSubs), Pair("BTC", "BTC", BtcSubs)>>
  <2>1. s \in Seq(Market)
    BY PairIn, TwoIn, Names
  <2>2. ASSUME NEW i \in DOMAIN s PROVE <<"main", s[i].base>> \in BtcPayers(k)
    <3>1. s[i].base \in Bases
      BY DEF Pair, Bases
    <3> QED BY <1>3, <3>1 DEF BtcPayers
  <2> HIDE DEF s
  <2>3. \A n \in Int, d \in Nat \ {0} : SplitHeld(s, 0, n, d) \in Seq(Plain(BtcPayers(k)))
    BY <2>1, <2>2, SplitIn
  <2>4. 9998 \in Int /\ 10000 \in Nat \ {0}
    OBVIOUS
  <2>5. SplitHeld(s, 0, 9998, 10000) \in Seq(Plain(BtcPayers(k)))
    BY <2>3, <2>4
  <2> QED BY <1>3, <2>5 DEF SeedBtc, s
<1>4. CASE k \notin {1, 2, 3}
  BY <1>4, EndIn, OneIn DEF SeedBtc, Codes
<1> QED BY <1>1, <1>2, <1>3, <1>4

\* At every stage the push of balances asks only for requests that pay from main.
LEMMA PushIn == ASSUME NEW k \in Nat PROVE Push(k) \in Seq(Plain(FromMain))
<1>1. Both(ZarSubs, "ZAR", 5790) \in Seq(Plain(FromMain))
  <2>1. 5790 \in Int
    OBVIOUS
  <2> QED BY <2>1, BothMainIn, Names
<1> QED BY <1>1, EndIn, OneIn DEF Push, Codes

\* At every stage the funding script asks only for requests that pay from main.
LEMMA FundIn == ASSUME NEW k \in Nat PROVE Fund(k) \in Seq(Plain(FromMain))
<1>1. D(2000) \in Int /\ D(100) \in Int /\ D(2) \in Int
  BY DollarsTyped
<1>2. /\ Both(ZarSubs, "ZAR", D(2000)) \in Seq(Plain(FromMain))
      /\ Both(UsdtSubs, "USDT", D(100)) \in Seq(Plain(FromMain))
      /\ Both(UsdcSubs, "USDC", D(2)) \in Seq(Plain(FromMain))
  BY <1>1, BothMainIn, Names
<1>3. CASE k = 1
  BY <1>2, <1>3, BehindIn DEF Fund
<1>4. CASE k # 1
  BY <1>4, EndIn, OneIn DEF Fund, Codes
<1> QED BY <1>3, <1>4

\* At every stage the reseed asks only for requests that pay from any account.
LEMMA ReseedIn == ASSUME Typed, NEW k \in Nat PROVE Reseed(k) \in Seq(Plain(Everything))
<1> DEFINE S == Plain(Everything)
<1>1. Each(UsdtSubs, LAMBDA s : <<Look(s)>>) \in Seq(S)
  BY EachLookIn, SubLists DEF Each
<1>2. ASSUME NEW a \in Accounts, NEW b \in Currencies PROVE ReseedOne(a, b) \in Seq(S)
  <2> DEFINE deficit == Over(TargetUsd - Get(seen, a, b))
  <2>1. deficit \in Nat
    <3>1. TargetUsd - Get(seen, a, b) \in Int
      BY Known, DollarsTyped DEF TargetUsd
    <3> QED BY <3>1, Amounts
  <2>2. deficit + BufferUsd \in Int
    <3> HIDE DEF deficit
    <3> QED BY <2>1 DEF BufferUsd
  <2>3. ReseedOne(a, b) = When(deficit >= MinOrder, <<Ioc(Trade(a, "USDT", b, deficit + BufferUsd)), Look(a)>>)
    BY DEF ReseedOne
  <2> HIDE DEF deficit
  <2>4. Ioc(Trade(a, "USDT", b, deficit + BufferUsd)) \in S /\ Look(a) \in S
    BY <2>2, TradeIn, IocIn, LookIn, AccountPayer, Names
  <2> HIDE DEF S
  <2> QED BY <2>3, <2>4, TwoIn, WhenIn
<1>3. CASE k \in 2..5
  <2>1. 1 + (k % 2) \in 1..2 /\ k \div 2 \in 1..2
    BY <1>3
  <2>2. \A i \in 1..2 : UsdtSubs[i] \in Accounts /\ SeedBases[i] \in Currencies
    BY Names DEF UsdtSubs, SeedBases
  <2>3. ReseedOne(UsdtSubs[1 + (k % 2)], SeedBases[k \div 2]) \in Seq(S) /\ <<End("1")>> \in Seq(S)
    BY <1>2, <2>1, <2>2, EndIn, OneIn DEF Codes
  <2>4. Reseed(k) = IF Price(SeedBases[k \div 2], "USDT")
                    THEN When(ByMarket(SeedBases[k \div 2], "USDT"),
                              ReseedOne(UsdtSubs[1 + (k % 2)], SeedBases[k \div 2]))
                    ELSE <<End("1")>>
    BY <1>3 DEF Reseed, Each
  <2> HIDE DEF S
  <2> QED BY <2>3, <2>4, WhenIn DEF S
<1>4. CASE k \in {1, 6}
  <2>1. Reseed(k) = Each(UsdtSubs, LAMBDA s : <<Look(s)>>)
    BY <1>4 DEF Reseed, Each
  <2> QED BY <1>1, <2>1 DEF Each
<1>5. CASE k \notin {1, 6} \cup 2..5
  BY <1>5, EndIn, OneIn DEF Reseed, Each, Codes
<1> QED BY <1>3, <1>4, <1>5

\* At every stage the sending script asks only for requests that pay from main.
LEMMA SendsIn == ASSUME Typed, NEW k \in Nat PROVE Sends(k) \in Seq(Plain(FromMain))
<1> DEFINE s == <<Pair("BTC", "ZAR", ZarSubs), Pair("XAUT", "ZAR", ZarSubs),
                  Pair("USDC", "ZAR", ZarSubs), Pair("JUP", "USDT", UsdtSubs)>>
<1>1. s \in Seq(Market)
  BY PairIn, ShortSeqsIn, Names
<1> HIDE DEF s
<1>2. 1 \in Int /\ 1 \in Nat \ {0}
  OBVIOUS
<1>3. SplitHeld(s, 0, 1, 1) \in Seq(Plain(FromMain))
  BY <1>1, <1>2, SplitMainIn
<1> QED BY <1>3, LookIn, EndIn, OneIn, Names DEF Sends, Codes, s

\* The transfers the retry sends to two subaccounts pay from main.
LEMMA RetrySplitIn ==
  ASSUME Typed, NEW k \in Nat, NEW s \in {ZarSubs, UsdtSubs, UsdcSubs, BtcSubs}, NEW cs \in Seq(Currencies)
  PROVE  RetrySplit(k, s, cs) \in Seq(Plain(FromMain))
<1> DEFINE f == [i \in DOMAIN cs |-> When(Main(cs[i]) > 0, Both(s, cs[i], Part(Main(cs[i]), 45, 100)))]
<1>1. ASSUME NEW i \in DOMAIN cs PROVE f[i] \in Seq(Plain(FromMain))
  <2>1. cs[i] \in Currencies
    OBVIOUS
  <2>2. Part(Main(cs[i]), 45, 100) \in Int
    <3>1. Main(cs[i]) \in Int
      BY <2>1, Known, Names
    <3> QED BY <3>1, PartInt
  <2>3. Both(s, cs[i], Part(Main(cs[i]), 45, 100)) \in Seq(Plain(FromMain))
    BY <2>1, <2>2, BothMainIn
  <2> QED BY <2>3, WhenIn
<1>2. f = [i \in DOMAIN cs |-> f[i]]
  OBVIOUS
<1>3. k = 2 => RetrySplit(k, s, cs) = FlattenSeq(f)
  BY DEF RetrySplit, Each
<1> HIDE DEF f
<1>4. FlattenSeq(f) \in Seq(Plain(FromMain))
  BY <1>1, <1>2, FlatEach
<1>5. k # 2 => RetrySplit(k, s, cs) \in Seq(Plain(FromMain))
  BY LookIn, OrIn, EndIn, OneIn, Names DEF RetrySplit, Each, Codes
<1> QED BY <1>3, <1>4, <1>5

\* At every stage either retry asks only for requests that pay from main.
LEMMA RetryIn ==
  ASSUME Typed, NEW k \in Nat
  PROVE  Retry(k) \in Seq(Plain(FromMain)) /\ RetryUsdt(k) \in Seq(Plain(FromMain))
<1>1. <<"BTC", "USDC", "XAUT">> \in Seq(Currencies) /\ <<"JUP", "XAUT">> \in Seq(Currencies)
  BY TwoIn, ThreeIn, Names
<1> QED BY <1>1, RetrySplitIn DEF Retry, RetryUsdt

-----------------------------------------------------------------------------
(* normalize_phase2.py                                                     *)

\* The currency an account keeps is a quote, with a natural amount to keep.
LEMMA BucketIn == \A a \in Accounts : Bucket(a) \in {"ZAR", "USDT", "USDC"} /\ Bucket(a) \in Currencies
                                      /\ Keep[Bucket(a)] \in Nat
BY Names DEF Bucket, Keep, D

\* The six swept subaccounts are accounts.
LEMMA SweptIn == DOMAIN SweptSubs = 1..6 /\ Len(SweptSubs) = 6 /\ \A i \in 1..6 : SweptSubs[i] \in Accounts
<1>1. DOMAIN <<"Z1", "Z2", "U1", "U2", "C1", "C2">> = 1..6 /\ Len(<<"Z1", "Z2", "U1", "U2", "C1", "C2">>) = 6
  OBVIOUS
<1> QED BY <1>1, SubLists, Names

\* The sweep of an account pays from the currency it keeps.
LEMMA SweepIn ==
  ASSUME Typed, NEW a \in Accounts, NEW P, <<a, Bucket(a)>> \in P
  PROVE  Sweep(a) \in Seq(Plain(P))
<1> DEFINE excess == Get(seen, a, Bucket(a)) - Keep[Bucket(a)]
<1>1. excess \in Int
  BY Known, BucketIn
<1> HIDE DEF excess
<1>2. Move(a, "main", Bucket(a), excess) \in Plain(P)
  BY <1>1, MoveIn, BucketIn, Names
<1> QED BY <1>2, WhenOneIn DEF Sweep, excess

\* The buys of phase 2 are pairs with an integer spend.
LEMMA PhaseBuysIn ==
  ASSUME NEW i \in 1..3
  PROVE  PhaseBuys[i] \in Market /\ Spend(PhaseBuys[i]) \in Int
<1>1. PhaseBuys[i] \in Market /\ PhaseBuys[i].base \in {"ETH", "XAUT", "EURC"}
  <2>1. PhaseBuys[1] = Pair("ETH", "ZAR", ZarSubs) /\ PhaseBuys[2] = Pair("XAUT", "USDT", UsdtSubs)
        /\ PhaseBuys[3] = Pair("EURC", "USDC", UsdcSubs)
    BY DEF PhaseBuys
  <2>2. /\ Pair("ETH", "ZAR", ZarSubs) \in Market /\ Pair("XAUT", "USDT", UsdtSubs) \in Market
        /\ Pair("EURC", "USDC", UsdcSubs) \in Market
    BY PairIn, Names
  <2>3. Pair("ETH", "ZAR", ZarSubs).base = "ETH" /\ Pair("XAUT", "USDT", UsdtSubs).base = "XAUT"
        /\ Pair("EURC", "USDC", UsdcSubs).base = "EURC"
    BY DEF Pair
  <2> QED BY <2>1, <2>2, <2>3
<1>2. [ETH |-> D(32), XAUT |-> D(19), EURC |-> D(20)][PhaseBuys[i].base] \in Int
  BY <1>1, DollarsTyped
<1> QED BY <1>1, <1>2, ConvertInt DEF Spend

\* Reading one currency of main pays from nowhere.
LEMMA PeekIn == ASSUME NEW P, NEW c \in Currencies PROVE Peek(c) \in Paying(P)
<1>1. {c} \in SUBSET Currencies
  OBVIOUS
<1> QED BY <1>1, BlankLookForIn, Names DEF Peek

PhasePayers(k) == IF k \in 2..7 THEN {<<SweptSubs[k - 1], Bucket(SweptSubs[k - 1])>>} ELSE FromMain
\* At every stage phase 2 asks only for requests that pay from one swept subaccount at each of
\* stages 2 to 7 and main at the others.
LEMMA Phase2In == ASSUME Typed, NEW k \in Nat PROVE Phase2(k) \in Seq(Paying(PhasePayers(k)))
<1> DEFINE S == Paying(PhasePayers(k))
           pair(i) == PhaseBuys[i]
           i == k - 7
           j == (k - 9) \div 2
           moves(least) == Bought(pair(j)) /\ Main(pair(j).base) > least
<1>1. CASE k \in 1..7
  <2>1. k > 1 => SweptSubs[k - 1] \in Accounts
    BY <1>1, SweptIn
  <2>2. k > 1 => <<SweptSubs[k - 1], Bucket(SweptSubs[k - 1])>> \in PhasePayers(k)
    BY <1>1 DEF PhasePayers
  <2>3. k > 1 => Sweep(SweptSubs[k - 1]) \in Seq(S)
    BY <2>1, <2>2, SweepIn, PlainSeq
  <2>4. k <= 6 => Blank(LookFor(SweptSubs[k], {Bucket(SweptSubs[k])})) \in S
    <3> SUFFICES ASSUME k <= 6 PROVE Blank(LookFor(SweptSubs[k], {Bucket(SweptSubs[k])})) \in S
      OBVIOUS
    <3>1. SweptSubs[k] \in Accounts
      BY <1>1, SweptIn
    <3>2. {Bucket(SweptSubs[k])} \in SUBSET Currencies
      BY <3>1, BucketIn
    <3> QED BY <3>1, <3>2, BlankLookForIn
  <2>5. Peek(PhaseBuys[1].quote) \in S
    <3>1. 1 \in 1..3
      OBVIOUS
    <3>2. PhaseBuys[1] \in Market
      BY <3>1, PhaseBuysIn
    <3> QED BY <3>2, MarketTyped, PeekIn
  <2>6. Phase2(k) = When(k > 1, Sweep(SweptSubs[k - 1]))
                      \o When(k <= 6, <<Blank(LookFor(SweptSubs[k], {Bucket(SweptSubs[k])}))>>)
                      \o When(k = 7, <<Peek(PhaseBuys[1].quote)>>)
    <3>1. /\ Len(SweptSubs) = 6 /\ k \in 1..(Len(SweptSubs) + 1)
          /\ ~(k - Len(SweptSubs) - 1 \in 1..3) /\ ~(k - Len(SweptSubs) - 1 \in 4..9)
          /\ (k <= Len(SweptSubs) <=> k <= 6) /\ (k = Len(SweptSubs) + 1 <=> k = 7)
      BY <1>1, SweptIn
    <3> QED BY <3>1 DEF Phase2
  <2> HIDE DEF S
  <2>7. /\ When(k > 1, Sweep(SweptSubs[k - 1])) \in Seq(S)
        /\ When(k <= 6, <<Blank(LookFor(SweptSubs[k], {Bucket(SweptSubs[k])}))>>) \in Seq(S)
        /\ When(k = 7, <<Peek(PhaseBuys[1].quote)>>) \in Seq(S)
    BY <2>3, <2>4, <2>5, WhenIn, WhenOneIn
  <2> QED BY <2>6, <2>7, BehindIn DEF S
<1>2. CASE k \in 8..10
  <2>1. i \in 1..3 /\ ~(k \in 1..7)
    BY <1>2
  <2>2. pair(i) \in Market /\ Spend(pair(i)) \in Int /\ (i < 3 => pair(i + 1) \in Market) /\ pair(1) \in Market
    BY <2>1, PhaseBuysIn
  <2>3. Phase2(k) = When(Bought(pair(i)), <<Trade("main", pair(i).quote, pair(i).base, Spend(pair(i)))>>)
                      \o When(i < 3, <<Peek(pair(i + 1).quote)>>) \o When(i = 3, <<Peek(pair(1).base)>>)
    <3>1. /\ Len(SweptSubs) = 6 /\ k - Len(SweptSubs) - 1 = i
          /\ ~(k \in 1..(Len(SweptSubs) + 1)) /\ ~(k - Len(SweptSubs) - 1 \in 4..9)
      BY <1>2, SweptIn
    <3> HIDE DEF i
    <3> QED BY <2>1, <3>1 DEF Phase2
  <2>4. PhasePayers(k) = FromMain
    BY <1>2 DEF PhasePayers
  <2> HIDE DEF pair, i
  <2>5. Trade("main", pair(i).quote, pair(i).base, Spend(pair(i))) \in S
    BY <2>2, <2>4, MarketTyped, TradeIn, PlainPaying, Names
  <2>6. (i < 3 => Peek(pair(i + 1).quote) \in S) /\ Peek(pair(1).base) \in S
    BY <2>2, MarketTyped, PeekIn
  <2> HIDE DEF S
  <2>7. /\ When(Bought(pair(i)), <<Trade("main", pair(i).quote, pair(i).base, Spend(pair(i)))>>) \in Seq(S)
        /\ When(i < 3, <<Peek(pair(i + 1).quote)>>) \in Seq(S)
        /\ When(i = 3, <<Peek(pair(1).base)>>) \in Seq(S)
    BY <2>5, <2>6, WhenOneIn
  <2>8. Phase2(k) \in Seq(S)
    BY <2>3, <2>7, Behind3In
  <2> QED BY <2>8 DEF S
<1>3. CASE k \in 11..16
  <2>1. j \in 1..3 /\ i \in 4..9 /\ ~(k \in 1..7) /\ ~(i \in 1..3)
    BY <1>3
  <2>2. pair(j) \in Market /\ (j < 3 => pair(j + 1) \in Market)
    BY <2>1, PhaseBuysIn
  <2>3. PhasePayers(k) = FromMain
    BY <1>3 DEF PhasePayers
  <2>4. Phase2(k) =
          IF k % 2 = 1
          THEN When(moves(1), <<Move("main", pair(j).subs[1], pair(j).base, Main(pair(j).base) \div 2),
                                Peek(pair(j).base)>>)
          ELSE When(moves(0), <<Move("main", pair(j).subs[2], pair(j).base, Main(pair(j).base))>>)
                 \o When(j < 3, <<Peek(pair(j + 1).base)>>)
    <3>1. /\ Len(SweptSubs) = 6 /\ k - Len(SweptSubs) - 1 = i /\ (k - Len(SweptSubs) - 3) \div 2 = j
          /\ ~(k \in 1..(Len(SweptSubs) + 1)) /\ (k % 2 # 1 <=> k % 2 = 0)
      BY <1>3, SweptIn
    <3> HIDE DEF i, j
    <3> QED BY <2>1, <3>1 DEF Phase2
  <2> HIDE DEF pair, j, i
  <2>5. Main(pair(j).base) \in Int /\ Main(pair(j).base) \div 2 \in Int
    <3>1. Main(pair(j).base) \in Nat
      BY Known, Names
    <3> QED BY <3>1
  <2>6. /\ Move("main", pair(j).subs[1], pair(j).base, Main(pair(j).base) \div 2) \in S
        /\ Move("main", pair(j).subs[2], pair(j).base, Main(pair(j).base)) \in S
    BY <2>2, <2>3, <2>5, MarketTyped, MoveIn, PlainPaying, Names
  <2>7. Peek(pair(j).base) \in S /\ (j < 3 => Peek(pair(j + 1).base) \in S)
    BY <2>2, MarketTyped, PeekIn
  <2> HIDE DEF S, moves
  <2>8. /\ <<Move("main", pair(j).subs[1], pair(j).base, Main(pair(j).base) \div 2), Peek(pair(j).base)>> \in Seq(S)
        /\ <<Move("main", pair(j).subs[2], pair(j).base, Main(pair(j).base))>> \in Seq(S)
    BY <2>6, <2>7, OneIn, TwoIn
  <2>9. /\ When(moves(1), <<Move("main", pair(j).subs[1], pair(j).base, Main(pair(j).base) \div 2),
                            Peek(pair(j).base)>>) \in Seq(S)
        /\ When(moves(0), <<Move("main", pair(j).subs[2], pair(j).base, Main(pair(j).base))>>) \in Seq(S)
        /\ When(j < 3, <<Peek(pair(j + 1).base)>>) \in Seq(S)
    BY <2>7, <2>8, WhenIn, WhenOneIn
  <2> QED BY <2>4, <2>9, BehindIn DEF S
<1>4. CASE k \notin 1..16
  <2>1. End("0") \in S
    BY EndIn, PlainPaying DEF Codes
  <2> HIDE DEF S, pair, moves, i, j
  <2>2. k \notin 1..(6 + 1) /\ k - 6 - 1 \notin 1..3 /\ k - 6 - 1 \notin 4..9
    BY <1>4
  <2>3. k \notin 1..(Len(SweptSubs) + 1) /\ k - Len(SweptSubs) - 1 \notin 1..3 /\ k - Len(SweptSubs) - 1 \notin 4..9
    BY <2>2, SweptIn
  <2>4. Phase2(k) = <<End("0")>>
    BY ONLY <2>3 DEF Phase2
  <2> QED BY <2>1, <2>4, OneIn DEF S
<1> QED BY <1>1, <1>2, <1>3, <1>4

-----------------------------------------------------------------------------
(* The plans of these two modules.                                         *)

\* A plan that pays from the payers of a stage is a plan of that stage.
LEMMA AskedIn ==
  ASSUME NEW k, NEW q
  PROVE  /\ q \in Seq(Paying(Payers(k))) => q \in Seq(Asks(k))
         /\ q \in Seq(Plain(Payers(k))) => q \in Seq(Asks(k))
<1>1. Paying(Payers(k)) \subseteq Asks(k)
  BY DEF Asks
<1> QED BY <1>1, PlainSeq, SeqMonotonic

\* Whichever restock script runs, the plan of a stage is made of the requests of that stage.
LEMMA RestockPlanIn ==
  ASSUME Typed, NEW k \in Nat, script \in RestockScripts
  PROVE  RestockPlan(k) \in Seq(Asks(k))
<1>1. CASE script = "jul10"
  <2>1. Payers(k) = IF k = 2 THEN Zar \X {"USDC"} ELSE FromMain
    BY <1>1 DEF Payers, Splitters, RestockScripts, TopupScripts, Sellers
  <2>2. RestockPlan(k) = Jul10(k)
    BY <1>1 DEF RestockPlan
  <2> QED BY <2>1, <2>2, Jul10In, AskedIn
<1>2. CASE script # "jul10"
  <2>1. Payers(k) = FromMain
    BY <1>2 DEF Payers, Splitters, RestockScripts, TopupScripts, Sellers
  <2>2. RestockPlan(k) \in Seq(Paying(FromMain))
    BY <1>2, AutoIn, RestockAllIn, TripleIn, ThinIn, ExecuteIn, RestockZarIn, PlainSeq DEF RestockPlan, RestockScripts
  <2> QED BY <2>1, <2>2, AskedIn
<1> QED BY <1>1, <1>2

\* Whichever top-up script runs, the plan of a stage is made of the requests of that stage.
LEMMA TopupPlanIn ==
  ASSUME Typed, NEW k \in Nat, script \in TopupScripts
  PROVE  TopupPlan(k) \in Seq(Asks(k))
<1>1. CASE script \in {"quick", "reseed"}
  <2>1. Payers(k) = Everything
    BY <1>1 DEF Payers, Splitters, RestockScripts, TopupScripts, Sellers
  <2> QED BY <1>1, <2>1, QuickIn, ReseedIn, AskedIn DEF TopupPlan
<1>2. CASE script = "btc"
  <2>1. Payers(k) = BtcPayers(k)
    BY <1>2 DEF Payers, BtcPayers, Splitters, RestockScripts, TopupScripts, Sellers
  <2> QED BY <1>2, <2>1, SeedBtcIn, AskedIn DEF TopupPlan
<1>3. CASE script = "phase2"
  <2>1. Payers(k) = PhasePayers(k)
    BY <1>3 DEF Payers, PhasePayers, Splitters, RestockScripts, TopupScripts, Sellers
  <2> QED BY <1>3, <2>1, Phase2In, AskedIn DEF TopupPlan
<1>4. CASE script \in {"pair", "usdpc", "push", "fund", "sends", "retry", "retryUsdt"}
  <2>1. Payers(k) = FromMain
    BY <1>4 DEF Payers, Splitters, RestockScripts, TopupScripts, Sellers
  <2>2. TopupPlan(k) \in Seq(Plain(FromMain))
    BY <1>4, SeedPairIn, SeedUsdpcIn, PushIn, FundIn, SendsIn, RetryIn DEF TopupPlan
  <2> QED BY <2>1, <2>2, AskedIn
<1> QED BY <1>1, <1>2, <1>3, <1>4 DEF TopupScripts

\* Sales and sweeps of an account pay from the listed currencies of that account.
LEMMA SellsIn ==
  ASSUME Typed, NEW P, NEW a \in Accounts, NEW C \in SUBSET Currencies, NEW cs \in Seq(C),
         \A c \in C : <<a, c>> \in P, NEW q \in Currencies, NEW n \in Int, NEW d \in Nat \ {0}
  PROVE  Sells(a, cs, q, n, d) \in Seq(Plain(P)) /\ Sweeps(a, cs, n, d) \in Seq(Plain(P))
<1> DEFINE amount(i) == Part(Get(seen, a, cs[i]), n, d)
           f == [i \in DOMAIN cs |-> When(Get(seen, a, cs[i]) > 0, <<Ioc(Trade(a, cs[i], q, amount(i)))>>)]
           g == [i \in DOMAIN cs |-> When(Get(seen, a, cs[i]) > 0, <<Move(a, "main", cs[i], amount(i))>>)]
<1>1. ASSUME NEW i \in DOMAIN cs PROVE f[i] \in Seq(Plain(P)) /\ g[i] \in Seq(Plain(P))
  <2>1. cs[i] \in C /\ cs[i] \in Currencies /\ <<a, cs[i]>> \in P
    <3>1. cs[i] \in C
      OBVIOUS
    <3> QED BY <3>1
  <2>2. amount(i) \in Int
    <3>1. Get(seen, a, cs[i]) \in Int
      BY Known
    <3> QED BY <3>1, PartInt
  <2> HIDE DEF amount
  <2>3. Ioc(Trade(a, cs[i], q, amount(i))) \in Plain(P) /\ Move(a, "main", cs[i], amount(i)) \in Plain(P)
    BY <2>1, <2>2, TradeIn, IocIn, MoveIn, Names
  <2> QED BY <2>3, WhenOneIn
<1>2. f = [i \in DOMAIN cs |-> f[i]] /\ g = [i \in DOMAIN cs |-> g[i]]
  OBVIOUS
<1>3. Sells(a, cs, q, n, d) = FlattenSeq(f) /\ Sweeps(a, cs, n, d) = FlattenSeq(g)
  BY DEF Sells, Sweeps, Each
<1> HIDE DEF f, g
<1> QED BY <1>1, <1>2, <1>3, FlatEach

\* The same for each account of a list.
EachSells(as, cs, q, n, d) == Each(as, LAMBDA a : Sells(a, cs, q, n, d))
EachSweeps(as, cs, n, d) == Each(as, LAMBDA a : Sweeps(a, cs, n, d))
EachBuyUsdt(as, least, n, d) == Each(as, LAMBDA a : BuyUsdt(a, least, n, d))
\* Sales and sweeps of a list of accounts pay from the listed currencies of those accounts.
LEMMA EachSellsIn ==
  ASSUME Typed, NEW P, NEW A \in SUBSET Accounts, NEW as \in Seq(A), NEW C \in SUBSET Currencies,
         NEW cs \in Seq(C), \A a \in A, c \in C : <<a, c>> \in P,
         NEW q \in Currencies, NEW n \in Int, NEW d \in Nat \ {0}
  PROVE  EachSells(as, cs, q, n, d) \in Seq(Plain(P)) /\ EachSweeps(as, cs, n, d) \in Seq(Plain(P))
<1>0. DOMAIN as = 1..Len(as) /\ \A i \in 1..Len(as) : as[i] \in A
  BY ElementOfSeq, LenProperties
<1> DEFINE f == [i \in DOMAIN as |-> Sells(as[i], cs, q, n, d)]
           g == [i \in DOMAIN as |-> Sweeps(as[i], cs, n, d)]
<1>1. ASSUME NEW i \in DOMAIN as PROVE f[i] \in Seq(Plain(P)) /\ g[i] \in Seq(Plain(P))
  <2>1. as[i] \in A
    BY <1>0
  <2>2. as[i] \in Accounts /\ \A c \in C : <<as[i], c>> \in P
    BY <2>1
  <2> QED BY <2>2, SellsIn
<1>2. f = [i \in DOMAIN as |-> f[i]] /\ g = [i \in DOMAIN as |-> g[i]]
  OBVIOUS
<1>3. EachSells(as, cs, q, n, d) = FlattenSeq(f) /\ EachSweeps(as, cs, n, d) = FlattenSeq(g)
  BY DEF EachSells, EachSweeps, Each
<1> HIDE DEF f, g
<1>4. FlattenSeq(f) \in Seq(Plain(P)) /\ FlattenSeq(g) \in Seq(Plain(P))
  BY <1>1, <1>2, FlatEach
<1> QED BY <1>3, <1>4

\* Reading a list of accounts pays from nowhere.
LEMMA LookAllIn ==
  ASSUME NEW P, NEW s \in Seq(Accounts)
  PROVE  LookAll(s) \in Seq(Plain(P)) /\ Each(s, LAMBDA a : <<Blank(Look(a))>>) \in Seq(Paying(P))
<1>1. LookAll(s) = Each(s, LAMBDA a : <<Look(a)>>)
  BY DEF LookAll, Each
<1> QED BY <1>1, EachLookIn DEF Each

\* The purchase of USDT in an account pays from its rand.
LEMMA BuyUsdtIn ==
  ASSUME Typed, NEW P, NEW a \in Accounts, <<a, "ZAR">> \in P, NEW least, NEW n \in Int, NEW d \in Nat \ {0}
  PROVE  BuyUsdt(a, least, n, d) \in Seq(Plain(P))
<1>1. Get(seen, a, "ZAR") \in Int
  BY Known
<1>2. Part(Get(seen, a, "ZAR"), n, d) \in Int
  BY <1>1, PartInt
<1>3. Ioc(Trade(a, "ZAR", "USDT", Part(Get(seen, a, "ZAR"), n, d))) \in Plain(P)
  BY <1>2, TradeIn, IocIn, Names
<1> QED BY <1>3, WhenOneIn DEF BuyUsdt

\* So do the purchases of a list of accounts.
LEMMA EachBuyUsdtIn ==
  ASSUME Typed, NEW s \in Seq(Accounts), NEW least, NEW n \in Int, NEW d \in Nat \ {0}
  PROVE  EachBuyUsdt(s, least, n, d) \in Seq(Plain(Everything))
<1> DEFINE f == [i \in DOMAIN s |-> BuyUsdt(s[i], least, n, d)]
<1>1. ASSUME NEW i \in DOMAIN s PROVE f[i] \in Seq(Plain(Everything))
  <2>1. s[i] \in Accounts
    OBVIOUS
  <2>2. <<s[i], "ZAR">> \in Everything
    BY <2>1, AccountPayer, Names
  <2> QED BY <2>1, <2>2, BuyUsdtIn
<1>2. f = [i \in DOMAIN s |-> f[i]]
  OBVIOUS
<1>3. EachBuyUsdt(s, least, n, d) = FlattenSeq(f)
  BY DEF EachBuyUsdt, Each
<1> HIDE DEF f
<1>4. FlattenSeq(f) \in Seq(Plain(Everything))
  BY <1>1, <1>2, FlatEach
<1> QED BY <1>3, <1>4

-----------------------------------------------------------------------------
(* The sellers of the main account and liquidate-spot.py                   *)

\* The bases the seller goes through are all of them, each a base.
LEMMA MainBasesIn ==
  /\ DOMAIN MainBases = 1..5 /\ MainBases \in Seq(Bases) /\ Range(MainBases) = Bases
  /\ \A i \in 1..5 : MainBases[i] \in Bases
<1>1. DOMAIN MainBases = 1..5 /\ Len(MainBases) = 5
  BY DEF MainBases
<1>2. \A i \in 1..5 : MainBases[i] \in Bases
  BY DEF MainBases, Bases
<1>3. MainBases \in Seq(Bases)
  BY DEF MainBases, Bases
<1>4. MainBases[1] = "BTC" /\ MainBases[2] = "ETH" /\ MainBases[3] = "EURC" /\ MainBases[4] = "JUP"
      /\ MainBases[5] = "XAUT"
  BY DEF MainBases
<1>5. Bases \subseteq Range(MainBases)
  <2>1. \A i \in 1..5 : MainBases[i] \in Range(MainBases)
    BY <1>1 DEF Range
  <2> QED BY <1>4, <2>1 DEF Bases
<1>6. Range(MainBases) \subseteq Bases
  BY <1>1, <1>2 DEF Range
<1> QED BY <1>1, <1>2, <1>3, <1>5, <1>6

\* The markets of the sellers are in quote currencies.
Lists == [Bases -> Seq(Quotes)]
\* The lists of quotes of the seller give every base a sequence of quotes.
LEMMA QuoteListsIn == ToZarQuotes \in Lists /\ OtherQuotes \in Lists /\ NoQuotes \in Lists
<1>1. <<"USDC", "ZAR">> \in Seq(Quotes) /\ <<"ZAR", "USDC">> \in Seq(Quotes) /\ <<"ZAR", "USDT">> \in Seq(Quotes)
      /\ <<"USDC">> \in Seq(Quotes) /\ <<"ZAR", "USDT", "USDC">> \in Seq(Quotes) /\ <<>> \in Seq(Quotes)
  BY OneIn, TwoIn, ThreeIn, Names
<1>2. ToZarQuotes \in Lists
  BY <1>1, MainBasesIn DEF ToZarQuotes, Lists
<1>3. OtherQuotes \in Lists
  BY <1>1, MainBasesIn DEF OtherQuotes, Lists
<1>4. NoQuotes \in Lists
  BY <1>1, MainBasesIn DEF NoQuotes, Lists
<1> QED BY <1>2, <1>3, <1>4

\* The market the seller takes is the first of the list with a bid.
LEMMA FirstBid ==
  ASSUME NEW qs \in Lists, NEW c \in Bases, Bids(c, qs) # {}
  PROVE  Min(Bids(c, qs)) \in Bids(c, qs) /\ qs[c][Min(Bids(c, qs))] \in Quotes
         /\ \A i \in Bids(c, qs) : Min(Bids(c, qs)) <= i
<1>1. qs[c] \in Seq(Quotes)
  BY DEF Lists
<1>2. Bids(c, qs) \in SUBSET Nat /\ Bids(c, qs) \subseteq 1..Len(qs[c])
  BY <1>1 DEF Bids
<1>3. \E n \in Bids(c, qs) : \A m \in Bids(c, qs) : n <= m
  BY <1>2, Least
<1>4. Min(Bids(c, qs)) \in Bids(c, qs) /\ \A i \in Bids(c, qs) : Min(Bids(c, qs)) <= i
  BY <1>3 DEF Min
<1>5. qs[c][Min(Bids(c, qs))] \in Quotes
  BY <1>1, <1>2, <1>4
<1> QED BY <1>4, <1>5

FromBases == {"main"} \X Bases
\* The sales of main pay from the bases of main.
LEMMA SellMainIn ==
  ASSUME Typed, NEW qs \in Lists
  PROVE  SellMain(qs) \in Seq(Plain(FromBases))
<1> DEFINE b(i) == MainBases[i]
           f == [i \in DOMAIN MainBases |->
                   When(Bids(b(i), qs) # {}, Sells("main", <<b(i)>>, qs[b(i)][Min(Bids(b(i), qs))], 1, 1))]
<1>1. ASSUME NEW i \in DOMAIN MainBases PROVE f[i] \in Seq(Plain(FromBases))
  <2>1. b(i) \in Bases
    BY MainBasesIn
  <2> HIDE DEF b
  <2>2. ASSUME Bids(b(i), qs) # {}
        PROVE  Sells("main", <<b(i)>>, qs[b(i)][Min(Bids(b(i), qs))], 1, 1) \in Seq(Plain(FromBases))
    <3>1. qs[b(i)][Min(Bids(b(i), qs))] \in Currencies
      BY <2>1, <2>2, FirstBid, Names
    <3>2. <<b(i)>> \in Seq(Bases) /\ Bases \in SUBSET Currencies /\ \A c \in Bases : <<"main", c>> \in FromBases
      BY <2>1, OneIn, Names DEF FromBases
    <3>3. 1 \in Int /\ 1 \in Nat \ {0}
      OBVIOUS
    <3> QED BY <3>1, <3>2, <3>3, SellsIn, Names
  <2> QED BY <2>2, WhenIn DEF b
<1>2. f = [i \in DOMAIN MainBases |-> f[i]]
  OBVIOUS
<1>3. SellMain(qs) = FlattenSeq(f)
  BY DEF SellMain, Each
<1> HIDE DEF f
<1> QED BY <1>1, <1>2, <1>3, MainBasesIn, FlatEach

\* At every stage the seller asks only for requests that pay from the bases of main.
LEMMA SellerIn == ASSUME Typed, NEW qs \in Lists, NEW k \in Nat PROVE Seller(k, qs) \in Seq(Paying(FromBases))
<1>1. Blank(Look("main")) \in Paying(FromBases) /\ End("0") \in Paying(FromBases)
  BY BlankLookIn, EndIn, PlainPaying, Names DEF Codes
<1>2. SellMain(qs) \in Seq(Paying(FromBases))
  BY SellMainIn, PlainSeq
<1> QED BY <1>1, <1>2, OneIn DEF Seller

FromSpot == Zar \X (Currencies \ {"ZAR"})
\* At every stage the spot liquidation asks only for requests that pay from the rand subaccounts,
\* never their rand.
LEMMA LiqSpotIn == ASSUME Typed, NEW k \in Nat PROVE LiqSpot(k) \in Seq(Paying(FromSpot))
<1>1. CASE k = 1
  <2>1. LiqSpot(k) = Each(ZarSubs, LAMBDA a : <<Blank(Look(a))>>)
    BY <1>1 DEF LiqSpot, Each
  <2> QED BY <2>1, EachLookIn, SubLists DEF Each
<1>2. CASE k = 2
  <2> DEFINE cs == MainBases \o <<"USDC", "USDT">>   C == Currencies \ {"ZAR"}
  <2>1. cs \in Seq(C)
    <3>1. Bases \subseteq C /\ "USDC" \in C /\ "USDT" \in C
      BY DEF Bases, Quotes, Currencies
    <3> HIDE DEF C
    <3>2. MainBases \in Seq(C) /\ <<"USDC", "USDT">> \in Seq(C)
      BY <3>1, MainBasesIn, SeqMonotonic, TwoIn
    <3> QED BY <3>2, BehindIn
  <2>2. ZarSubs \in Seq(Zar) /\ Zar \in SUBSET Accounts
    BY Names DEF ZarSubs, Zar
  <2>3. \A a \in Zar, c \in C : <<a, c>> \in FromSpot
    BY DEF FromSpot
  <2>4. LiqSpot(k) = EachSweeps(ZarSubs, cs, 9999, 10000)
    BY <1>2 DEF LiqSpot, Each, EachSweeps
  <2>5. C \in SUBSET Currencies
    OBVIOUS
  <2> HIDE DEF cs, C
  <2>6. \A n \in Int, d \in Nat \ {0} : EachSweeps(ZarSubs, cs, n, d) \in Seq(Plain(FromSpot))
    BY <2>1, <2>2, <2>3, <2>5, EachSellsIn, Names
  <2>7. 9999 \in Int /\ 10000 \in Nat \ {0}
    OBVIOUS
  <2>8. EachSweeps(ZarSubs, cs, 9999, 10000) \in Seq(Plain(FromSpot))
    BY <2>6, <2>7
  <2> QED BY <2>4, <2>8, PlainSeq
<1>3. CASE k \notin {1, 2}
  <2>1. LiqSpot(k) = <<End("0")>> /\ End("0") \in Paying(FromSpot)
    BY <1>3, EndIn, PlainPaying DEF LiqSpot, Each, Codes
  <2> QED BY <2>1, OneIn
<1> QED BY <1>1, <1>2, <1>3

-----------------------------------------------------------------------------
(* liquidate_all.py and convert_to_usdt.py                                 *)

\* With everything to pay from.
LEMMA SellAnyIn ==
  ASSUME Typed, NEW a \in Accounts, NEW cs \in Seq(Currencies), NEW q \in Currencies, NEW n \in Int,
         NEW d \in Nat \ {0}
  PROVE  Sells(a, cs, q, n, d) \in Seq(Plain(Everything)) /\ Sweeps(a, cs, n, d) \in Seq(Plain(Everything))
<1>1. Currencies \in SUBSET Currencies /\ \A c \in Currencies : <<a, c>> \in Everything
  BY AccountPayer
<1> QED BY <1>1, SellsIn

\* Sales and sweeps of any list of accounts and currencies are requests of some account.
LEMMA EachSellAnyIn ==
  ASSUME Typed, NEW s \in Seq(Accounts), NEW cs \in Seq(Currencies), NEW q \in Currencies, NEW n \in Int,
         NEW d \in Nat \ {0}
  PROVE  EachSells(s, cs, q, n, d) \in Seq(Plain(Everything)) /\ EachSweeps(s, cs, n, d) \in Seq(Plain(Everything))
<1>1. Currencies \in SUBSET Currencies /\ Accounts \in SUBSET Accounts
      /\ \A a \in Accounts, c \in Currencies : <<a, c>> \in Everything
  BY AccountPayer
<1> QED BY <1>1, EachSellsIn

\* The lists of currencies of the liquidations are sequences of currencies.
LEMMA ListsIn ==
  /\ ZarBases \in Seq(Currencies) /\ UsdtBases \in Seq(Currencies) /\ Away \in Seq(Currencies)
  /\ <<"EURC">> \in Seq(Currencies) /\ <<"USDC">> \in Seq(Currencies) /\ <<"JUP", "XAUT">> \in Seq(Currencies)
  /\ <<"USDC", "EURC">> \in Seq(Currencies)
<1>1. /\ ZarBases \in Seq(Currencies) /\ Away \in Seq(Currencies)
      /\ <<"EURC">> \in Seq(Currencies) /\ <<"USDC">> \in Seq(Currencies) /\ <<"JUP", "XAUT">> \in Seq(Currencies)
      /\ <<"USDC", "EURC">> \in Seq(Currencies)
  BY OneIn, TwoIn, ThreeIn, ShortSeqsIn, Names DEF ZarBases, Away
<1>2. UsdtBases \in Seq(Currencies)
  <2> DEFINE s == <<"JUP", "XAUT">>
             f == [i \in 1..2 |-> When(Price(s[i], "USDT"), <<s[i]>>)]
  <2>1. \A i \in 1..2 : s[i] \in Currencies
    BY Names
  <2>2. f[1] \in Seq(Currencies) /\ f[2] \in Seq(Currencies) /\ f = [i \in 1..2 |-> f[i]]
    <3> HIDE DEF s
    <3> QED BY <2>1, WhenOneIn
  <2>3. UsdtBases = FlattenSeq(f)
    BY DEF UsdtBases, Each
  <2> HIDE DEF f
  <2> QED BY <2>2, <2>3, Flat2
<1> QED BY <1>1, <1>2

\* At every stage the full liquidation asks only for requests that pay from any account.
LEMMA LiqAllIn == ASSUME Typed, NEW k \in Nat PROVE LiqAll(k) \in Seq(Plain(Everything))
<1> DEFINE S == Seq(Plain(Everything))
<1>1. 98 \in Int /\ 99 \in Int /\ 100 \in Nat \ {0}
  OBVIOUS
<1>2. LookAll(SixSubs) \in S /\ LookAll(ZarSubs) \in S /\ \A a \in Accounts : <<Look(a)>> \in S
  BY LookAllIn, SubLists, LookIn, OneIn
<1>3. /\ EachSells(ZarSubs, ZarBases, "ZAR", 98, 100) \in S /\ EachBuyUsdt(ZarSubs, D(10), 98, 100) \in S
      /\ EachSweeps(SixSubs, Away, 99, 100) \in S
  <2>1. EachSells(ZarSubs, ZarBases, "ZAR", 98, 100) \in S
    BY <1>1, EachSellAnyIn, SubLists, ListsIn, Names
  <2>2. EachBuyUsdt(ZarSubs, D(10), 98, 100) \in S
    BY <1>1, EachBuyUsdtIn, SubLists
  <2>3. \A n \in Int, d \in Nat \ {0} : EachSweeps(SixSubs, Away, n, d) \in S
    BY EachSellAnyIn, SubLists, ListsIn, Names
  <2> QED BY <1>1, <2>1, <2>2, <2>3
<1>4. /\ Sells("U1", UsdtBases, "USDT", 98, 100) \in S /\ Sells("U2", UsdtBases, "USDT", 98, 100) \in S
      /\ Sells("C1", <<"EURC">>, "USDC", 98, 100) \in S /\ Sells("C2", <<"EURC">>, "USDC", 98, 100) \in S
  BY <1>1, SellAnyIn, ListsIn, Names
<1>5. End("0") \in Plain(Everything)
  BY EndIn DEF Codes
<1>7. /\ When(Get(seen, "C1", "EURC") > 1, Sells("C1", <<"EURC">>, "USDC", 98, 100)) \in S
      /\ When(Get(seen, "C2", "EURC") > 1, Sells("C2", <<"EURC">>, "USDC", 98, 100)) \in S
  BY <1>4, WhenIn
<1>8. \A p, q \in S : p \o q \in S
  BY BehindIn
<1>9. <<End("0")>> \in S
  BY <1>5, OneIn
<1>10. "U1" \in Accounts /\ "U2" \in Accounts /\ "C1" \in Accounts /\ "C2" \in Accounts
  BY Names
<1>11. CASE k = 1
  <2>1. LiqAll(k) = LookAll(SixSubs)
    BY <1>11 DEF LiqAll, Each
  <2> QED BY <1>2, <2>1
<1>12. CASE k = 2
  <2>1. LiqAll(k) = EachSells(ZarSubs, ZarBases, "ZAR", 98, 100) \o LookAll(ZarSubs)
    BY <1>12 DEF LiqAll, Each, EachSells
  <2> QED BY <1>2, <1>3, <1>8, <2>1
<1>13. CASE k = 3
  <2>1. LiqAll(k) = EachBuyUsdt(ZarSubs, D(10), 98, 100) \o <<Look("U1")>>
    BY <1>13 DEF LiqAll, Each, EachBuyUsdt
  <2> QED BY <1>2, <1>3, <1>8, <1>10, <2>1
<1>14. CASE k = 4
  <2>1. LiqAll(k) = Sells("U1", UsdtBases, "USDT", 98, 100) \o <<Look("U2")>>
    BY <1>14 DEF LiqAll, Each
  <2> QED BY <1>2, <1>4, <1>8, <1>10, <2>1
<1>15. CASE k = 5
  <2>1. LiqAll(k) = Sells("U2", UsdtBases, "USDT", 98, 100) \o <<Look("C1")>>
    BY <1>15 DEF LiqAll, Each
  <2> QED BY <1>2, <1>4, <1>8, <1>10, <2>1
<1>16. CASE k = 6
  <2>1. LiqAll(k) = When(Get(seen, "C1", "EURC") > 1, Sells("C1", <<"EURC">>, "USDC", 98, 100)) \o <<Look("C2")>>
    BY <1>16 DEF LiqAll, Each
  <2> QED BY <1>2, <1>7, <1>8, <1>10, <2>1
<1>17. CASE k = 7
  <2>1. LiqAll(k) = When(Get(seen, "C2", "EURC") > 1, Sells("C2", <<"EURC">>, "USDC", 98, 100)) \o LookAll(SixSubs)
    BY <1>17 DEF LiqAll, Each
  <2> QED BY <1>2, <1>7, <1>8, <1>10, <2>1
<1>18. CASE k = 8
  <2>1. LiqAll(k) = EachSweeps(SixSubs, Away, 99, 100)
    BY <1>18 DEF LiqAll, Each, EachSweeps
  <2> QED BY <1>3, <2>1
<1>19. CASE k \notin {1, 2, 3, 4, 5, 6, 7, 8}
  <2>1. LiqAll(k) = <<End("0")>>
    BY <1>19 DEF LiqAll, Each
  <2> QED BY <1>9, <2>1
<1> QED BY <1>11, <1>12, <1>13, <1>14, <1>15, <1>16, <1>17, <1>18, <1>19

\* At every stage the 95 % conversion asks only for requests that pay from any account.
LEMMA Convert95In == ASSUME Typed, NEW k \in Nat PROVE Convert95(k) \in Seq(Plain(Everything))
<1> DEFINE S == Seq(Plain(Everything))
<1>1. 95 \in Int /\ 100 \in Nat \ {0}
  OBVIOUS
<1>2. LookAll(UsdcSubs) \in S
  BY LookAllIn, SubLists
<1>3. EachSells(UsdcSubs, <<"EURC">>, "USDC", 95, 100) \in S /\ EachSells(UsdcSubs, <<"USDC">>, "ZAR", 95, 100) \in S
  BY <1>1, EachSellAnyIn, SubLists, ListsIn, Names
<1>4. EachBuyUsdt(UsdcSubs, D(1), 95, 100) \in S
  BY <1>1, EachBuyUsdtIn, SubLists
<1>5. <<End("0")>> \in S
  BY EndIn, OneIn DEF Codes
<1>6. /\ k = 1 => Convert95(k) = LookAll(UsdcSubs)
      /\ k = 2 => Convert95(k) = EachSells(UsdcSubs, <<"EURC">>, "USDC", 95, 100) \o LookAll(UsdcSubs)
      /\ k = 3 => Convert95(k) = EachSells(UsdcSubs, <<"USDC">>, "ZAR", 95, 100) \o LookAll(UsdcSubs)
      /\ k = 4 => Convert95(k) = EachBuyUsdt(UsdcSubs, D(1), 95, 100) \o LookAll(UsdcSubs)
      /\ k \notin {1, 2, 3, 4} => Convert95(k) = <<End("0")>>
  BY DEF Convert95, Each, EachSells, EachBuyUsdt
<1>7. \A p, q \in S : p \o q \in S
  BY BehindIn
<1> HIDE DEF S
<1>20. Convert95(k) \in S
  <2>1. EachSells(UsdcSubs, <<"EURC">>, "USDC", 95, 100) \o LookAll(UsdcSubs) \in S
    BY <1>2, <1>3, <1>7
  <2>2. EachSells(UsdcSubs, <<"USDC">>, "ZAR", 95, 100) \o LookAll(UsdcSubs) \in S
    BY <1>2, <1>3, <1>7
  <2>3. EachBuyUsdt(UsdcSubs, D(1), 95, 100) \o LookAll(UsdcSubs) \in S
    BY <1>2, <1>4, <1>7
  <2> QED BY <1>2, <1>5, <1>6, <2>1, <2>2, <2>3
<1> QED BY <1>20 DEF S

-----------------------------------------------------------------------------
(* sweep_all_subs.py, sweep_dust.py and drain_eurc_usdc.py                 *)

FromSweep == Accounts \X (Currencies \ {"USDT", "USDC"})
\* At every stage the sweep of the subaccounts asks only for requests that pay from anything but
\* USDT and USDC.
LEMMA SweepSubsIn == ASSUME Typed, NEW k \in Nat PROVE SweepSubs(k) \in Seq(Plain(FromSweep))
<1> DEFINE C == Currencies \ {"USDT", "USDC"}
           cs == <<"ZAR">> \o MainBases
           t == EachSweeps(EightSubs, cs, 9999, 10000) \o <<Look("main")>>
           S == Seq(Plain(FromSweep))
<1>1. cs \in Seq(C) /\ C \in SUBSET Currencies /\ MainBases \in Seq(C)
  <2>1. Bases \subseteq C /\ "ZAR" \in C
    BY DEF Bases, Quotes, Currencies
  <2>2. C \in SUBSET Currencies
    OBVIOUS
  <2> HIDE DEF C
  <2>3. MainBases \in Seq(C) /\ <<"ZAR">> \in Seq(C)
    BY <2>1, MainBasesIn, SeqMonotonic, OneIn
  <2> QED BY <2>2, <2>3, BehindIn
<1>2. \A a \in Accounts, c \in C : <<a, c>> \in FromSweep
  BY DEF FromSweep
<1>30. k = 2 => SweepSubs(k) = t
  BY DEF SweepSubs, Each, EachSweeps
<1>3. /\ k = 1 => SweepSubs(k) = LookAll(EightSubs)
      /\ k = 3 => SweepSubs(k) = Sells("main", MainBases, "USDT", 1, 1)
      /\ k \notin {1, 2, 3} => SweepSubs(k) = <<End("0")>>
  BY DEF SweepSubs, Each, EachSweeps
<1> HIDE DEF C, cs
<1>4. LookAll(EightSubs) \in S /\ <<End("0")>> \in S /\ <<Look("main")>> \in S
  BY LookAllIn, SubLists, EndIn, LookIn, OneIn, Names DEF Codes
<1>5. EachSweeps(EightSubs, cs, 9999, 10000) \in S
  <2>1. Accounts \in SUBSET Accounts
    OBVIOUS
  <2>2. \A n \in Int, d \in Nat \ {0} : EachSweeps(EightSubs, cs, n, d) \in S
    BY <1>1, <1>2, <2>1, EachSellsIn, SubLists, Names
  <2>3. 9999 \in Int /\ 10000 \in Nat \ {0}
    OBVIOUS
  <2> QED BY <2>2, <2>3
<1>6. Sells("main", MainBases, "USDT", 1, 1) \in S
  <2>1. \A c \in C : <<"main", c>> \in FromSweep
    BY <1>2, Names
  <2>2. \A n \in Int, d \in Nat \ {0} : Sells("main", MainBases, "USDT", n, d) \in S
    BY <1>1, <2>1, SellsIn, Names
  <2>3. 1 \in Int /\ 1 \in Nat \ {0}
    OBVIOUS
  <2> QED BY <2>2, <2>3
<1>7. \A p, q \in S : p \o q \in S
  BY BehindIn
<1> HIDE DEF S
<1>8. t \in S
  BY <1>4, <1>5, <1>7
<1> HIDE DEF t
<1>20. SweepSubs(k) \in S
  <2>2. CASE k = 1
    BY <1>3, <1>4, <2>2
  <2>3. CASE k = 2
    BY <1>30, <1>8, <2>3
  <2>4. CASE k = 3
    BY <1>3, <1>6, <2>4
  <2>5. CASE k \notin {1, 2, 3}
    BY <1>3, <1>4, <2>5
  <2> QED BY <2>2, <2>3, <2>4, <2>5
<1> QED BY <1>20 DEF S

\* One step of clearing the dust of an account pays from some account.
LEMMA DustOfIn ==
  ASSUME Typed, NEW a \in Accounts, NEW step \in Nat
  PROVE  DustOf(a, step) \in Seq(Plain(Everything))
<1> DEFINE S == Seq(Plain(Everything))
           bases == IF a \in Zar THEN ZarBases ELSE <<"JUP", "XAUT">>
           quote == IF a \in Zar THEN "ZAR" ELSE "USDT"
           away == IF a \in Usdc THEN <<"USDC", "EURC">> ELSE Away
<1>1. bases \in Seq(Currencies) /\ quote \in Currencies /\ away \in Seq(Currencies)
  BY ListsIn, Names
<1>2. \/ DustOf(a, step) = <<Look(a)>>
      \/ DustOf(a, step) = Sells(a, bases, quote, 99, 100) \o <<Look(a)>>
      \/ DustOf(a, step) = BuyUsdt(a, D(10), 99, 100) \o <<Look(a)>>
      \/ DustOf(a, step) = Sweeps(a, away, 99, 100)
      \/ DustOf(a, step) = <<>>
  BY DEF DustOf
<1> HIDE DEF bases, quote, away
<1>3. 99 \in Int /\ 100 \in Nat \ {0}
  OBVIOUS
<1>4. Sells(a, bases, quote, 99, 100) \in S
  BY <1>1, <1>3, SellAnyIn
<1>5. Sweeps(a, away, 99, 100) \in S
  <2>1. "ZAR" \in Currencies
    BY Names
  <2>2. \A n \in Int, d \in Nat \ {0} : Sweeps(a, away, n, d) \in S
    BY <1>1, <2>1, SellAnyIn
  <2> QED BY <1>3, <2>2
<1>6. BuyUsdt(a, D(10), 99, 100) \in S
  BY <1>3, BuyUsdtIn, AccountPayer, Names
<1>7. <<Look(a)>> \in S /\ <<>> \in S
  BY LookIn, OneIn
<1>8. \A p, q \in S : p \o q \in S
  BY BehindIn
<1> HIDE DEF S
<1>20. DustOf(a, step) \in S
  <2>1. Sells(a, bases, quote, 99, 100) \o <<Look(a)>> \in S
    BY <1>4, <1>7, <1>8
  <2>2. BuyUsdt(a, D(10), 99, 100) \o <<Look(a)>> \in S
    BY <1>6, <1>7, <1>8
  <2> QED BY <1>2, <1>5, <1>7, <2>1, <2>2
<1> QED BY <1>20 DEF S

\* At every stage the dust script asks only for requests that pay from any account.
LEMMA DustIn == ASSUME Typed, NEW k \in Nat PROVE Dust(k) \in Seq(Plain(Everything))
<1>1. CASE k \in 1..24
  <2>1. 1 + ((k - 1) \div 4) \in 1..6 /\ 1 + ((k - 1) % 4) \in Nat
    BY <1>1
  <2>2. \A i \in 1..6 : SixSubs[i] \in Accounts
    BY SubLists, Names
  <2>3. SixSubs[1 + ((k - 1) \div 4)] \in Accounts
    BY <2>1, <2>2
  <2>4. Len(SixSubs) = 6
    BY SweptIn, SubLists
  <2> QED BY <1>1, <2>1, <2>3, <2>4, DustOfIn DEF Dust
<1>2. CASE k \notin 1..24
  <2>1. Len(SixSubs) = 6
    BY SweptIn, SubLists
  <2> QED BY <1>2, <2>1, EndIn, OneIn DEF Dust, Codes
<1> QED BY <1>1, <1>2

\* The steps of draining an account pay from its EURC, from its USDC and otherwise from its rand.
LEMMA DrainOfIn ==
  ASSUME Typed, NEW a \in Accounts, NEW step \in 1..4, NEW P,
         step = 2 => <<a, "EURC">> \in P, step = 3 => <<a, "USDC">> \in P, step \notin {2, 3} => <<a, "ZAR">> \in P
  PROVE  DrainOf(a, step) \in Seq(Paying(P))
<1> DEFINE excess(c, keep) == Over(Get(seen, a, c) - keep)
           eurc == excess("EURC", ReserveEurc)   usdc == excess("USDC", ReserveUsdc)
           order(give, get, n, least) == When(n >= least, <<Quits(Ioc(Trade(a, give, get, Part(n, 98, 100))), 1)>>)
           S == Paying(P)
<1>1. ASSUME NEW give \in Currencies, NEW get \in Currencies, NEW n \in Int, <<a, give>> \in P
      PROVE  \A least : order(give, get, n, least) \in Seq(S)
  <2>1. Part(n, 98, 100) \in Int
    BY PartInt
  <2>2. Ioc(Trade(a, give, get, Part(n, 98, 100))) \in Plain(P)
    BY <2>1, <1>1, TradeIn, IocIn
  <2>3. Ioc(Trade(a, give, get, Part(n, 98, 100))).op \in Spends
    BY DEF Ioc, Trade, Request, Spends
  <2>4. 1 \in Nat /\ 1 # All
    BY DEF All
  <2>5. Quits(Ioc(Trade(a, give, get, Part(n, 98, 100))), 1) \in S
    BY <2>2, <2>3, <2>4, QuitsIn
  <2> HIDE DEF S
  <2> QED BY <2>5, WhenOneIn
<1>2. eurc \in Int /\ usdc \in Int /\ Get(seen, a, "ZAR") \in Int
  <2>1. Get(seen, a, "EURC") - ReserveEurc \in Int /\ Get(seen, a, "USDC") - ReserveUsdc \in Int
    BY Known, DollarsTyped DEF ReserveEurc, ReserveUsdc
  <2> QED BY <2>1, Known, Amounts
<1>3. ASSUME NEW cs \in SUBSET Currencies PROVE <<LookFor(a, cs)>> \in Seq(S)
  BY LookForIn, PlainPaying, OneIn
<1>4. {"EURC", "USDC"} \in SUBSET Currencies /\ {"USDC"} \in SUBSET Currencies /\ {"ZAR"} \in SUBSET Currencies
  BY Names
<1>5. /\ step = 1 => DrainOf(a, step) = <<LookFor(a, {"EURC", "USDC"})>>
      /\ step = 2 => \/ DrainOf(a, step) = order("EURC", "USDC", eurc, D(1)) \o <<LookFor(a, {"USDC"})>>
                     \/ DrainOf(a, step) = <<>>
      /\ step = 3 => \/ DrainOf(a, step) = order("USDC", "ZAR", usdc, D(5)) \o <<LookFor(a, {"ZAR"})>>
                     \/ DrainOf(a, step) = <<>>
      /\ step = 4 => DrainOf(a, step) = order("ZAR", "USDT", Get(seen, a, "ZAR"), D(10))
  BY DEF DrainOf
<1>6. <<>> \in Seq(S) /\ \A p, q \in Seq(S) : p \o q \in Seq(S)
  BY BehindIn
<1> HIDE DEF S, eurc, usdc, order
<1>7. /\ step = 2 => order("EURC", "USDC", eurc, D(1)) \in Seq(S)
      /\ step = 3 => order("USDC", "ZAR", usdc, D(5)) \in Seq(S)
      /\ step = 4 => order("ZAR", "USDT", Get(seen, a, "ZAR"), D(10)) \in Seq(S)
  BY <1>1, <1>2, Names
<1>20. DrainOf(a, step) \in Seq(S)
  <2>1. CASE step = 1
    BY <1>3, <1>4, <1>5, <2>1
  <2>2. CASE step = 2
    <3>1. order("EURC", "USDC", eurc, D(1)) \o <<LookFor(a, {"USDC"})>> \in Seq(S)
      BY <1>3, <1>4, <1>6, <1>7, <2>2
    <3> QED BY <1>5, <1>6, <2>2, <3>1
  <2>3. CASE step = 3
    <3>1. order("USDC", "ZAR", usdc, D(5)) \o <<LookFor(a, {"ZAR"})>> \in Seq(S)
      BY <1>3, <1>4, <1>6, <1>7, <2>3
    <3> QED BY <1>5, <1>6, <2>3, <3>1
  <2>4. CASE step = 4
    BY <1>5, <1>7, <2>4
  <2> QED BY <2>1, <2>2, <2>3, <2>4
<1> QED BY <1>20 DEF S

DrainPayers(k) ==
  IF k \in 1..8
  THEN {UsdcSubs[1 + ((k - 1) \div 4)]}
         \X (CASE (k - 1) % 4 = 1 -> {"EURC"} [] (k - 1) % 4 = 2 -> {"USDC"} [] OTHER -> {"ZAR"})
  ELSE {}
\* At every stage the drain asks only for requests that pay from one currency of one account.
LEMMA DrainIn == ASSUME Typed, NEW k \in Nat PROVE Drain(k) \in Seq(Paying(DrainPayers(k)))
<1>1. CASE k \in 1..8
  <2> DEFINE a == UsdcSubs[1 + ((k - 1) \div 4)]   step == 1 + ((k - 1) % 4)
  <2>1. 1 + ((k - 1) \div 4) \in 1..2 /\ step \in 1..4
    BY <1>1
  <2>2. \A i \in 1..2 : UsdcSubs[i] \in Accounts
    BY SubsIn
  <2>3. a \in Accounts
    BY <2>1, <2>2
  <2>4. DrainPayers(k) = {a} \X (CASE step = 2 -> {"EURC"} [] step = 3 -> {"USDC"} [] OTHER -> {"ZAR"})
    <3>1. (step = 2 <=> (k - 1) % 4 = 1) /\ (step = 3 <=> (k - 1) % 4 = 2)
      BY <1>1
    <3> HIDE DEF step
    <3> QED BY <1>1, <3>1 DEF DrainPayers
  <2> HIDE DEF a, step
  <2>5. /\ step = 2 => <<a, "EURC">> \in DrainPayers(k)
        /\ step = 3 => <<a, "USDC">> \in DrainPayers(k)
        /\ step \notin {2, 3} => <<a, "ZAR">> \in DrainPayers(k)
    BY <2>4
  <2>6. Drain(k) = DrainOf(a, step)
    BY <1>1 DEF Drain, a, step
  <2> QED BY <2>1, <2>3, <2>5, <2>6, DrainOfIn
<1>2. CASE k \notin 1..8
  BY <1>2, EndIn, PlainPaying, OneIn DEF Drain, Codes
<1> QED BY <1>1, <1>2

\* Whichever liquidation script runs, the plan of a stage is made of the requests of that stage.
LEMMA LiquidatePlanIn ==
  ASSUME Typed, NEW k \in Nat, script \in LiquidateScripts
  PROVE  LiquidatePlan(k) \in Seq(Asks(k))
<1>1. CASE script \in Sellers
  <2>1. Payers(k) = FromBases
    BY <1>1 DEF Payers, FromBases, Splitters, RestockScripts, TopupScripts, Sellers
  <2>2. LiquidatePlan(k) \in Seq(Paying(FromBases))
    BY <1>1, SellerIn, QuoteListsIn DEF LiquidatePlan, Sellers, ToZar, Rest, SellAll, Simple, Final
  <2> QED BY <2>1, <2>2, AskedIn
<1>2. CASE script = "spot"
  <2>1. Payers(k) = FromSpot
    BY <1>2 DEF Payers, FromSpot, Splitters, RestockScripts, TopupScripts, Sellers
  <2> QED BY <1>2, <2>1, LiqSpotIn, AskedIn DEF LiquidatePlan
<1>3. CASE script = "sweep"
  <2>1. Payers(k) = FromSweep
    BY <1>3 DEF Payers, FromSweep, Splitters, RestockScripts, TopupScripts, Sellers
  <2> QED BY <1>3, <2>1, SweepSubsIn, AskedIn DEF LiquidatePlan
<1>4. CASE script = "drain"
  <2>1. Payers(k) = DrainPayers(k)
    BY <1>4 DEF Payers, DrainPayers, Splitters, RestockScripts, TopupScripts, Sellers
  <2> QED BY <1>4, <2>1, DrainIn, AskedIn DEF LiquidatePlan
<1>5. CASE script \in {"liqAll", "convert", "dust"}
  <2>1. Payers(k) = Everything
    BY <1>5 DEF Payers, Splitters, RestockScripts, TopupScripts, Sellers
  <2>2. LiquidatePlan(k) \in Seq(Plain(Everything))
    BY <1>5, LiqAllIn, Convert95In, DustIn DEF LiquidatePlan
  <2> QED BY <2>1, <2>2, AskedIn
<1> QED BY <1>1, <1>2, <1>3, <1>4, <1>5 DEF LiquidateScripts, Sellers

-----------------------------------------------------------------------------
(* Replenish.                                                              *)

\* The quote of an account is a currency.
LEMMA QuoteOfIn == \A a : QuoteOf(a) \in Quotes /\ QuoteOf(a) \in Currencies
BY Names DEF QuoteOf

\* The bases sold for a buffer are a sequence of currencies.
LEMMA BufferBasesIn ==
  ASSUME NEW a
  PROVE  /\ BufferBases(a) \in Seq(Currencies)
         /\ Len(BufferBases(a)) \in Nat /\ \A i \in 1..Len(BufferBases(a)) : BufferBases(a)[i] \in Currencies
<1>1. <<"BTC", "ETH", "USDC", "XAUT">> \in Seq(Currencies) /\ <<"JUP", "XAUT">> \in Seq(Currencies)
  BY Names, ShortSeqsIn, TwoIn
<1>2. BufferBases(a) \in Seq(Currencies)
  <2>1. <<>> \in Seq(Currencies)
    OBVIOUS
  <2> QED BY <1>1, <2>1 DEF BufferBases
<1> QED BY <1>2, LenProperties, ElementOfSeq

\* The most that may be sold of a base is an integer.
LEMMA MaxSellInt == ASSUME Typed, NEW a \in Accounts, NEW b PROVE MaxSell(a, b) \in Int
<1>1. Get(seen, a, b) \in Int /\ Get(seen, a, b) \div 2 \in Int
  BY Known
<1>2. Part(Get(seen, a, b), 99, 100) \in Int
  BY <1>1, PartInt
<1> QED BY <1>1, <1>2 DEF MaxSell

\* What has been raised, and by which sales.
Raised(P) == [raised : Int, sells : Seq(Plain(P))]
\* One step of raising a buffer adds sales of one base of the account to what is already planned.
LEMMA RaiseIn ==
  ASSUME Typed, NEW a \in Accounts, NEW P, NEW need \in Int, NEW acc \in Raised(P), NEW b \in Currencies,
         <<a, b>> \in P
  PROVE  Raise(a, need, acc, b) \in Raised(P)
<1> DEFINE q      == QuoteOf(a)   rest == need - acc.raised
           most   == MaxSell(a, b)   value == Convert(most, b, q)
           amount == IF value >= rest THEN Part(Convert(rest, q, b), 98, 100) ELSE most
<1>1. acc.raised \in Int /\ acc.sells \in Seq(Plain(P))
  BY DEF Raised
<1>2. amount \in Int
  <2>1. rest \in Int /\ most \in Int
    BY <1>1, MaxSellInt
  <2> HIDE DEF rest, most
  <2>2. Convert(rest, q, b) \in Int
    BY <2>1, ConvertInt
  <2>3. Part(Convert(rest, q, b), 98, 100) \in Int
    BY <2>2, PartInt
  <2> QED BY <2>1, <2>3
<1> HIDE DEF amount
<1>3. Trade(a, b, q, amount) \in Plain(P) /\ acc.raised + Convert(amount, b, q) \in Int
  BY <1>1, <1>2, ConvertInt, TradeIn, QuoteOfIn
<1>4. Append(acc.sells, Trade(a, b, q, amount)) \in Seq(Plain(P))
  BY <1>1, <1>3, AppendProperties
<1>5. [raised |-> acc.raised + Convert(amount, b, q), sells |-> Append(acc.sells, Trade(a, b, q, amount))] \in Raised(P)
  BY <1>3, <1>4 DEF Raised
<1> QED BY <1>5 DEF Raise, amount

\* The sales are found one base after the other.
LEMMA RaiseRuns ==
  ASSUME Typed, NEW a \in Accounts, NEW P, NEW need \in Int,
         \A i \in 1..Len(BufferBases(a)) : <<a, BufferBases(a)[i]>> \in P
  PROVE  \E g \in [0..Len(BufferBases(a)) -> Raised(P)] :
           /\ g[0] = [raised |-> 0, sells |-> <<>>]
           /\ \A i \in 1..Len(BufferBases(a)) : g[i] = Raise(a, need, g[i - 1], BufferBases(a)[i])
           /\ BufferSells(a, need) = g[Len(BufferBases(a))].sells
<1> DEFINE n == Len(BufferBases(a))
           bs == BufferBases(a)
           none == [raised |-> 0, sells |-> <<>>]
           V == Raised(P)
           Is(p) == p = [i \in 0..n |-> IF i = 0 THEN none ELSE Raise(a, need, p[i - 1], bs[i])]
           p0 == CHOOSE p : Is(p)
<1>1. BufferSells(a, need) = p0[n].sells
  BY DEF BufferSells
<1>2. n \in Nat /\ \A i \in 1..n : bs[i] \in Currencies
  BY BufferBasesIn
<1>20. none \in V
  <2>1. <<>> \in Seq(Plain(P)) /\ 0 \in Int
    OBVIOUS
  <2> QED BY <2>1 DEF Raised
<1>21. \A i \in 1..n : \A u \in V : Raise(a, need, u, bs[i]) \in V
  <2> HIDE DEF V
  <2> SUFFICES ASSUME NEW i \in 1..n, NEW u \in V PROVE Raise(a, need, u, bs[i]) \in V
    OBVIOUS
  <2> QED BY <1>2, RaiseIn DEF V
<1> HIDE DEF none, V, bs
<1>3. \E p \in [0..n -> V] : Is(p)
  <2> DEFINE G == [i \in 1..n |-> [u \in V |-> Raise(a, need, u, bs[i])]]
  <2>1. \A i \in 1..n : \A u \in V : G[i][u] = Raise(a, need, u, bs[i]) /\ G[i][u] \in V
    BY <1>21
  <2> DEFINE first == IF n = 0 THEN none ELSE Raise(a, need, none, bs[1])
  <2>2. first \in V
    BY <1>2, <1>20, <1>21
  <2>3. n # 0 => first = Raise(a, need, none, bs[1])
    OBVIOUS
  <2> HIDE DEF G, n, first
  <2>4. PICK t \in [1..n -> V] : Runs(first, G, n, t)
    BY <1>2, <2>1, <2>2, RunExists
  <2> DEFINE p == [i \in 0..n |-> IF i = 0 THEN none ELSE t[i]]
  <2>5. p \in [0..n -> V]
    BY <1>2, <1>20
  <2>6. ASSUME NEW i \in 0..n PROVE p[i] = IF i = 0 THEN none ELSE Raise(a, need, p[i - 1], bs[i])
    <3>1. CASE i = 0
      BY <3>1
    <3>2. CASE i = 1
      <4>1. t[1] = Raise(a, need, none, bs[1])
        BY <1>2, <2>3, <2>4, <3>2 DEF Runs
      <4>2. p[0] = none /\ p[1] = t[1]
        BY <1>2, <3>2
      <4> HIDE DEF p
      <4> QED BY <3>2, <4>1, <4>2
    <3>3. CASE i > 1
      <4>1. i \in 1..n /\ i - 1 \in 1..n /\ t[i] = G[i][t[i - 1]]
        BY <1>2, <2>4, <3>3 DEF Runs
      <4>2. t[i] = Raise(a, need, t[i - 1], bs[i])
        BY <2>1, <4>1
      <4>3. p[i] = t[i] /\ p[i - 1] = t[i - 1]
        BY <1>2, <3>3, <4>1
      <4> HIDE DEF p
      <4> QED BY <3>3, <4>2, <4>3
    <3> QED BY <1>2, <3>1, <3>2, <3>3
  <2> HIDE DEF p
  <2>7. p = [i \in 0..n |-> p[i]]
    BY <2>5
  <2>8. Is(p)
    BY <2>6, <2>7, Zenon
  <2> QED BY <2>5, <2>8
<1>4. PICK p1 \in [0..n -> V] : Is(p1)
  BY <1>3
<1>5. Is(p0)
  BY <1>4, Zenon
<1>6. \A i \in 0..n : p0[i] = IF i = 0 THEN none ELSE Raise(a, need, p0[i - 1], bs[i])
  <2>1. p0 = [i \in 0..n |-> IF i = 0 THEN none ELSE Raise(a, need, p0[i - 1], bs[i])]
    BY <1>5 DEF Is
  <2> HIDE DEF n, p0
  <2> QED BY <2>1
<1>7. p0 = [i \in 0..n |-> p0[i]]
  <2>1. p0 = [i \in 0..n |-> IF i = 0 THEN none ELSE Raise(a, need, p0[i - 1], bs[i])]
    BY <1>5 DEF Is
  <2> HIDE DEF n, p0
  <2> QED BY <2>1, <1>6
<1> HIDE DEF p0, Is
<1> DEFINE T == {k \in 1..n : p0[k] \in V}
<1>8. p0[0] = none
  BY <1>2, <1>6
<1>9. ASSUME NEW k \in 1..n, k = 1 \/ k - 1 \in T PROVE k \in T
  <2>1. p0[k - 1] \in V
    BY <1>8, <1>9, <1>20
  <2>2. p0[k] = Raise(a, need, p0[k - 1], bs[k])
    BY <1>2, <1>6
  <2> QED BY <1>21, <2>1, <2>2
<1>10. 1..n \subseteq T
  <2> HIDE DEF T, n
  <2> QED BY <1>2, <1>9, Inductive
<1>11. p0 \in [0..n -> V]
  <2>1. \A i \in 0..n : p0[i] \in V
    BY <1>2, <1>8, <1>10, <1>20
  <2> QED BY <1>7, <2>1
<1>12. \A i \in 1..n : p0[i] = Raise(a, need, p0[i - 1], bs[i])
  BY <1>2, <1>6
<1> HIDE DEF n
<1> QED BY <1>1, <1>8, <1>11, <1>12 DEF n, bs, none, V

\* The sales that raise a buffer are requests of some account.
LEMMA BufferSellsIn ==
  ASSUME Typed, NEW a \in Accounts, NEW need \in Int
  PROVE  BufferSells(a, need) \in Seq(Plain(Everything))
<1> DEFINE n == Len(BufferBases(a))
<1>1. \A i \in 1..n : <<a, BufferBases(a)[i]>> \in Everything
  BY BufferBasesIn DEF Everything
<1>2. PICK g \in [0..n -> Raised(Everything)] : BufferSells(a, need) = g[n].sells
  BY <1>1, RaiseRuns
<1>3. n \in 0..n
  BY BufferBasesIn
<1>4. g[n] \in Raised(Everything)
  BY <1>2, <1>3
<1> QED BY <1>2, <1>4 DEF Raised

BufferNeed(a) == Over(BufferOf[QuoteOf(a)] - Get(seen, a, QuoteOf(a)))
ShortOf(a) == seen[a] # Unread /\ BufferNeed(a) >= Part(BufferOf[QuoteOf(a)], 5, 100)

\* A buffer and what is missing from it are naturals.
LEMMA BufferInt ==
  ASSUME Typed, NEW a \in Accounts
  PROVE  BufferOf[QuoteOf(a)] \in Nat /\ BufferNeed(a) \in Nat
<1>1. BufferOf[QuoteOf(a)] \in Nat
  BY DEF BufferOf, QuoteOf, D
<1>2. BufferOf[QuoteOf(a)] - Get(seen, a, QuoteOf(a)) \in Int
  BY <1>1, Known
<1> QED BY <1>1, <1>2, Amounts DEF BufferNeed

\* The six accounts with a buffer are subaccounts.
LEMMA BucketSubsIn ==
  /\ BucketSubs \in Seq(Accounts) /\ Len(BucketSubs) = 6
  /\ DOMAIN BucketSubs = 1..6 /\ \A i \in 1..6 : BucketSubs[i] \in Accounts \ {"main"}
BY SubLists, Names, SweptIn

\* The buffer script pays from a subaccount at its second stage and from nowhere at any other.
LEMMA BuffersIn ==
  ASSUME Typed, NEW k \in Nat
  PROVE  Buffers(k) \in Seq(Paying(IF k = 2 THEN Everything ELSE {}))
<1> DEFINE f == [i \in DOMAIN BucketSubs |-> When(ShortOf(BucketSubs[i]), BufferSells(BucketSubs[i], BufferNeed(BucketSubs[i])))]
<1>1. CASE k = 1
  <2>1. Buffers(k) = Each(BucketSubs, LAMBDA a : <<Lenient(Look(a))>>)
    BY <1>1 DEF Buffers, Each
  <2>2. Buffers(k) \in Seq(Plain({}))
    BY <2>1, BucketSubsIn, EachLookIn DEF Each
  <2> QED BY <1>1, <2>2, PlainSeq
<1>2. CASE k = 2
  <2>1. Buffers(k) = FlattenSeq(f)
    BY <1>2 DEF Buffers, Each, BufferNeed, ShortOf
  <2>2. \A i \in DOMAIN BucketSubs : f[i] \in Seq(Plain(Everything))
    <3> SUFFICES ASSUME NEW i \in DOMAIN BucketSubs PROVE f[i] \in Seq(Plain(Everything))
      OBVIOUS
    <3>1. BucketSubs[i] \in Accounts
      BY BucketSubsIn
    <3>2. BufferNeed(BucketSubs[i]) \in Int
      BY <3>1, BufferInt
    <3>3. BufferSells(BucketSubs[i], BufferNeed(BucketSubs[i])) \in Seq(Plain(Everything))
      BY <3>1, <3>2, BufferSellsIn
    <3> QED BY <3>3, WhenIn
  <2>3. f = [i \in DOMAIN BucketSubs |-> f[i]]
    OBVIOUS
  <2> HIDE DEF f
  <2>4. FlattenSeq(f) \in Seq(Plain(Everything))
    BY <2>2, <2>3, BucketSubsIn, FlatEach
  <2> QED BY <1>2, <2>1, <2>4, PlainSeq
<1>3. CASE k \notin {1, 2}
  <2>1. Buffers(k) = <<End("0")>>
    BY <1>3 DEF Buffers
  <2>2. <<End("0")>> \in Seq(Plain({}))
    BY EndIn, OneIn DEF Codes
  <2> QED BY <1>3, <2>1, <2>2, PlainSeq
<1> QED BY <1>1, <1>2, <1>3

-----------------------------------------------------------------------------
(* rebuild_inventory.py                                                    *)

\* Its pairs are of bases.
Held == {p \in Market : p.base \in Bases /\ p.subs[1] # "main" /\ p.subs[2] # "main"}
\* The three pairs whose inventory is levelled are pairs held in subaccounts.
LEMMA HeldIn ==
  /\ HeldPairs \in Seq(Held) /\ HeldPairs = [i \in 1..3 |-> HeldPairs[i]]
  /\ \A i \in 1..3 : HeldPairs[i] \in Held
<1>1. \A s \in {ZarSubs, UsdtSubs, UsdcSubs} : s[1] # "main" /\ s[2] # "main"
  BY DEF ZarSubs, UsdtSubs, UsdcSubs
<1>2. /\ Pair("BTC", "ZAR", ZarSubs) \in Held /\ Pair("JUP", "USDT", UsdtSubs) \in Held
      /\ Pair("XAUT", "USDT", UsdtSubs) \in Held
  <2>1. /\ Pair("BTC", "ZAR", ZarSubs) \in Market /\ Pair("JUP", "USDT", UsdtSubs) \in Market
        /\ Pair("XAUT", "USDT", UsdtSubs) \in Market
    BY PairIn, Names
  <2> QED BY <1>1, <2>1, Names DEF Held, Pair
<1>3. HeldPairs \in Seq(Held)
  BY <1>2, ShortSeqsIn DEF HeldPairs
<1>4. HeldPairs = [i \in 1..3 |-> HeldPairs[i]]
  BY DEF HeldPairs
<1>5. \A i \in 1..3 : HeldPairs[i] \in Held
  BY <1>2 DEF HeldPairs
<1> QED BY <1>3, <1>4, <1>5

\* The parts of a held pair: its base and its two subaccounts, neither of them main.
LEMMA HeldTyped ==
  ASSUME NEW p \in Held
  PROVE  /\ p \in Market /\ p.base \in Bases /\ p.base \in Currencies /\ p.quote \in Currencies
         /\ p.subs[1] \in Accounts \ {"main"} /\ p.subs[2] \in Accounts \ {"main"}
         /\ p.subs = [i \in 1..2 |-> p.subs[i]] /\ DOMAIN p.subs = 1..2
         /\ \A i \in 1..2 : p.subs[i] \in Accounts \ {"main"}
         /\ p.subs \in {ZarSubs, UsdtSubs, UsdcSubs, BtcSubs}
<1>1. p \in Market /\ p.subs \in {ZarSubs, UsdtSubs, UsdcSubs, BtcSubs}
  BY DEF Held, Market
<1>2. p.subs = [i \in 1..2 |-> p.subs[i]]
  BY <1>1 DEF ZarSubs, UsdtSubs, UsdcSubs, BtcSubs
<1>3. p.subs[1] \in Accounts \ {"main"} /\ p.subs[2] \in Accounts \ {"main"}
  BY <1>1, SubsIn DEF Held
<1>4. \A i \in 1..2 : i = 1 \/ i = 2
  OBVIOUS
<1>5. \A i \in 1..2 : p.subs[i] \in Accounts \ {"main"}
  BY <1>3, <1>4
<1> QED BY <1>1, <1>2, <1>3, <1>5, SubsIn, MarketTyped DEF Held

\* The dollar value of what an account holds of a base is a natural, and the target is $17.50.
LEMMA UsdInt ==
  ASSUME Typed, NEW v \in [Accounts -> Books], NEW a \in Accounts, NEW p
  PROVE  Usd(v, a, p) \in Nat /\ PerSub \in Nat /\ PerSub = 1750
<1>1. Get(v, a, p.base) \in Nat
  BY GetNat
<1> QED BY <1>1 DEF Usd, PerSub

\* What one subaccount sells of a pair, and what it buys.
InvSell(a, p) == When(Holds(seen, a, p) /\ Usd(seen, a, p) > PerSub + D(5),
                      <<Trade(a, p.base, p.quote, Usd(seen, a, p) - PerSub)>>)
InvBuy(a, p) == When(Holds(old, a, p) /\ Usd(old, a, p) < PerSub - D(5), <<[pair |-> p, short |-> PerSub - Usd(old, a, p)]>>)
InvSells(p) == FlattenSeq([i \in DOMAIN p.subs |-> InvSell(p.subs[i], p)])
InvBuys(p) == FlattenSeq([i \in DOMAIN p.subs |-> InvBuy(p.subs[i], p)])
Shorts == [pair : Held, short : Int]

\* The sales and the shortfalls of the inventory script are those of its three pairs in turn.
LEMMA InvParts ==
  /\ InventorySells = FlattenSeq([i \in DOMAIN HeldPairs |-> InvSells(HeldPairs[i])])
  /\ InventoryBuys = FlattenSeq([i \in DOMAIN HeldPairs |-> InvBuys(HeldPairs[i])])
BY DEF InventorySells, InventoryBuys, InvSells, InvBuys, InvSell, InvBuy, Each

\* The sales of a pair pay from the bases of subaccounts, and its shortfalls are shortfalls.
LEMMA InvSellsIn ==
  ASSUME Typed, NEW p \in Held
  PROVE  InvSells(p) \in Seq(Plain((Accounts \ {"main"}) \X Bases)) /\ InvBuys(p) \in Seq(Shorts)
<1> DEFINE P == (Accounts \ {"main"}) \X Bases
           f == [i \in DOMAIN p.subs |-> InvSell(p.subs[i], p)]
           g == [i \in DOMAIN p.subs |-> InvBuy(p.subs[i], p)]
<1>1. ASSUME NEW i \in 1..2 PROVE f[i] \in Seq(Plain(P)) /\ g[i] \in Seq(Shorts)
  <2>1. p.subs[i] \in Accounts \ {"main"} /\ i \in DOMAIN p.subs
    BY HeldTyped
  <2>2. <<p.subs[i], p.base>> \in P
    BY <2>1, HeldTyped
  <2>3. Usd(seen, p.subs[i], p) \in Nat /\ Usd(old, p.subs[i], p) \in Nat
    BY <2>1, UsdInt DEF Typed
  <2>4. Usd(seen, p.subs[i], p) - PerSub \in Int /\ PerSub - Usd(old, p.subs[i], p) \in Int
    BY <2>3 DEF PerSub
  <2> HIDE DEF P
  <2>5. Trade(p.subs[i], p.base, p.quote, Usd(seen, p.subs[i], p) - PerSub) \in Plain(P)
    BY <2>1, <2>2, <2>4, HeldTyped, TradeIn
  <2>6. InvSell(p.subs[i], p) \in Seq(Plain(P))
    BY <2>5, WhenOneIn DEF InvSell
  <2>7. [pair |-> p, short |-> PerSub - Usd(old, p.subs[i], p)] \in Shorts
    BY <2>4 DEF Shorts
  <2>8. InvBuy(p.subs[i], p) \in Seq(Shorts)
    BY <2>7, WhenOneIn DEF InvBuy
  <2> QED BY <2>1, <2>6, <2>8
<1>2. f = [i \in 1..2 |-> f[i]] /\ g = [i \in 1..2 |-> g[i]]
  BY HeldTyped
<1>3. InvSells(p) = FlattenSeq(f) /\ InvBuys(p) = FlattenSeq(g)
  BY DEF InvSells, InvBuys
<1> HIDE DEF f, g, P
<1>4. FlattenSeq(f) \in Seq(Plain(P))
  BY <1>1, <1>2, FlatOver
<1>5. FlattenSeq(g) \in Seq(Shorts)
  BY <1>1, <1>2, FlatOver
<1> QED BY <1>3, <1>4, <1>5 DEF P

\* The same of all three pairs together.
LEMMA InventoryPartsIn ==
  ASSUME Typed
  PROVE  /\ InventorySells \in Seq(Plain((Accounts \ {"main"}) \X Bases))
         /\ InventoryBuys \in Seq(Shorts) /\ Len(InventoryBuys) \in Nat
         /\ \A i \in DOMAIN InventoryBuys : InventoryBuys[i] \in Shorts
<1> DEFINE P == (Accounts \ {"main"}) \X Bases
           f == [i \in DOMAIN HeldPairs |-> InvSells(HeldPairs[i])]
           g == [i \in DOMAIN HeldPairs |-> InvBuys(HeldPairs[i])]
<1>1. DOMAIN HeldPairs = 1..3
  BY HeldIn
<1>2. f = [i \in 1..3 |-> f[i]] /\ g = [i \in 1..3 |-> g[i]]
  BY <1>1
<1>3. \A i \in 1..3 : f[i] \in Seq(Plain(P)) /\ g[i] \in Seq(Shorts)
  BY <1>1, HeldIn, InvSellsIn
<1> HIDE DEF f, g, P
<1>4. FlattenSeq(f) \in Seq(Plain(P))
  BY <1>2, <1>3, FlatOver
<1>5. FlattenSeq(g) \in Seq(Shorts)
  BY <1>2, <1>3, FlatOver
<1>6. InventorySells \in Seq(Plain(P)) /\ InventoryBuys \in Seq(Shorts)
  BY <1>4, <1>5, InvParts DEF f, g
<1>7. \A s \in Seq(Shorts) : Len(s) \in Nat /\ \A i \in DOMAIN s : s[i] \in Shorts
  OBVIOUS
<1> QED BY <1>6, <1>7 DEF P

\* Sweeping the excess of a subaccount pays from its own quote.
LEMMA SweepExcessIn ==
  ASSUME Typed, NEW i \in 1..6
  PROVE  SweepExcess(BucketSubs[i]) \in Seq(Plain({<<BucketSubs[i], QuoteOf(BucketSubs[i])>>}))
<1> DEFINE a == BucketSubs[i]
           P == {<<a, QuoteOf(a)>>}
           excess == Get(seen, a, QuoteOf(a)) - BufferOf[QuoteOf(a)]
<1>1. a \in Accounts
  BY BucketSubsIn
<1>2. excess \in Int
  BY <1>1, Known, BufferInt
<1>3. <<a, QuoteOf(a)>> \in P
  OBVIOUS
<1>4. SweepExcess(a) = When(excess > D(1), <<Move(a, "main", QuoteOf(a), excess)>>)
  BY DEF SweepExcess
<1> HIDE DEF a, P, excess
<1>5. Move(a, "main", QuoteOf(a), excess) \in Plain(P)
  BY <1>1, <1>2, <1>3, MoveIn, QuoteOfIn, Names
<1>6. SweepExcess(a) \in Seq(Plain(P))
  BY <1>4, <1>5, WhenOneIn
<1> QED BY <1>6 DEF a, P

\* The conversion that funds the inventory buys pays from main.
LEMMA InventoryConversionIn == ASSUME Typed PROVE InventoryConversion \in Seq(Paying(FromMain))
<1> DEFINE s == [i \in DOMAIN InventoryBuys |->
                  IF InventoryBuys[i].pair.quote = "ZAR" THEN InventoryBuys[i].short ELSE 0]
           needed == SumOf(s)
           cvt    == Less(Main("USDT"), Part(InZar(needed - Main("ZAR")), 11, 10))
<1>1. s \in Seq(Int)
  <2>1. \A i \in DOMAIN InventoryBuys : InventoryBuys[i].short \in Int
    BY InventoryPartsIn DEF Shorts
  <2>2. DOMAIN InventoryBuys = 1..Len(InventoryBuys) /\ Len(InventoryBuys) \in Nat
    BY InventoryPartsIn
  <2> QED BY <2>1, <2>2
<1>2. InventoryConversion = When(needed > Main("ZAR") /\ Main("USDT") > D(5),
                                 <<Trade("main", "USDT", "ZAR", cvt), Blank(Look("main"))>>)
  BY DEF InventoryConversion
<1> HIDE DEF s
<1>3. cvt \in Int
  <2>1. needed \in Int /\ Main("ZAR") \in Int /\ Main("USDT") \in Int
    BY <1>1, SumInt, Known, Names
  <2>2. InZar(needed - Main("ZAR")) \in Int
    BY <2>1, Amounts
  <2>3. Part(InZar(needed - Main("ZAR")), 11, 10) \in Int
    BY <2>2, PartInt
  <2> QED BY <2>1, <2>3, Amounts
<1> HIDE DEF needed, cvt
<1>4. Trade("main", "USDT", "ZAR", cvt) \in Plain(FromMain) /\ Blank(Look("main")) \in Paying(FromMain)
  BY <1>3, TradeIn, MainIn, Names, BlankLookIn
<1>5. Trade("main", "USDT", "ZAR", cvt) \in Paying(FromMain)
  BY <1>4, PlainPaying
<1>6. <<Trade("main", "USDT", "ZAR", cvt), Blank(Look("main"))>> \in Seq(Paying(FromMain))
  BY <1>4, <1>5, TwoIn
<1> QED BY <1>2, <1>6, WhenIn

\* A purchase, with the jump over the rest of it.
InvAsks == Paying(FromMain) \cup {Jump(2)}
\* A step of an inventory buy pays from main or jumps over the stages of that buy.
LEMMA InventoryBuyIn ==
  ASSUME Typed, NEW n \in Shorts, NEW step
  PROVE  InventoryBuy(n, step) \in Seq(InvAsks)
<1> DEFINE p == n.pair   spend == Convert(n.short, "USDT", p.quote)
           bought == Main(p.quote) >= spend \div 2
           some == Part(Main(p.quote), 9, 20)
           half == Part(Main(p.base), 999, 2000)
           S == InvAsks
<1>1. p \in Held /\ n.short \in Int
  BY DEF Shorts
<1>2. p.base \in Currencies /\ p.quote \in Currencies /\ p.subs \in {ZarSubs, UsdtSubs, UsdcSubs, BtcSubs}
  BY <1>1, HeldTyped
<1>3. spend \in Int /\ some \in Int /\ half \in Int
  <2>1. Main(p.quote) \in Int /\ Main(p.base) \in Int
    BY Known, Names
  <2>2. spend \in Int
    BY <1>1, ConvertInt
  <2>3. 9 \in Int /\ 20 \in Nat \ {0} /\ 999 \in Int /\ 2000 \in Nat \ {0}
    OBVIOUS
  <2>4. \A x, y \in Int, d \in Nat \ {0} : Part(x, y, d) \in Int
    BY PartInt
  <2> QED BY <2>1, <2>2, <2>3, <2>4
<1>4. InventoryBuy(n, step) =
        IF step = 0 THEN When(bought, <<Trade("main", p.quote, p.base, spend), Blank(Look("main"))>>)
                           \o When(~bought, <<Jump(2)>>)
        ELSE IF step = 1 THEN When(Main(p.base) > 0, Both(p.subs, p.base, half))
                                \o <<Blank(Look("main"))>>
        ELSE When(Main(p.quote) > D(10) /\ some > D(5), Both(p.subs, p.quote, some))
  BY DEF InventoryBuy
<1> HIDE DEF p, spend, bought, some, half
<1>5. Trade("main", p.quote, p.base, spend) \in S /\ Blank(Look("main")) \in S /\ Jump(2) \in S
  <2>1. <<"main", p.quote>> \in FromMain /\ "main" \in Accounts
    BY <1>2, MainIn, Names
  <2>2. Trade("main", p.quote, p.base, spend) \in Plain(FromMain)
    BY <1>2, <1>3, <2>1, TradeIn
  <2>3. Blank(Look("main")) \in Paying(FromMain)
    BY <2>1, BlankLookIn
  <2> QED BY <2>2, <2>3, PlainPaying DEF InvAsks
<1>6. Both(p.subs, p.base, half) \in Seq(S) /\ Both(p.subs, p.quote, some) \in Seq(S)
  <2>0. Both(p.subs, p.base, half) \in Seq(Plain(FromMain)) /\ Both(p.subs, p.quote, some) \in Seq(Plain(FromMain))
    BY <1>2, <1>3, BothMainIn
  <2>1. Both(p.subs, p.base, half) \in Seq(Paying(FromMain))
    BY <2>0, PlainSeq
  <2>2. Both(p.subs, p.quote, some) \in Seq(Paying(FromMain))
    BY <2>0, PlainSeq
  <2>3. Paying(FromMain) \subseteq S
    BY DEF InvAsks
  <2> QED BY <2>1, <2>2, <2>3, SeqMonotonic
<1> HIDE DEF S
<1>7. \A x, y \in Seq(S) : x \o y \in Seq(S)
  BY BehindIn
<1>8. /\ When(bought, <<Trade("main", p.quote, p.base, spend), Blank(Look("main"))>>) \in Seq(S)
      /\ When(~bought, <<Jump(2)>>) \in Seq(S)
      /\ When(Main(p.base) > 0, Both(p.subs, p.base, half)) \in Seq(S)
      /\ <<Blank(Look("main"))>> \in Seq(S)
      /\ When(Main(p.quote) > D(10) /\ some > D(5), Both(p.subs, p.quote, some)) \in Seq(S)
  <2>1. <<Trade("main", p.quote, p.base, spend), Blank(Look("main"))>> \in Seq(S)
    BY <1>5, TwoIn
  <2>2. <<Jump(2)>> \in Seq(S) /\ <<Blank(Look("main"))>> \in Seq(S)
    BY <1>5, OneIn
  <2> QED BY <1>6, <2>1, <2>2, WhenIn
<1>9. /\ When(bought, <<Trade("main", p.quote, p.base, spend), Blank(Look("main"))>>) \o When(~bought, <<Jump(2)>>) \in Seq(S)
      /\ When(Main(p.base) > 0, Both(p.subs, p.base, half)) \o <<Blank(Look("main"))>> \in Seq(S)
  BY <1>7, <1>8
<1>10. InventoryBuy(n, step) \in Seq(S)
  BY <1>4, <1>8, <1>9
<1> QED BY <1>10 DEF S

\* Every stage of the inventory script asks only for what the payers of that stage allow.
LEMMA InventoryIn ==
  ASSUME Typed, NEW k \in Nat, script = "inventory"
  PROVE  Inventory(k) \in Seq(Asks(k))
<1> DEFINE i == k - 11
           again(a) == <<Blank(Look(a))>>
<1>1. /\ k = 2 => Payers(k) = (Accounts \ {"main"}) \X Bases
      /\ k \in 4..9 => Payers(k) = {<<BucketSubs[k - 3], QuoteOf(BucketSubs[k - 3])>>}
      /\ k \notin {2} \cup 4..9 => Payers(k) = FromMain
  BY DEF Payers, Splitters, RestockScripts, TopupScripts, Sellers
<1>2. Paying(Payers(k)) \subseteq Asks(k) /\ (k >= 11 => Asks(k) = InvAsks)
  BY <1>1 DEF Asks, InvAsks
<1>3. ASSUME NEW q \in Seq(Paying(Payers(k))) PROVE q \in Seq(Asks(k))
  BY <1>2, SeqMonotonic
<1>4. /\ k = 1 => Inventory(k) = Each(Append(BucketSubs, "main"), LAMBDA a : <<Blank(Look(a))>>)
      /\ k = 2 => Inventory(k) = InventorySells
      /\ k \in 3..9 => Inventory(k) = When(k > 3, SweepExcess(BucketSubs[k - 3]))
                                        \o again(IF k - 2 \in 1..6 THEN BucketSubs[k - 2] ELSE "main")
      /\ k = 10 => Inventory(k) = InventoryConversion
      /\ k >= 11 => \/ i \div 3 + 1 \in DOMAIN InventoryBuys
                         /\ Inventory(k) = InventoryBuy(InventoryBuys[i \div 3 + 1], i % 3)
                    \/ Inventory(k) = <<End("0")>>
      /\ k = 0 => Inventory(k) = <<End("0")>>
  <2>0. Len(BucketSubs) = 6 /\ DOMAIN InventoryBuys = 1..Len(InventoryBuys) /\ Len(InventoryBuys) \in Nat
    BY BucketSubsIn, InventoryPartsIn
  <2>1. k <= 10 => i \div 3 + 1 \notin DOMAIN InventoryBuys
    <3>1. k <= 10 => i \div 3 + 1 <= 0
      OBVIOUS
    <3>2. \A j \in DOMAIN InventoryBuys : j >= 1
      BY <2>0
    <3> QED BY <3>1, <3>2
  <2>2. k - 6 - 5 = i
    OBVIOUS
  <2> HIDE DEF i
  <2> DEFINE dom == DOMAIN InventoryBuys
             looks == Each(Append(BucketSubs, "main"), LAMBDA a : <<Blank(Look(a))>>)
             between == When(k > 3, SweepExcess(BucketSubs[k - 3]))
                          \o again(IF k - 2 \in 1..6 THEN BucketSubs[k - 2] ELSE "main")
  <2>3. Inventory(k) =
          CASE k = 1 -> looks
            [] k = 2 -> InventorySells
            [] k \in 3..9 -> between
            [] k = 10 -> InventoryConversion
            [] i \div 3 + 1 \in dom -> InventoryBuy(InventoryBuys[i \div 3 + 1], i % 3)
            [] OTHER -> <<End("0")>>
    BY <2>0, <2>2 DEF Inventory, Each
  <2>4. k = 1 => Inventory(k) = Each(Append(BucketSubs, "main"), LAMBDA a : <<Blank(Look(a))>>)
    BY <2>1, <2>0 DEF Inventory, Each
  <2>5. k \in 3..9 => Inventory(k) = between
    <3> HIDE DEF looks, between
    <3> QED BY <2>1, <2>3
  <2> HIDE DEF looks, between
  <2>6. k = 2 => Inventory(k) = InventorySells
    BY <2>1, <2>3
  <2>7. k = 10 => Inventory(k) = InventoryConversion
    BY <2>1, <2>3
  <2> HIDE DEF dom
  <2>8. CASE k >= 11
    <3>1. k # 1 /\ k # 2 /\ k \notin 3..9 /\ k # 10 /\ k # 0
      BY <2>8
    <3>2. i \div 3 + 1 \in dom => Inventory(k) = InventoryBuy(InventoryBuys[i \div 3 + 1], i % 3)
      BY <2>3, <3>1
    <3>3. i \div 3 + 1 \notin dom => Inventory(k) = <<End("0")>>
      BY <2>3, <3>1
    <3> QED BY <3>1, <3>2, <3>3 DEF dom
  <2>9. CASE k = 0
    <3>1. k # 1 /\ k # 2 /\ k \notin 3..9 /\ k # 10 /\ k <= 10 /\ ~(k >= 11)
      BY <2>9
    <3>2. i \div 3 + 1 \notin dom
      BY <2>1, <3>1 DEF dom
    <3>3. Inventory(k) = <<End("0")>>
      BY <2>3, <3>1, <3>2
    <3> QED BY <3>1, <3>3
  <2>10. k <= 10 /\ k # 0 => ~(k >= 11)
    OBVIOUS
  <2> QED BY <2>4, <2>5, <2>6, <2>7, <2>8, <2>9, <2>10 DEF between
<1>5. CASE k = 1
  <2>1. Inventory(k) \in Seq(Paying(Payers(k)))
    BY <1>4, <1>5, SubLists, EachLookIn DEF Each
  <2> QED BY <1>3, <2>1
<1>6. CASE k = 2
  BY <1>1, <1>3, <1>4, <1>6, InventoryPartsIn, PlainSeq
<1>7. CASE k \in 3..9
  <2>1. again(IF k - 2 \in 1..6 THEN BucketSubs[k - 2] ELSE "main") \in Seq(Paying(Payers(k)))
    <3>1. (IF k - 2 \in 1..6 THEN BucketSubs[k - 2] ELSE "main") \in Accounts
      BY BucketSubsIn, Names
    <3> QED BY <3>1, BlankLookIn, OneIn
  <2>2. When(k > 3, SweepExcess(BucketSubs[k - 3])) \in Seq(Paying(Payers(k)))
    <3>1. k > 3 => k - 3 \in 1..6 /\ Payers(k) = {<<BucketSubs[k - 3], QuoteOf(BucketSubs[k - 3])>>}
      BY <1>1, <1>7
    <3>2. k > 3 => SweepExcess(BucketSubs[k - 3]) \in Seq(Plain(Payers(k)))
      BY <3>1, SweepExcessIn
    <3>3. k > 3 => SweepExcess(BucketSubs[k - 3]) \in Seq(Paying(Payers(k)))
      BY <3>2, PlainSeq
    <3> QED BY <3>3, WhenIn
  <2> HIDE DEF again
  <2>3. When(k > 3, SweepExcess(BucketSubs[k - 3])) \o again(IF k - 2 \in 1..6 THEN BucketSubs[k - 2] ELSE "main")
          \in Seq(Paying(Payers(k)))
    BY <2>1, <2>2, BehindIn
  <2>4. Inventory(k) \in Seq(Paying(Payers(k)))
    BY <1>4, <1>7, <2>3
  <2> QED BY <1>3, <2>4
<1>8. CASE k = 10
  <2>1. Payers(k) = FromMain
    BY <1>1, <1>8
  <2> QED BY <1>3, <1>4, <1>8, <2>1, InventoryConversionIn
<1>9. CASE k >= 11
  <2>1. Asks(k) = InvAsks
    BY <1>2, <1>9
  <2>2. <<End("0")>> \in Seq(InvAsks)
    <3>1. End("0") \in InvAsks
      BY EndIn, PlainPaying DEF Codes, InvAsks
    <3> QED BY <3>1, OneIn
  <2>3. i \div 3 + 1 \in DOMAIN InventoryBuys => InventoryBuy(InventoryBuys[i \div 3 + 1], i % 3) \in Seq(InvAsks)
    <3> HIDE DEF i
    <3> QED BY InventoryPartsIn, InventoryBuyIn
  <2> QED BY <1>4, <1>9, <2>1, <2>2, <2>3
<1>10. CASE k = 0
  <2>1. <<End("0")>> \in Seq(Plain(Payers(k)))
    BY EndIn, OneIn DEF Codes
  <2>2. <<End("0")>> \in Seq(Asks(k))
    BY <1>3, <2>1, PlainSeq
  <2> QED BY <1>4, <1>10, <2>2
<1>11. k = 0 \/ k = 1 \/ k = 2 \/ k \in 3..9 \/ k = 10 \/ k >= 11
  OBVIOUS
<1> QED BY <1>5, <1>6, <1>7, <1>8, <1>9, <1>10, <1>11

-----------------------------------------------------------------------------
(* normalize_inventory.py                                                  *)

\* What one subaccount sells of a pair.
NormalSell(a, p) == When(Surplus(a, p.base) > D(2), <<Trade(a, p.base, p.quote, Surplus(a, p.base))>>)
Rich(p) == Price(p.base, p.quote) /\ Get(seen, p.subs[1], p.base) + Get(seen, p.subs[2], p.base) > D(35) + D(5)
NormalSells(p) == FlattenSeq([i \in DOMAIN p.subs |-> NormalSell(p.subs[i], p)])

\* The five pairs of the normaliser are markets.
LEMMA NormalPairsIn ==
  /\ NormalPairs \in Seq(Market) /\ NormalPairs = [i \in 1..5 |-> NormalPairs[i]]
  /\ \A i \in 1..5 : NormalPairs[i] \in Market
<1>1. \A b, q \in Currencies, s \in {ZarSubs, UsdtSubs, UsdcSubs, BtcSubs} : Pair(b, q, s) \in Market
  BY PairIn
<1>2. /\ Pair("BTC", "ZAR", ZarSubs) \in Market /\ Pair("USDC", "ZAR", ZarSubs) \in Market
      /\ Pair("JUP", "USDT", UsdtSubs) \in Market /\ Pair("XAUT", "USDT", UsdtSubs) \in Market
      /\ Pair("EURC", "USDC", UsdcSubs) \in Market
  BY <1>1, Names
<1>3. NormalPairs = [i \in 1..5 |-> NormalPairs[i]]
  BY DEF NormalPairs
<1>4. \A i \in 1..5 : NormalPairs[i] \in Market
  BY <1>2 DEF NormalPairs
<1>5. NormalPairs \in Seq(Market)
  BY <1>3, <1>4
<1> QED BY <1>3, <1>4, <1>5

\* The sales of a pair by the normaliser are requests of some account.
LEMMA NormalSellsIn ==
  ASSUME Typed, NEW p \in Market
  PROVE  /\ \A i \in 1..2 : NormalSell(p.subs[i], p) \in Seq(Plain(Everything))
         /\ DOMAIN p.subs = 1..2 /\ NormalSells(p) \in Seq(Plain(Everything))
<1> DEFINE f == [i \in DOMAIN p.subs |-> NormalSell(p.subs[i], p)]
<1>0. DOMAIN p.subs = 1..2
  BY SubsIn, MarketTyped
<1>1. ASSUME NEW i \in 1..2 PROVE NormalSell(p.subs[i], p) \in Seq(Plain(Everything))
  <2>1. p.subs[i] \in Accounts
    <3>1. i = 1 \/ i = 2
      OBVIOUS
    <3> QED BY <3>1, MarketTyped
  <2>2. Surplus(p.subs[i], p.base) \in Int
    <3>1. Get(seen, p.subs[i], p.base) \in Int
      BY <2>1, Known
    <3> QED BY <3>1 DEF Surplus, PerSub
  <2>3. <<p.subs[i], p.base>> \in Everything
    BY <2>1, MarketTyped DEF Everything
  <2>4. Trade(p.subs[i], p.base, p.quote, Surplus(p.subs[i], p.base)) \in Plain(Everything)
    BY <2>1, <2>2, <2>3, MarketTyped, TradeIn
  <2> QED BY <2>4, WhenOneIn DEF NormalSell
<1>2. f = [i \in 1..2 |-> f[i]] /\ NormalSells(p) = FlattenSeq(f) /\ \A i \in 1..2 : f[i] = NormalSell(p.subs[i], p)
  BY <1>0 DEF NormalSells
<1> HIDE DEF f
<1>3. FlattenSeq(f) \in Seq(Plain(Everything))
  <2>1. \A i \in 1..2 : f[i] \in Seq(Plain(Everything))
    BY <1>1, <1>2
  <2> QED BY <1>2, <2>1, FlatOver
<1> QED BY <1>0, <1>1, <1>2, <1>3

\* The normaliser sells at its second stage, pair by pair, and pays from nowhere at any other.
LEMMA NormalizeIn ==
  ASSUME Typed, NEW k \in Nat
  PROVE  /\ Normalize(k) \in Seq(Paying(IF k = 2 THEN Everything ELSE {}))
         /\ k = 2 => Normalize(k) = FlattenSeq([i \in DOMAIN NormalPairs |-> When(Rich(NormalPairs[i]), NormalSells(NormalPairs[i]))])
<1> DEFINE f == [i \in DOMAIN NormalPairs |-> When(Rich(NormalPairs[i]), NormalSells(NormalPairs[i]))]
<1>1. CASE k = 1
  <2>0. Normalize(k) = Each(BucketSubs, LAMBDA a : <<Blank(Look(a))>>)
    BY <1>1 DEF Normalize, Each
  <2>1. Normalize(k) \in Seq(Paying({}))
    BY <2>0, BucketSubsIn, EachLookIn DEF Each
  <2> QED BY <1>1, <2>1
<1>2. CASE k = 2
  <2>1. Normalize(k) = FlattenSeq(f)
    BY <1>2 DEF Normalize, Each, Rich, NormalSells, NormalSell
  <2>2. \A i \in 1..5 : f[i] \in Seq(Plain(Everything))
    BY NormalPairsIn, NormalSellsIn, WhenIn
  <2>3. f = [i \in 1..5 |-> f[i]]
    BY NormalPairsIn
  <2>4. Normalize(k) = FlattenSeq([i \in DOMAIN NormalPairs |-> When(Rich(NormalPairs[i]), NormalSells(NormalPairs[i]))])
    BY <2>1
  <2> HIDE DEF f
  <2>5. FlattenSeq(f) \in Seq(Plain(Everything))
    BY <2>2, <2>3, FlatOver
  <2> QED BY <1>2, <2>1, <2>4, <2>5, PlainSeq
<1>3. CASE k \notin {1, 2}
  <2>1. Normalize(k) = <<End("0")>>
    BY <1>3 DEF Normalize
  <2>2. <<End("0")>> \in Seq(Plain({}))
    BY EndIn, OneIn DEF Codes
  <2> QED BY <1>3, <2>1, <2>2, PlainSeq
<1> QED BY <1>1, <1>2, <1>3

-----------------------------------------------------------------------------
(* execute_rebalance.py and execute_retry.py                               *)

\* An order of the rebalance plan pays from where it would outside the plan.
LEMMA PlanOrderIn == ASSUME NEW P, NEW r \in Plain(P) PROVE PlanOrder(r) \in Plain(P)
<1> DEFINE q == [r EXCEPT !.amount = 0]
<1>0. r \in Shapes
  BY DEF Plain, Paying
<1>1. q \in Plain(P)
  <2>1. q \in Shapes
    <3>1. \A n \in Int : [r EXCEPT !.amount = n] \in Shapes
      BY <1>0 DEF Shapes
    <3> QED BY <3>1
  <2>2. q.op = r.op /\ q.give = r.give /\ q.get = r.get /\ q.on = r.on /\ q.code = r.code /\ q.drop = r.drop
    BY <1>0 DEF Shapes
  <2> HIDE DEF q
  <2> QED BY <2>1, <2>2 DEF Plain, Paying
<1>2. Or([r EXCEPT !.amount = 0], "1") \in Plain(P)
  BY <1>1, OrIn DEF Codes
<1> QED BY <1>2, IocIn DEF PlanOrder

\* Every balance may pay when the payers are everything.
LEMMA EverythingIn == \A a \in Accounts, c \in Currencies : <<a, c>> \in Everything
BY DEF Everything

\* The orders of the rebalance plan are requests of some account.
LEMMA PlanTradeIn ==
  ASSUME NEW a \in Accounts, NEW g \in Currencies, NEW h \in Currencies, NEW n \in Int
  PROVE  PlanOrder(Trade(a, g, h, D(n))) \in Plain(Everything) /\ PlanOrder(Want(a, g, h, D(n))) \in Plain(Everything)
<1>1. D(n) \in Int
  BY DollarsTyped
<1> QED BY <1>1, EverythingIn, TradeIn, WantIn, PlanOrderIn

\* Reading the two accounts of the rebalance pays from nowhere.
LEMMA BothLookIn == ASSUME NEW P PROVE BothLook \in Seq(Plain(P))
BY SubLists, EachLookIn DEF BothLook, Each

\* A phase of the rebalance, its orders between two looks, pays from where its orders do.
LEMMA PhaseIn == ASSUME NEW P, NEW rs \in Seq(Plain(P)) PROVE Phase(rs) \in Seq(Plain(P))
<1> DEFINE f == [i \in DOMAIN rs |-> <<Or(rs[i], "1")>>]
<1>1. \A i \in DOMAIN rs : f[i] \in Seq(Plain(P))
  <2> SUFFICES ASSUME NEW i \in DOMAIN rs PROVE f[i] \in Seq(Plain(P))
    OBVIOUS
  <2>1. rs[i] \in Plain(P)
    OBVIOUS
  <2> QED BY <2>1, OrIn, OneIn DEF Codes
<1>2. f = [i \in DOMAIN rs |-> f[i]] /\ Phase(rs) = FlattenSeq(f) \o BothLook
  BY DEF Phase, Each
<1> HIDE DEF f
<1>3. FlattenSeq(f) \in Seq(Plain(P))
  BY <1>1, <1>2, FlatEach
<1> QED BY <1>2, <1>3, BothLookIn, BehindIn

\* The three lists of orders of the rebalance are requests of some account.
LEMMA PlanListsIn ==
  /\ PlanSells \in Seq(Plain(Everything)) /\ PlanZar \in Seq(Plain(Everything))
  /\ PlanBuys \in Seq(Plain(Everything))
<1>1. /\ PlanOrder(Trade("U1", "XAUT", "USDT", D(4))) \in Plain(Everything)
      /\ PlanOrder(Trade("U2", "JUP", "USDT", D(30))) \in Plain(Everything)
      /\ PlanOrder(Trade("U1", "USDT", "ZAR", D(20))) \in Plain(Everything)
      /\ PlanOrder(Want("U1", "ZAR", "BTC", D(7))) \in Plain(Everything)
      /\ PlanOrder(Want("U2", "USDT", "JUP", D(8))) \in Plain(Everything)
  <2>1. 4 \in Int /\ 30 \in Int /\ 20 \in Int /\ 7 \in Int /\ 8 \in Int
    OBVIOUS
  <2>2. {"XAUT", "USDT", "JUP", "ZAR", "BTC"} \subseteq Currencies /\ "U1" \in Accounts /\ "U2" \in Accounts
    BY Names
  <2>3. \A a \in Accounts, g, h \in Currencies, n \in Int :
          PlanOrder(Trade(a, g, h, D(n))) \in Plain(Everything) /\ PlanOrder(Want(a, g, h, D(n))) \in Plain(Everything)
    BY PlanTradeIn
  <2> QED BY <2>1, <2>2, <2>3
<1> QED BY <1>1, OneIn, TwoIn DEF PlanSells, PlanZar, PlanBuys

\* At every stage the rebalance asks only for requests that pay from any account.
LEMMA ExecRebIn == ASSUME NEW k \in Nat PROVE ExecReb(k) \in Seq(Plain(Everything))
<1>1. PlanBuys \o BothLook \in Seq(Plain(Everything))
  BY PlanListsIn, BothLookIn, BehindIn
<1>2. Phase(PlanSells) \in Seq(Plain(Everything)) /\ Phase(PlanZar) \in Seq(Plain(Everything))
  BY PlanListsIn, PhaseIn
<1>3. <<End("0")>> \in Seq(Plain(Everything))
  BY EndIn, OneIn DEF Codes
<1> QED BY <1>1, <1>2, <1>3 DEF ExecReb

\* At every stage its retry asks only for requests that pay from any account.
LEMMA ExecRetryIn == ASSUME Typed, NEW k \in Nat PROVE ExecRetry(k) \in Seq(Plain(Everything))
<1> DEFINE S == Plain(Everything)
           x == PlanOrder(Trade("U2", "XAUT", "USDT", D(98)))
           j == PlanOrder(Trade("U2", "JUP", "USDT", D(39)))
           m == Or(Move("U2", "U1", "USDT", D(40)), "0")
           b == PlanOrder(Want("U1", "USDT", "JUP", D(12)))
           e == PlanOrder(Want("U1", "ZAR", "ETH", D(6)))
           f == PlanOrder(Want("U2", "ZAR", "ETH", D(7)))
<1>1. x \in S /\ j \in S /\ b \in S /\ e \in S /\ f \in S
  <2>1. 98 \in Int /\ 39 \in Int /\ 12 \in Int /\ 6 \in Int /\ 7 \in Int
    OBVIOUS
  <2>2. {"XAUT", "USDT", "JUP", "ZAR", "ETH"} \subseteq Currencies /\ "U1" \in Accounts /\ "U2" \in Accounts
    BY Names
  <2>3. \A a \in Accounts, g, h \in Currencies, n \in Int :
          PlanOrder(Trade(a, g, h, D(n))) \in Plain(Everything) /\ PlanOrder(Want(a, g, h, D(n))) \in Plain(Everything)
    BY PlanTradeIn
  <2> QED BY <2>1, <2>2, <2>3
<1>2. m \in S
  <2>1. \A n \in Int : Move("U2", "U1", "USDT", D(n)) \in S
    BY DollarsTyped, Names, EverythingIn, MoveIn
  <2>2. 40 \in Int
    OBVIOUS
  <2> QED BY <2>1, <2>2, OrIn DEF Codes
<1>3. Look("U1") \in S /\ Look("U2") \in S
  BY LookIn, Names
<1>4. /\ k = 1 => ExecRetry(k) = <<x, j>> \o <<Look("U2"), Look("U1")>>
      /\ k = 2 => ExecRetry(k) = <<End("0")>> \/ ExecRetry(k) = <<m, b, e, f>> \o BothLook
      /\ k \notin {1, 2} => ExecRetry(k) = <<End("0")>>
  BY DEF ExecRetry
<1> HIDE DEF x, j, m, b, e, f
<1>5. <<x, j>> \in Seq(S) /\ <<Look("U2"), Look("U1")>> \in Seq(S) /\ <<m, b, e, f>> \in Seq(S) /\ BothLook \in Seq(S)
  BY <1>1, <1>2, <1>3, TwoIn, ShortSeqsIn, BothLookIn
<1>6. <<End("0")>> \in Seq(S)
  BY EndIn, OneIn DEF Codes
<1> HIDE DEF S
<1>7. <<x, j>> \o <<Look("U2"), Look("U1")>> \in Seq(S) /\ <<m, b, e, f>> \o BothLook \in Seq(S)
  BY <1>5, BehindIn
<1>8. ExecRetry(k) \in Seq(S)
  BY <1>4, <1>6, <1>7
<1> QED BY <1>8 DEF S

-----------------------------------------------------------------------------
(* quote_replenish.py                                                      *)

\* The value of a holding, and what an account lacks or can spare of a quote, are integers.
LEMMA ValueInt ==
  ASSUME Typed, NEW a \in Accounts, NEW c
  PROVE  Value(seen, a, c) \in Int /\ Lacks(a, c) \in Int /\ Spare(a, c) \in Int
<1>1. Value(seen, a, c) \in Int
  BY Known, ConvertInt DEF Value
<1>2. TargetBalance - Value(seen, a, c) \in Int /\ Value(seen, a, c) - MinBalance \in Int
  BY <1>1 DEF TargetBalance, MinBalance, D
<1> QED BY <1>1, <1>2, Amounts DEF Lacks, Spare

\* The three quotes in the order the replenisher converts them.
LEMMA QuoteOrderIn ==
  /\ QuoteOrder \in Seq(Quotes) /\ QuoteOrder \in Seq(Currencies) /\ DOMAIN QuoteOrder = 1..3
  /\ \A i \in 1..3 : QuoteOrder[i] \in Currencies /\ QuoteOrder[i] \in Quotes
<1>1. QuoteOrder \in Seq(Quotes)
  BY Names, ShortSeqsIn DEF QuoteOrder
<1>2. QuoteOrder \in Seq(Currencies)
  BY <1>1, Names, SeqMonotonic
<1>3. DOMAIN QuoteOrder = 1..3 /\ \A i \in 1..3 : QuoteOrder[i] \in Quotes
  BY Names DEF QuoteOrder
<1> QED BY <1>1, <1>2, <1>3, Names

\* The quotes an account is low on are a sequence of quotes.
LEMMA LowIn == ASSUME Typed, NEW a \in Accounts PROVE Low(a) \in Seq(Quotes) /\ Low(a) \in Seq(Currencies)
<1> DEFINE f == [i \in DOMAIN QuoteOrder |-> When(Value(seen, a, QuoteOrder[i]) < MinBalance, <<QuoteOrder[i]>>)]
<1>1. Low(a) = FlattenSeq(f) /\ f = [i \in DOMAIN QuoteOrder |-> f[i]]
  BY DEF Low, Each
<1>2. \A i \in DOMAIN QuoteOrder : f[i] \in Seq(Quotes)
  BY QuoteOrderIn, WhenOneIn
<1> HIDE DEF f
<1>3. Low(a) \in Seq(Quotes)
  BY <1>1, <1>2, QuoteOrderIn, FlatEach
<1> QED BY <1>3, Names, SeqMonotonic

\* Half a surplus for what is low.
Converts(a, c, d) ==
  LET n == Less(Spare(a, c) \div 2, Lacks(a, d)) IN When(Spare(a, c) > D(5) /\ n >= D(1), <<Trade(a, c, d, n)>>)
ConvertsTo(a, d) == FlattenSeq([i \in DOMAIN QuoteOrder |-> Converts(a, QuoteOrder[i], d)])

\* The conversions of an account to one quote are requests of some account.
LEMMA ConvertsIn ==
  ASSUME Typed, NEW a \in Accounts, NEW d \in Currencies
  PROVE  ConvertsTo(a, d) \in Seq(Plain(Everything))
<1> DEFINE f == [i \in DOMAIN QuoteOrder |-> Converts(a, QuoteOrder[i], d)]
<1>1. ASSUME NEW c \in Currencies PROVE Converts(a, c, d) \in Seq(Plain(Everything))
  <2> DEFINE n == Less(Spare(a, c) \div 2, Lacks(a, d))
  <2>1. n \in Int
    <3>1. Spare(a, c) \div 2 \in Int /\ Lacks(a, d) \in Int
      BY ValueInt
    <3> QED BY <3>1, Amounts
  <2>2. Converts(a, c, d) = When(Spare(a, c) > D(5) /\ n >= D(1), <<Trade(a, c, d, n)>>)
    BY DEF Converts
  <2> HIDE DEF n
  <2>3. Trade(a, c, d, n) \in Plain(Everything)
    BY <2>1, EverythingIn, TradeIn
  <2> QED BY <2>2, <2>3, WhenOneIn
<1>2. f = [i \in DOMAIN QuoteOrder |-> f[i]] /\ ConvertsTo(a, d) = FlattenSeq(f)
  BY DEF ConvertsTo
<1>3. \A i \in DOMAIN QuoteOrder : f[i] \in Seq(Plain(Everything))
  BY <1>1, QuoteOrderIn
<1> HIDE DEF f
<1> QED BY <1>2, <1>3, QuoteOrderIn, FlatEach

\* So are all conversions of an account.
LEMMA ConversionsIn == ASSUME Typed, NEW a \in Accounts PROVE Conversions(a) \in Seq(Plain(Everything))
<1> DEFINE f == [i \in DOMAIN Low(a) |-> ConvertsTo(a, Low(a)[i])]
<1>1. Conversions(a) = FlattenSeq(f) /\ f = [i \in DOMAIN Low(a) |-> f[i]]
  BY DEF Conversions, ConvertsTo, Converts, Each
<1>2. \A i \in DOMAIN Low(a) : f[i] \in Seq(Plain(Everything))
  <2>1. \A i \in DOMAIN Low(a) : Low(a)[i] \in Currencies
    BY LowIn
  <2> QED BY <2>1, ConvertsIn
<1> HIDE DEF f
<1> QED BY <1>1, <1>2, LowIn, FlatEach

\* Two courses.
LEMMA EitherIn ==
  ASSUME NEW P, NEW r \in Plain(P), NEW p \in Seq(Plain(P)), NEW q \in Seq(Plain(P))
  PROVE  Either(r, p, q) \in Seq(Plain(P))
<1>1. Len(p) + 1 \in Nat /\ Len(q) \in Nat
  BY LenProperties
<1>2. Else(r, Len(p) + 1) \in Plain(P) /\ Hop(Len(q)) \in Plain(P)
  BY <1>1, ElseIn, HopIn
<1> DEFINE S == Plain(P)
<1>3. <<Else(r, Len(p) + 1)>> \in Seq(S) /\ <<Hop(Len(q))>> \in Seq(S) /\ p \in Seq(S) /\ q \in Seq(S)
  BY <1>2, OneIn
<1>4. Either(r, p, q) = <<Else(r, Len(p) + 1)>> \o p \o <<Hop(Len(q))>> \o q
  BY DEF Either
<1> HIDE DEF S
<1>5. \A x, y \in Seq(S) : x \o y \in Seq(S)
  BY BehindIn
<1>6. <<Else(r, Len(p) + 1)>> \o p \in Seq(S)
  BY <1>3, <1>5
<1>7. <<Else(r, Len(p) + 1)>> \o p \o <<Hop(Len(q))>> \in Seq(S)
  BY <1>3, <1>5, <1>6
<1>8. <<Else(r, Len(p) + 1)>> \o p \o <<Hop(Len(q))>> \o q \in Seq(S)
  BY <1>3, <1>5, <1>7
<1> QED BY <1>4, <1>8 DEF S

\* The courses of the sales of halves, from the last base to the first.
Half3(a, quote, b, r) == HalfSell(a, quote, b, r, LAMBDA n : <<>>)
Half2(a, quote, b, c, r) == HalfSell(a, quote, b, r, LAMBDA n : Half3(a, quote, c, n))
\* The sales of half of three bases, which stop when enough is raised, are requests of some account.
LEMMA HalfSellsIn ==
  ASSUME Typed, NEW a \in Accounts, NEW quote \in Currencies, NEW bases \in Seq(Currencies), Len(bases) = 3, NEW rest \in Int
  PROVE  HalfSells(a, quote, bases, rest) \in Seq(Plain(Everything))
<1> DEFINE S == Plain(Everything)
           half(b) == Get(seen, a, b) \div 2
<1>1. \A b \in Currencies : half(b) \in Int /\ Trade(a, b, quote, half(b)) \in S
  <2> SUFFICES ASSUME NEW b \in Currencies PROVE half(b) \in Int /\ Trade(a, b, quote, half(b)) \in S
    OBVIOUS
  <2>1. half(b) \in Int
    <3>1. Get(seen, a, b) \in Int
      BY Known
    <3> QED BY <3>1
  <2> QED BY <2>1, EverythingIn, TradeIn
<1>2. ASSUME NEW b \in Currencies, NEW r \in Int PROVE Half3(a, quote, b, r) \in Seq(S)
  <2>1. Half3(a, quote, b, r) = IF r <= 0 THEN <<>>
          ELSE IF half(b) < 50 \/ half(b) < Part(r, 3, 10) THEN <<>>
          ELSE Either(Trade(a, b, quote, half(b)), <<>>, <<>>)
    BY DEF Half3, HalfSell
  <2>2. Either(Trade(a, b, quote, half(b)), <<>>, <<>>) \in Seq(S)
    <3>1. <<>> \in Seq(S)
      OBVIOUS
    <3> HIDE DEF half
    <3> QED BY <1>1, <3>1, EitherIn
  <2> QED BY <2>1, <2>2
<1>3. ASSUME NEW b \in Currencies, NEW c \in Currencies, NEW r \in Int PROVE Half2(a, quote, b, c, r) \in Seq(S)
  <2>1. Half2(a, quote, b, c, r) = IF r <= 0 THEN <<>>
          ELSE IF half(b) < 50 \/ half(b) < Part(r, 3, 10) THEN Half3(a, quote, c, r)
          ELSE Either(Trade(a, b, quote, half(b)), Half3(a, quote, c, r - half(b)), Half3(a, quote, c, r))
    BY DEF Half2, HalfSell
  <2>2. Half3(a, quote, c, r) \in Seq(S) /\ Half3(a, quote, c, r - half(b)) \in Seq(S)
    <3>1. r - half(b) \in Int
      BY <1>1
    <3> QED BY <1>2, <3>1
  <2> HIDE DEF half, S
  <2>3. Either(Trade(a, b, quote, half(b)), Half3(a, quote, c, r - half(b)), Half3(a, quote, c, r)) \in Seq(S)
    BY <1>1, <2>2, EitherIn DEF S
  <2>4. <<>> \in Seq(S)
    OBVIOUS
  <2> QED BY <2>1, <2>2, <2>3, <2>4
<1>4. bases[1] \in Currencies /\ bases[2] \in Currencies /\ bases[3] \in Currencies
  <2>1. 1 \in 1..Len(bases) /\ 2 \in 1..Len(bases) /\ 3 \in 1..Len(bases)
    OBVIOUS
  <2> QED BY <2>1, ElementOfSeq
<1>5. HalfSells(a, quote, bases, rest) = IF rest <= 0 THEN <<>>
        ELSE IF half(bases[1]) < 50 \/ half(bases[1]) < Part(rest, 3, 10) THEN Half2(a, quote, bases[2], bases[3], rest)
        ELSE Either(Trade(a, bases[1], quote, half(bases[1])), Half2(a, quote, bases[2], bases[3], rest - half(bases[1])),
                    Half2(a, quote, bases[2], bases[3], rest))
  BY DEF HalfSells, Half2, Half3, HalfSell
<1>6. /\ Half2(a, quote, bases[2], bases[3], rest) \in Seq(S)
      /\ Half2(a, quote, bases[2], bases[3], rest - half(bases[1])) \in Seq(S)
  <2>1. rest - half(bases[1]) \in Int
    BY <1>1, <1>4
  <2> QED BY <1>3, <1>4, <2>1
<1> HIDE DEF half, S
<1>7. Either(Trade(a, bases[1], quote, half(bases[1])), Half2(a, quote, bases[2], bases[3], rest - half(bases[1])),
             Half2(a, quote, bases[2], bases[3], rest)) \in Seq(S)
  BY <1>1, <1>4, <1>6, EitherIn DEF S
<1>8. <<>> \in Seq(S)
  OBVIOUS
<1>9. HalfSells(a, quote, bases, rest) \in Seq(S)
  BY <1>5, <1>6, <1>7, <1>8
<1> QED BY <1>9 DEF S

\* The three bases of an account, dearest first, are currencies.
LEMMA DearestIn == ASSUME NEW a PROVE Dearest(a) \in Seq(Currencies) /\ Len(Dearest(a)) = 3
<1>1. \A x, y, z \in Currencies : <<x, y, z>> \in Seq(Currencies) /\ Len(<<x, y, z>>) = 3
  BY ShortSeqsIn
<1>2. \E x, y, z \in {"JUP", "BTC", "XAUT"} : Dearest(a) = <<x, y, z>>
  BY DEF Dearest
<1>3. {"JUP", "BTC", "XAUT"} \subseteq Currencies
  BY Names
<1> QED BY <1>1, <1>2, <1>3

\* The sales of bases for the quotes an account lacks are requests of some account.
LEMMA BaseSellsIn == ASSUME Typed, NEW a \in Accounts PROVE BaseSells(a) \in Seq(Plain(Everything))
<1> DEFINE f == [i \in DOMAIN Low(a) |-> HalfSells(a, Low(a)[i], Dearest(a), Lacks(a, Low(a)[i]))]
<1>1. BaseSells(a) = FlattenSeq(f) /\ f = [i \in DOMAIN Low(a) |-> f[i]]
  BY DEF BaseSells, Each
<1>2. \A i \in DOMAIN Low(a) : f[i] \in Seq(Plain(Everything))
  <2>1. \A i \in DOMAIN Low(a) : Low(a)[i] \in Currencies
    BY LowIn
  <2>2. \A c : Lacks(a, c) \in Int
    BY ValueInt
  <2> QED BY <2>1, <2>2, DearestIn, HalfSellsIn
<1> HIDE DEF f
<1> QED BY <1>1, <1>2, LowIn, FlatEach

\* The courses of the purchases of cycles.
Cycle1(a, quote, b, r) == CycleBuy(a, quote, b, r, LAMBDA n : <<>>)
\* The purchases of one or two bases with what is left of a quote are requests of some account.
LEMMA CycleBuysIn ==
  ASSUME Typed, NEW a \in Accounts, NEW quote \in Currencies, NEW bases \in Seq(Currencies), Len(bases) \in 1..2,
         NEW rest \in Int
  PROVE  CycleBuys(a, quote, bases, rest) \in Seq(Plain(Everything))
<1> DEFINE S == Plain(Everything)
           n(b, r) == Less(D(10) - Get(seen, a, b), r)
<1>1. \A b \in Currencies, r \in Int : n(b, r) \in Int /\ Trade(a, quote, b, n(b, r)) \in S
  <2> SUFFICES ASSUME NEW b \in Currencies, NEW r \in Int PROVE n(b, r) \in Int /\ Trade(a, quote, b, n(b, r)) \in S
    OBVIOUS
  <2>1. n(b, r) \in Int
    <3>1. D(10) - Get(seen, a, b) \in Int
      BY Known DEF D
    <3> QED BY <3>1, Amounts
  <2> QED BY <2>1, EverythingIn, TradeIn
<1>2. ASSUME NEW b \in Currencies, NEW r \in Int PROVE Cycle1(a, quote, b, r) \in Seq(S)
  <2>1. Cycle1(a, quote, b, r) = IF r <= 0 THEN <<>>
          ELSE IF Get(seen, a, b) >= D(5) \/ n(b, r) < D(1) THEN <<>>
          ELSE Either(Trade(a, quote, b, n(b, r)), <<>>, <<>>)
    BY DEF Cycle1, CycleBuy
  <2>2. Either(Trade(a, quote, b, n(b, r)), <<>>, <<>>) \in Seq(S)
    <3>1. <<>> \in Seq(S)
      OBVIOUS
    <3> HIDE DEF n
    <3> QED BY <1>1, <3>1, EitherIn
  <2> QED BY <2>1, <2>2
<1> DEFINE second(r) == IF Len(bases) = 1 THEN <<>> ELSE Cycle1(a, quote, bases[2], r)
<1>3. bases[1] \in Currencies /\ (Len(bases) = 2 => bases[2] \in Currencies)
  <2>1. 1 \in 1..Len(bases) /\ (Len(bases) = 2 => 2 \in 1..Len(bases))
    OBVIOUS
  <2> QED BY <2>1, ElementOfSeq
<1>4. \A r \in Int : second(r) \in Seq(S)
  <2>1. <<>> \in Seq(S)
    OBVIOUS
  <2> QED BY <1>2, <1>3, <2>1
<1>5. CycleBuys(a, quote, bases, rest) = IF rest <= 0 THEN <<>>
        ELSE IF Get(seen, a, bases[1]) >= D(5) \/ n(bases[1], rest) < D(1) THEN second(rest)
        ELSE Either(Trade(a, quote, bases[1], n(bases[1], rest)), second(rest - n(bases[1], rest)), second(rest))
  BY DEF CycleBuys, Cycle1, CycleBuy
<1>6. second(rest) \in Seq(S) /\ second(rest - n(bases[1], rest)) \in Seq(S)
  <2> HIDE DEF n
  <2>0. n(bases[1], rest) \in Int
    BY <1>1, <1>3
  <2>1. rest - n(bases[1], rest) \in Int
    BY <2>0
  <2> QED BY <1>4, <2>1
<1> HIDE DEF n, S, second
<1>7. Either(Trade(a, quote, bases[1], n(bases[1], rest)), second(rest - n(bases[1], rest)), second(rest)) \in Seq(S)
  BY <1>1, <1>3, <1>6, EitherIn DEF S
<1>8. <<>> \in Seq(S)
  OBVIOUS
<1>9. CycleBuys(a, quote, bases, rest) \in Seq(S)
  BY <1>5, <1>6, <1>7, <1>8
<1> QED BY <1>9 DEF S

\* The bases a quote buys are one or two currencies.
LEMMA CyclePairsIn ==
  ASSUME NEW a, NEW q
  PROVE  CyclePairs(a, q) \in Seq(Currencies) /\ Len(CyclePairs(a, q)) \in 1..2
<1>1. \A x, y \in Currencies : <<x, y>> \in Seq(Currencies) /\ Len(<<x, y>>) \in 1..2
                                /\ <<x>> \in Seq(Currencies) /\ Len(<<x>>) \in 1..2
  BY OneIn, TwoIn
<1>2. {"JUP", "EURC", "BTC", "USDC"} \subseteq Currencies
  BY Names
<1>3. CyclePairs(a, q) \in {<<"JUP">>, <<"EURC">>, <<"BTC", "USDC">>, <<"USDC", "BTC">>}
  BY DEF CyclePairs
<1> QED BY <1>1, <1>2, <1>3

\* The purchases of bases with the spare quotes of an account are requests of some account.
LEMMA BaseBuysIn == ASSUME Typed, NEW a \in Accounts PROVE BaseBuys(a) \in Seq(Plain(Everything))
<1> DEFINE buys(q) == When(Spare(a, q) >= D(2), CycleBuys(a, q, CyclePairs(a, q), Spare(a, q)))
           f == [i \in DOMAIN QuoteOrder |-> buys(QuoteOrder[i])]
<1>1. BaseBuys(a) = FlattenSeq(f) /\ f = [i \in DOMAIN QuoteOrder |-> f[i]]
  BY DEF BaseBuys, Each
<1>2. ASSUME NEW q \in Currencies PROVE buys(q) \in Seq(Plain(Everything))
  <2>1. Spare(a, q) \in Int
    BY ValueInt
  <2>2. CycleBuys(a, q, CyclePairs(a, q), Spare(a, q)) \in Seq(Plain(Everything))
    BY <2>1, CyclePairsIn, CycleBuysIn
  <2> QED BY <2>2, WhenIn
<1>3. \A i \in DOMAIN QuoteOrder : f[i] \in Seq(Plain(Everything))
  BY <1>2, QuoteOrderIn
<1> HIDE DEF f, buys
<1> QED BY <1>1, <1>3, QuoteOrderIn, FlatEach

\* At every stage the replenisher asks only for requests that pay from any account.
LEMMA ReplenishIn == ASSUME Typed, NEW k \in Nat PROVE Replenish(k) \in Seq(Plain(Everything))
<1> DEFINE S == Plain(Everything)
           pass(a) == IF seen[a] = Unread THEN <<End("1")>> ELSE Conversions(a) \o BaseSells(a) \o BaseBuys(a)
<1>1. <<End("1")>> \in Seq(S) /\ <<End("0")>> \in Seq(S)
  BY EndIn, OneIn DEF Codes
<1>2. ASSUME NEW a \in Accounts PROVE pass(a) \in Seq(S)
  <2>1. Conversions(a) \o BaseSells(a) \o BaseBuys(a) \in Seq(S)
    BY ConversionsIn, BaseSellsIn, BaseBuysIn, Behind3In
  <2> QED BY <1>1, <2>1
<1>3. /\ k = 1 => Replenish(k) = Each(UsdtSubs, LAMBDA a : <<Lenient(Look(a))>>)
      /\ k \in 2..3 => Replenish(k) = pass(UsdtSubs[k - 1])
      /\ k \notin {1} \cup 2..3 => Replenish(k) = <<End("0")>>
  BY DEF Replenish, Each
<1>4. k = 1 => Replenish(k) \in Seq(S)
  BY <1>3, SubLists, EachLookIn DEF Each
<1>5. k \in 2..3 => UsdtSubs[k - 1] \in Accounts
  BY Names DEF UsdtSubs
<1> HIDE DEF pass
<1> QED BY <1>1, <1>2, <1>3, <1>4, <1>5

-----------------------------------------------------------------------------
(* buy_base_inventory.py, bulk_buy_inventory.py, spot_rebalance_manual.py   *)

\* The bases of the problem pairs are currencies.
LEMMA ProblemPairsIn == ProblemPairs \in Seq(Currencies)
<1> DEFINE s == <<"JUP", "XAUT">>
           f == [i \in DOMAIN s |-> When(Price(s[i], "USDT"), <<s[i]>>)]
<1>1. ProblemPairs = FlattenSeq(f) /\ f = [i \in 1..2 |-> f[i]]
  BY DEF ProblemPairs, Each
<1>2. f[1] \in Seq(Currencies) /\ f[2] \in Seq(Currencies)
  BY Names, WhenOneIn
<1> HIDE DEF f
<1> QED BY <1>1, <1>2, Flat2

\* One request for both subaccounts, in front of one for each of a list of bases.
LEMMA ForBothIn ==
  ASSUME NEW S, NEW f, f = [i \in DOMAIN UsdtSubs |-> f[i]], f[1] \in Seq(S), f[2] \in Seq(S)
  PROVE  FlattenSeq(f) \in Seq(S)
<1>1. f = [i \in 1..2 |-> f[i]]
  BY DEF UsdtSubs
<1> QED BY <1>1, Flat2

\* At every stage the purchase of bases asks only for requests that pay from any account.
LEMMA BuyBaseIn == ASSUME Typed, NEW k \in Nat PROVE BuyBase(k) \in Seq(Plain(Everything))
<1> DEFINE S == Plain(Everything)
           need(a, b)   == Over(PerAccount - Get(seen, a, b))
           amount(a, b) == IF need(a, b) < 50 THEN 55 ELSE need(a, b)
           buy(a, b)    == When(need(a, b) > 0, <<Ioc(Want(a, "USDT", b, amount(a, b)))>>)
           buys(b) == FlattenSeq([i \in DOMAIN UsdtSubs |-> buy(UsdtSubs[i], b)])
           f == [i \in DOMAIN ProblemPairs |-> buys(ProblemPairs[i])]
<1>1. /\ k = 1 => BuyBase(k) = BothLook
      /\ k = 2 => BuyBase(k) = FlattenSeq(f)
      /\ k \notin {1, 2} => BuyBase(k) = <<End("0")>>
  BY DEF BuyBase, Each
<1>2. ASSUME NEW a \in Accounts, NEW b \in Currencies PROVE buy(a, b) \in Seq(S)
  <2>1. need(a, b) \in Int
    <3>1. PerAccount - Get(seen, a, b) \in Int
      BY Known DEF PerAccount, D
    <3> QED BY <3>1, Amounts
  <2> HIDE DEF need
  <2>2. amount(a, b) \in Int
    BY <2>1
  <2> HIDE DEF amount
  <2>3. Ioc(Want(a, "USDT", b, amount(a, b))) \in S
    BY <2>2, EverythingIn, WantIn, IocIn, Names
  <2> HIDE DEF S
  <2> QED BY <2>3, WhenOneIn
<1> HIDE DEF buy
<1>3. ASSUME NEW b \in Currencies PROVE buys(b) \in Seq(S)
  <2> DEFINE g == [i \in DOMAIN UsdtSubs |-> buy(UsdtSubs[i], b)]
  <2>1. g = [i \in DOMAIN UsdtSubs |-> g[i]] /\ g[1] = buy("U1", b) /\ g[2] = buy("U2", b)
    BY DEF UsdtSubs
  <2>2. g[1] \in Seq(S) /\ g[2] \in Seq(S)
    BY <1>2, <2>1, Names
  <2> HIDE DEF g, S
  <2>3. FlattenSeq(g) \in Seq(S)
    BY <2>1, <2>2, ForBothIn
  <2> QED BY <2>3 DEF g
<1> HIDE DEF buys
<1>4. f = [i \in DOMAIN ProblemPairs |-> f[i]] /\ \A i \in DOMAIN ProblemPairs : f[i] \in Seq(S)
  <2>1. \A i \in DOMAIN ProblemPairs : ProblemPairs[i] \in Currencies
    BY ProblemPairsIn
  <2> QED BY <1>3, <2>1
<1> HIDE DEF f
<1>5. FlattenSeq(f) \in Seq(S)
  BY <1>4, ProblemPairsIn, FlatEach
<1>6. BothLook \in Seq(S) /\ <<End("0")>> \in Seq(S)
  BY BothLookIn, EndIn, OneIn DEF Codes
<1> HIDE DEF S
<1>7. BuyBase(k) \in Seq(S)
  BY <1>1, <1>5, <1>6
<1> QED BY <1>7 DEF S

\* At every stage the bulk transfer asks only for requests that pay from any account.
LEMMA BulkIn == ASSUME Typed, NEW k \in Nat PROVE Bulk(k) \in Seq(Plain(Everything))
<1> DEFINE S == Plain(Everything)
           buy(a, b) == <<Ioc(Want(a, "USDT", b, D(5)))>>
           buys(b) == FlattenSeq([i \in DOMAIN UsdtSubs |-> buy(UsdtSubs[i], b)])
           f == [i \in DOMAIN ProblemPairs |-> buys(ProblemPairs[i])]
<1>1. /\ k = 1 => Bulk(k) = FlattenSeq(f)
      /\ k # 1 => Bulk(k) = <<End("0")>>
  BY DEF Bulk, Each
<1>2. ASSUME NEW a \in Accounts, NEW b \in Currencies PROVE buy(a, b) \in Seq(S)
  <2>1. D(5) \in Int
    BY DEF D
  <2>2. Ioc(Want(a, "USDT", b, D(5))) \in S
    BY <2>1, EverythingIn, WantIn, IocIn, Names
  <2> QED BY <2>2, OneIn
<1> HIDE DEF buy
<1>3. ASSUME NEW b \in Currencies PROVE buys(b) \in Seq(S)
  <2> DEFINE g == [i \in DOMAIN UsdtSubs |-> buy(UsdtSubs[i], b)]
  <2>1. g = [i \in DOMAIN UsdtSubs |-> g[i]] /\ g[1] = buy("U1", b) /\ g[2] = buy("U2", b)
    BY DEF UsdtSubs
  <2>2. g[1] \in Seq(S) /\ g[2] \in Seq(S)
    BY <1>2, <2>1, Names
  <2> HIDE DEF g, S
  <2>3. FlattenSeq(g) \in Seq(S)
    BY <2>1, <2>2, ForBothIn
  <2> QED BY <2>3 DEF g
<1> HIDE DEF buys
<1>4. f = [i \in DOMAIN ProblemPairs |-> f[i]] /\ \A i \in DOMAIN ProblemPairs : f[i] \in Seq(S)
  <2>1. \A i \in DOMAIN ProblemPairs : ProblemPairs[i] \in Currencies
    BY ProblemPairsIn
  <2> QED BY <1>3, <2>1
<1> HIDE DEF f
<1>5. FlattenSeq(f) \in Seq(S)
  BY <1>4, ProblemPairsIn, FlatEach
<1>6. <<End("0")>> \in Seq(S)
  BY EndIn, OneIn DEF Codes
<1> HIDE DEF S
<1>7. Bulk(k) \in Seq(S)
  BY <1>1, <1>5, <1>6
<1> QED BY <1>7 DEF S

\* What the evening moves is an integer, and the two balances it compares are naturals.
LEMMA MovedInt ==
  ASSUME Typed, NEW c
  PROVE  Moved(c) \in Int /\ Get(seen, "U1", c) \in Nat /\ Get(seen, "U2", c) \in Nat
<1>1. Get(seen, "U1", c) \in Nat /\ Get(seen, "U2", c) \in Nat
  BY Known, Names
<1>2. (Get(seen, "U1", c) + Get(seen, "U2", c)) \div 2 \in Int
  BY <1>1
<1> QED BY <1>1, <1>2 DEF Moved

\* At every stage the evening of the USDT subaccounts asks only for requests that pay from any
\* account.
LEMMA EvensIn == ASSUME Typed, NEW k \in Nat PROVE Evens(k) \in Seq(Plain(Everything))
<1> DEFINE S == Plain(Everything)
           x(c) == Get(seen, "U1", c)
           y(c) == Get(seen, "U2", c)
           lopsided(c) == \E n \in {x(c), y(c)} : 5 * n > 3 * (x(c) + y(c))
           send(c) == IF x(c) > y(c) THEN Move("U1", "U2", c, Moved(c)) ELSE Move("U2", "U1", c, Moved(c))
           f == [i \in DOMAIN EvenAssets |-> When(lopsided(EvenAssets[i]) /\ Moved(EvenAssets[i]) >= D(1), <<send(EvenAssets[i])>>)]
<1>1. /\ k = 1 => Evens(k) = BothLook
      /\ k = 2 => Evens(k) = FlattenSeq(f)
      /\ k \notin {1, 2} => Evens(k) = <<End("0")>>
  BY DEF Evens, Each
<1>2. ASSUME NEW c \in Currencies PROVE send(c) \in S
  <2>1. Moved(c) \in Int
    BY MovedInt
  <2>2. Move("U1", "U2", c, Moved(c)) \in S /\ Move("U2", "U1", c, Moved(c)) \in S
    BY <2>1, EverythingIn, MoveIn, Names
  <2> QED BY <2>2
<1>3. f = [i \in 1..5 |-> f[i]] /\ \A i \in 1..5 : EvenAssets[i] \in Currencies
  BY Names DEF EvenAssets
<1>4. \A i \in 1..5 : f[i] \in Seq(S)
  <2>0. DOMAIN EvenAssets = 1..5
    BY DEF EvenAssets
  <2> HIDE DEF send, lopsided, S
  <2> QED BY <1>2, <1>3, <2>0, WhenOneIn
<1> HIDE DEF f
<1>5. FlattenSeq(f) \in Seq(S)
  BY <1>3, <1>4, FlatOver
<1>6. BothLook \in Seq(S) /\ <<End("0")>> \in Seq(S)
  BY BothLookIn, EndIn, OneIn DEF Codes
<1> HIDE DEF S
<1>7. Evens(k) \in Seq(S)
  BY <1>1, <1>5, <1>6
<1> QED BY <1>7 DEF S

\* Whichever replenishment script runs, the plan of a stage is made of the requests of that stage.
LEMMA ReplenishPlanIn ==
  ASSUME Typed, NEW k \in Nat, script \in ReplenishScripts
  PROVE  ReplenishPlan(k) \in Seq(Asks(k))
<1>1. CASE script \in {"buffers", "normalize"}
  <2>1. Payers(k) = IF k = 2 THEN Everything ELSE {}
    BY <1>1 DEF Payers, Splitters, RestockScripts, TopupScripts, Sellers
  <2>2. ReplenishPlan(k) \in Seq(Paying(IF k = 2 THEN Everything ELSE {}))
    BY <1>1, BuffersIn, NormalizeIn DEF ReplenishPlan
  <2> QED BY <2>1, <2>2, AskedIn
<1>2. CASE script = "inventory"
  BY <1>2, InventoryIn DEF ReplenishPlan
<1>3. CASE script \in {"execReb", "execRetry", "replenish", "buyBase", "bulk", "evens"}
  <2>1. Payers(k) = Everything
    BY <1>3 DEF Payers, Splitters, RestockScripts, TopupScripts, Sellers
  <2>2. ReplenishPlan(k) \in Seq(Plain(Everything))
    BY <1>3, ExecRebIn, ExecRetryIn, ReplenishIn, BuyBaseIn, BulkIn, EvensIn DEF ReplenishPlan
  <2> QED BY <2>1, <2>2, PlainSeq, AskedIn
<1> QED BY <1>1, <1>2, <1>3 DEF ReplenishScripts

-----------------------------------------------------------------------------
(* The steps.                                                              *)

\* Whichever script runs, the plan of a stage is made of requests of that stage.
LEMMA PlanOf ==
  ASSUME Typed, NEW k \in Nat
  PROVE  /\ script \in RestockScripts => RestockPlan(k) \in Seq(Asks(k))
         /\ script \in TopupScripts => TopupPlan(k) \in Seq(Asks(k))
         /\ script \in LiquidateScripts => LiquidatePlan(k) \in Seq(Asks(k))
         /\ script \in ReplenishScripts => ReplenishPlan(k) \in Seq(Asks(k))
BY RestockPlanIn, TopupPlanIn, LiquidatePlanIn, ReplenishPlanIn

\* A share of an amount, and all of it.
LEMMA Shares ==
  ASSUME NEW x \in Nat
  PROVE  Part(x, 2, 2) = x /\ Part(x, 0, 2) = 0 /\ Part(x, 1, 2) \in Nat /\ Part(x, 1, 2) <= x
<1>1. x = 2 * (x \div 2) + (x % 2) /\ x % 2 \in 0..1 /\ x \div 2 \in Nat
  <2>1. x % 2 \in 0..1
    OBVIOUS
  <2>2. x \div 2 \in Nat
    OBVIOUS
  <2>3. x = 2 * (x \div 2) + (x % 2)
    OBVIOUS
  <2> QED BY <2>1, <2>2, <2>3
<1>2. PICK h \in Nat, b \in 0..1 : h = x \div 2 /\ b = x % 2 /\ x = 2 * h + b
  BY <1>1
<1>3. (b * 2) \div 2 = b /\ (b * 0) \div 2 = 0 /\ (b * 1) \div 2 = 0
  <2>1. b = 0 \/ b = 1
    BY <1>2
  <2> QED BY <2>1
<1> QED BY <1>2, <1>3 DEF Part

\* A request that spends.
Spending(r) == r.op \in Spends /\ r.on \in Accounts /\ r.give \in Currencies /\ r.get \in Currencies /\ r.amount \in Int
\* What a positive spending request pays and gets are naturals.
LEMMA PaysGets ==
  ASSUME NEW r, Spending(r), r.amount > 0
  PROVE  Pays(r) \in Nat /\ Gets(r) \in Nat
<1>1. r.amount \in Nat
  BY DEF Spending
<1>2. \A c, d : Convert(r.amount, c, d) \in Nat
  BY <1>1, ConvertNat
<1> QED BY <1>1, <1>2 DEF Pays, Gets

\* What carrying a request out does to a balance.
LEMMA CarryOut ==
  ASSUME bal \in Purses, NEW r, Spending(r), Takes(r), NEW n \in 0..2
  PROVE  /\ Carry(r, n) \in Purses /\ Part(Pays(r), n, 2) \in 0..Pays(r) /\ Part(Gets(r), n, 2) \in Nat
         /\ \A a \in Accounts, c \in Currencies :
              Carry(r, n)[a][c] = bal[a][c] - (IF r.on = a /\ r.give = c THEN Part(Pays(r), n, 2) ELSE 0)
                                    + (IF r.to = a /\ r.get = c THEN Part(Gets(r), n, 2) ELSE 0)
<1>1. r.amount > 0 /\ r.to \in Accounts /\ Pays(r) <= bal[r.on][r.give]
  BY DEF Takes
<1>2. Pays(r) \in Nat /\ Gets(r) \in Nat
  BY <1>1, PaysGets
<1>3. Part(Pays(r), n, 2) \in 0..Pays(r) /\ Part(Gets(r), n, 2) \in Nat
  <2>1. n = 0 \/ n = 1 \/ n = 2
    OBVIOUS
  <2>2. \A x \in Nat : Part(x, 2, 2) = x /\ Part(x, 0, 2) = 0 /\ Part(x, 1, 2) \in Nat /\ Part(x, 1, 2) <= x
    BY Shares
  <2>3. \A x \in Nat : Part(x, n, 2) \in 0..x
    BY <2>1, <2>2
  <2> QED BY <1>2, <2>3
<1> DEFINE p == Part(Pays(r), n, 2)
           g == Part(Gets(r), n, 2)
           b == [bal EXCEPT ![r.on][r.give] = @ + (-p)]
<1>4. Carry(r, n) = [b EXCEPT ![r.to][r.get] = @ + g]
  BY DEF Carry, Pay
<1>5. p \in Nat /\ g \in Nat /\ p <= bal[r.on][r.give]
  <2>1. bal[r.on][r.give] \in Nat
    BY DEF Purses, Spending
  <2> HIDE DEF p, g
  <2> QED BY <1>1, <1>2, <1>3, <2>1 DEF p, g
<1> HIDE DEF p, g
<1>6. b \in [Accounts -> [Currencies -> Int]]
  BY <1>5 DEF Purses, Spending
<1>7. \A a \in Accounts, c \in Currencies : b[a][c] = bal[a][c] - (IF r.on = a /\ r.give = c THEN p ELSE 0)
  BY <1>5 DEF Purses, Spending
<1> HIDE DEF b
<1>8. \A a \in Accounts, c \in Currencies :
        Carry(r, n)[a][c] = b[a][c] + (IF r.to = a /\ r.get = c THEN g ELSE 0)
  BY <1>1, <1>4, <1>5, <1>6 DEF Spending
<1>9. Carry(r, n) \in [Accounts -> [Currencies -> Int]]
  BY <1>1, <1>4, <1>5, <1>6 DEF Spending
<1>10. ASSUME NEW a \in Accounts, NEW c \in Currencies
       PROVE  /\ Carry(r, n)[a][c] = bal[a][c] - (IF r.on = a /\ r.give = c THEN p ELSE 0)
                                       + (IF r.to = a /\ r.get = c THEN g ELSE 0)
              /\ Carry(r, n)[a][c] >= 0
  <2>1. bal[a][c] \in Nat
    BY DEF Purses
  <2> QED BY <1>5, <1>7, <1>8, <2>1
<1>11. Carry(r, n) \in Purses
  <2>1. \A a \in Accounts, c \in Currencies : Carry(r, n)[a][c] \in Nat
    BY <1>9, <1>10
  <2> HIDE DEF b
  <2> QED BY <1>9, <2>1 DEF Purses
<1> QED BY <1>3, <1>10, <1>11 DEF p, g

\* The head of the queue.
LEMMA HeadIn ==
  ASSUME Typed, queue # <<>>
  PROVE  /\ Head(queue) \in Asks(stage) /\ Tail(queue) \in Seq(Asks(stage))
         /\ Head(queue) \in Shapes
         /\ Head(queue).op \in Spends =>
              /\ Spending(Head(queue)) /\ <<Head(queue).on, Head(queue).give>> \in Payers(stage)
              /\ Head(queue) \in Paying(Payers(stage))
         /\ Head(queue).op = "look" => Head(queue) \in Paying({}) /\ Head(queue).give \subseteq Currencies
         /\ Head(queue).op \in {"tick", "hop", "end"} => Head(queue).code \in Codes
         /\ Head(queue).op = "jump" => Head(queue) = Jump(2) /\ script = "inventory" /\ stage >= 11
         /\ Head(queue).drop = All => Head(queue).code \in Codes
         /\ Head(queue).drop \in Nat
<1> DEFINE r == Head(queue)
<1>1. r \in Asks(stage) /\ Tail(queue) \in Seq(Asks(stage))
  BY DEF Typed
<1> HIDE DEF r
<1>2. r \in Paying(Payers(stage)) \/ (r = Jump(2) /\ script = "inventory" /\ stage >= 11)
  BY <1>1 DEF Asks
<1>3. r \in Shapes /\ r.drop \in Nat /\ r.amount \in Int /\ r.on \in Accounts
  <2>1. r \in Shapes
    BY <1>2, JumpIn DEF Paying
  <2> QED BY <2>1 DEF Shapes
<1>4. "jump" \notin Spends \cup {"look", "tick", "hop", "end"} /\ "look" \notin Spends /\ All # 0
  BY DEF Spends, All
<1>5. r.op \in Spends => Spending(r) /\ <<r.on, r.give>> \in Payers(stage) /\ r \in Paying(Payers(stage))
  BY <1>2, <1>3, <1>4, JumpIn DEF Paying, Spending
<1>6. r.op = "look" => r \in Paying({}) /\ r.give \subseteq Currencies
  BY <1>2, <1>4, JumpIn DEF Paying
<1>7. r.op \in {"tick", "hop", "end"} => r.code \in Codes
  BY <1>2, <1>4, JumpIn DEF Paying, Spends
<1>8. r.op = "jump" => r = Jump(2) /\ script = "inventory" /\ stage >= 11
  BY <1>2 DEF Paying
<1>9. r.drop = All => r.code \in Codes
  BY <1>2, <1>4, JumpIn DEF Paying
<1> QED BY <1>1, <1>3, <1>5, <1>6, <1>7, <1>8, <1>9 DEF r

\* What is left of it when a request is refused.
LEMMA SkipIn ==
  ASSUME Typed, queue # <<>>, Skip(Head(queue))
  PROVE  /\ queue' \in Seq(Asks(stage))
         /\ \/ queue' = <<End(Head(queue).code)>> /\ Head(queue).code \in Codes
            \/ queue' = SubSeq(queue, 2 + Head(queue).drop, Len(queue))
<1>1. CASE Head(queue).drop = All
  <2>1. queue' = <<End(Head(queue).code)>> /\ Head(queue).code \in Codes
    BY <1>1, HeadIn DEF Skip
  <2>2. <<End(Head(queue).code)>> \in Seq(Plain(Payers(stage)))
    BY <2>1, EndIn, OneIn
  <2> QED BY <2>1, <2>2, AskedIn
<1>2. CASE Head(queue).drop # All
  <2>1. 2 + Head(queue).drop \in Nat \ {0} /\ queue \in Seq(Asks(stage))
    BY HeadIn DEF Typed
  <2>2. queue' = SubSeq(queue, 2 + Head(queue).drop, Len(queue))
    BY <1>2 DEF Skip
  <2> QED BY <2>1, <2>2, Rests
<1> QED BY <1>1, <1>2

\* The requests of a stage depend on nothing but the script.
LEMMA AsksSame == ASSUME script' = script, NEW CONSTANT k PROVE Payers(k)' = Payers(k) /\ Asks(k)' = Asks(k)
<1>1. Payers(k)' = Payers(k)
  BY DEF Payers
<1> QED BY <1>1 DEF Asks

\* The invariant holds when a script starts.
LEMMA TypedInit == Init => Typed
<1> SUFFICES ASSUME Init PROVE Typed
  OBVIOUS
<1>1. PICK s \in Setups : script = s.script /\ held = s.held /\ dark = s.dark /\ log = s.log
  BY DEF Init
<1>2. script \in Scripts /\ held \in Purses /\ dark \subseteq Currencies \X Currencies
      /\ log \in [Bases \X Quotes -> LogClasses]
  BY <1>1, SetupsAssumption DEF Purses
<1>3. Unread \in Books
  <2>1. Unread \in [{} -> Nat] /\ {} \in SUBSET Currencies
    BY DEF Unread
  <2> QED BY <2>1 DEF Books
<1>4. seen \in [Accounts -> Books] /\ old \in [Accounts -> Books]
  BY <1>3 DEF Init, WalletInit
<1>5. <<>> \in Seq(Asks(stage))
  OBVIOUS
<1> QED BY <1>2, <1>4, <1>5, RateTyped DEF Init, WalletInit, Typed, Purses, Codes

\* An order or a transfer, accepted or refused, keeps the invariant.
LEMMA SpendTyped ==
  ASSUME Typed, Accepted \/ AcceptedOnly \/ Refused
  PROVE  Typed'
<1> DEFINE r == Head(queue)
<1>1. queue # <<>> /\ r.op \in Spends /\ script' = script /\ stage' = stage /\ held' = held /\ old' = old
      /\ dark' = dark /\ log' = log /\ exit' = exit /\ trades' = trades
  BY DEF Accepted, AcceptedOnly, Refused
<1>2. Asks(stage)' = Asks(stage)
  BY <1>1, AsksSame DEF Asks, Payers
<1>3. Spending(r) /\ r \in Shapes
  BY <1>1, HeadIn
<1>4. queue' \in Seq(Asks(stage))
  BY <1>1, HeadIn, SkipIn DEF Accepted, AcceptedOnly, Refused
<1>5. bal' \in Purses
  <2>1. CASE Accepted
    <3>1. Takes(r) /\ bal' = Carry(r, 2) /\ 2 \in 0..2
      BY <2>1 DEF Accepted
    <3> QED BY <3>1, <1>3, CarryOut DEF Typed
  <2>2. CASE AcceptedOnly
    <3>1. PICK n \in 0..2 : Takes(r) /\ bal' = Carry(r, n)
      BY <2>2 DEF AcceptedOnly
    <3> QED BY <3>1, <1>3, CarryOut DEF Typed
  <2>3. CASE Refused
    BY <2>3 DEF Refused, Typed
  <2> QED BY <2>1, <2>2, <2>3
<1>6. seen' \in [Accounts -> Books]
  <2>1. CASE Refused
    <3>1. Unread \in Books
      <4>1. Unread \in [{} -> Nat] /\ {} \in SUBSET Currencies
        BY DEF Unread
      <4> QED BY <4>1 DEF Books
    <3> QED BY <2>1, <3>1, <1>3 DEF Refused, Typed
  <2>2. CASE Accepted \/ AcceptedOnly
    BY <2>2 DEF Accepted, AcceptedOnly, Typed
  <2> QED BY <2>1, <2>2
<1>7. faults' \in Nat /\ faults' + trades' <= MaxTroubles
  BY <1>1, RateTyped DEF Accepted, AcceptedOnly, Refused, Lost, Sound, Typed
<1>8. refused' \subseteq Currencies
  BY <1>3 DEF Accepted, AcceptedOnly, Refused, Typed, Spending
<1>9. idle' \in Nat /\ counted' \in Nat
  <2>1. idle \in Nat /\ counted \in Nat
    BY DEF Typed
  <2>2. idle' = idle \/ idle' = idle + 1
    BY DEF Accepted, AcceptedOnly, Refused
  <2>3. counted' = counted \/ Count(r)
    BY DEF Accepted, AcceptedOnly, Refused
  <2>4. counted' = counted \/ counted' = counted + 1 \/ counted' = counted + 0
    BY <2>3 DEF Count
  <2> QED BY <2>1, <2>2, <2>4
<1> HIDE DEF r
<1> QED BY <1>1, <1>2, <1>4, <1>5, <1>6, <1>7, <1>8, <1>9 DEF Typed, Purses

\* Reading balances keeps the invariant.
LEMMA LookTyped == ASSUME Typed, Looked PROVE Typed'
<1> DEFINE r == Head(queue)
           known == DOMAIN seen[r.on] \cup r.give
<1>1. queue # <<>> /\ r.op = "look" /\ script' = script /\ stage' = stage
      /\ UNCHANGED <<script, held, bal, old, dark, log, stage, trades, refused, idle, counted, exit>>
  BY DEF Looked
<1>2. Asks(stage)' = Asks(stage)
  BY <1>1, AsksSame DEF Asks, Payers
<1>3. r \in Shapes /\ r.give \subseteq Currencies /\ r.on \in Accounts
  <2>1. r \in Shapes /\ r.give \subseteq Currencies
    BY <1>1, HeadIn
  <2> QED BY <2>1 DEF Shapes
<1>4. queue' \in Seq(Asks(stage))
  BY <1>1, HeadIn, SkipIn DEF Looked
<1>5. seen[r.on] \in Books /\ DOMAIN seen[r.on] \subseteq Currencies
      /\ \A c \in DOMAIN seen[r.on] : seen[r.on][c] \in Nat
  <2>1. seen[r.on] \in Books
    BY <1>3 DEF Typed
  <2> QED BY <2>1 DEF Books
<1>6. [c \in known |-> IF c \in r.give THEN bal[r.on][c] ELSE seen[r.on][c]] \in Books
  <2>1. known \in SUBSET Currencies
    BY <1>3, <1>5
  <2>2. \A c \in known : (IF c \in r.give THEN bal[r.on][c] ELSE seen[r.on][c]) \in Nat
    BY <1>3, <1>5 DEF Typed, Purses
  <2> DEFINE v(c) == IF c \in r.give THEN bal[r.on][c] ELSE seen[r.on][c]
             x == [c \in known |-> v(c)]
  <2>3. \A c \in known : v(c) \in Nat
    BY <2>2
  <2> HIDE DEF known, v
  <2>4. x \in [known -> Nat]
    BY <2>3
  <2>5. x \in Books
    <3> HIDE DEF x
    <3> QED BY <2>1, <2>4 DEF Books
  <2> QED BY <2>5 DEF v
<1>7. [c \in DOMAIN seen[r.on] \ r.give |-> seen[r.on][c]] \in Books
  <2>1. DOMAIN seen[r.on] \ r.give \in SUBSET Currencies
    BY <1>5
  <2>2. \A c \in DOMAIN seen[r.on] \ r.give : seen[r.on][c] \in Nat
    BY <1>5
  <2> DEFINE d == DOMAIN seen[r.on] \ r.give
             v(c) == seen[r.on][c]
             y == [c \in d |-> v(c)]
  <2>3. \A c \in d : v(c) \in Nat
    BY <2>2
  <2>4. d \in SUBSET Currencies
    BY <2>1
  <2> HIDE DEF d, v
  <2>5. y \in [d -> Nat]
    BY <2>3
  <2>6. y \in Books
    <3> HIDE DEF y
    <3> QED BY <2>4, <2>5 DEF Books
  <2> QED BY <2>6 DEF d, v
<1>8. seen' \in [Accounts -> Books]
  <2>1. \/ seen' = [seen EXCEPT ![r.on] = [c \in known |-> IF c \in r.give THEN bal[r.on][c] ELSE seen[r.on][c]]]
        \/ seen' = [seen EXCEPT ![r.on] = [c \in DOMAIN seen[r.on] \ r.give |-> seen[r.on][c]]]
        \/ seen' = seen
    BY DEF Looked
  <2> DEFINE x == [c \in known |-> IF c \in r.give THEN bal[r.on][c] ELSE seen[r.on][c]]
             y == [c \in DOMAIN seen[r.on] \ r.give |-> seen[r.on][c]]
  <2>2. x \in Books /\ y \in Books /\ (seen' = [seen EXCEPT ![r.on] = x] \/ seen' = [seen EXCEPT ![r.on] = y] \/ seen' = seen)
    BY <1>6, <1>7, <2>1
  <2> HIDE DEF x, y
  <2> QED BY <1>3, <2>2 DEF Typed
<1>9. faults' \in Nat /\ faults' + trades' <= MaxTroubles
  BY <1>1, RateTyped DEF Looked, Lost, Sound, Typed
<1> HIDE DEF r, known
<1> QED BY <1>1, <1>2, <1>4, <1>8, <1>9 DEF Typed, Purses

\* Requests that neither spend nor look keep the invariant, drop the requests they say and skip a
\* stage only in the inventory script.
LEMMA EndsTyped ==
  ASSUME Typed, Ends
  PROVE  Typed' /\ queue' = SubSeq(queue, 2 + Head(queue).drop, Len(queue)) /\ queue' \in Seq(Asks(stage))
         /\ (stage' = stage \/ (stage' = stage + 2 /\ stage >= 11 /\ script = "inventory"))
<1> DEFINE r == Head(queue)
<1>1. queue # <<>> /\ r.op \in {"tick", "jump", "hop", "end"}
      /\ UNCHANGED <<script, held, bal, seen, old, dark, log, faults, trades, refused, idle>>
      /\ exit' = r.code /\ queue' = SubSeq(queue, 2 + r.drop, Len(queue))
      /\ counted' = counted + (IF r.op = "tick" THEN 1 ELSE 0)
      /\ stage' = stage + (IF r.op = "jump" THEN r.amount ELSE 0)
  BY DEF Ends
<1>2. queue' \in Seq(Asks(stage))
  <2>1. 2 + r.drop \in Nat \ {0} /\ queue \in Seq(Asks(stage))
    BY <1>1, HeadIn DEF Typed
  <2> QED BY <1>1, <2>1, Rests
<1>3. r.code \in Codes
  BY <1>1, HeadIn, JumpIn DEF Codes
<1>4. r.op = "jump" => r.amount = 2 /\ script = "inventory" /\ stage >= 11
  BY <1>1, HeadIn, JumpIn
<1>5. stage' = stage \/ (stage' = stage + 2 /\ script = "inventory" /\ stage >= 11)
  BY <1>1, <1>4 DEF Typed
<1>6. Asks(stage') = Asks(stage)
  <2>1. script = "inventory" => \A k \in Nat : k >= 11 => Payers(k) = FromMain
    BY DEF Payers, Splitters, RestockScripts, TopupScripts, Sellers
  <2>2. stage \in Nat
    BY DEF Typed
  <2> QED BY <1>5, <2>1, <2>2 DEF Asks
<1>7. Asks(stage)' = Asks(stage')
  BY <1>1 DEF Asks, Payers
<1>8. counted' \in Nat /\ stage' \in Nat
  BY <1>1, <1>5 DEF Typed
<1> HIDE DEF r
<1>9. Typed'
  BY <1>1, <1>2, <1>3, <1>6, <1>7, <1>8 DEF Typed, Purses
<1> QED BY <1>1, <1>2, <1>5, <1>9 DEF r

\* A trade of the running bot keeps the invariant and only lowers balances.
LEMMA BotTyped ==
  ASSUME Typed, BotSpends
  PROVE  Typed' /\ \A a \in Accounts, c \in Currencies : bal'[a][c] <= bal[a][c]
<1>1. UNCHANGED <<script, held, seen, old, dark, log, stage, queue, faults, refused, idle, counted, exit>>
      /\ trades' = trades + 1 /\ faults + trades < MaxTroubles
  BY DEF BotSpends
<1>2. PICK m \in Bot : bal' = [bal EXCEPT ![m[1]][m[2]] = @ \div 2]
  BY DEF BotSpends
<1>3. m[1] \in Accounts /\ m[2] \in Currencies
  BY RateTyped DEF Everything
<1>4. bal' \in Purses /\ \A a \in Accounts, c \in Currencies : bal'[a][c] <= bal[a][c]
  <2>1. bal[m[1]][m[2]] \div 2 \in Nat /\ bal[m[1]][m[2]] \div 2 <= bal[m[1]][m[2]]
    <3>1. bal[m[1]][m[2]] \in Nat
      BY <1>3 DEF Typed, Purses
    <3> QED BY <3>1
  <2>2. bal' \in Purses
    BY <1>2, <1>3, <2>1 DEF Typed, Purses
  <2>3. \A a \in Accounts, c \in Currencies : bal'[a][c] = IF a = m[1] /\ c = m[2] THEN bal[m[1]][m[2]] \div 2 ELSE bal[a][c]
    BY <1>2, <1>3 DEF Typed, Purses
  <2>4. \A a \in Accounts, c \in Currencies : bal[a][c] \in Nat
    BY DEF Typed, Purses
  <2> QED BY <2>1, <2>2, <2>3, <2>4
<1>5. Asks(stage)' = Asks(stage)
  BY <1>1, AsksSame DEF Asks, Payers
<1>6. trades' \in Nat /\ faults' + trades' <= MaxTroubles
  BY <1>1, RateTyped DEF Typed
<1> QED BY <1>1, <1>4, <1>5, <1>6 DEF Typed, Purses

\* Going on to the next stage keeps the invariant when the plan is made of requests of that stage.
LEMMA AdvanceTyped ==
  ASSUME Typed, NEW plan, Advance(plan), plan \in Seq(Asks(stage + 1))
  PROVE  Typed'
<1>1. queue' = plan /\ stage' = stage + 1 /\ (old' = seen \/ old' = old)
      /\ UNCHANGED <<script, held, bal, seen, dark, log, faults, trades, refused, idle, counted, exit>>
  BY DEF Advance
<1>2. Asks(stage)' = Asks(stage + 1)
  <2>1. Asks(stage)' = Asks(stage')
    BY <1>1 DEF Asks, Payers
  <2> QED BY <1>1, <2>1
<1>3. stage' \in Nat /\ old' \in [Accounts -> Books]
  BY <1>1 DEF Typed
<1> QED BY <1>1, <1>2, <1>3 DEF Typed, Purses

\* The next stage of whichever script it is.
LEMMA Advances ==
  ASSUME Typed, RestockNext \/ TopupNext \/ LiquidateNext \/ ReplenishNext
  PROVE  \E plan \in Seq(Asks(stage + 1)) :
           /\ Advance(plan)
           /\ \/ script \in RestockScripts /\ plan = RestockPlan(stage + 1)
              \/ script \in TopupScripts /\ plan = TopupPlan(stage + 1)
              \/ script \in LiquidateScripts /\ plan = LiquidatePlan(stage + 1)
              \/ script \in ReplenishScripts /\ plan = ReplenishPlan(stage + 1)
<1>1. stage + 1 \in Nat
  BY DEF Typed
<1>2. CASE RestockNext
  BY <1>1, <1>2, PlanOf DEF RestockNext
<1>3. CASE TopupNext
  BY <1>1, <1>3, PlanOf DEF TopupNext
<1>4. CASE LiquidateNext
  BY <1>1, <1>4, PlanOf DEF LiquidateNext
<1>5. CASE ReplenishNext
  BY <1>1, <1>5, PlanOf DEF ReplenishNext
<1> QED BY <1>2, <1>3, <1>4, <1>5

\* Every step of a script keeps the invariant.
LEMMA TypedStep == Typed /\ [Next]_walletVars => Typed'
<1> SUFFICES ASSUME Typed, [Next]_walletVars PROVE Typed'
  OBVIOUS
<1>1. CASE Accepted \/ AcceptedOnly \/ Refused
  BY <1>1, SpendTyped
<1>2. CASE Looked
  BY <1>2, LookTyped
<1>3. CASE Ends
  BY <1>3, EndsTyped
<1>4. CASE BotSpends
  BY <1>4, BotTyped
<1>5. CASE RestockNext \/ TopupNext \/ LiquidateNext \/ ReplenishNext
  BY <1>5, Advances, AdvanceTyped
<1>6. CASE UNCHANGED walletVars
  <2>1. UNCHANGED <<script, held, bal, seen, old, dark, log, stage, queue, faults, trades, refused, idle, counted, exit>>
    BY <1>6 DEF walletVars
  <2>2. Asks(stage)' = Asks(stage)
    BY <2>1 DEF Asks, Payers
  <2> QED BY <2>1, <2>2 DEF Typed, Purses
<1> QED BY <1>1, <1>2, <1>3, <1>4, <1>5, <1>6 DEF Next, WalletStep

\* In every run of every account script, from any balances, whatever the exchange refuses and
\* whenever the bot trades, balances are naturals, and the requests still to be made pay only from
\* the accounts and currencies the stage may touch.
THEOREM WalletTyped == Spec => []Typed
BY TypedInit, TypedStep, PTL DEF Spec

\* The invariant implies the type invariant of the module.
LEMMA TypedTypeOK == Typed => TypeOK
<1> SUFFICES ASSUME Typed PROVE TypeOK
  OBVIOUS
<1>1. \A a \in Accounts : DOMAIN seen[a] \subseteq Currencies /\ \A c \in DOMAIN seen[a] : seen[a][c] \in Nat
  <2>1. \A a \in Accounts : seen[a] \in Books
    BY DEF Typed
  <2> QED BY <2>1 DEF Books
<1> QED BY <1>1 DEF Typed, TypeOK, Purses, Codes

\* The type invariant of the account scripts, for every rate, every list of setups and every limit
\* on troubles.
THEOREM WalletTypeOK == Spec => []TypeOK
BY WalletTyped, TypedTypeOK, PTL

-----------------------------------------------------------------------------
(* What a queue of requests may take from one balance.                     *)

Weigh(a, c) == [r \in Shapes |-> IF r.op \in Spends /\ r.on = a /\ r.give = c THEN Over(Pays(r)) ELSE 0]

\* What a request takes from a balance is a natural.
LEMMA WeighNat == ASSUME NEW a, NEW c PROVE Weigh(a, c) \in [Shapes -> Nat]
<1>1. \A r \in Shapes : Over(Pays(r)) \in Nat
  <2> SUFFICES ASSUME NEW r \in Shapes PROVE Over(Pays(r)) \in Nat
    OBVIOUS
  <2>1. r.amount \in Int
    BY DEF Shapes
  <2>2. Pays(r) \in Int
    BY <2>1, ConvertInt DEF Pays
  <2> QED BY <2>2, Amounts
<1> QED BY <1>1 DEF Weigh

\* The requests that pay from P are requests, and the plain ones are among them.
LEMMA PayingShapes == ASSUME NEW P PROVE Paying(P) \subseteq Shapes /\ Plain(P) \subseteq Paying(P)
BY DEF Paying, Plain

\* Requests that pay from elsewhere take nothing.
LEMMA PayingZero ==
  ASSUME NEW a, NEW c, NEW P, NEW q \in Seq(Paying(P)), <<a, c>> \notin P
  PROVE  q \in Seq(Shapes) /\ Total(q, Weigh(a, c)) = 0
<1> DEFINE w == Weigh(a, c)
           Z == {r \in Shapes : w[r] = 0}
<1>1. \A r \in Paying(P) : r \in Z
  BY DEF Paying, Weigh
<1>2. Paying(P) \subseteq Z
  BY <1>1
<1>3. w \in [Shapes -> Nat]
  BY WeighNat
<1> HIDE DEF w
<1>4. q \in Seq({r \in Shapes : w[r] = 0})
  BY <1>2, SeqMonotonic
<1>5. q \in Seq(Shapes) /\ Total(q, w) = 0
  BY <1>3, <1>4, TotalZero
<1> QED BY <1>5 DEF w

\* A plan of a stage takes nothing from a balance that is not among the payers of the stage.
LEMMA AsksZero ==
  ASSUME NEW a, NEW c, NEW k, NEW q \in Seq(Asks(k)), <<a, c>> \notin Payers(k)
  PROVE  q \in Seq(Shapes) /\ Total(q, Weigh(a, c)) = 0
<1> DEFINE w == Weigh(a, c)
           Z == {r \in Shapes : w[r] = 0}
<1>1. \A r \in Paying(Payers(k)) : r \in Z
  BY DEF Paying, Weigh
<1>2. Jump(2) \in Z
  BY JumpIn DEF Weigh, Spends
<1>3. Asks(k) \subseteq Z
  BY <1>1, <1>2 DEF Asks
<1>4. w \in [Shapes -> Nat]
  BY WeighNat
<1> HIDE DEF w
<1>5. q \in Seq({r \in Shapes : w[r] = 0})
  BY <1>3, SeqMonotonic
<1>6. q \in Seq(Shapes) /\ Total(q, w) = 0
  BY <1>4, <1>5, TotalZero
<1> QED BY <1>6 DEF w

\* The requests of a stage are requests.
LEMMA AsksShapes == ASSUME NEW k PROVE Asks(k) \subseteq Shapes
BY PayingShapes, JumpIn DEF Asks

\* What a single request takes.
LEMMA WeighOne ==
  ASSUME NEW a, NEW c, NEW x \in Accounts, NEW g \in Currencies, NEW h \in Currencies, NEW n \in Int
  PROVE  /\ Trade(x, g, h, n) \in Shapes /\ Move(x, "main", g, n) \in Shapes
         /\ Weigh(a, c)[Trade(x, g, h, n)] = IF x = a /\ g = c THEN Over(n) ELSE 0
         /\ Weigh(a, c)[Move(x, "main", g, n)] = IF x = a /\ g = c THEN Over(n) ELSE 0
<1>1. Trade(x, g, h, n) \in Shapes /\ Move(x, "main", g, n) \in Shapes
  BY TradeIn, MoveIn, PayingShapes, EverythingIn, Names DEF Plain, Paying
<1>2. Pays(Trade(x, g, h, n)) = n /\ Pays(Move(x, "main", g, n)) = n
  BY DEF Trade, Move, Request, Pays
<1>3. /\ Trade(x, g, h, n).op = "trade" /\ Trade(x, g, h, n).on = x /\ Trade(x, g, h, n).give = g
      /\ Move(x, "main", g, n).op = "move" /\ Move(x, "main", g, n).on = x /\ Move(x, "main", g, n).give = g
  BY DEF Trade, Move, Request
<1> QED BY <1>1, <1>2, <1>3 DEF Weigh, Spends

\* Pieces of which at most one can touch the balance.
LEMMA EachOnce ==
  ASSUME NEW a, NEW c, NEW n \in Nat, NEW P, NEW f, f = [i \in 1..n |-> f[i]],
         \A i \in 1..n : f[i] \in Seq(Paying(P[i])),
         \A i, j \in 1..n : i # j /\ <<a, c>> \in P[i] => <<a, c>> \notin P[j],
         NEW m \in Nat, \A i \in 1..n : <<a, c>> \in P[i] => Total(f[i], Weigh(a, c)) <= m
  PROVE  FlattenSeq(f) \in Seq(Shapes) /\ Total(FlattenSeq(f), Weigh(a, c)) <= m
<1> DEFINE w == Weigh(a, c)
<1>1. ASSUME NEW i \in 1..n
      PROVE  f[i] \in Seq(Shapes) /\ Total(f[i], w) <= m /\ (<<a, c>> \notin P[i] => Total(f[i], w) = 0)
  <2>1. f[i] \in Seq(Shapes)
    BY PayingShapes, SeqMonotonic
  <2>2. <<a, c>> \notin P[i] => Total(f[i], w) = 0
    BY PayingZero
  <2>3. CASE <<a, c>> \in P[i]
    BY <2>1, <2>3
  <2>4. CASE <<a, c>> \notin P[i]
    BY <2>1, <2>2, <2>4
  <2> QED BY <2>3, <2>4
<1>2. f \in Seq(Seq(Shapes)) /\ Len(f) = n /\ FlattenSeq(f) \in Seq(Shapes)
  BY <1>1, FlatOver
<1>3. w \in [Shapes -> Nat]
  BY WeighNat
<1> HIDE DEF w
<1>4. \A i \in 1..Len(f) : Total(f[i], w) <= m
  BY <1>1, <1>2
<1>5. \A i, j \in 1..Len(f) : i # j => Total(f[i], w) = 0 \/ Total(f[j], w) = 0
  BY <1>1, <1>2
<1>6. Total(FlattenSeq(f), w) <= m
  BY <1>2, <1>3, <1>4, <1>5, FlattenOnce
<1> QED BY <1>2, <1>6 DEF w

\* A piece that is one request or none.
LEMMA WhenTotal ==
  ASSUME NEW a, NEW c, NEW b, NEW r \in Shapes, NEW m \in Nat, b => Weigh(a, c)[r] <= m
  PROVE  When(b, <<r>>) \in Seq(Shapes) /\ Total(When(b, <<r>>), Weigh(a, c)) <= m
<1>1. Total(<<r>>, Weigh(a, c)) = Weigh(a, c)[r] /\ Total(<<>>, Weigh(a, c)) = 0
  BY WeighNat, TotalOne, TotalEmpty
<1>2. <<r>> \in Seq(Shapes) /\ <<>> \in Seq(Shapes)
  OBVIOUS
<1> QED BY <1>1, <1>2 DEF When

\* Two pieces, of which the second pays from elsewhere.
LEMMA BehindTotal ==
  ASSUME NEW a, NEW c, NEW p \in Seq(Shapes), NEW P, NEW q \in Seq(Paying(P)), <<a, c>> \notin P
  PROVE  p \o q \in Seq(Shapes) /\ Total(p \o q, Weigh(a, c)) = Total(p, Weigh(a, c))
<1> DEFINE w == Weigh(a, c)
<1>1. q \in Seq(Shapes) /\ Total(q, w) = 0
  BY PayingZero
<1>2. w \in [Shapes -> Nat]
  BY WeighNat
<1> HIDE DEF w
<1>3. Total(p \o q, w) = Total(p, w) + Total(q, w) /\ Total(p, w) \in Nat
  BY <1>1, <1>2, TotalConcat, TotalNat
<1> QED BY <1>1, <1>3, BehindIn DEF w

-----------------------------------------------------------------------------
(* A balance that is meant to stay is paid from in one stage at most.      *)

Guarded(a, c) == Reserve(a, c) # 0

\* The only stages that may take from a guarded balance, one with a reserve.
LEMMA WhenPaid ==
  ASSUME Typed, NEW a \in Accounts, NEW c \in Currencies, Guarded(a, c), NEW k \in Nat, <<a, c>> \in Payers(k)
  PROVE  \/ script = "jul10" /\ a \in Zar /\ c = "USDC" /\ k = 2
         \/ script = "btc" /\ a = "main" /\ c = "USDT" /\ k = 2
         \/ script = "phase2" /\ k \in 2..7 /\ a = SweptSubs[k - 1] /\ c = Bucket(a) /\ a # "main"
         \/ script = "drain" /\ k \in 1..8 /\ a = UsdcSubs[1 + ((k - 1) \div 4)]
              /\ (((k - 1) % 4 = 1 /\ c = "EURC") \/ ((k - 1) % 4 = 2 /\ c = "USDC"))
         \/ script = "buffers" /\ k = 2 /\ held[a][c] >= D(1)
         \/ script = "normalize" /\ k = 2 /\ c # "ZAR"
         \/ script = "inventory" /\ k = 2 /\ a # "main" /\ c \in Bases
         \/ script = "inventory" /\ k \in 4..9 /\ a = BucketSubs[k - 3] /\ c = QuoteOf(a) /\ a # "main"
<1> USE DEF Guarded
<1>1. CASE script = "jul10"
  <2>1. Payers(k) = IF k = 2 THEN Zar \X {"USDC"} ELSE FromMain
    BY <1>1 DEF Payers, Splitters, RestockScripts, TopupScripts, Sellers
  <2>2. a \in Zar /\ c = "USDC"
    BY <1>1 DEF Reserve, Sellers
  <2>3. "main" \notin Zar
    BY DEF Zar
  <2> QED BY <1>1, <2>1, <2>2, <2>3 DEF FromMain
<1>2. CASE script = "btc"
  <2>1. Payers(k) = IF k = 2 THEN {<<"main", "USDT">>} ELSE {"main"} \X Bases
    BY <1>2 DEF Payers, Splitters, RestockScripts, TopupScripts, Sellers
  <2>2. a = "main" /\ c = "USDT"
    BY <1>2 DEF Reserve, Sellers
  <2>3. "USDT" \notin Bases
    BY DEF Bases
  <2> QED BY <1>2, <2>1, <2>2, <2>3
<1>3. CASE script = "phase2"
  <2>1. Payers(k) = IF k \in 2..7 THEN {<<SweptSubs[k - 1], Bucket(SweptSubs[k - 1])>>} ELSE FromMain
    BY <1>3 DEF Payers, Splitters, RestockScripts, TopupScripts, Sellers
  <2>2. a # "main" /\ c = Bucket(a)
    BY <1>3 DEF Reserve, Sellers
  <2> QED BY <1>3, <2>1, <2>2 DEF FromMain
<1>4. CASE script = "drain"
  <2>1. Payers(k) = DrainPayers(k)
    BY <1>4 DEF Payers, DrainPayers, Splitters, RestockScripts, TopupScripts, Sellers
  <2>2. c = "EURC" \/ c = "USDC"
    BY <1>4 DEF Reserve, Sellers
  <2> DEFINE m == (k - 1) % 4
             d == UsdcSubs[1 + ((k - 1) \div 4)]
  <2>3. /\ k \in 1..8 /\ a = d
        /\ c \in (CASE m = 1 -> {"EURC"} [] m = 2 -> {"USDC"} [] OTHER -> {"ZAR"})
    BY <2>1 DEF DrainPayers
  <2>4. (m = 1 /\ c = "EURC") \/ (m = 2 /\ c = "USDC")
    <3>1. m \in Nat
      BY <2>3
    <3> HIDE DEF m, d
    <3>2. CASE m = 1
      BY <2>3, <3>2
    <3>3. CASE m = 2
      BY <2>3, <3>3
    <3>4. CASE m # 1 /\ m # 2
      BY <2>2, <2>3, <3>4
    <3> QED BY <3>2, <3>3, <3>4
  <2>5. k \in 1..8 /\ a = d /\ ((m = 1 /\ c = "EURC") \/ (m = 2 /\ c = "USDC"))
    BY <2>3, <2>4
  <2> QED BY <1>4, <2>5 DEF m, d
<1>5. CASE script = "buffers"
  <2>1. Payers(k) = IF k = 2 THEN Everything ELSE {}
    BY <1>5 DEF Payers, Splitters, RestockScripts, TopupScripts, Sellers
  <2>2. held[a][c] >= D(1)
    BY <1>5 DEF Reserve, Sellers
  <2> QED BY <1>5, <2>1, <2>2
<1>6. CASE script = "normalize"
  <2>1. Payers(k) = IF k = 2 THEN Everything ELSE {}
    BY <1>6 DEF Payers, Splitters, RestockScripts, TopupScripts, Sellers
  <2>2. c # "ZAR"
    BY <1>6 DEF Reserve, Sellers
  <2> QED BY <1>6, <2>1, <2>2
<1>7. CASE script = "inventory"
  <2>1. /\ k = 2 => Payers(k) = (Accounts \ {"main"}) \X Bases
        /\ k \in 4..9 => Payers(k) = {<<BucketSubs[k - 3], QuoteOf(BucketSubs[k - 3])>>}
        /\ k \notin {2} \cup 4..9 => Payers(k) = FromMain
    BY <1>7 DEF Payers, Splitters, RestockScripts, TopupScripts, Sellers
  <2>2. a # "main"
    BY <1>7 DEF Reserve, Sellers
  <2> QED BY <1>7, <2>1, <2>2 DEF FromMain
<1>8. CASE script \in Sellers
  <2>1. Payers(k) = {"main"} \X Bases
    BY <1>8 DEF Payers, Splitters, RestockScripts, TopupScripts, Sellers
  <2>2. c \in Quotes
    BY <1>8 DEF Reserve, Sellers
  <2> QED BY <2>1, <2>2 DEF Quotes, Bases
<1>9. CASE script = "spot"
  <2>1. Payers(k) = Zar \X (Currencies \ {"ZAR"})
    BY <1>9 DEF Payers, Splitters, RestockScripts, TopupScripts, Sellers
  <2>2. c = "ZAR"
    BY <1>9 DEF Reserve, Sellers
  <2> QED BY <2>1, <2>2
<1>10. CASE script = "sweep"
  <2>1. Payers(k) = Accounts \X (Currencies \ {"USDT", "USDC"})
    BY <1>10 DEF Payers, Splitters, RestockScripts, TopupScripts, Sellers
  <2>2. c = "USDT" \/ c = "USDC"
    BY <1>10 DEF Reserve, Sellers
  <2> QED BY <2>1, <2>2
<1>11. CASE script \notin {"jul10", "btc", "phase2", "drain", "buffers", "normalize", "inventory", "spot", "sweep"}
                          \cup Sellers
  BY <1>11 DEF Reserve
<1> QED BY <1>1, <1>2, <1>3, <1>4, <1>5, <1>6, <1>7, <1>8, <1>9, <1>10, <1>11

\* A guarded balance is paid from at one stage of a script only.
LEMMA Once ==
  ASSUME Typed, NEW a \in Accounts, NEW c \in Currencies, Guarded(a, c), NEW j \in Nat, NEW k \in Nat,
         <<a, c>> \in Payers(j), <<a, c>> \in Payers(k)
  PROVE  j = k
<1>1. \A x, y \in 2..7 : SweptSubs[x - 1] = SweptSubs[y - 1] => x = y
  <2>1. \A x, y \in 1..6 : SweptSubs[x] = SweptSubs[y] => x = y
    BY SubLists
  <2>2. \A x \in 2..7 : x - 1 \in 1..6
    OBVIOUS
  <2> QED BY <2>1, <2>2
<1>2. \A x, y \in 4..9 : BucketSubs[x - 3] = BucketSubs[y - 3] => x = y
  <2>1. \A x, y \in 1..6 : BucketSubs[x] = BucketSubs[y] => x = y
    BY SubLists
  <2>2. \A x \in 4..9 : x - 3 \in 1..6
    OBVIOUS
  <2> QED BY <2>1, <2>2
<1>3. \A x \in Bases : \A b : x # QuoteOf(b)
  BY DEF Bases, QuoteOf
<1>4. CASE script = "drain"
  <2>1. \A x \in 1..8 : 1 + ((x - 1) \div 4) \in 1..2 /\ x = 4 * ((1 + ((x - 1) \div 4)) - 1) + ((x - 1) % 4) + 1
    OBVIOUS
  <2>2. \A x, y \in 1..2 : UsdcSubs[x] = UsdcSubs[y] => x = y
    BY DEF UsdcSubs
  <2>3. /\ j \in 1..8 /\ a = UsdcSubs[1 + ((j - 1) \div 4)]
        /\ (((j - 1) % 4 = 1 /\ c = "EURC") \/ ((j - 1) % 4 = 2 /\ c = "USDC"))
    BY <1>4, WhenPaid
  <2>4. /\ k \in 1..8 /\ a = UsdcSubs[1 + ((k - 1) \div 4)]
        /\ (((k - 1) % 4 = 1 /\ c = "EURC") \/ ((k - 1) % 4 = 2 /\ c = "USDC"))
    BY <1>4, WhenPaid
  <2>5. 1 + ((j - 1) \div 4) = 1 + ((k - 1) \div 4) /\ (j - 1) % 4 = (k - 1) % 4
    BY <2>1, <2>2, <2>3, <2>4
  <2> QED BY <2>1, <2>3, <2>4, <2>5
<1>5. CASE script = "phase2"
  BY <1>1, <1>5, WhenPaid
<1>6. CASE script = "inventory"
  BY <1>2, <1>3, <1>6, WhenPaid
<1>7. CASE script \notin {"drain", "phase2", "inventory"}
  <2>1. j = 2
    BY <1>7, WhenPaid
  <2>2. k = 2
    BY <1>7, WhenPaid
  <2> QED BY <2>1, <2>2
<1> QED BY <1>4, <1>5, <1>6, <1>7

-----------------------------------------------------------------------------
(* The plan of that stage takes no more than what is above the reserve.    *)

Above(a, c) == Over(Get(seen, a, c) - Reserve(a, c))

\* A reserve and what is above it are naturals.
LEMMA ReserveNat ==
  ASSUME Typed, NEW a \in Accounts, NEW c \in Currencies
  PROVE  Reserve(a, c) \in Nat /\ Above(a, c) \in Nat
<1>1. held[a][c] \in Nat /\ held[a][c] \div 2 \in Nat
  <2>1. held[a][c] \in Nat
    BY DEF Typed, Purses
  <2> QED BY <2>1
<1>2. \A x : BufferOf[QuoteOf(x)] \in Nat /\ Keep[Bucket(x)] \in Nat
  BY DEF BufferOf, QuoteOf, Keep, Bucket, D
<1>3. D(2) \in Nat /\ Cushion \in Nat /\ ReserveEurc \in Nat /\ ReserveUsdc \in Nat /\ PerSub \in Nat
  BY DEF D, Cushion, ReserveEurc, ReserveUsdc, PerSub
<1>4. Reserve(a, c) \in Nat
  <2> DEFINE h == held[a][c]
             g == held[a][c] \div 2
  <2>0. h \in Nat /\ g \in Nat
    BY <1>1
  <2>1. CASE script = "phase2"
    BY <1>2, <2>1 DEF Reserve, Sellers
  <2>2. CASE script = "inventory"
    BY <1>2, <1>3, <2>2 DEF Reserve, Sellers
  <2>3. CASE script = "buffers"
    BY <1>1, <2>3 DEF Reserve, Sellers
  <2>4. CASE script \notin {"phase2", "inventory", "buffers"}
    <3>1. Reserve(a, c) \in {D(2), Cushion, h, ReserveEurc, ReserveUsdc, PerSub, 0}
      BY <2>4 DEF Reserve
    <3> HIDE DEF h, g
    <3> QED BY <1>3, <2>0, <3>1
  <2> QED BY <2>1, <2>2, <2>3, <2>4
<1>5. Get(seen, a, c) \in Nat
  BY Known
<1>6. Get(seen, a, c) - Reserve(a, c) \in Int
  BY <1>4, <1>5
<1> QED BY <1>4, <1>6, Amounts DEF Above

\* jul10 plans to sell no more USDC of a rand subaccount than is above its reserve.
LEMMA Jul10Keeps ==
  ASSUME Typed, script = "jul10", NEW a \in Zar
  PROVE  Total(Jul10(2), Weigh(a, "USDC")) <= Above(a, "USDC")
<1> DEFINE n(x) == Get(seen, x, "USDC") - D(2)
           f == [i \in DOMAIN ZarSubs |-> When(n(ZarSubs[i]) > 0, <<Move(ZarSubs[i], "main", "USDC", n(ZarSubs[i]))>>)]
           P == [i \in 1..2 |-> {<<ZarSubs[i], "USDC">>}]
           m == Above(a, "USDC")
<1>0. Jul10(2) = FlattenSeq(f) \o <<Look("main")>>
  BY DEF Jul10, Each
<1>1. DOMAIN ZarSubs = 1..2 /\ \A i \in 1..2 : ZarSubs[i] \in Zar
  BY DEF ZarSubs, Zar
<1>2. \A x \in Zar : n(x) \in Int /\ x \in Accounts
  BY Known, Names, DollarsTyped
<1>3. a \in Accounts /\ m \in Nat /\ m = Over(n(a))
  <2>1. Reserve(a, "USDC") = D(2)
    BY DEF Reserve, Sellers
  <2> QED BY <1>2, <2>1, ReserveNat, Names DEF Above
<1> HIDE DEF n, m
<1>4. ASSUME NEW i \in 1..2
      PROVE  f[i] \in Seq(Paying(P[i])) /\ (<<a, "USDC">> \in P[i] => Total(f[i], Weigh(a, "USDC")) <= m)
  <2> DEFINE x == ZarSubs[i]
             r == Move(x, "main", "USDC", n(x))
  <2>1. x \in Accounts /\ n(x) \in Int /\ f[i] = When(n(x) > 0, <<r>>) /\ P[i] = {<<x, "USDC">>}
    BY <1>1, <1>2
  <2> HIDE DEF x, P, f
  <2>2. r \in Plain(P[i])
    BY <2>1, MoveIn, Names
  <2>3. r \in Shapes /\ (x = a => Weigh(a, "USDC")[r] <= m)
    BY <1>3, <2>1, WeighOne, Names
  <2> HIDE DEF r
  <2>4. f[i] \in Seq(Paying(P[i]))
    BY <2>1, <2>2, WhenOneIn, PlainPaying
  <2>5. x = a => Total(f[i], Weigh(a, "USDC")) <= m
    BY <1>3, <2>1, <2>3, WhenTotal
  <2> QED BY <2>1, <2>4, <2>5
<1>5. \A i, j \in 1..2 : i # j /\ <<a, "USDC">> \in P[i] => <<a, "USDC">> \notin P[j]
  BY DEF ZarSubs
<1>6. f = [i \in 1..2 |-> f[i]]
  BY <1>1
<1> HIDE DEF f, P
<1>10. (\A i \in 1..2 : f[i] \in Seq(Paying(P[i]))) /\ 2 \in Nat
       /\ \A i \in 1..2 : <<a, "USDC">> \in P[i] => Total(f[i], Weigh(a, "USDC")) <= m
  BY <1>4
<1> DEFINE c == "USDC"
<1>11. /\ m \in Nat /\ 2 \in Nat /\ f = [i \in 1..2 |-> f[i]] /\ \A i \in 1..2 : f[i] \in Seq(Paying(P[i]))
       /\ \A i, j \in 1..2 : i # j /\ <<a, c>> \in P[i] => <<a, c>> \notin P[j]
       /\ \A i \in 1..2 : <<a, c>> \in P[i] => Total(f[i], Weigh(a, c)) <= m
  BY <1>3, <1>5, <1>6, <1>10
<1> HIDE DEF c
<1>12. FlattenSeq(f) \in Seq(Shapes) /\ Total(FlattenSeq(f), Weigh(a, c)) <= m
  BY <1>11, EachOnce
<1>7. FlattenSeq(f) \in Seq(Shapes) /\ Total(FlattenSeq(f), Weigh(a, "USDC")) <= m
  BY <1>12 DEF c
<1>8. <<Look("main")>> \in Seq(Paying({})) /\ <<a, "USDC">> \notin {}
  BY LookIn, OneIn, PlainPaying, Names
<1>9. Total(FlattenSeq(f) \o <<Look("main")>>, Weigh(a, "USDC")) <= m
  BY <1>7, <1>8, BehindTotal
<1> QED BY <1>0, <1>9 DEF m

\* The BTC seed plans to spend no more USDT of main than is above its reserve.
LEMMA SeedBtcKeeps ==
  ASSUME Typed, script = "btc"
  PROVE  Total(SeedBtc(2), Weigh("main", "USDT")) <= Above("main", "USDT")
<1> DEFINE w == Weigh("main", "USDT")
           x == BtcSpend(35)
           y == BtcSpend(40)
           r == Trade("main", "USDT", "ETH", x)
           q == Trade("main", "USDT", "BTC", y)
           m == Above("main", "USDT")
<1>1. SeedBtc(2) = IF x < D(5) THEN <<End("0")>> ELSE <<r, q, Look("main")>>
  BY DEF SeedBtc
<1>2. x \in Nat /\ y \in Nat /\ x + y <= m
  <2> DEFINE avail == Over(Main("USDT") - Cushion)
  <2>1. avail \in Nat /\ m = avail
    <3>1. Reserve("main", "USDT") = Cushion
      BY DEF Reserve, Sellers
    <3> QED BY <3>1, ReserveNat, Names DEF Above, Main
  <2>2. x = (IF avail < D(75) THEN Part(avail, 35, 75) ELSE D(35)) /\ y = (IF avail < D(75) THEN Part(avail, 40, 75) ELSE D(40))
    BY DEF BtcSpend
  <2> HIDE DEF avail, m, x, y
  <2>3. Part(avail, 35, 75) \in Nat /\ Part(avail, 40, 75) \in Nat /\ Part(avail, 35, 75) + Part(avail, 40, 75) <= avail
    <3>1. PICK u \in Nat, v \in 0..74 : u = avail \div 75 /\ v = avail % 75 /\ avail = 75 * u + v
      BY <2>1
    <3>2. (v * 35) \div 75 \in Nat /\ (v * 40) \div 75 \in Nat /\ (v * 35) \div 75 + (v * 40) \div 75 <= v
      OBVIOUS
    <3> QED BY <3>1, <3>2 DEF Part
  <2> QED BY <2>1, <2>2, <2>3 DEF D
<1>3. r \in Shapes /\ q \in Shapes /\ w[r] = x /\ w[q] = y
  BY <1>2, WeighOne, Names DEF Over
<1>4. w \in [Shapes -> Nat] /\ m \in Nat
  BY WeighNat, ReserveNat, Names
<1>5. <<Look("main")>> \in Seq(Paying({})) /\ <<End("0")>> \in Seq(Paying({}))
  BY LookIn, EndIn, OneIn, PlainPaying, Names DEF Codes
<1>6. /\ <<End("0")>> \in Seq(Shapes) /\ Total(<<End("0")>>, w) = 0
      /\ <<Look("main")>> \in Seq(Shapes) /\ Total(<<Look("main")>>, w) = 0
  <2>1. <<"main", "USDT">> \notin {}
    OBVIOUS
  <2> DEFINE s == <<End("0")>>
             t == <<Look("main")>>
  <2>2. s \in Seq(Paying({})) /\ t \in Seq(Paying({}))
    BY <1>5
  <2> HIDE DEF s, t
  <2>3. s \in Seq(Shapes) /\ Total(s, w) = 0 /\ t \in Seq(Shapes) /\ Total(t, w) = 0
    BY <2>1, <2>2, PayingZero
  <2> QED BY <2>3 DEF s, t
<1>7. <<r, q, Look("main")>> = (<<r>> \o <<q>>) \o <<Look("main")>>
  OBVIOUS
<1> HIDE DEF w, x, y, r, q, m
<1>8. <<r>> \in Seq(Shapes) /\ <<q>> \in Seq(Shapes) /\ <<r>> \o <<q>> \in Seq(Shapes)
  BY <1>3, OneIn, BehindIn
<1>9. Total(<<r>>, w) = x /\ Total(<<q>>, w) = y
  BY <1>3, <1>4, TotalOne
<1>10. Total(<<r>> \o <<q>>, w) = x + y
  BY <1>4, <1>8, <1>9, TotalConcat
<1>11. Total((<<r>> \o <<q>>) \o <<Look("main")>>, w) = x + y
  <2>1. Total((<<r>> \o <<q>>) \o <<Look("main")>>, w) = (x + y) + 0
    BY <1>4, <1>6, <1>8, <1>10, TotalConcat
  <2> QED BY <1>2, <2>1
<1>12. Total(SeedBtc(2), w) <= m
  <2>1. CASE x < D(5)
    BY <1>1, <1>4, <1>6, <2>1
  <2>2. CASE ~(x < D(5))
    BY <1>1, <1>2, <1>7, <1>11, <2>2
  <2> QED BY <2>1, <2>2
<1> QED BY <1>12 DEF w, m

\* Phase 2 plans to sweep no more of a subaccount than is above what it keeps.
LEMMA Phase2Keeps ==
  ASSUME Typed, script = "phase2", NEW k \in 2..7, NEW a \in Accounts, a = SweptSubs[k - 1], a # "main"
  PROVE  Total(Phase2(k), Weigh(a, Bucket(a))) <= Above(a, Bucket(a))
<1> DEFINE c == Bucket(a)
           w == Weigh(a, c)
           m == Above(a, c)
           n == Get(seen, a, c) - Keep[c]
           x == When(k <= 6, <<Blank(LookFor(SweptSubs[k], {Bucket(SweptSubs[k])}))>>)
           y == When(k = 7, <<Peek(PhaseBuys[1].quote)>>)
<1>1. Phase2(k) = When(k > 1, Sweep(SweptSubs[k - 1])) \o x \o y
  <2>1. /\ Len(SweptSubs) = 6 /\ k \in 1..(Len(SweptSubs) + 1)
        /\ ~(k - Len(SweptSubs) - 1 \in 1..3) /\ ~(k - Len(SweptSubs) - 1 \in 4..9)
        /\ (k <= Len(SweptSubs) <=> k <= 6) /\ (k = Len(SweptSubs) + 1 <=> k = 7)
    BY SweptIn
  <2> QED BY <2>1 DEF Phase2
<1>2. When(k > 1, Sweep(SweptSubs[k - 1])) = Sweep(a)
  BY DEF When
<1>3. c \in Currencies /\ n \in Int /\ m \in Nat /\ m = Over(n)
  <2>1. c \in Currencies /\ Keep[c] \in Nat
    BY BucketIn
  <2>2. Reserve(a, c) = Keep[c]
    BY DEF Reserve, Sellers
  <2> QED BY <2>1, <2>2, Known, ReserveNat DEF Above
<1>4. Sweep(a) = When(n > D(1), <<Move(a, "main", c, n)>>)
  BY DEF Sweep
<1>5. x \in Seq(Paying({}))
  <2>1. k <= 6 => Blank(LookFor(SweptSubs[k], {Bucket(SweptSubs[k])})) \in Paying({})
    <3> SUFFICES ASSUME k <= 6 PROVE Blank(LookFor(SweptSubs[k], {Bucket(SweptSubs[k])})) \in Paying({})
      OBVIOUS
    <3>1. SweptSubs[k] \in Accounts
      BY SweptIn
    <3>2. {Bucket(SweptSubs[k])} \in SUBSET Currencies
      BY <3>1, BucketIn
    <3> QED BY <3>1, <3>2, BlankLookForIn
  <2> QED BY <2>1, WhenOneIn
<1>6. y \in Seq(Paying({}))
  <2>1. 1 \in 1..3
    OBVIOUS
  <2>2. PhaseBuys[1] \in Market
    BY <2>1, PhaseBuysIn
  <2>3. Peek(PhaseBuys[1].quote) \in Paying({})
    BY <2>2, MarketTyped, PeekIn
  <2> QED BY <2>3, WhenOneIn
<1> HIDE DEF n, x, y, m, c
<1>7. Sweep(a) \in Seq(Shapes) /\ Total(Sweep(a), w) <= m
  <2>1. Move(a, "main", c, n) \in Shapes /\ w[Move(a, "main", c, n)] = m
    BY <1>3, WeighOne
  <2> QED BY <1>3, <1>4, <2>1, WhenTotal
<1>8. <<a, c>> \notin {}
  OBVIOUS
<1>9. Sweep(a) \o x \in Seq(Shapes) /\ Total(Sweep(a) \o x, w) <= m
  BY <1>5, <1>7, <1>8, BehindTotal
<1>10. Total(Sweep(a) \o x \o y, w) <= m
  BY <1>6, <1>8, <1>9, BehindTotal
<1> QED BY <1>1, <1>2, <1>10 DEF c, m

\* 98 and 99 hundredths of a natural are naturals no larger than it.
LEMMA PartLess == ASSUME NEW x \in Nat PROVE Part(x, 98, 100) \in 0..x /\ Part(x, 99, 100) \in 0..x
<1>1. PICK u \in Nat, v \in 0..99 : u = x \div 100 /\ v = x % 100 /\ x = 100 * u + v
  OBVIOUS
<1>2. (v * 98) \div 100 \in 0..v /\ (v * 99) \div 100 \in 0..v
  OBVIOUS
<1> QED BY <1>1, <1>2 DEF Part

\* The drain plans to take no more of a currency than is above its reserve.
LEMMA DrainKeeps ==
  ASSUME Typed, script = "drain", NEW a \in Accounts, NEW step \in 2..3, NEW c, c = (IF step = 2 THEN "EURC" ELSE "USDC")
  PROVE  DrainOf(a, step) \in Seq(Shapes) /\ Total(DrainOf(a, step), Weigh(a, c)) <= Above(a, c)
<1> DEFINE n == Over(Get(seen, a, c) - (IF step = 2 THEN ReserveEurc ELSE ReserveUsdc))
           least == IF step = 2 THEN D(1) ELSE D(5)
           to == IF step = 2 THEN "USDC" ELSE "ZAR"
           r == Quits(Ioc(Trade(a, c, to, Part(n, 98, 100))), 1)
           w == Weigh(a, c)
           m == Above(a, c)
<1>1. DrainOf(a, step) = When(n >= least, <<r>>) \o <<LookFor(a, {to})>> \/ DrainOf(a, step) = <<>>
  <2>1. CASE step = 2
    BY <2>1 DEF DrainOf
  <2>2. CASE step = 3
    BY <2>2 DEF DrainOf
  <2>3. step = 2 \/ step = 3
    OBVIOUS
  <2> HIDE DEF r, n, least, to
  <2> QED BY <2>1, <2>2, <2>3
<1>2. c \in Currencies /\ to \in Currencies
  BY Names
<1>3. n \in Nat /\ m \in Nat /\ m = n
  <2>1. Reserve(a, c) = IF step = 2 THEN ReserveEurc ELSE ReserveUsdc
    <3>1. CASE step = 2
      BY <3>1 DEF Reserve, Sellers
    <3>2. CASE step = 3
      BY <3>2 DEF Reserve, Sellers
    <3> QED BY <3>1, <3>2
  <2> QED BY <1>2, <2>1, ReserveNat DEF Above
<1>4. Part(n, 98, 100) \in 0..n /\ Part(n, 98, 100) \in Int
  BY <1>3, PartLess
<1>5. <<LookFor(a, {to})>> \in Seq(Paying({})) /\ <<a, c>> \notin {}
  BY <1>2, LookForIn, PlainPaying, OneIn
<1> HIDE DEF n, m, to, least
<1>6. r \in Shapes /\ w[r] <= m
  <2> DEFINE t == Trade(a, c, to, Part(n, 98, 100))
  <2>1. t \in Plain({<<a, c>>}) /\ t.op \in Spends
    <3> DEFINE y == Part(n, 98, 100)
    <3>1. y \in Int
      BY <1>4
    <3> HIDE DEF r, w, y
    <3>2. Trade(a, c, to, y) \in Plain({<<a, c>>})
      <4> DEFINE P == {<<a, c>>}
      <4>1. <<a, c>> \in P
        OBVIOUS
      <4> HIDE DEF P
      <4>2. Trade(a, c, to, y) \in Plain(P)
        BY <1>2, <3>1, <4>1, TradeIn
      <4> QED BY <4>2 DEF P
    <3>3. t.op = "trade"
      BY DEF Trade, Request
    <3> QED BY <3>2, <3>3 DEF Spends, y
  <2>2. 1 \in Nat /\ 1 # All /\ Ioc(t).op \in Spends
    BY <2>1 DEF All, Ioc
  <2>3. r \in Paying({<<a, c>>})
    BY <2>1, <2>2, IocIn, QuitsIn
  <2>4. r \in Shapes
    BY <2>3, PayingShapes
  <2>5. Pays(r) = Part(n, 98, 100)
    BY DEF Quits, Ioc, Trade, Request, Pays
  <2>6. Over(Part(n, 98, 100)) <= m
    BY <1>3, <1>4 DEF Over
  <2> HIDE DEF r
  <2> QED BY <1>3, <2>4, <2>5, <2>6 DEF Weigh
<1> HIDE DEF r
<1>7. When(n >= least, <<r>>) \in Seq(Shapes) /\ Total(When(n >= least, <<r>>), w) <= m
  BY <1>3, <1>6, WhenTotal
<1>8. /\ When(n >= least, <<r>>) \o <<LookFor(a, {to})>> \in Seq(Shapes)
      /\ Total(When(n >= least, <<r>>) \o <<LookFor(a, {to})>>, w) <= m
  <2> DEFINE p == When(n >= least, <<r>>)
             q == <<LookFor(a, {to})>>
             none == {}
  <2>1. p \in Seq(Shapes) /\ Total(p, w) <= m /\ q \in Seq(Paying(none)) /\ <<a, c>> \notin none
    BY <1>5, <1>7
  <2> HIDE DEF p, q, none, w
  <2>2. p \o q \in Seq(Shapes) /\ Total(p \o q, w) = Total(p, w)
    BY <2>1, BehindTotal DEF w
  <2> QED BY <2>1, <2>2 DEF p, q
<1>9. <<>> \in Seq(Shapes) /\ Total(<<>>, w) <= m
  BY <1>3, WeighNat, TotalEmpty
<1> HIDE DEF w
<1> QED BY <1>1, <1>8, <1>9 DEF w, m

\* Half of what an account may sell, while what is known of it is enough.
LEMMA MaxSellKeeps ==
  ASSUME Typed, script = "buffers", NEW a \in Accounts, NEW b \in Currencies, b # "ZAR",
         held[a][b] >= D(1), b \in DOMAIN seen[a] => held[a][b] <= Get(seen, a, b)
  PROVE  MaxSell(a, b) \in Nat /\ MaxSell(a, b) <= Above(a, b)
<1> DEFINE g == Get(seen, a, b)
           h == held[a][b]
           m == Above(a, b)
<1>1. g \in Nat /\ h \in Nat /\ h >= 100 /\ m = Over(g - h \div 2)
  <2>1. Reserve(a, b) = held[a][b] \div 2
    BY DEF Reserve, Sellers
  <2> QED BY <2>1, Known DEF Above, Typed, Purses, D
<1>2. MaxSell(a, b) = IF Convert(g \div 2, b, QuoteOf(a)) < 50 THEN Part(g, 99, 100) ELSE g \div 2
  BY DEF MaxSell
<1>3. CASE b \in DOMAIN seen[a]
  <2>1. g >= h
    BY <1>3
  <2> HIDE DEF g, h, m
  <2>2. g \div 2 >= 50 /\ g \div 2 \in Nat /\ g \div 2 <= g - h \div 2
    BY <1>1, <2>1
  <2>3. Convert(g \div 2, b, QuoteOf(a)) >= 50
    <3> DEFINE x == g \div 2
    <3>1. x \in Nat /\ x >= 50
      BY <2>2
    <3> HIDE DEF x
    <3>2. x * Rate >= 50
      BY <3>1, RateTyped
    <3> QED BY <3>1, <3>2 DEF Convert, x
  <2>4. Convert(g \div 2, b, QuoteOf(a)) \in Int
    BY <2>2, ConvertInt
  <2>5. MaxSell(a, b) = g \div 2
    BY <1>2, <2>3, <2>4
  <2>6. g \div 2 <= m
    BY <1>1, <2>2 DEF Over
  <2> QED BY <2>2, <2>5, <2>6 DEF m
<1>4. CASE b \notin DOMAIN seen[a]
  <2>1. g = 0
    BY <1>4 DEF Get
  <2> HIDE DEF g
  <2>2. Convert(0, b, QuoteOf(a)) = 0
    BY RateTyped DEF Convert
  <2>3. Part(0, 99, 100) = 0 /\ 0 \div 2 = 0
    BY DEF Part
  <2>4. MaxSell(a, b) = 0
    BY <1>2, <2>1, <2>2, <2>3
  <2> QED BY <2>4, ReserveNat
<1> QED BY <1>3, <1>4

\* An exact division undone.
LEMMA DivLess ==
  ASSUME NEW x \in Int, NEW r \in Nat \ {0}, NEW y \in Int, x <= y * r
  PROVE  x \div r <= y
<1>1. PICK u \in Int, v \in Int : u = x \div r /\ v = x % r /\ x = r * u + v /\ v >= 0
  OBVIOUS
<1>2. r * u <= y * r
  <2> DEFINE p == r * u   q == y * r
  <2>1. p \in Int /\ q \in Int /\ x = p + v /\ x <= q
    BY <1>1
  <2> HIDE DEF p, q
  <2> QED BY <1>1, <2>1 DEF p, q
<1>3. ASSUME u > y PROVE FALSE
  <2>1. u >= y + 1
    BY <1>3
  <2>2. r * u >= r * (y + 1)
    BY <2>1
  <2>3. r * (y + 1) = y * r + r
    OBVIOUS
  <2> DEFINE p == r * u   q == y * r
  <2>4. p \in Int /\ q \in Int /\ p <= q /\ p >= q + r
    BY <1>2, <2>2, <2>3
  <2> HIDE DEF p, q
  <2> QED BY <2>4
<1> QED BY <1>1, <1>3

\* One sale takes no more than the most that may be sold.
LEMMA RaiseLess ==
  ASSUME Typed, NEW a \in Accounts, NEW need \in Int, NEW P, NEW acc \in Raised(P), NEW b \in Currencies, b # "ZAR"
  PROVE  \/ Raise(a, need, acc, b) = acc
         \/ \E n \in Int : /\ n <= MaxSell(a, b)
                           /\ Raise(a, need, acc, b).sells = Append(acc.sells, Trade(a, b, QuoteOf(a), n))
<1> DEFINE q      == QuoteOf(a)   rest == need - acc.raised
           most   == MaxSell(a, b)   value == Convert(most, b, q)
           amount == IF value >= rest THEN Part(Convert(rest, q, b), 98, 100) ELSE most
<1>1. acc.raised \in Int /\ rest \in Int /\ most \in Int /\ q \in Quotes
  BY MaxSellInt, QuoteOfIn DEF Raised
<1>2. Raise(a, need, acc, b) = acc
        \/ (rest > 0 /\ Raise(a, need, acc, b).sells = Append(acc.sells, Trade(a, b, q, amount)))
  <2>1. rest > 0 <=> ~(acc.raised >= need)
    BY <1>1
  <2> QED BY <2>1 DEF Raise
<1>3. rest > 0 => amount \in Int /\ amount <= most
  <2> HIDE DEF rest, most, q
  <2> SUFFICES ASSUME rest > 0 PROVE amount \in Int /\ amount <= most
    OBVIOUS
  <2>1. CASE value >= rest
    <3>1. Convert(rest, q, b) \in Nat
      <4>1. rest \in Nat
        BY <1>1
      <4> QED BY <4>1, ConvertNat
    <3>2. Convert(rest, q, b) <= most
      <4>1. CASE q = "ZAR"
        <5>1. value = most * Rate /\ Convert(rest, q, b) = rest \div Rate
          BY <4>1 DEF Convert
        <5> HIDE DEF value
        <5>2. rest <= most * Rate
          BY <1>1, <2>1, <5>1, RateTyped
        <5> QED BY <1>1, <5>1, <5>2, RateTyped, DivLess
      <4>2. CASE q # "ZAR"
        BY <1>1, <2>1, <4>2 DEF Convert
      <4> QED BY <4>1, <4>2
    <3>3. Part(Convert(rest, q, b), 98, 100) \in 0..Convert(rest, q, b)
      BY <3>1, PartLess
    <3> HIDE DEF value
    <3>4. amount = Part(Convert(rest, q, b), 98, 100)
      BY <2>1
    <3> HIDE DEF amount
    <3> QED BY <1>1, <3>1, <3>2, <3>3, <3>4
  <2>2. CASE ~(value >= rest)
    BY <1>1, <2>2
  <2> QED BY <2>1, <2>2
<1> HIDE DEF amount, rest
<1> QED BY <1>2, <1>3

\* One more request adds its weight to a plan.
LEMMA AppendTotal ==
  ASSUME NEW S, NEW w \in [S -> Nat], NEW q \in Seq(S), NEW r \in S
  PROVE  Append(q, r) \in Seq(S) /\ Total(Append(q, r), w) = Total(q, w) + w[r]
<1>1. Append(q, r) = q \o <<r>> /\ <<r>> \in Seq(S)
  OBVIOUS
<1>2. Total(q \o <<r>>, w) = Total(q, w) + Total(<<r>>, w)
  BY <1>1, TotalConcat
<1>3. Total(<<r>>, w) = w[r]
  BY TotalOne
<1> QED BY <1>1, <1>2, <1>3

\* The bases sold for a buffer are distinct and none of them is rand.
LEMMA BasesOnce ==
  ASSUME NEW a
  PROVE  /\ \A i, j \in 1..Len(BufferBases(a)) : BufferBases(a)[i] = BufferBases(a)[j] => i = j
         /\ \A i \in 1..Len(BufferBases(a)) : BufferBases(a)[i] # "ZAR" /\ BufferBases(a)[i] \in Currencies
<1>1. CASE BufferBases(a) = <<"BTC", "ETH", "USDC", "XAUT">>
  BY <1>1, Names
<1>2. CASE BufferBases(a) = <<"JUP", "XAUT">>
  BY <1>2, Names
<1>3. CASE BufferBases(a) = <<>>
  BY <1>3
<1> QED BY <1>1, <1>2, <1>3 DEF BufferBases

\* A subaccount's sales take at most half of each of its bases.
LEMMA BufferSellsKeep ==
  ASSUME Typed, script = "buffers", NEW a \in Accounts, NEW c \in Currencies, held[a][c] >= D(1),
         c \in DOMAIN seen[a] => held[a][c] <= Get(seen, a, c), NEW x \in Accounts, NEW need \in Int
  PROVE  /\ BufferSells(x, need) \in Seq(Paying({x} \X Currencies))
         /\ x = a => Total(BufferSells(x, need), Weigh(a, c)) <= Above(a, c)
<1> DEFINE n == Len(BufferBases(x))
           bs == BufferBases(x)
           P == {x} \X Currencies
           w == Weigh(a, c)
           m == Above(a, c)
<1>1. n \in Nat /\ \A i \in 1..n : bs[i] \in Currencies /\ bs[i] # "ZAR" /\ <<x, bs[i]>> \in P
  BY BufferBasesIn, BasesOnce
<1>2. \A i, j \in 1..n : bs[i] = bs[j] => i = j
  BY BasesOnce
<1>3. PICK g \in [0..n -> Raised(P)] :
        /\ g[0] = [raised |-> 0, sells |-> <<>>]
        /\ \A i \in 1..n : g[i] = Raise(x, need, g[i - 1], bs[i])
        /\ BufferSells(x, need) = g[n].sells
  <2>1. \A i \in 1..Len(BufferBases(x)) : <<x, BufferBases(x)[i]>> \in P
    BY <1>1
  <2> HIDE DEF P
  <2> QED BY <2>1, RaiseRuns
<1>4. w \in [Shapes -> Nat] /\ m \in Nat
  BY WeighNat, ReserveNat
<1> HIDE DEF n, bs, P, w, m
<1>5. \A i \in 0..n : g[i] \in Raised(P) /\ g[i].sells \in Seq(Plain(P)) /\ g[i].sells \in Seq(Shapes)
  <2>1. Plain(P) \subseteq Shapes
    BY PayingShapes
  <2>2. \A i \in 0..n : g[i] \in Raised(P)
    BY <1>3
  <2>3. \A i \in 0..n : g[i].sells \in Seq(Plain(P))
    BY <2>2 DEF Raised
  <2> QED BY <2>1, <2>2, <2>3, SeqMonotonic
<1>6. BufferSells(x, need) \in Seq(Paying(P))
  <2>1. n \in 0..n
    BY <1>1
  <2> QED BY <1>3, <1>5, <2>1, PlainSeq
<1>7. ASSUME x = a PROVE Total(BufferSells(x, need), w) <= m
  <2> DEFINE t == [i \in 0..n |-> Total(g[i].sells, w)]
             Fits(i) == t[i] <= m /\ ((\A j \in 1..i : bs[j] # c) => t[i] = 0)
             T == {i \in 1..n : Fits(i)}
  <2>1. \A i \in 0..n : t[i] = Total(g[i].sells, w) /\ t[i] \in Nat
    BY <1>4, <1>5, TotalNat
  <2>2. t[0] = 0
    <3>1. 0 \in 0..n /\ g[0].sells = <<>>
      BY <1>1, <1>3
    <3> QED BY <1>4, <2>1, <3>1, TotalEmpty
  <2> HIDE DEF t
  <2>3. ASSUME NEW i \in 1..n, i = 1 \/ i - 1 \in T PROVE i \in T
    <3>1. i - 1 \in 0..n /\ i \in 0..n /\ Fits(i - 1)
      <4>1. CASE i = 1
        BY <1>1, <1>4, <2>2, <4>1
      <4>2. CASE i - 1 \in T
        BY <4>2
      <4> QED BY <2>3, <4>1, <4>2
    <3> DEFINE acc == g[i - 1]
               b == bs[i]
    <3>2. acc \in Raised(P) /\ acc.sells \in Seq(Shapes) /\ b \in Currencies /\ b # "ZAR"
      BY <1>1, <1>5, <3>1
    <3>3. g[i] = Raise(x, need, acc, b)
      BY <1>3
    <3>4. t[i - 1] = Total(acc.sells, w) /\ t[i - 1] \in Nat /\ t[i] = Total(g[i].sells, w)
      BY <2>1, <3>1
    <3> HIDE DEF acc
    <3>5. CASE Raise(x, need, acc, b) = acc
      <4>1. t[i] = t[i - 1]
        BY <3>3, <3>4, <3>5
      <4>2. (\A j \in 1..i : bs[j] # c) => \A j \in 1..(i - 1) : bs[j] # c
        OBVIOUS
      <4> QED BY <3>1, <4>1, <4>2
    <3>6. CASE \E z \in Int : z <= MaxSell(x, b) /\ Raise(x, need, acc, b).sells = Append(acc.sells, Trade(x, b, QuoteOf(x), z))
      <4>1. PICK z \in Int : z <= MaxSell(x, b) /\ g[i].sells = Append(acc.sells, Trade(x, b, QuoteOf(x), z))
        BY <3>3, <3>6
      <4> DEFINE r == Trade(x, b, QuoteOf(x), z)
      <4>2. r \in Shapes /\ w[r] = IF b = c THEN Over(z) ELSE 0
        BY <1>7, <3>2, QuoteOfIn, WeighOne DEF w
      <4> HIDE DEF r
      <4>3. t[i] = t[i - 1] + w[r]
        <5>1. Total(Append(acc.sells, r), w) = Total(acc.sells, w) + w[r]
          BY <1>4, <3>2, <4>2, AppendTotal
        <5>2. g[i].sells = Append(acc.sells, r)
          BY <4>1 DEF r
        <5> QED BY <3>4, <5>1, <5>2
      <4>4. CASE b = c
        <5>1. \A j \in 1..(i - 1) : bs[j] # c
          <6> SUFFICES ASSUME NEW j \in 1..(i - 1) PROVE bs[j] # c
            OBVIOUS
          <6>1. j \in 1..n /\ j # i
            BY <1>1
          <6> QED BY <1>2, <4>4, <6>1
        <5>2. t[i - 1] = 0
          BY <3>1, <5>1
        <5>3. MaxSell(x, b) \in Nat /\ MaxSell(x, b) <= m
          BY <1>7, <3>2, <4>4, MaxSellKeeps DEF m
        <5>4. Over(z) <= m
          BY <1>4, <4>1, <5>3 DEF Over
        <5>5. i \in 1..i /\ bs[i] = c
          BY <4>4
        <5>6. t[i] <= m
          BY <1>4, <4>2, <4>3, <4>4, <5>2, <5>4, Amounts
        <5> QED BY <5>5, <5>6
      <4>5. CASE b # c
        <5>1. t[i] = t[i - 1]
          BY <3>4, <4>2, <4>3, <4>5
        <5>2. (\A j \in 1..i : bs[j] # c) => \A j \in 1..(i - 1) : bs[j] # c
          OBVIOUS
        <5> QED BY <3>1, <5>1, <5>2
      <4> QED BY <4>4, <4>5
    <3>7. \/ Raise(x, need, acc, b) = acc
          \/ \E z \in Int : z <= MaxSell(x, b) /\ Raise(x, need, acc, b).sells = Append(acc.sells, Trade(x, b, QuoteOf(x), z))
      <4> HIDE DEF T, Fits, b
      <4> QED BY <3>2, RaiseLess
    <3> QED BY <3>5, <3>6, <3>7
  <2>4. 1..n \subseteq T
    <3> HIDE DEF T
    <3> QED BY <1>1, <2>3, Inductive
  <2>5. t[n] <= m
    <3>1. CASE n = 0
      BY <1>4, <2>2, <3>1
    <3>2. CASE n # 0
      <4>1. n \in 1..n
        BY <1>1, <3>2
      <4> QED BY <2>4, <4>1
    <3> QED BY <3>1, <3>2
  <2>6. n \in 0..n
    BY <1>1
  <2> QED BY <1>3, <2>1, <2>5, <2>6
<1> QED BY <1>6, <1>7 DEF P, w, m

\* The buffer script plans to sell no more of a base than is above its reserve.
LEMMA BuffersKeep ==
  ASSUME Typed, script = "buffers", NEW a \in Accounts, NEW c \in Currencies, held[a][c] >= D(1),
         c \in DOMAIN seen[a] => held[a][c] <= Get(seen, a, c)
  PROVE  Total(Buffers(2), Weigh(a, c)) <= Above(a, c)
<1> DEFINE f == [i \in DOMAIN BucketSubs |-> When(ShortOf(BucketSubs[i]), BufferSells(BucketSubs[i], BufferNeed(BucketSubs[i])))]
           P == [i \in 1..6 |-> {BucketSubs[i]} \X Currencies]
           w == Weigh(a, c)
           m == Above(a, c)
<1>1. Buffers(2) = FlattenSeq(f)
  BY DEF Buffers, Each, BufferNeed, ShortOf
<1>2. m \in Nat /\ 6 \in Nat
  BY ReserveNat
<1>3. f = [i \in 1..6 |-> f[i]]
  BY BucketSubsIn
<1>4. ASSUME NEW i \in 1..6
      PROVE  f[i] \in Seq(Paying(P[i])) /\ (<<a, c>> \in P[i] => Total(f[i], w) <= m)
  <2> DEFINE x == BucketSubs[i]
             s == BufferSells(x, BufferNeed(x))
  <2>1. x \in Accounts /\ f[i] = When(ShortOf(x), s) /\ P[i] = {x} \X Currencies
    BY BucketSubsIn
  <2>2. BufferNeed(x) \in Int
    BY <2>1, BufferInt
  <2> HIDE DEF x, f, P
  <2>3. s \in Seq(Paying({x} \X Currencies)) /\ (x = a => Total(s, w) <= m)
    BY <2>1, <2>2, BufferSellsKeep
  <2> HIDE DEF s, w, m
  <2>4. Total(<<>>, w) = 0 /\ <<>> \in Seq(Paying({x} \X Currencies))
    BY WeighNat, TotalEmpty DEF w
  <2>5. f[i] = s \/ f[i] = <<>>
    BY <2>1 DEF When
  <2>6. f[i] \in Seq(Paying(P[i]))
    BY <2>1, <2>3, <2>4, <2>5, PlainSeq
  <2>7. <<a, c>> \in P[i] => x = a
    BY <2>1
  <2>8. x = a => Total(f[i], w) <= m
    BY <1>2, <2>3, <2>4, <2>5 DEF m
  <2> QED BY <2>6, <2>7, <2>8
<1>5. \A i, j \in 1..6 : i # j /\ <<a, c>> \in P[i] => <<a, c>> \notin P[j]
  <2>1. \A i, j \in 1..6 : BucketSubs[i] = BucketSubs[j] => i = j
    BY SubLists
  <2> QED BY <2>1
<1> HIDE DEF f, P, m
<1>6. (\A i \in 1..6 : f[i] \in Seq(Paying(P[i])))
       /\ \A i \in 1..6 : <<a, c>> \in P[i] => Total(f[i], w) <= m
  BY <1>4
<1>7. Total(FlattenSeq(f), w) <= m
  BY <1>2, <1>3, <1>5, <1>6, EachOnce
<1> QED BY <1>1, <1>7 DEF m

\* The sales of one base by two subaccounts.
SubSales(s, b, q, on, n) == FlattenSeq([i \in DOMAIN s |-> When(on[i], <<Trade(s[i], b, q, n[i])>>)])
\* The sales of a base in two subaccounts pay from that base.
LEMMA SubSalesIn ==
  ASSUME NEW s \in {ZarSubs, UsdtSubs, UsdcSubs, BtcSubs}, NEW b \in Currencies, NEW q \in Currencies,
         NEW on \in [1..2 -> BOOLEAN], NEW n \in [1..2 -> Int]
  PROVE  SubSales(s, b, q, on, n) \in Seq(Paying(Accounts \X {b}))
<1> DEFINE f == [i \in DOMAIN s |-> When(on[i], <<Trade(s[i], b, q, n[i])>>)]
           S == Paying(Accounts \X {b})
<1>1. DOMAIN s = 1..2 /\ \A i \in 1..2 : s[i] \in Accounts /\ <<s[i], b>> \in Accounts \X {b}
  <2>1. DOMAIN s = 1..2 /\ s[1] \in Accounts /\ s[2] \in Accounts
    BY SubsIn
  <2> QED BY <2>1
<1>2. \A i \in 1..2 : Trade(s[i], b, q, n[i]) \in S
  BY <1>1, TradeIn, PlainPaying
<1>3. f = [i \in 1..2 |-> f[i]] /\ \A i \in 1..2 : f[i] = When(on[i], <<Trade(s[i], b, q, n[i])>>)
  BY <1>1
<1> HIDE DEF f, S
<1>4. \A i \in 1..2 : f[i] \in Seq(S)
  BY <1>2, <1>3, WhenOneIn
<1>5. FlattenSeq(f) \in Seq(S)
  BY <1>3, <1>4, FlatOver
<1> QED BY <1>5 DEF f, S, SubSales

\* No sale of c by a asks for more than m.
Fits(s, b, on, n, a, c, m) == \A i \in 1..2 : on[i] /\ s[i] = a /\ b = c => Over(n[i]) <= m
\* Sales of a base in two different subaccounts take from each no more than its own sale.
LEMMA TwoSubsOnce ==
  ASSUME NEW a \in Accounts, NEW c \in Currencies, NEW s \in {ZarSubs, UsdtSubs, UsdcSubs, BtcSubs},
         NEW b \in Currencies, NEW q \in Currencies, NEW on \in [1..2 -> BOOLEAN],
         NEW n \in [1..2 -> Int], NEW m \in Nat,
         Fits(s, b, on, n, a, c, m)
  PROVE  Total(SubSales(s, b, q, on, n), Weigh(a, c)) <= m
<1> DEFINE f == [i \in DOMAIN s |-> When(on[i], <<Trade(s[i], b, q, n[i])>>)]
           P == [i \in 1..2 |-> {<<s[i], b>>}]
           w == Weigh(a, c)
<1>1. DOMAIN s = 1..2 /\ \A i \in 1..2 : s[i] \in Accounts
  <2>1. DOMAIN s = 1..2 /\ s[1] \in Accounts /\ s[2] \in Accounts
    BY SubsIn
  <2> QED BY <2>1
<1>20. \A i \in 1..2 : on[i] /\ s[i] = a /\ b = c => Over(n[i]) <= m
  BY DEF Fits
<1>2. s[1] # s[2]
  BY DEF ZarSubs, UsdtSubs, UsdcSubs, BtcSubs
<1>3. f = [i \in 1..2 |-> f[i]] /\ \A i \in 1..2 : f[i] = When(on[i], <<Trade(s[i], b, q, n[i])>>)
  BY <1>1
<1>4. ASSUME NEW i \in 1..2
      PROVE  /\ f[i] \in Seq(Paying(P[i]))
             /\ <<a, c>> \in P[i] => Total(f[i], w) <= m
  <2> DEFINE r == Trade(s[i], b, q, n[i])
  <2>1. f[i] = When(on[i], <<r>>) /\ P[i] = {<<s[i], b>>} /\ s[i] \in Accounts
    BY <1>1, <1>3
  <2> HIDE DEF P
  <2>3. on[i] => r \in Plain(P[i]) /\ r \in Shapes /\ w[r] = IF s[i] = a /\ b = c THEN Over(n[i]) ELSE 0
    BY <2>1, TradeIn, WeighOne
  <2> HIDE DEF r, w
  <2>4. f[i] \in Seq(Paying(P[i]))
    <3>1. on[i] => r \in Paying(P[i])
      BY <2>3, PlainPaying
    <3> QED BY <2>1, <3>1, WhenOneIn
  <2>6. s[i] = a /\ b = c => Total(f[i], w) <= m
    <3> SUFFICES ASSUME s[i] = a, b = c PROVE Total(f[i], w) <= m
      OBVIOUS
    <3>1. CASE on[i]
      <4>1. r \in Shapes /\ w[r] <= m
        BY <1>20, <2>3, <3>1
      <4> QED BY <2>1, <4>1, WhenTotal DEF w
    <3>2. CASE ~on[i]
      <4>1. Total(<<>>, w) = 0
        BY WeighNat, TotalEmpty DEF w
      <4> QED BY <2>1, <3>2, <4>1 DEF When
    <3> QED BY <3>1, <3>2
  <2> QED BY <2>1, <2>4, <2>6
<1>5. \A i, j \in 1..2 : i # j /\ <<a, c>> \in P[i] => <<a, c>> \notin P[j]
  BY <1>2
<1> HIDE DEF P, w, f
<1> DEFINE g == f
<1>6. /\ \A i \in 1..2 : g[i] \in Seq(Paying(P[i]))
      /\ \A i \in 1..2 : <<a, c>> \in P[i] => Total(g[i], w) <= m
      /\ g = [i \in 1..2 |-> g[i]] /\ 2 \in Nat
  BY <1>3, <1>4
<1> HIDE DEF g
<1>7. Total(FlattenSeq(g), w) <= m
  BY <1>5, <1>6, EachOnce DEF w
<1> QED BY <1>7 DEF g, w, f, SubSales

\* The normaliser plans to sell no more of a base than is above its reserve.
LEMMA NormalizeKeeps ==
  ASSUME Typed, script = "normalize", NEW a \in Accounts, NEW c \in Currencies, c # "ZAR"
  PROVE  Total(Normalize(2), Weigh(a, c)) <= Above(a, c)
<1> DEFINE f == [i \in DOMAIN NormalPairs |-> When(Rich(NormalPairs[i]), NormalSells(NormalPairs[i]))]
           P == [i \in 1..5 |-> Accounts \X {NormalPairs[i].base}]
           w == Weigh(a, c)
           m == Above(a, c)
<1>0. a \in Accounts /\ c \in Currencies
  OBVIOUS
<1>1. Normalize(2) = FlattenSeq(f)
  <2>1. 2 \in Nat
    OBVIOUS
  <2> QED BY <2>1, NormalizeIn
<1>2. m \in Nat /\ m = Over(Get(seen, a, c) - PerSub)
  <2>1. Reserve(a, c) = PerSub
    BY DEF Reserve, Sellers
  <2> QED BY <2>1, ReserveNat DEF Above
<1>3. f = [i \in 1..5 |-> f[i]] /\ \A i \in 1..5 : f[i] = When(Rich(NormalPairs[i]), NormalSells(NormalPairs[i]))
  BY NormalPairsIn
<1>4. \A i, j \in 1..5 : i # j /\ <<a, c>> \in P[i] => <<a, c>> \notin P[j]
  BY DEF NormalPairs, Pair
<1> HIDE DEF f, m
<1>5. ASSUME NEW i \in 1..5
      PROVE  f[i] \in Seq(Paying(P[i])) /\ Total(f[i], w) <= m
  <2> DEFINE p == NormalPairs[i]
             on == [j \in 1..2 |-> Surplus(p.subs[j], p.base) > D(2)]
             n == [j \in 1..2 |-> Surplus(p.subs[j], p.base)]
             g == [j \in DOMAIN p.subs |-> When(on[j], <<Trade(p.subs[j], p.base, p.quote, n[j])>>)]
  <2>1. p \in Market /\ f[i] = When(Rich(p), NormalSells(p)) /\ P[i] = Accounts \X {p.base}
    BY <1>3, NormalPairsIn
  <2> HIDE DEF p, P
  <2>2. DOMAIN p.subs = 1..2 /\ \A j \in 1..2 : p.subs[j] \in Accounts
    <3>1. p.subs \in {ZarSubs, UsdtSubs, UsdcSubs, BtcSubs}
      BY <2>1 DEF Market
    <3>2. DOMAIN p.subs = 1..2 /\ p.subs[1] \in Accounts /\ p.subs[2] \in Accounts
      BY <3>1, SubsIn
    <3> QED BY <3>2
  <2>3. NormalSells(p) = FlattenSeq(g)
    BY <2>2 DEF NormalSells, NormalSell
  <2>4. \A j \in 1..2 : n[j] \in Int
    BY <2>2, Known DEF Surplus, PerSub
  <2>5. \A j \in 1..2 : p.subs[j] = a /\ p.base = c => Over(n[j]) <= m
    BY <1>2 DEF Surplus
  <2>6. p.base \in Currencies /\ p.quote \in Currencies /\ p.subs \in {ZarSubs, UsdtSubs, UsdcSubs, BtcSubs}
    BY <2>1 DEF Market
  <2>7. g = [j \in DOMAIN p.subs |-> When(on[j], <<Trade(p.subs[j], p.base, p.quote, n[j])>>)]
    OBVIOUS
  <2>20. on \in [1..2 -> BOOLEAN] /\ n \in [1..2 -> Int]
    BY <2>4
  <2> HIDE DEF on, n, g, w
  <2>8. FlattenSeq(g) \in Seq(Paying(Accounts \X {p.base})) /\ Total(FlattenSeq(g), w) <= m
    <3> DEFINE s == p.subs   b == p.base   q == p.quote
    <3>1. /\ on \in [1..2 -> BOOLEAN] /\ n \in [1..2 -> Int]
          /\ \A j \in 1..2 : on[j] /\ s[j] = a /\ b = c => Over(n[j]) <= m
          /\ b \in Currencies /\ q \in Currencies /\ s \in {ZarSubs, UsdtSubs, UsdcSubs, BtcSubs}
      BY <1>2, <2>4, <2>5, <2>6, <2>7, <2>20
    <3> HIDE DEF s, b, q
    <3>4. m \in Nat
      BY <1>2
    <3>2. SubSales(s, b, q, on, n) \in Seq(Paying(Accounts \X {b})) /\ Total(SubSales(s, b, q, on, n), Weigh(a, c)) <= m
      <4>1. on \in [1..2 -> BOOLEAN] /\ n \in [1..2 -> Int]
        BY <3>1
      <4>2. b \in Currencies /\ q \in Currencies /\ s \in {ZarSubs, UsdtSubs, UsdcSubs, BtcSubs}
        BY <3>1
      <4>3. Fits(s, b, on, n, a, c, m)
        BY <3>1 DEF Fits
      <4>4. SubSales(s, b, q, on, n) \in Seq(Paying(Accounts \X {b}))
        BY <4>1, <4>2, SubSalesIn, Zenon
      <4>5. Total(SubSales(s, b, q, on, n), Weigh(a, c)) <= m
        BY <1>0, <3>4, <4>1, <4>2, <4>3, TwoSubsOnce, Zenon
      <4> QED BY <4>4, <4>5
    <3>3. FlattenSeq(g) = SubSales(s, b, q, on, n)
      BY <2>7 DEF SubSales, s, b, q
    <3> QED BY <3>2, <3>3 DEF b, w
  <2>9. Total(<<>>, w) = 0 /\ <<>> \in Seq(Paying(P[i]))
    BY WeighNat, TotalEmpty DEF w
  <2>10. f[i] = FlattenSeq(g) \/ f[i] = <<>>
    BY <2>1, <2>3 DEF When
  <2>11. CASE f[i] = FlattenSeq(g)
    BY <2>1, <2>8, <2>11
  <2>12. CASE f[i] = <<>>
    BY <1>2, <2>9, <2>12
  <2> QED BY <2>10, <2>11, <2>12
<1> HIDE DEF P
<1>6. (\A i \in 1..5 : f[i] \in Seq(Paying(P[i]))) /\ 5 \in Nat
       /\ \A i \in 1..5 : <<a, c>> \in P[i] => Total(f[i], w) <= m
  BY <1>5
<1>7. Total(FlattenSeq(f), w) <= m
  BY <1>2, <1>3, <1>4, <1>6, EachOnce
<1> QED BY <1>1, <1>7 DEF m

\* The inventory script plans to sell no more of a base of a subaccount than is above its reserve.
LEMMA InventorySalesKeep ==
  ASSUME Typed, script = "inventory", NEW a \in Accounts \ {"main"}, NEW c \in Bases
  PROVE  Total(InventorySells, Weigh(a, c)) <= Above(a, c)
<1> DEFINE f == [i \in DOMAIN HeldPairs |-> InvSells(HeldPairs[i])]
           P == [i \in 1..3 |-> Accounts \X {HeldPairs[i].base}]
           w == Weigh(a, c)
           m == Above(a, c)
<1>0. a \in Accounts /\ c \in Currencies /\ c # QuoteOf(a)
  BY Names DEF Bases, QuoteOf
<1>1. InventorySells = FlattenSeq(f)
  BY InvParts
<1>2. m \in Nat /\ m = Over(Get(seen, a, c) - PerSub)
  <2>1. Reserve(a, c) = PerSub
    BY <1>0 DEF Reserve, Sellers
  <2> QED BY <1>0, <2>1, ReserveNat DEF Above
<1>3. f = [i \in 1..3 |-> f[i]] /\ \A i \in 1..3 : f[i] = InvSells(HeldPairs[i])
  BY HeldIn
<1>4. \A i, j \in 1..3 : i # j /\ <<a, c>> \in P[i] => <<a, c>> \notin P[j]
  BY DEF HeldPairs, Pair
<1> HIDE DEF f, m
<1>5. ASSUME NEW i \in 1..3
      PROVE  f[i] \in Seq(Paying(P[i])) /\ Total(f[i], w) <= m
  <2> DEFINE p == HeldPairs[i]
             on == [j \in 1..2 |-> Holds(seen, p.subs[j], p) /\ Usd(seen, p.subs[j], p) > PerSub + D(5)]
             n == [j \in 1..2 |-> Usd(seen, p.subs[j], p) - PerSub]
             g == [j \in DOMAIN p.subs |-> When(on[j], <<Trade(p.subs[j], p.base, p.quote, n[j])>>)]
  <2>1. p \in Held /\ f[i] = InvSells(p) /\ P[i] = Accounts \X {p.base}
    BY <1>3, HeldIn
  <2> HIDE DEF p, P
  <2>2. DOMAIN p.subs = 1..2 /\ \A j \in 1..2 : p.subs[j] \in Accounts
    BY <2>1, HeldTyped
  <2>3. InvSells(p) = FlattenSeq(g)
    BY <2>2 DEF InvSells, InvSell
  <2>4. \A j \in 1..2 : Usd(seen, p.subs[j], p) \in Nat /\ n[j] \in Int
                          /\ Usd(seen, p.subs[j], p) <= Get(seen, p.subs[j], p.base)
    <3> SUFFICES ASSUME NEW j \in 1..2 PROVE Usd(seen, p.subs[j], p) \in Nat /\ n[j] \in Int
                          /\ Usd(seen, p.subs[j], p) <= Get(seen, p.subs[j], p.base)
      OBVIOUS
    <3>1. Get(seen, p.subs[j], p.base) \in Nat
      BY <2>2, Known
    <3> QED BY <3>1 DEF Usd, PerSub
  <2>5. \A j \in 1..2 : p.subs[j] = a /\ p.base = c => Over(n[j]) <= m
    <3> SUFFICES ASSUME NEW j \in 1..2, p.subs[j] = a, p.base = c PROVE Over(n[j]) <= m
      OBVIOUS
    <3>1. Get(seen, a, c) \in Nat /\ Usd(seen, a, p) \in Nat /\ Usd(seen, a, p) <= Get(seen, a, c)
      BY <2>4, Known
    <3>2. n[j] = Usd(seen, a, p) - PerSub
      OBVIOUS
    <3> HIDE DEF n
    <3> QED BY <1>2, <3>1, <3>2 DEF Over, PerSub
  <2>6. p.base \in Currencies /\ p.quote \in Currencies /\ p.subs \in {ZarSubs, UsdtSubs, UsdcSubs, BtcSubs}
    BY <2>1, HeldTyped
  <2>7. g = [j \in DOMAIN p.subs |-> When(on[j], <<Trade(p.subs[j], p.base, p.quote, n[j])>>)]
    OBVIOUS
  <2>20. on \in [1..2 -> BOOLEAN] /\ n \in [1..2 -> Int]
    BY <2>4
  <2> HIDE DEF on, n, g, w
  <2>8. FlattenSeq(g) \in Seq(Paying(Accounts \X {p.base})) /\ Total(FlattenSeq(g), w) <= m
    <3> DEFINE s == p.subs   b == p.base   q == p.quote
    <3>1. /\ on \in [1..2 -> BOOLEAN] /\ n \in [1..2 -> Int]
          /\ \A j \in 1..2 : on[j] /\ s[j] = a /\ b = c => Over(n[j]) <= m
          /\ b \in Currencies /\ q \in Currencies /\ s \in {ZarSubs, UsdtSubs, UsdcSubs, BtcSubs}
      BY <1>0, <1>2, <2>4, <2>5, <2>6, <2>7, <2>20
    <3> HIDE DEF s, b, q
    <3>4. m \in Nat
      BY <1>2
    <3>2. SubSales(s, b, q, on, n) \in Seq(Paying(Accounts \X {b})) /\ Total(SubSales(s, b, q, on, n), Weigh(a, c)) <= m
      <4>1. on \in [1..2 -> BOOLEAN] /\ n \in [1..2 -> Int]
        BY <3>1
      <4>2. b \in Currencies /\ q \in Currencies /\ s \in {ZarSubs, UsdtSubs, UsdcSubs, BtcSubs}
        BY <3>1
      <4>3. Fits(s, b, on, n, a, c, m)
        BY <3>1 DEF Fits
      <4>4. SubSales(s, b, q, on, n) \in Seq(Paying(Accounts \X {b}))
        BY <4>1, <4>2, SubSalesIn, Zenon
      <4>5. Total(SubSales(s, b, q, on, n), Weigh(a, c)) <= m
        BY <1>0, <3>4, <4>1, <4>2, <4>3, TwoSubsOnce, Zenon
      <4> QED BY <4>4, <4>5
    <3>3. FlattenSeq(g) = SubSales(s, b, q, on, n)
      BY <2>7 DEF SubSales, s, b, q
    <3> QED BY <3>2, <3>3 DEF b, w
  <2> QED BY <2>1, <2>3, <2>8
<1> HIDE DEF P
<1>6. (\A i \in 1..3 : f[i] \in Seq(Paying(P[i]))) /\ 3 \in Nat
       /\ \A i \in 1..3 : <<a, c>> \in P[i] => Total(f[i], w) <= m
  BY <1>5
<1>7. Total(FlattenSeq(f), w) <= m
  BY <1>2, <1>3, <1>4, <1>6, EachOnce
<1> QED BY <1>1, <1>7 DEF m

\* The inventory script plans to sweep no more of a quote than is above its reserve.
LEMMA InventorySweepKeeps ==
  ASSUME Typed, script = "inventory", NEW k \in 4..9, NEW a \in Accounts \ {"main"}, a = BucketSubs[k - 3]
  PROVE  Total(Inventory(k), Weigh(a, QuoteOf(a))) <= Above(a, QuoteOf(a))
<1> DEFINE c == QuoteOf(a)
           w == Weigh(a, c)
           m == Above(a, c)
           n == Get(seen, a, c) - BufferOf[c]
           y == <<Blank(Look(IF k - 2 \in 1..6 THEN BucketSubs[k - 2] ELSE "main"))>>
<1>1. Inventory(k) = SweepExcess(a) \o y
  <2> DEFINE dom == DOMAIN InventoryBuys
             j == (k - 11) \div 3 + 1
             looks == Each(Append(BucketSubs, "main"), LAMBDA x : <<Blank(Look(x))>>)
             between == When(k > 3, SweepExcess(BucketSubs[k - 3])) \o y
  <2>1. Len(BucketSubs) = 6 /\ dom = 1..Len(InventoryBuys) /\ Len(InventoryBuys) \in Nat /\ k - 6 - 5 = k - 11
    BY BucketSubsIn, InventoryPartsIn
  <2>2. j \notin dom
    <3>1. j <= 0
      OBVIOUS
    <3>2. \A i \in dom : i >= 1
      BY <2>1
    <3> QED BY <3>1, <3>2
  <2>3. Inventory(k) =
          CASE k = 1 -> looks
            [] k = 2 -> InventorySells
            [] k \in 3..9 -> between
            [] k = 10 -> InventoryConversion
            [] j \in dom -> InventoryBuy(InventoryBuys[j], (k - 11) % 3)
            [] OTHER -> <<End("0")>>
    BY <2>1 DEF Inventory, Each
  <2>4. When(k > 3, SweepExcess(BucketSubs[k - 3])) = SweepExcess(a)
    BY DEF When
  <2> HIDE DEF dom, j, looks, between
  <2>5. Inventory(k) = between
    BY <2>2, <2>3
  <2> QED BY <2>4, <2>5 DEF between
<1>3. c \in Currencies /\ n \in Int /\ m \in Nat /\ m = Over(n)
  <2>1. c \in Currencies /\ BufferOf[c] \in Nat
    BY QuoteOfIn, BufferInt
  <2>2. Reserve(a, c) = BufferOf[c]
    BY DEF Reserve, Sellers
  <2> QED BY <2>1, <2>2, Known, ReserveNat DEF Above
<1>4. SweepExcess(a) = When(n > D(1), <<Move(a, "main", c, n)>>)
  BY DEF SweepExcess
<1>5. y \in Seq(Paying({}))
  <2>1. (IF k - 2 \in 1..6 THEN BucketSubs[k - 2] ELSE "main") \in Accounts
    BY BucketSubsIn, Names
  <2> QED BY <2>1, BlankLookIn, OneIn
<1> HIDE DEF n, y, m, c
<1>7. SweepExcess(a) \in Seq(Shapes) /\ Total(SweepExcess(a), w) <= m
  <2>1. Move(a, "main", c, n) \in Shapes /\ w[Move(a, "main", c, n)] = m
    BY <1>3, WeighOne
  <2> QED BY <1>3, <1>4, <2>1, WhenTotal
<1>8. <<a, c>> \notin {}
  OBVIOUS
<1>9. Total(SweepExcess(a) \o y, w) <= m
  BY <1>5, <1>7, <1>8, BehindTotal
<1> QED BY <1>1, <1>9 DEF c, m

\* The second stage of rebuild_inventory is its sales.
LEMMA InventoryTwo == Typed => Inventory(2) = InventorySells
<1> SUFFICES ASSUME Typed PROVE Inventory(2) = InventorySells
  OBVIOUS
<1> DEFINE looks == Each(Append(BucketSubs, "main"), LAMBDA a : <<Blank(Look(a))>>)
           dom == DOMAIN InventoryBuys
           j == (2 - 11) \div 3 + 1
<1>1. Len(BucketSubs) = 6 /\ dom = 1..Len(InventoryBuys) /\ Len(InventoryBuys) \in Nat
  BY BucketSubsIn, InventoryPartsIn
<1>2. j \notin dom
  <2>1. j <= 0
    OBVIOUS
  <2>2. \A i \in dom : i >= 1
    BY <1>1
  <2> QED BY <2>1, <2>2
<1>3. Inventory(2) =
        CASE 2 = 1 -> looks
          [] 2 = 2 -> InventorySells
          [] 2 \in 3..9 -> When(2 > 3, SweepExcess(BucketSubs[2 - 3]))
                             \o <<Blank(Look(IF 2 - 2 \in 1..6 THEN BucketSubs[2 - 2] ELSE "main"))>>
          [] 2 = 10 -> InventoryConversion
          [] j \in dom -> InventoryBuy(InventoryBuys[j], (2 - 11) % 3)
          [] OTHER -> <<End("0")>>
  BY <1>1 DEF Inventory, Each
<1> HIDE DEF looks, dom, j
<1> QED BY <1>2, <1>3

\* The stages in which a balance that is meant to stay may be paid from.
PlanOfScript(plan, k) ==
  \/ script \in RestockScripts /\ plan = RestockPlan(k)
  \/ script \in TopupScripts /\ plan = TopupPlan(k)
  \/ script \in LiquidateScripts /\ plan = LiquidatePlan(k)
  \/ script \in ReplenishScripts /\ plan = ReplenishPlan(k)

\* The plan of a stage, by the script with a guarded balance that runs.
LEMMA PlanIs ==
  ASSUME NEW plan, NEW k, PlanOfScript(plan, k)
  PROVE  /\ script = "jul10" => plan = Jul10(k)
         /\ script = "btc" => plan = SeedBtc(k)
         /\ script = "phase2" => plan = Phase2(k)
         /\ script = "drain" => plan = Drain(k)
         /\ script = "buffers" => plan = Buffers(k)
         /\ script = "normalize" => plan = Normalize(k)
         /\ script = "inventory" => plan = Inventory(k)
         /\ script = "auto" => plan = AutoRestock(k)
<1>1. CASE script = "jul10"
  BY <1>1 DEF PlanOfScript, RestockScripts, TopupScripts, LiquidateScripts, ReplenishScripts, RestockPlan
<1>2. CASE script = "btc"
  BY <1>2 DEF PlanOfScript, RestockScripts, TopupScripts, LiquidateScripts, ReplenishScripts, TopupPlan
<1>3. CASE script = "phase2"
  BY <1>3 DEF PlanOfScript, RestockScripts, TopupScripts, LiquidateScripts, ReplenishScripts, TopupPlan
<1>4. CASE script = "drain"
  BY <1>4 DEF PlanOfScript, RestockScripts, TopupScripts, LiquidateScripts, ReplenishScripts, LiquidatePlan
<1>5. CASE script = "buffers"
  BY <1>5 DEF PlanOfScript, RestockScripts, TopupScripts, LiquidateScripts, ReplenishScripts, ReplenishPlan
<1>6. CASE script = "normalize"
  BY <1>6 DEF PlanOfScript, RestockScripts, TopupScripts, LiquidateScripts, ReplenishScripts, ReplenishPlan
<1>7. CASE script = "inventory"
  BY <1>7 DEF PlanOfScript, RestockScripts, TopupScripts, LiquidateScripts, ReplenishScripts, ReplenishPlan
<1>8. CASE script = "auto"
  BY <1>8 DEF PlanOfScript, RestockScripts, TopupScripts, LiquidateScripts, ReplenishScripts, RestockPlan
<1> QED BY <1>1, <1>2, <1>3, <1>4, <1>5, <1>6, <1>7, <1>8

\* A stage that pays from such a balance asks for no more than it has been seen
\* to be above the reserve.
LEMMA Planned ==
  ASSUME Typed, NEW a \in Accounts, NEW c \in Currencies, Guarded(a, c), NEW k \in Nat, <<a, c>> \in Payers(k),
         c \in DOMAIN seen[a] => held[a][c] <= Get(seen, a, c), NEW plan, PlanOfScript(plan, k)
  PROVE  Total(plan, Weigh(a, c)) <= Above(a, c)
<1>1. CASE script = "jul10"
  <2>1. a \in Zar /\ c = "USDC" /\ k = 2 /\ plan = Jul10(k)
    BY <1>1, WhenPaid, PlanIs
  <2> QED BY <1>1, <2>1, Jul10Keeps
<1>2. CASE script = "btc"
  <2>1. a = "main" /\ c = "USDT" /\ k = 2 /\ plan = SeedBtc(k)
    BY <1>2, WhenPaid, PlanIs
  <2> QED BY <1>2, <2>1, SeedBtcKeeps
<1>3. CASE script = "phase2"
  <2>1. k \in 2..7 /\ a = SweptSubs[k - 1] /\ c = Bucket(a) /\ a # "main" /\ plan = Phase2(k)
    BY <1>3, WhenPaid, PlanIs
  <2> QED BY <1>3, <2>1, Phase2Keeps
<1>4. CASE script = "drain"
  <2> DEFINE step == 1 + ((k - 1) % 4)
  <2>1. k \in 1..8 /\ a = UsdcSubs[1 + ((k - 1) \div 4)]
          /\ (((k - 1) % 4 = 1 /\ c = "EURC") \/ ((k - 1) % 4 = 2 /\ c = "USDC")) /\ plan = Drain(k)
    BY <1>4, WhenPaid, PlanIs
  <2>2. plan = DrainOf(a, step)
    BY <2>1 DEF Drain
  <2>3. step \in 2..3 /\ c = (IF step = 2 THEN "EURC" ELSE "USDC")
    <3> DEFINE m == (k - 1) % 4
    <3>1. (m = 1 /\ c = "EURC") \/ (m = 2 /\ c = "USDC")
      BY <2>1
    <3> HIDE DEF m
    <3>2. 1 + m \in 2..3 /\ c = (IF 1 + m = 2 THEN "EURC" ELSE "USDC")
      BY <3>1
    <3> QED BY <3>2 DEF m
  <2> HIDE DEF step
  <2> QED BY <1>4, <2>2, <2>3, DrainKeeps
<1>5. CASE script = "buffers"
  <2>1. k = 2 /\ held[a][c] >= D(1) /\ plan = Buffers(k)
    BY <1>5, WhenPaid, PlanIs
  <2> QED BY <1>5, <2>1, BuffersKeep
<1>6. CASE script = "normalize"
  <2>1. k = 2 /\ c # "ZAR" /\ plan = Normalize(k)
    BY <1>6, WhenPaid, PlanIs
  <2> QED BY <1>6, <2>1, NormalizeKeeps
<1>7. CASE script = "inventory"
  <2>1. plan = Inventory(k)
    BY <1>7, PlanIs
  <2>2. \/ k = 2 /\ a # "main" /\ c \in Bases
        \/ k \in 4..9 /\ a = BucketSubs[k - 3] /\ c = QuoteOf(a) /\ a # "main"
    BY <1>7, WhenPaid
  <2>3. CASE k = 2 /\ a # "main" /\ c \in Bases
    <3>1. plan = InventorySells /\ a \in Accounts \ {"main"}
      BY <2>1, <2>3, InventoryTwo
    <3> QED BY <1>7, <2>3, <3>1, InventorySalesKeep
  <2>4. CASE k \in 4..9 /\ a = BucketSubs[k - 3] /\ c = QuoteOf(a) /\ a # "main"
    <3>1. a \in Accounts \ {"main"}
      BY <2>4
    <3> QED BY <1>7, <2>1, <2>4, <3>1, InventorySweepKeeps
  <2> QED BY <2>2, <2>3, <2>4
<1> QED BY <1>1, <1>2, <1>3, <1>4, <1>5, <1>6, <1>7, WhenPaid

-----------------------------------------------------------------------------
(* Nothing goes below its reserve.                                         *)

\* The queue is a sequence of requests.
LEMMA QueueShapes == ASSUME Typed PROVE queue \in Seq(Shapes)
<1>1. Asks(stage) \subseteq Shapes
  BY JumpIn DEF Asks, Paying
<1> QED BY <1>1, SeqMonotonic DEF Typed

\* The end of a run is one of the requests.
LEMMA EndShape == ASSUME NEW code \in Codes PROVE End(code) \in Shapes /\ End(code).op = "end"
<1>1. End(code) \in Plain({})
  BY EndIn
<1> QED BY <1>1 DEF Plain, Paying, End, Request

\* What is left of the queue takes no more than what was behind the head.
LEMMA RestWeight ==
  ASSUME Typed, queue # <<>>, NEW w \in [Shapes -> Nat], \A code \in Codes : w[End(code)] = 0
  PROVE  /\ Head(queue) \in Shapes /\ w[Head(queue)] \in Nat
         /\ Total(Tail(queue), w) \in Nat
         /\ Total(queue, w) = w[Head(queue)] + Total(Tail(queue), w)
         /\ Skip(Head(queue)) \/ queue' = SubSeq(queue, 2 + Head(queue).drop, Len(queue)) =>
              Total(queue', w) <= Total(Tail(queue), w)
<1> DEFINE t == Tail(queue)
           r == Head(queue)
<1>1. w \in [Shapes -> Nat] /\ queue \in Seq(Shapes)
  BY QueueShapes
<1>2. t \in Seq(Shapes) /\ r \in Shapes /\ r.drop \in Nat
  BY <1>1, HeadIn, TotalTail
<1>3. Total(queue, w) = w[r] + Total(t, w)
  BY <1>1, TotalTail
<1>4. Total(t, w) \in Nat /\ w[r] \in Nat
  BY <1>1, <1>2, TotalNat
<1>5. ASSUME queue' = SubSeq(queue, 2 + r.drop, Len(queue))
      PROVE  Total(queue', w) <= Total(t, w)
  <2> DEFINE m == 1 + r.drop
  <2>1. m \in Nat \ {0}
    BY <1>2
  <2>2. SubSeq(queue, 1 + m, Len(queue)) = SubSeq(t, m, Len(t))
    <3>1. Len(t) = Len(queue) - 1 /\ Len(queue) \in Nat /\ \A i \in 1..Len(t) : t[i] = queue[i + 1]
      BY <1>1, HeadTailProperties
    <3> HIDE DEF m, t
    <3> DEFINE x == SubSeq(queue, 1 + m, Len(queue))   y == SubSeq(t, m, Len(t))
    <3>2. x = [i \in 1..(Len(queue) - m) |-> queue[i + m]]
      BY <2>1, <3>1
    <3>3. y = [i \in 1..(Len(queue) - m) |-> t[i + m - 1]]
      BY <2>1, <3>1
    <3>4. \A i \in 1..(Len(queue) - m) : i + m - 1 \in 1..Len(t) /\ t[i + m - 1] = queue[i + m]
      <4> SUFFICES ASSUME NEW i \in 1..(Len(queue) - m)
                   PROVE  i + m - 1 \in 1..Len(t) /\ t[i + m - 1] = queue[i + m]
        OBVIOUS
      <4>1. i + m - 1 \in 1..Len(t) /\ (i + m - 1) + 1 = i + m
        BY <2>1, <3>1
      <4> QED BY <3>1, <4>1
    <3> QED BY <3>2, <3>3, <3>4
  <2>3. 2 + r.drop = 1 + m
    BY <1>2
  <2>4. queue' = SubSeq(t, m, Len(t))
    BY <1>5, <2>2, <2>3
  <2> HIDE DEF m, t
  <2> QED BY <1>1, <1>2, <2>1, <2>4, TotalRest
<1>6. ASSUME Skip(r) PROVE Total(queue', w) <= Total(t, w)
  <2>1. CASE queue' = SubSeq(queue, 2 + r.drop, Len(queue))
    BY <1>5, <2>1
  <2>2. CASE queue' = <<End(r.code)>> /\ r.code \in Codes
    <3>1. End(r.code) \in Shapes /\ w[End(r.code)] = 0
      BY <2>2, EndShape
    <3>2. Total(<<End(r.code)>>, w) = 0
      BY <1>1, <3>1, TotalOne
    <3> QED BY <1>4, <2>2, <3>2
  <2> QED BY <1>6, <2>1, <2>2, SkipIn
<1> QED BY <1>2, <1>3, <1>4, <1>5, <1>6 DEF t, r

\* The same of what is paid from one balance.
LEMMA RestTotal ==
  ASSUME Typed, queue # <<>>, NEW a, NEW c
  PROVE  /\ Head(queue) \in Shapes /\ Weigh(a, c)[Head(queue)] \in Nat
         /\ Total(Tail(queue), Weigh(a, c)) \in Nat
         /\ Total(queue, Weigh(a, c)) = Weigh(a, c)[Head(queue)] + Total(Tail(queue), Weigh(a, c))
         /\ Skip(Head(queue)) \/ queue' = SubSeq(queue, 2 + Head(queue).drop, Len(queue)) =>
              Total(queue', Weigh(a, c)) <= Total(Tail(queue), Weigh(a, c))
<1> DEFINE w == Weigh(a, c)
<1>1. \A code \in Codes : w[End(code)] = 0
  BY EndShape DEF Weigh, Spends
<1>2. w \in [Shapes -> Nat]
  BY WeighNat
<1> HIDE DEF w
<1>3. /\ Head(queue) \in Shapes /\ w[Head(queue)] \in Nat /\ Total(Tail(queue), w) \in Nat
      /\ Total(queue, w) = w[Head(queue)] + Total(Tail(queue), w)
      /\ Skip(Head(queue)) \/ queue' = SubSeq(queue, 2 + Head(queue).drop, Len(queue)) =>
           Total(queue', w) <= Total(Tail(queue), w)
  BY <1>1, <1>2, RestWeight
<1> QED BY <1>3 DEF w

\* No stage so far pays from the balance.
Untouched(a, c) == \A j \in 0..stage : <<a, c>> \notin Payers(j)
\* What the queue takes is there above the reserve; before that, the balance is
\* at least what was found and what the script has seen of it is in between.
KeptAt(a, c) ==
  /\ bal[a][c] >= Less(held[a][c], Reserve(a, c)) + Total(queue, Weigh(a, c))
  /\ Untouched(a, c) => /\ held[a][c] <= bal[a][c]
                        /\ c \in DOMAIN seen[a] => held[a][c] <= seen[a][c] /\ seen[a][c] <= bal[a][c]
Kept == trades = 0 => \A a \in Accounts : \A c \in Currencies : Guarded(a, c) => KeptAt(a, c)

\* The reserves hold when a script starts.
LEMMA KeptInit == Init => Kept
<1> SUFFICES ASSUME Init, NEW a \in Accounts, NEW c \in Currencies, Guarded(a, c) PROVE KeptAt(a, c)
  BY DEF Kept
<1>1. Typed /\ bal = held /\ queue = <<>> /\ seen = [x \in Accounts |-> Unread]
  BY TypedInit DEF Init, WalletInit
<1>2. Total(queue, Weigh(a, c)) = 0
  BY <1>1, WeighNat, TotalEmpty
<1>3. held[a][c] \in Nat /\ Reserve(a, c) \in Nat
  BY <1>1, ReserveNat DEF Typed, Purses
<1>4. Less(held[a][c], Reserve(a, c)) <= held[a][c] /\ Less(held[a][c], Reserve(a, c)) \in Int
  BY <1>3 DEF Less
<1>5. c \notin DOMAIN seen[a]
  BY <1>1 DEF Unread
<1> QED BY <1>1, <1>2, <1>3, <1>4, <1>5 DEF KeptAt

\* An order or a transfer, accepted or refused, keeps a reserve: its weight was already set aside.
LEMMA KeptSpend ==
  ASSUME Typed, NEW a \in Accounts, NEW c \in Currencies, KeptAt(a, c), Accepted \/ AcceptedOnly \/ Refused
  PROVE  KeptAt(a, c)'
<1> DEFINE r == Head(queue)
           w == Weigh(a, c)
           low == Less(held[a][c], Reserve(a, c))
<1>1. queue # <<>> /\ r.op \in Spends /\ script' = script /\ stage' = stage /\ held' = held
  BY DEF Accepted, AcceptedOnly, Refused
<1>2. /\ low' = low /\ Untouched(a, c)' = Untouched(a, c) /\ Weigh(a, c)' = Weigh(a, c)
      /\ low \in Int /\ bal[a][c] \in Nat /\ held[a][c] \in Nat
  <2>1. Reserve(a, c)' = Reserve(a, c) /\ held[a][c]' = held[a][c]
    BY <1>1 DEF Reserve
  <2>2. Untouched(a, c)' = Untouched(a, c)
    <3>1. ASSUME NEW CONSTANT k PROVE Payers(k)' = Payers(k)
      BY <1>1, AsksSame
    <3> QED BY <1>1, <3>1 DEF Untouched
  <2>3. Reserve(a, c) \in Nat /\ bal[a][c] \in Nat /\ held[a][c] \in Nat
    BY ReserveNat DEF Typed, Purses
  <2>4. low \in Int
    BY <2>3 DEF Less
  <2>5. low' = low
    BY <2>1
  <2>6. Weigh(a, c)' = Weigh(a, c)
    BY DEF Weigh
  <2> HIDE DEF low
  <2> QED BY <2>2, <2>3, <2>4, <2>5, <2>6
<1>3. Spending(r) /\ <<r.on, r.give>> \in Payers(stage) /\ r \in Shapes
  BY <1>1, HeadIn
<1>4. /\ w[r] \in Nat /\ Total(Tail(queue), w) \in Nat /\ Total(queue, w) = w[r] + Total(Tail(queue), w)
      /\ Skip(r) => Total(queue', w) <= Total(Tail(queue), w)
  BY <1>1, RestTotal
<1>5. Total(queue', w) <= Total(Tail(queue), w)
  <2>1. queue' = Tail(queue) \/ Skip(r)
    BY DEF Accepted, AcceptedOnly, Refused
  <2> HIDE DEF w, r
  <2>2. CASE queue' = Tail(queue)
    BY <1>4, <2>2
  <2> QED BY <1>4, <2>1, <2>2
<1>6. Untouched(a, c) => ~(r.on = a /\ r.give = c)
  BY <1>3 DEF Untouched, Typed
<1>7. /\ bal'[a][c] \in Int /\ bal'[a][c] >= bal[a][c] - w[r]
      /\ ~(r.on = a /\ r.give = c) => bal'[a][c] >= bal[a][c]
  <2>1. ASSUME Takes(r), NEW n \in 0..2, bal' = Carry(r, n)
        PROVE  /\ bal'[a][c] \in Int /\ bal'[a][c] >= bal[a][c] - w[r]
               /\ ~(r.on = a /\ r.give = c) => bal'[a][c] >= bal[a][c]
    <3> DEFINE p == Part(Pays(r), n, 2)   g == Part(Gets(r), n, 2)
    <3>1. /\ bal' \in Purses /\ p \in 0..Pays(r) /\ g \in Nat
          /\ bal'[a][c] = bal[a][c] - (IF r.on = a /\ r.give = c THEN p ELSE 0) + (IF r.to = a /\ r.get = c THEN g ELSE 0)
      BY <1>3, <2>1, CarryOut DEF Typed
    <3>2. w[r] = IF r.on = a /\ r.give = c THEN Over(Pays(r)) ELSE 0
      BY <1>1, <1>3 DEF Weigh
    <3>3. Pays(r) \in Nat
      <4>1. r.amount > 0
        BY <2>1 DEF Takes
      <4> QED BY <1>3, <4>1, PaysGets
    <3>4. Over(Pays(r)) = Pays(r)
      BY <3>3 DEF Over
    <3>5. bal'[a][c] \in Int
      BY <3>1 DEF Purses
    <3> HIDE DEF p, g, w, r
    <3> QED BY <1>2, <1>4, <3>1, <3>2, <3>3, <3>4, <3>5
  <2>2. CASE Accepted
    <3>1. Takes(r) /\ bal' = Carry(r, 2) /\ 2 \in 0..2
      BY <2>2 DEF Accepted
    <3> QED BY <2>1, <3>1
  <2>3. CASE AcceptedOnly
    <3>1. PICK n \in 0..2 : Takes(r) /\ bal' = Carry(r, n)
      BY <2>3 DEF AcceptedOnly
    <3> QED BY <2>1, <3>1
  <2>4. CASE Refused
    BY <1>2, <1>4, <2>4 DEF Refused
  <2> QED BY <2>2, <2>3, <2>4
<1>8. c \in DOMAIN seen'[a] => c \in DOMAIN seen[a] /\ seen'[a][c] = seen[a][c]
  <2>1. seen' = seen \/ seen' = [seen EXCEPT ![r.on] = Unread]
    BY DEF Accepted, AcceptedOnly, Refused
  <2>2. CASE seen' = seen
    BY <2>2
  <2>3. CASE seen' = [seen EXCEPT ![r.on] = Unread]
    BY <2>3 DEF Unread, Typed
  <2> QED BY <2>1, <2>2, <2>3
<1>9. c \in DOMAIN seen[a] => seen[a][c] \in Nat
  <2>1. seen[a] \in Books
    BY DEF Typed
  <2> QED BY <2>1 DEF Books
<1>10. bal[a][c] >= low + Total(queue, w)
        /\ (Untouched(a, c) => held[a][c] <= bal[a][c]
              /\ (c \in DOMAIN seen[a] => held[a][c] <= seen[a][c] /\ seen[a][c] <= bal[a][c]))
  BY DEF KeptAt
<1>11. Total(queue', w) \in Int
  <2>1. Typed'
    BY SpendTyped
  <2>2. queue' \in Seq(Shapes)
    <3>1. Typed' => (queue \in Seq(Shapes))'
      BY QueueShapes, PTL
    <3> QED BY <2>1, <3>1
  <2> QED BY <2>2, WeighNat, TotalNat
<1> HIDE DEF low, w, r
<1>12. bal'[a][c] >= low + Total(queue', w)
  BY <1>2, <1>4, <1>5, <1>7, <1>10, <1>11
<1>13. Untouched(a, c) => held[a][c] <= bal'[a][c]
          /\ (c \in DOMAIN seen'[a] => held[a][c] <= seen'[a][c] /\ seen'[a][c] <= bal'[a][c])
  BY <1>2, <1>6, <1>7, <1>8, <1>9, <1>10
<1>14. low' = Less(held[a][c], Reserve(a, c))' /\ Total(queue, Weigh(a, c))' = Total(queue', Weigh(a, c)')
  BY DEF low
<1> QED BY <1>1, <1>2, <1>12, <1>13, <1>14 DEF KeptAt, w

\* What does not touch the balances or what is known of them.
LEMMA KeptSame ==
  ASSUME NEW a \in Accounts, NEW c \in Currencies, script' = script, held' = held
  PROVE  Reserve(a, c)' = Reserve(a, c) /\ Weigh(a, c)' = Weigh(a, c) /\ Guarded(a, c)' = Guarded(a, c)
         /\ Less(held[a][c], Reserve(a, c))' = Less(held[a][c], Reserve(a, c))
<1>1. Reserve(a, c)' = Reserve(a, c) /\ held[a][c]' = held[a][c]
  BY DEF Reserve
<1>2. Weigh(a, c)' = Weigh(a, c)
  BY DEF Weigh
<1>3. Less(held[a][c], Reserve(a, c))' = Less(held[a][c], Reserve(a, c))
  BY <1>1
<1> QED BY <1>1, <1>2, <1>3 DEF Guarded

\* The amounts a reserve is compared with.
LEMMA KeptTyped ==
  ASSUME Typed, NEW a \in Accounts, NEW c \in Currencies
  PROVE  /\ Less(held[a][c], Reserve(a, c)) \in Int /\ Less(held[a][c], Reserve(a, c)) <= held[a][c]
         /\ Less(held[a][c], Reserve(a, c)) <= Reserve(a, c) /\ Reserve(a, c) \in Nat
         /\ bal[a][c] \in Nat /\ held[a][c] \in Nat /\ Total(queue, Weigh(a, c)) \in Nat
         /\ c \in DOMAIN seen[a] => seen[a][c] \in Nat
<1>1. Reserve(a, c) \in Nat /\ bal[a][c] \in Nat /\ held[a][c] \in Nat
  BY ReserveNat DEF Typed, Purses
<1>2. Total(queue, Weigh(a, c)) \in Nat
  BY QueueShapes, WeighNat, TotalNat
<1>3. c \in DOMAIN seen[a] => seen[a][c] \in Nat
  <2>1. seen[a] \in Books
    BY DEF Typed
  <2> QED BY <2>1 DEF Books
<1> QED BY <1>1, <1>2, <1>3 DEF Less

\* Reading balances keeps a reserve, and is where a plan first learns the balance.
LEMMA KeptLook ==
  ASSUME Typed, NEW a \in Accounts, NEW c \in Currencies, KeptAt(a, c), Looked
  PROVE  KeptAt(a, c)'
<1> DEFINE r == Head(queue)
           low == Less(held[a][c], Reserve(a, c))
           w == Weigh(a, c)
<1>1. queue # <<>> /\ r.op = "look" /\ script' = script /\ stage' = stage /\ held' = held /\ bal' = bal
  BY DEF Looked
<1>2. low' = low /\ Weigh(a, c)' = w /\ Untouched(a, c)' = Untouched(a, c)
  <2>1. Untouched(a, c)' = Untouched(a, c)
    <3>1. ASSUME NEW CONSTANT k PROVE Payers(k)' = Payers(k)
      BY <1>1, AsksSame
    <3> QED BY <1>1, <3>1 DEF Untouched
  <2> QED BY <1>1, <2>1, KeptSame
<1>3. /\ low \in Int /\ bal[a][c] \in Nat /\ held[a][c] \in Nat /\ Total(queue, w) \in Nat
      /\ c \in DOMAIN seen[a] => seen[a][c] \in Nat
  BY KeptTyped
<1>4. /\ w[r] \in Nat /\ Total(Tail(queue), w) \in Nat /\ Total(queue, w) = w[r] + Total(Tail(queue), w)
      /\ Skip(r) => Total(queue', w) <= Total(Tail(queue), w)
  BY <1>1, RestTotal
<1>5. Total(queue', w) <= Total(Tail(queue), w)
  <2>1. queue' = Tail(queue) \/ Skip(r)
    BY DEF Looked
  <2> HIDE DEF w, r
  <2>2. CASE queue' = Tail(queue)
    BY <1>4, <2>2
  <2> QED BY <1>4, <2>1, <2>2
<1>6. Total(queue', w) \in Int
  <2>1. Typed'
    BY LookTyped
  <2>2. queue' \in Seq(Shapes)
    <3>1. Typed' => (queue \in Seq(Shapes))'
      BY QueueShapes, PTL
    <3> QED BY <2>1, <3>1
  <2> QED BY <2>2, WeighNat, TotalNat
<1>7. c \in DOMAIN seen'[a] => seen'[a][c] = bal[a][c] \/ (c \in DOMAIN seen[a] /\ seen'[a][c] = seen[a][c])
  <2>1. r.on \in Accounts
    BY <1>1, HeadIn DEF Shapes
  <2> DEFINE known == DOMAIN seen[r.on] \cup r.give
  <2>2. \/ seen' = [seen EXCEPT ![r.on] = [x \in known |-> IF x \in r.give THEN bal[r.on][x] ELSE seen[r.on][x]]]
        \/ seen' = [seen EXCEPT ![r.on] = [x \in DOMAIN seen[r.on] \ r.give |-> seen[r.on][x]]]
        \/ seen' = seen
    BY DEF Looked
  <2> HIDE DEF r
  <2>3. CASE seen' = [seen EXCEPT ![r.on] = [x \in known |-> IF x \in r.give THEN bal[r.on][x] ELSE seen[r.on][x]]]
    BY <2>1, <2>3 DEF Typed
  <2>4. CASE seen' = [seen EXCEPT ![r.on] = [x \in DOMAIN seen[r.on] \ r.give |-> seen[r.on][x]]]
    BY <2>1, <2>4 DEF Typed
  <2>5. CASE seen' = seen
    BY <2>5
  <2> QED BY <2>2, <2>3, <2>4, <2>5
<1>8. bal[a][c] >= low + Total(queue, w)
        /\ (Untouched(a, c) => held[a][c] <= bal[a][c]
              /\ (c \in DOMAIN seen[a] => held[a][c] <= seen[a][c] /\ seen[a][c] <= bal[a][c]))
  BY DEF KeptAt
<1> HIDE DEF low, w, r
<1>9. bal'[a][c] >= low + Total(queue', w)
  BY <1>1, <1>3, <1>4, <1>5, <1>6, <1>8
<1>10. Untouched(a, c) => held[a][c] <= bal'[a][c]
          /\ (c \in DOMAIN seen'[a] => held[a][c] <= seen'[a][c] /\ seen'[a][c] <= bal'[a][c])
  BY <1>1, <1>3, <1>7, <1>8
<1>11. low' = Less(held[a][c], Reserve(a, c))' /\ Total(queue, Weigh(a, c))' = Total(queue', Weigh(a, c)')
  BY DEF low
<1> QED BY <1>1, <1>2, <1>9, <1>10, <1>11 DEF KeptAt, w

\* Requests that neither spend nor look keep a reserve: dropping requests only frees what they would
\* take.
LEMMA KeptEnds ==
  ASSUME Typed, NEW a \in Accounts, NEW c \in Currencies, Guarded(a, c), KeptAt(a, c), Ends
  PROVE  KeptAt(a, c)'
<1> DEFINE r == Head(queue)
           low == Less(held[a][c], Reserve(a, c))
           w == Weigh(a, c)
<1>1. queue # <<>> /\ script' = script /\ held' = held /\ bal' = bal /\ seen' = seen
      /\ queue' = SubSeq(queue, 2 + r.drop, Len(queue))
  BY DEF Ends
<1>2. low' = low /\ Weigh(a, c)' = w
  BY <1>1, KeptSame
<1>3. Untouched(a, c)' => Untouched(a, c)
  <2>1. ASSUME NEW CONSTANT k PROVE Payers(k)' = Payers(k)
    BY <1>1, AsksSame
  <2>2. stage \in Nat /\ (stage' = stage \/ stage' = stage + 2)
    BY EndsTyped DEF Typed
  <2>3. 0..stage \subseteq 0..stage'
    BY <2>2
  <2> QED BY <2>1, <2>3 DEF Untouched
<1>4. /\ low \in Int /\ bal[a][c] \in Nat /\ held[a][c] \in Nat /\ Total(queue, w) \in Nat
  BY KeptTyped
<1>5. /\ w[r] \in Nat /\ Total(Tail(queue), w) \in Nat /\ Total(queue, w) = w[r] + Total(Tail(queue), w)
      /\ Total(queue', w) <= Total(Tail(queue), w)
  BY <1>1, RestTotal
<1>6. Total(queue', w) \in Int
  <2>1. queue' \in Seq(Asks(stage))
    BY EndsTyped
  <2>2. Asks(stage) \subseteq Shapes
    BY JumpIn DEF Asks, Paying
  <2>3. queue' \in Seq(Shapes)
    BY <2>1, <2>2, SeqMonotonic
  <2> QED BY <2>3, WeighNat, TotalNat
<1>7. bal[a][c] >= low + Total(queue, w)
        /\ (Untouched(a, c) => held[a][c] <= bal[a][c]
              /\ (c \in DOMAIN seen[a] => held[a][c] <= seen[a][c] /\ seen[a][c] <= bal[a][c]))
  BY DEF KeptAt
<1> HIDE DEF low, w, r
<1>8. bal'[a][c] >= low + Total(queue', w)
  BY <1>1, <1>4, <1>5, <1>6, <1>7
<1>9. Untouched(a, c)' => held[a][c] <= bal'[a][c]
          /\ (c \in DOMAIN seen'[a] => held[a][c] <= seen'[a][c] /\ seen'[a][c] <= bal'[a][c])
  BY <1>1, <1>3, <1>7
<1>10. low' = Less(held[a][c], Reserve(a, c))' /\ Total(queue, Weigh(a, c))' = Total(queue', Weigh(a, c)')
  BY DEF low
<1> QED BY <1>1, <1>2, <1>8, <1>9, <1>10 DEF KeptAt, w

\* The plan of a new stage keeps a reserve: a balance is paid from at one stage, and there the plan
\* was sized by the last look.
LEMMA KeptAdvance ==
  ASSUME Typed, NEW a \in Accounts, NEW c \in Currencies, Guarded(a, c), KeptAt(a, c), NEW plan,
         Advance(plan), PlanOfScript(plan, stage + 1), plan \in Seq(Asks(stage + 1))
  PROVE  KeptAt(a, c)'
<1> DEFINE k == stage + 1
           low == Less(held[a][c], Reserve(a, c))
           w == Weigh(a, c)
<1>1. queue = <<>> /\ queue' = plan /\ stage' = k /\ UNCHANGED <<script, held, bal, seen>> /\ stage \in Nat
  BY DEF Advance, Typed
<1>2. low' = low /\ Weigh(a, c)' = w
  BY <1>1, KeptSame
<1>3. Untouched(a, c)' => Untouched(a, c) /\ <<a, c>> \notin Payers(k)
  <2>1. ASSUME NEW CONSTANT x PROVE Payers(x)' = Payers(x)
    BY <1>1, AsksSame
  <2>2. 0..stage \subseteq 0..stage' /\ k \in 0..stage'
    BY <1>1
  <2> QED BY <2>1, <2>2 DEF Untouched
<1>4. /\ low \in Int /\ low <= held[a][c] /\ low <= Reserve(a, c) /\ Reserve(a, c) \in Nat
      /\ bal[a][c] \in Nat /\ held[a][c] \in Nat
      /\ c \in DOMAIN seen[a] => seen[a][c] \in Nat
  BY KeptTyped
<1>5. Total(queue, w) = 0
  BY <1>1, WeighNat, TotalEmpty
<1>6. bal[a][c] >= low + Total(queue, w)
        /\ (Untouched(a, c) => held[a][c] <= bal[a][c]
              /\ (c \in DOMAIN seen[a] => held[a][c] <= seen[a][c] /\ seen[a][c] <= bal[a][c]))
  BY DEF KeptAt
<1>7. bal[a][c] >= low + Total(plan, w)
  <2>1. CASE <<a, c>> \notin Payers(k)
    <3>1. Total(plan, w) = 0
      BY <2>1, AsksZero
    <3> HIDE DEF low, w
    <3> QED BY <1>4, <1>5, <1>6, <3>1
  <2>2. CASE <<a, c>> \in Payers(k)
    <3>1. Untouched(a, c)
      <4> SUFFICES ASSUME NEW j \in 0..stage, <<a, c>> \in Payers(j) PROVE FALSE
        BY DEF Untouched
      <4>1. j \in Nat /\ k \in Nat /\ j # k
        BY <1>1
      <4> HIDE DEF k
      <4> QED BY <2>2, <4>1, Once
    <3>2. c \in DOMAIN seen[a] => held[a][c] <= Get(seen, a, c)
      BY <1>6, <3>1 DEF Get
    <3>3. k \in Nat
      BY <1>1
    <3>4. Total(plan, w) <= Above(a, c)
      <4> HIDE DEF k
      <4>1. PlanOfScript(plan, k)
        BY DEF k
      <4> QED BY <2>2, <3>2, <3>3, <4>1, Planned
    <3>5. Above(a, c) = Over(Get(seen, a, c) - Reserve(a, c))
      BY DEF Above
    <3>6. Total(plan, w) \in Nat
      <4>1. plan \in Seq(Shapes)
        <5>1. Asks(k) \subseteq Shapes
          BY JumpIn DEF Asks, Paying
        <5> QED BY <5>1, SeqMonotonic
      <4> QED BY <4>1, WeighNat, TotalNat
    <3>7. held[a][c] <= bal[a][c]
      BY <1>6, <3>1
    <3> HIDE DEF low, w, k
    <3>8. CASE c \in DOMAIN seen[a]
      <4>1. Get(seen, a, c) = seen[a][c] /\ seen[a][c] <= bal[a][c]
        BY <1>6, <3>1, <3>8 DEF Get
      <4> QED BY <1>4, <3>4, <3>5, <3>6, <3>7, <3>8, <4>1 DEF Over
    <3>9. CASE c \notin DOMAIN seen[a]
      <4>1. Get(seen, a, c) = 0
        BY <3>9 DEF Get
      <4> QED BY <1>4, <3>4, <3>5, <3>6, <3>7, <4>1 DEF Over
    <3> QED BY <3>8, <3>9
  <2> QED BY <2>1, <2>2
<1>8. low' = Less(held[a][c], Reserve(a, c))' /\ Total(queue, Weigh(a, c))' = Total(queue', Weigh(a, c)')
  BY DEF low
<1> HIDE DEF low, w, k
<1>9. bal'[a][c] >= low + Total(queue', w)
  BY <1>1, <1>7
<1>10. Untouched(a, c)' => held[a][c] <= bal'[a][c]
          /\ (c \in DOMAIN seen'[a] => held[a][c] <= seen'[a][c] /\ seen'[a][c] <= bal'[a][c])
  BY <1>1, <1>3, <1>6
<1> QED BY <1>1, <1>2, <1>8, <1>9, <1>10 DEF KeptAt, w

\* Every step keeps every reserve.
LEMMA KeptStep == Typed /\ Kept /\ [Next]_walletVars => Kept'
<1> SUFFICES ASSUME Typed, Kept, [Next]_walletVars, trades' = 0,
                    NEW a \in Accounts, NEW c \in Currencies, Guarded(a, c)'
             PROVE  KeptAt(a, c)'
  BY DEF Kept
<1> USE DEF Kept
<1>1. CASE Accepted \/ AcceptedOnly \/ Refused
  <2>1. script' = script /\ held' = held /\ trades' = trades
    BY <1>1 DEF Accepted, AcceptedOnly, Refused
  <2>2. KeptAt(a, c)
    BY <2>1, KeptSame
  <2> QED BY <1>1, <2>2, KeptSpend
<1>2. CASE Looked
  <2>1. script' = script /\ held' = held /\ trades' = trades
    BY <1>2 DEF Looked
  <2>2. KeptAt(a, c)
    BY <2>1, KeptSame
  <2> QED BY <1>2, <2>2, KeptLook
<1>3. CASE Ends
  <2>1. script' = script /\ held' = held /\ trades' = trades
    BY <1>3 DEF Ends
  <2>2. KeptAt(a, c) /\ Guarded(a, c)
    BY <2>1, KeptSame
  <2> QED BY <1>3, <2>2, KeptEnds
<1>4. CASE BotSpends
  <2>1. trades' = trades + 1 /\ trades \in Nat
    BY <1>4 DEF BotSpends, Typed
  <2> QED BY <2>1
<1>5. CASE RestockNext \/ TopupNext \/ LiquidateNext \/ ReplenishNext
  <2>1. PICK plan \in Seq(Asks(stage + 1)) : Advance(plan) /\ PlanOfScript(plan, stage + 1)
    BY <1>5, Advances DEF PlanOfScript
  <2>2. script' = script /\ held' = held /\ trades' = trades
    BY <2>1 DEF Advance
  <2>3. KeptAt(a, c) /\ Guarded(a, c)
    BY <2>2, KeptSame
  <2> QED BY <2>1, <2>3, KeptAdvance
<1>6. CASE UNCHANGED walletVars
  <2>1. UNCHANGED <<script, held, bal, seen, stage, queue, trades>>
    BY <1>6 DEF walletVars
  <2>2. KeptAt(a, c)
    BY <2>1, KeptSame
  <2>3. ASSUME NEW CONSTANT k PROVE Payers(k)' = Payers(k)
    BY <2>1, AsksSame
  <2>4. Untouched(a, c)' = Untouched(a, c)
    BY <2>1, <2>3 DEF Untouched
  <2>5. /\ Less(held[a][c], Reserve(a, c))' = Less(held[a][c], Reserve(a, c))
        /\ Total(queue, Weigh(a, c))' = Total(queue, Weigh(a, c))
    BY <2>1, KeptSame
  <2> QED BY <2>1, <2>2, <2>4, <2>5 DEF KeptAt
<1> QED BY <1>1, <1>2, <1>3, <1>4, <1>5, <1>6 DEF Next, WalletStep

\* The invariant implies the reserves.
LEMMA KeptReserves == Typed /\ Kept => ReservesKept
<1> SUFFICES ASSUME Typed, Kept, trades = 0, NEW a \in Accounts, NEW c \in Currencies
             PROVE  bal[a][c] >= Less(held[a][c], Reserve(a, c))
  BY DEF ReservesKept
<1>1. /\ Less(held[a][c], Reserve(a, c)) \in Int /\ Less(held[a][c], Reserve(a, c)) <= Reserve(a, c)
      /\ bal[a][c] \in Nat /\ Total(queue, Weigh(a, c)) \in Nat /\ Reserve(a, c) \in Nat
  BY KeptTyped
<1>2. CASE Guarded(a, c)
  <2>1. bal[a][c] >= Less(held[a][c], Reserve(a, c)) + Total(queue, Weigh(a, c))
    BY <1>2 DEF Kept, KeptAt
  <2> QED BY <1>1, <2>1
<1>3. CASE ~Guarded(a, c)
  BY <1>1, <1>3 DEF Guarded
<1> QED BY <1>2, <1>3

\* While the bot does not trade, what the queue still takes from a guarded balance is on top of its
\* reserve: the inductive invariant of the reserves.
THEOREM WalletKept == Spec => [](Typed /\ Kept)
<1>1. Init => Typed /\ Kept
  BY TypedInit, KeptInit
<1>2. Typed /\ Kept /\ [Next]_walletVars => (Typed /\ Kept)'
  BY TypedStep, KeptStep
<1> QED BY <1>1, <1>2, PTL DEF Spec

\* A script whose source keeps something back in an account (a buffer, a fee margin, a USDC float)
\* leaves it there, whatever the exchange refuses, unless the bot traded meanwhile.
THEOREM WalletReservesKept == Spec => []ReservesKept
BY WalletKept, KeptReserves, PTL

-----------------------------------------------------------------------------
(* auto_restock: what leaves the main account in quote currency, in cents of *)
(* rand, in which no division loses anything.                              *)

Rands(c, n) == CASE c = "ZAR" -> n [] c \in {"USDT", "USDC"} -> InZar(n) [] OTHER -> 0
Worths(v) == InZar(v["main"]["USDC"]) + InZar(v["main"]["USDT"]) + v["main"]["ZAR"]
\* A request for rand, paid for from USDT of the same account.
TopsUp(r) == r.op = "want" /\ r.give = "USDT" /\ r.get = "ZAR" /\ r.to = "main"
Sinks == [r \in Shapes |-> IF r.op \in Spends /\ r.on = "main" /\ ~TopsUp(r) THEN Rands(r.give, Over(Pays(r))) ELSE 0]

\* The rand value is additive and monotone.
LEMMA InZarRules ==
  ASSUME NEW x \in Int, NEW y \in Int
  PROVE  /\ InZar(x) \in Int /\ InZar(x + y) = InZar(x) + InZar(y) /\ InZar(x - y) = InZar(x) - InZar(y)
         /\ x <= y => InZar(x) <= InZar(y)
         /\ x \in Nat => InZar(x) \in Nat
         /\ InZar(0) = 0
<1>1. x * Rate \in Int /\ y * Rate \in Int /\ Rate \in Nat
  BY RateTyped
<1>2. (x + y) * Rate = x * Rate + y * Rate /\ (x - y) * Rate = x * Rate - y * Rate
  BY <1>1
<1>3. \A z \in Nat : z * Rate \in Nat
  BY <1>1
<1>4. x <= y => x * Rate <= y * Rate
  <2> SUFFICES ASSUME x <= y PROVE x * Rate <= y * Rate
    OBVIOUS
  <2>1. y - x \in Nat
    OBVIOUS
  <2>2. (y - x) * Rate = y * Rate - x * Rate
    BY <1>1
  <2>3. (y - x) * Rate \in Nat
    BY <1>3, <2>1
  <2> DEFINE u == x * Rate   v == y * Rate   d == (y - x) * Rate
  <2>4. u \in Int /\ v \in Int /\ d \in Nat /\ d = v - u
    BY <1>1, <2>2, <2>3
  <2> HIDE DEF u, v, d
  <2>5. u <= v
    BY <2>4
  <2> QED BY <2>5 DEF u, v
<1>5. 0 * Rate = 0
  BY <1>1
<1> QED BY <1>1, <1>2, <1>3, <1>4, <1>5 DEF InZar

\* The rand value of a natural amount is a natural and grows with the amount.
LEMMA RandsNat ==
  ASSUME NEW c, NEW n \in Nat, NEW m \in Nat, m <= n
  PROVE  Rands(c, n) \in Nat /\ Rands(c, m) <= Rands(c, n)
<1>1. InZar(n) \in Nat /\ InZar(m) <= InZar(n)
  BY InZarRules
<1> QED BY <1>1 DEF Rands

\* What a request takes from the worth of main is a natural.
LEMMA SinksNat == Sinks \in [Shapes -> Nat]
<1>1. \A r \in Shapes : Rands(r.give, Over(Pays(r))) \in Nat
  <2> SUFFICES ASSUME NEW r \in Shapes PROVE Rands(r.give, Over(Pays(r))) \in Nat
    OBVIOUS
  <2>1. r.amount \in Int
    BY DEF Shapes
  <2>2. Pays(r) \in Int
    BY <2>1, ConvertInt DEF Pays
  <2>3. Over(Pays(r)) \in Nat
    BY <2>2, Amounts
  <2> QED BY <2>3, RandsNat
<1> QED BY <1>1 DEF Sinks

\* Half of what is bought is worth at least half of what is paid.
LEMMA HalfWorth ==
  ASSUME NEW g \in Nat, NEW n \in 0..2
  PROVE  InZar(Part(g \div Rate, n, 2)) <= Part(g, n, 2)
<1> DEFINE p == g \div Rate
<1>1. p \in Nat /\ InZar(p) <= g
  <2>1. Rate \in Nat \ {0}
    BY RateTyped
  <2>2. p \in Nat /\ p * Rate <= g
    BY <2>1
  <2> QED BY <2>2 DEF InZar
<1> HIDE DEF p
<1>2. CASE n = 0
  <2>1. Part(p, 0, 2) = 0 /\ Part(g, 0, 2) = 0
    BY <1>1, Shares
  <2> QED BY <1>2, <2>1, InZarRules DEF p
<1>3. CASE n = 2
  <2>1. Part(p, 2, 2) = p /\ Part(g, 2, 2) = g
    BY <1>1, Shares
  <2> QED BY <1>1, <1>3, <2>1 DEF p
<1>4. CASE n = 1
  <2>1. Part(p, 1, 2) = p \div 2 /\ Part(g, 1, 2) = g \div 2
    <3>1. \A x \in Nat : Part(x, 1, 2) = x \div 2
      <4> SUFFICES ASSUME NEW x \in Nat PROVE Part(x, 1, 2) = x \div 2
        OBVIOUS
      <4>1. x % 2 = 0 \/ x % 2 = 1
        OBVIOUS
      <4>2. ((x % 2) * 1) \div 2 = 0 /\ x \div 2 \in Nat
        BY <4>1
      <4> QED BY <4>2 DEF Part
    <3> QED BY <1>1, <3>1
  <2> DEFINE h == p \div 2
  <2>2. h \in Nat /\ h + h <= p
    BY <1>1
  <2> HIDE DEF h
  <2>3. InZar(h + h) = InZar(h) + InZar(h) /\ InZar(h + h) <= InZar(p) /\ InZar(h) \in Int /\ InZar(p) \in Int
    <3>1. InZar(h + h) = InZar(h) + InZar(h) /\ InZar(h) \in Int
      <4>1. h \in Int
        BY <2>2
      <4> QED BY <4>1, InZarRules
    <3> DEFINE k == h + h
    <3>2. k \in Int /\ p \in Int /\ k <= p
      BY <1>1, <2>2
    <3> HIDE DEF k
    <3>3. InZar(k) <= InZar(p) /\ InZar(p) \in Int
      BY <3>2, InZarRules
    <3> QED BY <3>1, <3>3 DEF k
  <2> DEFINE u == InZar(h)   t == InZar(p)   v == InZar(h + h)
  <2>4. u \in Int /\ t \in Int /\ v = u + u /\ v <= t /\ t <= g
    BY <1>1, <2>3
  <2> HIDE DEF u, t, v
  <2>5. u <= g \div 2
    BY <2>4
  <2> QED BY <1>4, <2>1, <2>5 DEF u, h, p
<1> QED BY <1>2, <1>3, <1>4

\* A request takes no more of the main account's worth than it weighs.
LEMMA CarryWorth ==
  ASSUME bal \in Purses, NEW r \in Shapes, Spending(r), Takes(r), NEW n \in 0..2
  PROVE  Worths(Carry(r, n)) \in Int /\ Worths(Carry(r, n)) >= Worths(bal) - Sinks[r]
<1> DEFINE p == Part(Pays(r), n, 2)
           g == Part(Gets(r), n, 2)
           dec(c) == IF r.on = "main" /\ r.give = c THEN p ELSE 0
           inc(c) == IF r.to = "main" /\ r.get = c THEN g ELSE 0
           b == Carry(r, n)
<1>1. /\ b \in Purses /\ p \in 0..Pays(r) /\ g \in Nat
      /\ \A a \in Accounts, c \in Currencies :
           b[a][c] = bal[a][c] - (IF r.on = a /\ r.give = c THEN p ELSE 0) + (IF r.to = a /\ r.get = c THEN g ELSE 0)
  BY CarryOut
<1>2. Pays(r) \in Nat /\ Gets(r) \in Nat /\ r.amount > 0 /\ r.amount \in Nat
  <2>1. r.amount > 0
    BY DEF Takes
  <2> QED BY <2>1, PaysGets DEF Spending
<1>3. p \in Nat /\ p <= Pays(r)
  <2> HIDE DEF p
  <2> QED BY <1>1, <1>2
<1>4. \A c \in Currencies : b["main"][c] = bal["main"][c] - dec(c) + inc(c) /\ bal["main"][c] \in Nat
  BY <1>1, Names DEF Purses
<1>5. \A c \in Currencies : dec(c) \in Nat /\ inc(c) \in Nat
  <2> HIDE DEF p, g
  <2> QED BY <1>1, <1>3
<1>6. "USDC" \in Currencies /\ "USDT" \in Currencies /\ "ZAR" \in Currencies
  BY Names
<1> DEFINE du == InZar(dec("USDT"))   dc == InZar(dec("USDC"))   dz == dec("ZAR")
           iu == InZar(inc("USDT"))   ic == InZar(inc("USDC"))   iz == inc("ZAR")
<1>7. /\ InZar(b["main"]["USDC"]) = InZar(bal["main"]["USDC"]) - dc + ic
      /\ InZar(b["main"]["USDT"]) = InZar(bal["main"]["USDT"]) - du + iu
      /\ b["main"]["ZAR"] = bal["main"]["ZAR"] - dz + iz
  <2>1. \A x, y, z \in Nat : InZar(x - y + z) = InZar(x) - InZar(y) + InZar(z)
    <3> SUFFICES ASSUME NEW x \in Nat, NEW y \in Nat, NEW z \in Nat
                 PROVE  InZar(x - y + z) = InZar(x) - InZar(y) + InZar(z)
      OBVIOUS
    <3>1. InZar((x - y) + z) = InZar(x - y) + InZar(z)
      BY InZarRules
    <3>2. InZar(x - y) = InZar(x) - InZar(y)
      BY InZarRules
    <3> QED BY <3>1, <3>2
  <2> HIDE DEF dec, inc, b
  <2>2. \A c \in Currencies : InZar(b["main"][c]) = InZar(bal["main"][c]) - InZar(dec(c)) + InZar(inc(c))
    <3> SUFFICES ASSUME NEW c \in Currencies
                 PROVE  InZar(b["main"][c]) = InZar(bal["main"][c]) - InZar(dec(c)) + InZar(inc(c))
      OBVIOUS
    <3> DEFINE x == bal["main"][c]   y == dec(c)   z == inc(c)
    <3>1. b["main"][c] = x - y + z /\ x \in Nat /\ y \in Nat /\ z \in Nat
      BY <1>4, <1>5
    <3> HIDE DEF x, y, z
    <3>2. InZar(x - y + z) = InZar(x) - InZar(y) + InZar(z)
      BY <2>1, <3>1
    <3>3. InZar(b["main"][c]) = InZar(x) - InZar(y) + InZar(z)
      BY <3>1, <3>2
    <3> QED BY <3>3 DEF x, y, z
  <2> QED BY <1>4, <1>6, <2>2
<1>8. /\ du \in Nat /\ dc \in Nat /\ dz \in Nat /\ iu \in Nat /\ ic \in Nat /\ iz \in Nat
      /\ InZar(bal["main"]["USDC"]) \in Int /\ InZar(bal["main"]["USDT"]) \in Int /\ bal["main"]["ZAR"] \in Int
  <2> HIDE DEF dec, inc, b
  <2>1. \A x \in Nat : InZar(x) \in Nat
    BY InZarRules
  <2>2. \A c \in Currencies : InZar(dec(c)) \in Nat /\ InZar(inc(c)) \in Nat /\ InZar(bal["main"][c]) \in Nat
                               /\ dec(c) \in Nat /\ inc(c) \in Nat /\ bal["main"][c] \in Nat
    <3> SUFFICES ASSUME NEW c \in Currencies
                 PROVE  /\ InZar(dec(c)) \in Nat /\ InZar(inc(c)) \in Nat /\ InZar(bal["main"][c]) \in Nat
                        /\ dec(c) \in Nat /\ inc(c) \in Nat /\ bal["main"][c] \in Nat
      OBVIOUS
    <3>1. dec(c) \in Nat /\ inc(c) \in Nat /\ bal["main"][c] \in Nat
      BY <1>4, <1>5
    <3> QED BY <2>1, <3>1
  <2>3. \A x : x \in Nat => x \in Int
    OBVIOUS
  <2> QED BY <1>6, <2>2, <2>3
<1>9. dc + du + dz <= Sinks[r] + iz
  <2>1. CASE r.on # "main"
    <3>1. dc = 0 /\ du = 0 /\ dz = 0
      BY <2>1, InZarRules
    <3> HIDE DEF dc, du, dz, iz
    <3> QED BY <1>8, <3>1, SinksNat
  <2>2. CASE r.on = "main" /\ TopsUp(r)
    <3>1. Pays(r) = r.amount \div Rate /\ Gets(r) = r.amount
      BY <2>2 DEF TopsUp, Pays, Gets, Convert
    <3>2. InZar(p) <= g
      BY <1>2, <3>1, HalfWorth
    <3>3. du = InZar(p) /\ dc = 0 /\ dz = 0 /\ iz = g
      BY <2>2, InZarRules DEF TopsUp
    <3> HIDE DEF dc, du, dz, iz, p, g
    <3> QED BY <1>1, <1>8, <3>2, <3>3, SinksNat
  <2>3. CASE r.on = "main" /\ ~TopsUp(r)
    <3>1. Sinks[r] = Rands(r.give, Pays(r))
      <4>1. Over(Pays(r)) = Pays(r)
        BY <1>2 DEF Over
      <4> QED BY <2>3, <4>1 DEF Sinks, Spending
    <3>2. Rands(r.give, p) <= Rands(r.give, Pays(r)) /\ Rands(r.give, p) \in Nat
      <4> HIDE DEF p
      <4> QED BY <1>2, <1>3, RandsNat
    <3>3. dc + du + dz = Rands(r.give, p)
      <4>1. InZar(0) = 0 /\ InZar(p) \in Nat /\ p \in Nat
        <5> HIDE DEF p
        <5> QED BY <1>3, InZarRules
      <4> HIDE DEF p
      <4> QED BY <2>3, <4>1 DEF Rands
    <3>4. Sinks[r] \in Nat
      BY SinksNat
    <3> HIDE DEF dc, du, dz, iz, p
    <3> QED BY <1>8, <3>1, <3>2, <3>3, <3>4
  <2> QED BY <2>1, <2>2, <2>3
<1>10. Sinks[r] \in Nat
  BY SinksNat
<1> HIDE DEF dc, du, dz, ic, iu, iz, b, p, g, dec, inc
<1> DEFINE c0 == InZar(bal["main"]["USDC"])   u0 == InZar(bal["main"]["USDT"])   z0 == bal["main"]["ZAR"]
           c1 == InZar(b["main"]["USDC"])     u1 == InZar(b["main"]["USDT"])     z1 == b["main"]["ZAR"]
           s == Sinks[r]
<1>11. c1 = c0 - dc + ic /\ u1 = u0 - du + iu /\ z1 = z0 - dz + iz /\ c0 \in Int /\ u0 \in Int /\ z0 \in Int
       /\ dc + du + dz <= s + iz /\ s \in Nat
  BY <1>7, <1>8, <1>9, <1>10
<1> HIDE DEF c0, u0, z0, c1, u1, z1, s
<1>12. c1 + u1 + z1 \in Int /\ c1 + u1 + z1 >= c0 + u0 + z0 - s
  BY <1>8, <1>11
<1>13. Worths(b) = c1 + u1 + z1 /\ Worths(bal) = c0 + u0 + z0
  BY DEF Worths, c0, u0, z0, c1, u1, z1
<1>14. Worths(b) \in Int /\ Worths(b) >= Worths(bal) - s
  <2> DEFINE x == Worths(b)   y == Worths(bal)   e == c1 + u1 + z1   f == c0 + u0 + z0
  <2>1. x = e /\ y = f /\ e \in Int /\ f \in Int /\ s \in Nat /\ e >= f - s
    BY <1>11, <1>12, <1>13
  <2> HIDE DEF x, y, e, f
  <2>2. x \in Int /\ x >= y - s
    BY <2>1
  <2> QED BY <2>2 DEF x, y
<1> QED BY <1>14 DEF b, s

\* Prefix sums grow.
LEMMA SumGrows ==
  ASSUME NEW c \in Seq(Nat)
  PROVE  /\ SumOf(c) \in Nat /\ SumOf(SubSeq(c, 1, 0)) = 0 /\ SumOf(SubSeq(c, 1, Len(c))) = SumOf(c)
         /\ \A i \in 0..Len(c) : SumOf(SubSeq(c, 1, i)) \in Nat /\ SumOf(SubSeq(c, 1, i)) <= SumOf(c)
         /\ \A i \in 1..Len(c) : SumOf(SubSeq(c, 1, i)) = SumOf(SubSeq(c, 1, i - 1)) + c[i]
<1>1. PICK g \in [0..Len(c) -> Nat] :
        /\ g[0] = 0 /\ \A i \in 1..Len(c) : g[i] = g[i - 1] + c[i]
        /\ \A i \in 0..Len(c) : SumOf(SubSeq(c, 1, i)) = g[i]
  BY SumNat
<1>2. Len(c) \in Nat /\ 0 \in 0..Len(c) /\ Len(c) \in 0..Len(c) /\ \A i \in 1..Len(c) : c[i] \in Nat
  OBVIOUS
<1>3. SubSeq(c, 1, Len(c)) = c
  OBVIOUS
<1>4. \A i \in 0..Len(c) : g[i] <= g[Len(c)]
  <2> SUFFICES ASSUME NEW i \in 0..Len(c) PROVE g[i] <= g[Len(c)]
    OBVIOUS
  <2> DEFINE n == Len(c) - i
             T == {k \in 1..n : g[i] <= g[i + k]}
  <2>1. n \in Nat
    BY <1>2
  <2>2. ASSUME NEW k \in 1..n, k = 1 \/ k - 1 \in T PROVE k \in T
    <3>1. i + k \in 1..Len(c) /\ (i + k) - 1 = i + (k - 1) /\ i + (k - 1) \in 0..Len(c)
      BY <1>2
    <3>2. g[i + k] = g[i + (k - 1)] + c[i + k] /\ c[i + k] \in Nat
      BY <1>1, <1>2, <3>1
    <3>3. g[i] <= g[i + (k - 1)]
      <4>1. CASE k = 1
        <5>1. i + (k - 1) = i
          BY <4>1
        <5> QED BY <5>1
      <4>2. CASE k - 1 \in T
        BY <4>2
      <4> QED BY <2>2, <4>1, <4>2
    <3>4. g[i] \in Nat /\ g[i + (k - 1)] \in Nat
      BY <1>1, <3>1
    <3> QED BY <3>2, <3>3, <3>4
  <2> HIDE DEF T, n
  <2>3. 1..n \subseteq T
    BY <2>1, <2>2, Inductive
  <2>4. CASE n = 0
    <3>1. i = Len(c)
      BY <1>2, <2>4 DEF n
    <3> QED BY <3>1
  <2>5. CASE n # 0
    <3>1. n \in T
      BY <2>1, <2>3, <2>5
    <3>2. i + n = Len(c)
      BY <1>2 DEF n
    <3> QED BY <3>1, <3>2 DEF T
  <2> QED BY <2>4, <2>5
<1>5. \A i \in 1..Len(c) : i \in 0..Len(c) /\ i - 1 \in 0..Len(c)
  BY <1>2
<1>6. SumOf(SubSeq(c, 1, Len(c))) = SumOf(c)
  BY <1>3
<1>7. \A i \in 0..Len(c) : SumOf(SubSeq(c, 1, i)) \in Nat /\ SumOf(SubSeq(c, 1, i)) <= SumOf(SubSeq(c, 1, Len(c)))
  BY <1>1, <1>2, <1>4
<1>8. SumOf(SubSeq(c, 1, 0)) = 0 /\ SumOf(SubSeq(c, 1, Len(c))) \in Nat
  BY <1>1, <1>2
<1>9. \A i \in 1..Len(c) : SumOf(SubSeq(c, 1, i)) = SumOf(SubSeq(c, 1, i - 1)) + c[i]
  BY <1>1, <1>5
<1> QED BY <1>6, <1>7, <1>8, <1>9

\* What is taken within a budget exceeds it by less than one item.
LEMMA WithinCost ==
  ASSUME NEW c \in Seq(Nat), NEW b \in Int, NEW least \in Int, NEW m \in Nat, \A i \in 1..Len(c) : c[i] <= m
  PROVE  /\ Within(c, b, least) = 0 => SumOf(SubSeq(c, 1, Within(c, b, least))) = 0
         /\ Within(c, b, least) # 0 => SumOf(SubSeq(c, 1, Within(c, b, least))) <= b - least + m
<1> DEFINE n == Within(c, b, least)
<1>1. n \in 0..Len(c) /\ (n # 0 => b - SumOf(SubSeq(c, 1, n - 1)) >= least)
  BY WithinFirst
<1> HIDE DEF n
<1>2. CASE n = 0
  <2>1. SumOf(SubSeq(c, 1, n)) = 0
    BY <1>2, SumGrows
  <2> QED BY <1>2, <2>1 DEF n
<1>3. CASE n # 0
  <2>1. n \in 1..Len(c) /\ n - 1 \in 0..Len(c)
    BY <1>1, <1>3
  <2> DEFINE x == SumOf(SubSeq(c, 1, n - 1))   y == SumOf(SubSeq(c, 1, n))
  <2>2. x \in Nat /\ y = x + c[n] /\ c[n] \in Nat /\ c[n] <= m /\ b - x >= least
    <3>1. x \in Nat /\ y = x + c[n]
      BY <2>1, SumGrows
    <3>2. c[n] \in Nat /\ c[n] <= m
      BY <2>1
    <3>3. b - x >= least
      BY <1>1, <1>3
    <3> QED BY <3>1, <3>2, <3>3
  <2> HIDE DEF x, y
  <2>3. y <= b - least + m
    BY <2>2
  <2> QED BY <1>3, <2>3 DEF y, n
<1> QED BY <1>2, <1>3

\* What the buys and the buffers of auto_restock are to cost.
BoughtUpTo(i) == SumOf(SubSeq(Costs(Capped), 1, i))
TakenCosts == [i \in DOMAIN CappedGaps |-> Convert(CappedGaps[i].need, CappedGaps[i].cur, "USDC")]

\* The allowance for the last item is a natural, at least $50 and at least R2500 in dollars.
LEMMA LastItemTyped == LastItem \in Nat /\ LastItem >= D(50) /\ LastItem >= D(2500) \div Rate /\ D(50) = 5000
<1>1. D(2500) \div Rate \in Nat
  BY RateTyped DEF D
<1> QED BY <1>1 DEF LastItem, D

\* The running cost of the capped findings grows by the need of each.
LEMMA BoughtTyped ==
  ASSUME Typed
  PROVE  /\ Len(Capped) \in Nat /\ BoughtUpTo(0) = 0 /\ BoughtUpTo(Len(Capped)) \in Nat
         /\ BoughtUpTo(Len(Capped)) = SumOf(Costs(Capped))
         /\ \A i \in 0..Len(Capped) : BoughtUpTo(i) \in Nat /\ BoughtUpTo(i) <= BoughtUpTo(Len(Capped))
         /\ \A i \in 1..Len(Capped) : Capped[i] \in Items /\ BoughtUpTo(i) = BoughtUpTo(i - 1) + Capped[i].need
<1> DEFINE c == Costs(Capped)
<1>1. c \in Seq(Nat) /\ Len(c) = Len(Capped) /\ Capped \in Seq(Items)
  BY CappedIn, CostsIn
<1>2. \A i \in 1..Len(Capped) : c[i] = Capped[i].need /\ Capped[i] \in Items
  BY <1>1 DEF Costs
<1>3. Len(Capped) \in Nat
  BY <1>1
<1> HIDE DEF c
<1>4. /\ SumOf(c) \in Nat /\ SumOf(SubSeq(c, 1, 0)) = 0 /\ SumOf(SubSeq(c, 1, Len(c))) = SumOf(c)
      /\ \A i \in 0..Len(c) : SumOf(SubSeq(c, 1, i)) \in Nat /\ SumOf(SubSeq(c, 1, i)) <= SumOf(c)
      /\ \A i \in 1..Len(c) : SumOf(SubSeq(c, 1, i)) = SumOf(SubSeq(c, 1, i - 1)) + c[i]
  BY <1>1, SumGrows
<1>5. \A i : BoughtUpTo(i) = SumOf(SubSeq(c, 1, i))
  BY DEF BoughtUpTo, c
<1> QED BY <1>1, <1>2, <1>3, <1>4, <1>5 DEF c

\* The dollar costs of the capped gaps are naturals, one for each of at most six.
LEMMA TakenTyped ==
  ASSUME Typed
  PROVE  /\ TakenCosts \in Seq(Nat) /\ Len(TakenCosts) = Len(CappedGaps) /\ Len(CappedGaps) \in 0..6
         /\ \A i \in 1..Len(CappedGaps) : CappedGaps[i] \in Holes
         /\ \A i \in 1..Len(CappedGaps) : TakenCosts[i] = Convert(CappedGaps[i].need, CappedGaps[i].cur, "USDC")
         /\ SumOf(TakenCosts) \in Nat
<1>1. CappedGaps \in Seq(Holes) /\ Len(CappedGaps) \in 0..6
  <2>1. CappedGaps \in Seq(Holes) /\ Len(CappedGaps) <= Len(Gaps) /\ Len(Gaps) <= 6 /\ Gaps \in Seq(Holes)
    BY CappedGapsIn, GapsIn
  <2> DEFINE x == Len(CappedGaps)   y == Len(Gaps)
  <2>2. x \in Nat /\ y \in Nat /\ x <= y /\ y <= 6
    BY <2>1
  <2> HIDE DEF x, y
  <2>3. x \in 0..6
    BY <2>2
  <2> QED BY <2>1, <2>3 DEF x
<1>2. \A i \in 1..Len(CappedGaps) : CappedGaps[i] \in Holes
  BY <1>1
<1>3. TakenCosts = [i \in 1..Len(CappedGaps) |-> Convert(CappedGaps[i].need, CappedGaps[i].cur, "USDC")]
  BY <1>1 DEF TakenCosts
<1>4. \A i \in 1..Len(CappedGaps) : Convert(CappedGaps[i].need, CappedGaps[i].cur, "USDC") \in Nat
  BY <1>2, ConvertNat DEF Holes
<1>5. TakenCosts \in Seq(Nat) /\ Len(TakenCosts) = Len(CappedGaps)
  <2> DEFINE v(i) == Convert(CappedGaps[i].need, CappedGaps[i].cur, "USDC")   n == Len(CappedGaps)
  <2>1. TakenCosts = [i \in 1..n |-> v(i)] /\ n \in Nat /\ \A i \in 1..n : v(i) \in Nat
    BY <1>1, <1>3, <1>4
  <2> HIDE DEF v, n
  <2>2. TakenCosts \in Seq(Nat) /\ Len(TakenCosts) = n
    BY <2>1
  <2> QED BY <2>2 DEF n
<1>6. SumOf(TakenCosts) \in Nat
  BY <1>5, SumGrows
<1> QED BY <1>1, <1>2, <1>3, <1>5, <1>6

\* All of it exceeds the budget by less than the last item.
LEMMA AllWithin ==
  ASSUME Typed
  PROVE  /\ BoughtUpTo(Len(Capped)) <= EffectiveBudget + LastItem
         /\ BoughtUpTo(Len(Capped)) + SumOf(TakenCosts) + 6 <= EffectiveBudget + LastItem
<1> DEFINE cf == Costs(Findings(old))
           s1 == SumOf(Costs(Capped))
           s2 == SumOf(TakenCosts)
           e  == EffectiveBudget
<1>1. e \in Int /\ e >= -500 /\ MinBuy = 100 /\ LastItem \in Nat /\ LastItem >= 5000 /\ LastItem >= D(2500) \div Rate
  BY BudgetTyped, LastItemTyped DEF MinBuy, D
<1>2. s1 \in Nat /\ s2 \in Nat /\ BoughtUpTo(Len(Capped)) = s1
  BY BoughtTyped, TakenTyped
<1>3. s1 = 0 \/ s1 <= e - 100 + 3500
  <2>1. Findings(old) \in Seq(Items) /\ cf \in Seq(Nat) /\ Len(cf) = Len(Findings(old))
    BY CappedIn, CostsIn
  <2>2. \A i \in 1..Len(cf) : cf[i] <= 3500
    <3> SUFFICES ASSUME NEW i \in 1..Len(cf) PROVE cf[i] <= 3500
      OBVIOUS
    <3>1. Findings(old)[i] \in Items /\ cf[i] = Findings(old)[i].need
      BY <2>1 DEF Costs
    <3> QED BY <3>1, ItemTyped DEF D
  <2> DEFINE n == Within(cf, e, MinBuy)
  <2>3. Costs(Capped) = SubSeq(cf, 1, n)
    <3>1. Capped \in Seq(Items) /\ Len(Capped) = n /\ n <= Len(cf) /\ \A i \in 1..n : Capped[i] = Findings(old)[i]
      BY <2>1, CappedIn
    <3>2. Costs(Capped) = [i \in 1..n |-> Capped[i].need] /\ n \in Nat
      BY <3>1 DEF Costs
    <3>3. SubSeq(cf, 1, n) \in Seq(Nat) /\ Len(SubSeq(cf, 1, n)) = n /\ \A i \in 1..n : SubSeq(cf, 1, n)[i] = cf[i]
      BY <2>1, <3>1, <3>2, CutIn
    <3>4. \A i \in 1..n : cf[i] = Findings(old)[i].need
      BY <2>1, <3>1, <3>2 DEF Costs
    <3> DEFINE x == Costs(Capped)   y == SubSeq(cf, 1, n)
    <3>5. \A i \in 1..n : x[i] = y[i]
      BY <3>1, <3>2, <3>3, <3>4
    <3>6. x \in Seq(Nat) /\ Len(x) = n /\ y \in Seq(Nat) /\ Len(y) = n
      BY <3>1, <3>3, CostsIn
    <3> HIDE DEF x, y, n, cf
    <3>7. x = y
      BY <3>5, <3>6
    <3> QED BY <3>7 DEF x, y
  <2> HIDE DEF cf
  <2>4. /\ n = 0 => SumOf(SubSeq(cf, 1, n)) = 0
        /\ n # 0 => SumOf(SubSeq(cf, 1, n)) <= e - MinBuy + 3500
    <3> DEFINE m == 3500   q == Within(cf, e, MinBuy)
    <3>1. e \in Int /\ MinBuy \in Int /\ m \in Nat /\ cf \in Seq(Nat) /\ \A i \in 1..Len(cf) : cf[i] <= m
      BY <1>1, <2>1, <2>2
    <3> HIDE DEF e, m, n
    <3>2. /\ q = 0 => SumOf(SubSeq(cf, 1, q)) = 0
          /\ q # 0 => SumOf(SubSeq(cf, 1, q)) <= e - MinBuy + m
      BY <3>1, WithinCost
    <3> QED BY <3>2 DEF m, n
  <2> HIDE DEF n
  <2> QED BY <1>1, <2>3, <2>4
<1>4. s2 = 0 \/ s2 <= (e - s1) - 50 + LastItem
  <2>1. GapCosts \in Seq(Nat) /\ Len(GapCosts) = Len(Gaps)
    BY GapCostsIn
  <2>2. \A i \in 1..Len(GapCosts) : GapCosts[i] <= LastItem
    <3> SUFFICES ASSUME NEW i \in 1..Len(GapCosts) PROVE GapCosts[i] <= LastItem
      OBVIOUS
    <3> DEFINE h == Gaps[i]
    <3>1. h \in Holes /\ h.need <= [ZAR |-> D(2500), USDT |-> D(50), USDC |-> D(3)][h.cur]
          /\ GapCosts[i] = Convert(h.need, h.cur, "USDC")
      BY <2>1, GapsIn DEF GapCosts
    <3> HIDE DEF h
    <3>2. h.need \in Nat /\ h.cur \in {"ZAR", "USDT", "USDC"}
      BY <3>1 DEF Holes, Quotes
    <3>3. CASE h.cur = "ZAR"
      <4>1. h.need <= D(2500) /\ GapCosts[i] = h.need \div Rate
        BY <3>1, <3>3 DEF Convert
      <4>2. \A x, y \in Nat : x <= y => x \div Rate <= y \div Rate
        <5> SUFFICES ASSUME NEW x \in Nat, NEW y \in Nat, x <= y PROVE x \div Rate <= y \div Rate
          OBVIOUS
        <5>1. Rate \in Nat \ {0}
          BY RateTyped
        <5>2. y <= (y \div Rate) * Rate + Rate - 1 /\ y \div Rate \in Nat
          BY <5>1
        <5>3. x <= (y \div Rate) * Rate + Rate - 1
          <6> DEFINE u == (y \div Rate) * Rate
          <6>1. u \in Int /\ y <= u + Rate - 1
            BY <5>1, <5>2
          <6> HIDE DEF u
          <6>2. x <= u + Rate - 1
            BY <5>1, <6>1
          <6> QED BY <6>2 DEF u
        <5> DEFINE z == y \div Rate
        <5>4. z \in Nat /\ x < (z + 1) * Rate
          <6>1. (z + 1) * Rate = z * Rate + Rate /\ z * Rate \in Nat
            BY <5>1, <5>2
          <6> DEFINE u == z * Rate   v == (z + 1) * Rate
          <6>2. v = u + Rate /\ u \in Nat /\ x <= u + Rate - 1
            BY <5>3, <6>1
          <6> HIDE DEF u, v
          <6>3. x < v
            BY <5>1, <6>2
          <6> QED BY <5>2, <6>3 DEF v
        <5> HIDE DEF z
        <5>5. x \div Rate < z + 1
          BY <5>1, <5>4
        <5>6. x \div Rate \in Nat
          BY <5>1
        <5> QED BY <5>4, <5>5, <5>6 DEF z
      <4>3. D(2500) \in Nat /\ D(2500) \div Rate \in Nat /\ h.need \div Rate \in Nat
        BY <3>2, RateTyped DEF D
      <4>4. h.need \div Rate <= D(2500) \div Rate
        BY <3>2, <4>1, <4>2, <4>3
      <4> QED BY <1>1, <4>1, <4>3, <4>4
    <3>4. CASE h.cur = "USDT"
      <4>1. h.need <= 5000 /\ GapCosts[i] = h.need
        BY <3>1, <3>4 DEF Convert, D
      <4> QED BY <1>1, <3>2, <4>1
    <3>5. CASE h.cur = "USDC"
      <4>1. h.need <= 300 /\ GapCosts[i] = h.need
        BY <3>1, <3>5 DEF Convert, D
      <4> QED BY <1>1, <3>2, <4>1
    <3> QED BY <3>2, <3>3, <3>4, <3>5
  <2> DEFINE n == Within(GapCosts, e - s1, 50)
  <2>3. TakenCosts = SubSeq(GapCosts, 1, n)
    <3>1. CappedGaps \in Seq(Holes) /\ Len(CappedGaps) = n /\ n <= Len(GapCosts) /\ \A i \in 1..n : CappedGaps[i] = Gaps[i]
      BY <2>1, CappedGapsIn
    <3>2. n \in Nat
      BY <3>1
    <3>3. SubSeq(GapCosts, 1, n) \in Seq(Nat) /\ Len(SubSeq(GapCosts, 1, n)) = n
          /\ \A i \in 1..n : SubSeq(GapCosts, 1, n)[i] = GapCosts[i]
      BY <2>1, <3>1, <3>2, CutIn
    <3>4. \A i \in 1..n : GapCosts[i] = Convert(Gaps[i].need, Gaps[i].cur, "USDC")
      BY <2>1, <3>1, <3>2, GapsIn DEF GapCosts
    <3>5. TakenCosts \in Seq(Nat) /\ Len(TakenCosts) = n
          /\ \A i \in 1..n : TakenCosts[i] = Convert(CappedGaps[i].need, CappedGaps[i].cur, "USDC")
      BY <3>1, TakenTyped
    <3> DEFINE x == TakenCosts   y == SubSeq(GapCosts, 1, n)
    <3>6. x \in Seq(Nat) /\ Len(x) = n /\ y \in Seq(Nat) /\ Len(y) = n /\ \A i \in 1..n : x[i] = y[i]
      BY <3>1, <3>3, <3>4, <3>5
    <3> HIDE DEF x, y, n
    <3>7. x = y
      BY <3>6
    <3> QED BY <3>7 DEF x, y
  <2>4. /\ n = 0 => SumOf(SubSeq(GapCosts, 1, n)) = 0
        /\ n # 0 => SumOf(SubSeq(GapCosts, 1, n)) <= (e - s1) - 50 + LastItem
    <3> DEFINE f == e - s1
    <3>1. f \in Int /\ 50 \in Int /\ LastItem \in Nat
      BY <1>1, <1>2
    <3> HIDE DEF f
    <3>2. /\ Within(GapCosts, f, 50) = 0 => SumOf(SubSeq(GapCosts, 1, Within(GapCosts, f, 50))) = 0
          /\ Within(GapCosts, f, 50) # 0 => SumOf(SubSeq(GapCosts, 1, Within(GapCosts, f, 50))) <= f - 50 + LastItem
      BY <2>1, <2>2, <3>1, WithinCost
    <3> QED BY <3>2 DEF f
  <2> HIDE DEF n, s1, e
  <2>5. SumOf(SubSeq(GapCosts, 1, n)) = s2
    BY <2>3
  <2> QED BY <2>4, <2>5
<1> HIDE DEF cf, s1, s2, e
<1>5. s1 <= e + LastItem /\ s1 + s2 + 6 <= e + LastItem
  BY <1>1, <1>2, <1>3, <1>4
<1> QED BY <1>2, <1>5 DEF s2, e

\* The marks of a request have no part in what it weighs.
LEMMA SinkOne ==
  ASSUME NEW n \in Int, NEW c \in Currencies, NEW g \in Currencies, NEW a \in Accounts
  PROVE  /\ Counting(Trade("main", c, g, n)) \in Shapes /\ AutoMove(a, c, n) \in Shapes
         /\ Else(Counting(Want("main", "USDT", "ZAR", n)), 2) \in Shapes
         /\ Sinks[Counting(Trade("main", c, g, n))] = Rands(c, Over(n))
         /\ Sinks[AutoMove(a, c, n)] = Rands(c, Over(n))
         /\ Sinks[Else(Counting(Want("main", "USDT", "ZAR", n)), 2)] = 0
<1> DEFINE t == Counting(Trade("main", c, g, n))
           m == AutoMove(a, c, n)
           w == Else(Counting(Want("main", "USDT", "ZAR", n)), 2)
<1>1. t \in Shapes
  <2>1. t \in Plain(FromMain)
    BY TradeIn, CountingIn, MainIn, Names
  <2> QED BY <2>1 DEF Plain, Paying
<1>2. m \in Shapes
  <2>1. m \in Plain(FromMain)
    BY MoveIn, PickyIn, CountingIn, MainIn, Names DEF AutoMove
  <2> QED BY <2>1 DEF Plain, Paying
<1>3. w \in Shapes
  <2>1. w \in Plain(FromMain)
    BY WantIn, CountingIn, ElseIn, MainIn, Names
  <2> QED BY <2>1 DEF Plain, Paying
<1>4. t.op = "trade" /\ t.on = "main" /\ t.give = c /\ t.amount = n
  BY DEF Counting, Trade, Request
<1>5. m.op = "move" /\ m.on = "main" /\ m.give = c /\ m.amount = n
  BY DEF AutoMove, Counting, Picky, Move, Request
<1>6. w.op = "want" /\ w.on = "main" /\ w.give = "USDT" /\ w.get = "ZAR" /\ w.to = "main"
  BY DEF Else, Counting, Want, Request
<1> HIDE DEF t, m, w
<1>7. Sinks[t] = Rands(c, Over(n))
  BY <1>1, <1>4 DEF Sinks, Pays, Spends, TopsUp
<1>8. Sinks[m] = Rands(c, Over(n))
  BY <1>2, <1>5 DEF Sinks, Pays, Spends, TopsUp
<1>9. Sinks[w] = 0
  BY <1>3, <1>6 DEF Sinks, TopsUp
<1> QED BY <1>1, <1>2, <1>3, <1>7, <1>8, <1>9 DEF t, m, w

\* Requests that are no payments weigh nothing.
LEMMA SinkNone ==
  ASSUME NEW P, NEW r \in Paying(P), r.op \notin Spends
  PROVE  r \in Shapes /\ Sinks[r] = 0
BY DEF Paying, Sinks

\* A buy of auto_restock takes what it was planned to cost.
LEMMA AutoBuyCost ==
  ASSUME Typed, NEW f \in Items
  PROVE  AutoBuy(f) \in Seq(Shapes) /\ Total(AutoBuy(f), Sinks) <= InZar(f.need) /\ InZar(f.need) \in Nat
<1> DEFINE cost  == Convert(f.need, "USDT", f.pair.quote)
           short == Part(cost, 105, 100) - Main("ZAR")
           sell  == short \div Rate
           tops  == Main("ZAR") < Part(cost, 110, 100) /\ short > D(1) /\ Main("USDT") > sell + D(1)
           buy   == Counting(Trade("main", f.pair.quote, f.pair.base, cost))
           want  == Else(Counting(Want("main", "USDT", "ZAR", sell)), 2)
           look  == Lenient(LookFor("main", {"ZAR"}))
           top   == <<want, look>>
<1>1. f.need \in Nat /\ f.pair.quote \in {"ZAR", "USDT"} /\ f.pair.quote \in Currencies /\ f.pair.base \in Currencies
  BY ItemTyped
<1>2. InZar(f.need) \in Nat
  <2>1. \A x \in Nat : InZar(x) \in Nat
    <3> SUFFICES ASSUME NEW x \in Nat PROVE InZar(x) \in Nat
      OBVIOUS
    <3>1. x \in Int
      OBVIOUS
    <3> QED BY <3>1, InZarRules
  <2> QED BY <1>1, <2>1
<1>3. cost \in Int /\ Rands(f.pair.quote, Over(cost)) = InZar(f.need)
  <2>1. CASE f.pair.quote = "ZAR"
    <3>1. cost = InZar(f.need)
      BY <2>1 DEF Convert, InZar
    <3> HIDE DEF cost
    <3>2. Over(cost) = InZar(f.need)
      BY <1>2, <3>1 DEF Over
    <3> QED BY <1>2, <2>1, <3>1, <3>2 DEF Rands
  <2>2. CASE f.pair.quote = "USDT"
    <3>1. cost = f.need
      BY <2>2 DEF Convert
    <3> HIDE DEF cost
    <3>2. Over(cost) = f.need
      BY <1>1, <3>1 DEF Over
    <3> QED BY <1>1, <2>2, <3>1, <3>2 DEF Rands
  <2> QED BY <1>1, <2>1, <2>2
<1>4. sell \in Int
  <2>1. Part(cost, 105, 100) \in Int
    <3> HIDE DEF cost
    <3> QED BY <1>3, PartInt
  <2>2. Main("ZAR") \in Nat
    BY Known, Names
  <2>3. short \in Int
    BY <2>1, <2>2
  <2> HIDE DEF short
  <2> QED BY <2>3, RateTyped
<1>5. buy \in Shapes /\ Sinks[buy] = InZar(f.need)
  <2> HIDE DEF cost
  <2> QED BY <1>1, <1>3, SinkOne, Names
<1>6. want \in Shapes /\ Sinks[want] = 0
  <2> HIDE DEF sell
  <2> QED BY <1>4, SinkOne, Names
<1>7. look \in Shapes /\ Sinks[look] = 0
  <2>1. look \in Plain(FromMain)
    BY LookForIn, LenientIn, Names
  <2>2. look.op = "look"
    BY LookForIn, Names DEF Lenient, LookFor, Look, Request
  <2> HIDE DEF look
  <2>3. look \in Paying(FromMain) /\ look.op \notin Spends
    BY <2>1, <2>2 DEF Plain, Spends
  <2> QED BY <2>3, SinkNone
<1>8. Tick \in Shapes /\ Sinks[Tick] = 0
  <2>1. Tick \in Paying(FromMain) /\ Tick.op \notin Spends
    BY TickIn, PlainPaying DEF Tick, Request, Spends
  <2> QED BY <2>1, SinkNone
<1>9. AutoBuy(f) = IF f.pair.quote = "ZAR" /\ Main("ZAR") < cost THEN <<Tick>>
                   ELSE When(f.pair.quote = "ZAR" /\ tops, top) \o <<buy>>
  BY DEF AutoBuy
<1> HIDE DEF cost, buy, want, look, tops
<1>10. Total(<<Tick>>, Sinks) = 0 /\ Total(<<buy>>, Sinks) = InZar(f.need) /\ Total(<<>>, Sinks) = 0
  BY <1>5, <1>8, SinksNat, TotalOne, TotalEmpty
<1>11. Total(top, Sinks) = 0 /\ top \in Seq(Shapes)
  <2>1. want \in {r \in Shapes : Sinks[r] = 0} /\ look \in {r \in Shapes : Sinks[r] = 0}
    BY <1>6, <1>7
  <2>2. top \in Seq({r \in Shapes : Sinks[r] = 0})
    BY <2>1, TwoIn
  <2> QED BY <2>2, SinksNat, TotalZero
<1> HIDE DEF top
<1> DEFINE first == When(f.pair.quote = "ZAR" /\ tops, top)
<1>12. first \in Seq(Shapes) /\ Total(first, Sinks) = 0
  <2>1. first = top \/ first = <<>>
    BY DEF When
  <2>2. <<>> \in Seq(Shapes)
    OBVIOUS
  <2> QED BY <1>10, <1>11, <2>1, <2>2
<1>13. <<buy>> \in Seq(Shapes) /\ <<Tick>> \in Seq(Shapes)
  BY <1>5, <1>8
<1> HIDE DEF first
<1>14. first \o <<buy>> \in Seq(Shapes) /\ Total(first \o <<buy>>, Sinks) = 0 + InZar(f.need)
  <2> DEFINE one == <<buy>>
  <2>1. one \in Seq(Shapes) /\ Total(one, Sinks) = InZar(f.need)
    BY <1>10, <1>13
  <2> HIDE DEF one
  <2>2. first \o one \in Seq(Shapes) /\ Total(first \o one, Sinks) = Total(first, Sinks) + Total(one, Sinks)
    BY <1>12, <2>1, SinksNat, TotalConcat, BehindIn
  <2> QED BY <1>12, <2>1, <2>2 DEF one
<1>15. AutoBuy(f) = <<Tick>> \/ AutoBuy(f) = first \o <<buy>>
  BY <1>9 DEF first
<1> DEFINE need == InZar(f.need)
<1>16. need \in Nat
  BY <1>2
<1>17. AutoBuy(f) \in Seq(Shapes) /\ (Total(AutoBuy(f), Sinks) = 0 \/ Total(AutoBuy(f), Sinks) = need)
  <2>1. CASE AutoBuy(f) = <<Tick>>
    BY <1>10, <1>13, <2>1
  <2>2. CASE AutoBuy(f) = first \o <<buy>>
    <3>1. 0 + need = need
      BY <1>16
    <3> HIDE DEF need
    <3> QED BY <1>14, <2>2, <3>1 DEF need
  <2> QED BY <1>15, <2>1, <2>2
<1> HIDE DEF need
<1>18. Total(AutoBuy(f), Sinks) <= need
  BY <1>16, <1>17
<1> QED BY <1>16, <1>17, <1>18 DEF need

\* A run that never grows by more than another, stays below it.
LEMMA RunBelow ==
  ASSUME NEW n \in Nat, NEW G \in [0..n -> Nat], NEW S \in [0..n -> Int], G[0] <= S[0],
         \A i \in 1..n : G[i] - G[i - 1] <= S[i] - S[i - 1]
  PROVE  G[n] <= S[n]
<1> DEFINE T == {i \in 1..n : G[i] <= S[i]}
<1>1. ASSUME NEW k \in 1..n, k = 1 \/ k - 1 \in T PROVE k \in T
  <2>1. k \in 0..n /\ k - 1 \in 0..n
    OBVIOUS
  <2>2. G[k - 1] <= S[k - 1]
    <3>1. CASE k = 1
      <4>1. k - 1 = 0
        BY <3>1
      <4> QED BY <4>1
    <3>2. CASE k - 1 \in T
      BY <3>2
    <3> QED BY <1>1, <3>1, <3>2
  <2>3. G[k] \in Nat /\ G[k - 1] \in Nat /\ S[k] \in Int /\ S[k - 1] \in Int
    BY <2>1
  <2>4. G[k] - G[k - 1] <= S[k] - S[k - 1]
    OBVIOUS
  <2>5. G[k] <= S[k]
    BY <2>2, <2>3, <2>4
  <2> QED BY <2>5
<1> HIDE DEF T
<1>2. 1..n \subseteq T
  BY <1>1, Inductive
<1>3. CASE n = 0
  BY <1>3
<1>4. CASE n # 0
  <2>1. n \in 1..n
    BY <1>4
  <2> QED BY <1>2, <2>1 DEF T
<1> QED BY <1>3, <1>4

\* A division loses less than a dollar, here a cent of one.
LEMMA CostUp ==
  ASSUME NEW g \in Holes, NEW n \in Int, n <= g.need
  PROVE  /\ Rands(g.cur, Over(n)) \in Nat /\ Convert(g.need, g.cur, "USDC") \in Nat
         /\ Rands(g.cur, Over(n)) <= InZar(Convert(g.need, g.cur, "USDC") + 1)
<1> DEFINE m == g.need   c == g.cur   o == Over(n)   d == Convert(g.need, g.cur, "USDC")
<1>1. m \in Nat /\ c \in {"ZAR", "USDT", "USDC"} /\ d \in Nat
  BY ConvertNat DEF Holes, Quotes
<1>2. o \in Nat /\ o <= m
  BY <1>1 DEF Over
<1>3. Rands(c, o) \in Nat /\ Rands(c, o) <= Rands(c, m)
  <2> HIDE DEF c, o, m
  <2> QED BY <1>1, <1>2, RandsNat
<1>4. Rands(c, m) <= InZar(d + 1) /\ Rands(c, m) \in Int /\ InZar(d + 1) \in Int
  <2>1. CASE c = "ZAR"
    <3>1. Rands(c, m) = m /\ d = m \div Rate
      BY <2>1 DEF Rands, Convert
    <3>2. Rate \in Nat \ {0}
      BY RateTyped
    <3> HIDE DEF d, m, c
    <3>3. m <= d * Rate + Rate /\ d * Rate \in Int
      BY <1>1, <3>1, <3>2
    <3>4. InZar(d + 1) = d * Rate + Rate
      BY <1>1, <3>2 DEF InZar
    <3> DEFINE x == d * Rate
    <3>5. x \in Int /\ m <= x + Rate /\ InZar(d + 1) = x + Rate
      BY <3>3, <3>4
    <3> HIDE DEF x
    <3> QED BY <1>1, <3>1, <3>2, <3>5
  <2>2. CASE c # "ZAR"
    <3>1. Rands(c, m) = InZar(m) /\ d = m
      BY <1>1, <2>2 DEF Rands, Convert
    <3> HIDE DEF d, m, c
    <3> DEFINE y == m + 1
    <3>2. m \in Int /\ y \in Int /\ m <= y
      BY <1>1
    <3> HIDE DEF y
    <3>3. InZar(m) <= InZar(y) /\ InZar(m) \in Int /\ InZar(y) \in Int
      BY <3>2, InZarRules
    <3> QED BY <3>1, <3>3 DEF y
  <2> QED BY <2>1, <2>2
<1> DEFINE x == Rands(c, o)   y == Rands(c, m)   z == InZar(d + 1)
<1>5. x \in Nat /\ x <= y /\ y <= z /\ y \in Int /\ z \in Int
  BY <1>3, <1>4
<1> HIDE DEF x, y, z
<1>6. x \in Nat /\ x <= z
  BY <1>5
<1> QED BY <1>1, <1>6 DEF x, z

\* The transfers of bases take no quote currency; those to the buffers take
\* what they were capped to, and of the rand less than a cent more each.
LEMMA TransfersCost ==
  ASSUME Typed
  PROVE  AutoTransfers \in Seq(Shapes) /\ Total(AutoTransfers, Sinks) <= InZar(SumOf(TakenCosts) + 6)
         /\ InZar(SumOf(TakenCosts) + 6) \in Nat
<1> DEFINE bases(f) == When(Main(f.pair.base) > 0,
                            Each(f.pair.subs, LAMBDA a : <<AutoMove(a, f.pair.base, Part(Main(f.pair.base), 499, 1000))>>))
           amount(g) == Less(g.need, Part(Main(g.cur), 49, 100))
           buffer(g) == LET n == Less(g.need, Part(Main(g.cur), 49, 100))
                        IN  When(Main(g.cur) >= g.need \div 2 /\ n > 0, <<AutoMove(g.sub, g.cur, n)>>)
           Z == {r \in Shapes : Sinks[r] = 0}
<1>1. ASSUME NEW i \in DOMAIN Capped PROVE bases(Capped[i]) \in Seq(Z)
  <2> DEFINE p == Capped[i].pair   n == Part(Main(p.base), 499, 1000)
             h == [j \in DOMAIN p.subs |-> <<AutoMove(p.subs[j], p.base, n)>>]
  <2>1. p \in Market /\ p.base \in Bases
    <3>1. Capped[i] \in Items
      BY CappedIn
    <3> QED BY <3>1, ItemTyped
  <2>2. p.base \in Currencies /\ n \in Int /\ DOMAIN p.subs = 1..2 /\ p.subs[1] \in Accounts /\ p.subs[2] \in Accounts
    <3>1. p.base \in Currencies /\ p.subs \in {ZarSubs, UsdtSubs, UsdcSubs, BtcSubs}
      BY <2>1 DEF Market
    <3>2. Main(p.base) \in Int
      BY Known, Names
    <3>3. n \in Int
      <4> HIDE DEF p
      <4> QED BY <3>2, PartInt
    <3> QED BY <3>1, <3>3, SubsIn
  <2> HIDE DEF n
  <2>3. ASSUME NEW a \in Accounts PROVE AutoMove(a, p.base, n) \in Z
    <3>1. AutoMove(a, p.base, n) \in Shapes /\ Sinks[AutoMove(a, p.base, n)] = Rands(p.base, Over(n))
      <4> HIDE DEF p
      <4> QED BY <2>2, SinkOne
    <3>2. Rands(p.base, Over(n)) = 0
      BY <2>1 DEF Rands, Bases
    <3> QED BY <3>1, <3>2
  <2>4. h[1] \in Seq(Z) /\ h[2] \in Seq(Z) /\ h = [j \in 1..2 |-> h[j]]
    <3> HIDE DEF p, n, Z
    <3> QED BY <2>2, <2>3, OneIn
  <2>5. bases(Capped[i]) = When(Main(p.base) > 0, FlattenSeq(h))
    BY DEF Each, n
  <2> HIDE DEF bases, h, Z
  <2> QED BY <2>4, <2>5, Flat2, WhenIn
<1>2. ASSUME NEW i \in 1..Len(CappedGaps)
      PROVE  /\ buffer(CappedGaps[i]) \in Seq(Shapes) /\ TakenCosts[i] \in Nat
             /\ Total(buffer(CappedGaps[i]), Sinks) \in Nat
             /\ Total(buffer(CappedGaps[i]), Sinks) <= InZar(TakenCosts[i] + 1)
  <2> DEFINE g == CappedGaps[i]   n == amount(g)   q == <<AutoMove(g.sub, g.cur, n)>>
  <2>1. g \in Holes /\ TakenCosts[i] = Convert(g.need, g.cur, "USDC")
    BY TakenTyped
  <2>2. n \in Int /\ n <= g.need
    <3>1. Main(g.cur) \in Nat
      BY Known, Names
    <3>2. Part(Main(g.cur), 49, 100) \in Int /\ g.need \in Int
      <4> HIDE DEF g
      <4> QED BY <2>1, <3>1, PartInt DEF Holes
    <3> DEFINE x == Part(Main(g.cur), 49, 100)
    <3>3. n = Less(g.need, x)
      OBVIOUS
    <3> HIDE DEF g, x, n
    <3> QED BY <3>2, <3>3, Amounts DEF x
  <2>3. buffer(g) = When(Main(g.cur) >= g.need \div 2 /\ n > 0, q)
    OBVIOUS
  <2> HIDE DEF n, g
  <2>4. AutoMove(g.sub, g.cur, n) \in Shapes /\ Sinks[AutoMove(g.sub, g.cur, n)] = Rands(g.cur, Over(n))
    <3>2. g.sub \in Accounts /\ g.cur \in Currencies
      BY <2>1 DEF Holes, Currencies
    <3> QED BY <2>2, <3>2, SinkOne
  <2>5. q \in Seq(Shapes) /\ Total(q, Sinks) = Rands(g.cur, Over(n))
    BY <2>4, SinksNat, TotalOne
  <2>6. Rands(g.cur, Over(n)) \in Nat /\ Rands(g.cur, Over(n)) <= InZar(TakenCosts[i] + 1) /\ TakenCosts[i] \in Nat
    BY <2>1, <2>2, CostUp
  <2>7. InZar(TakenCosts[i] + 1) \in Nat
    <3> DEFINE y == TakenCosts[i] + 1
    <3>1. y \in Nat /\ y \in Int
      BY <2>6
    <3> HIDE DEF y
    <3>2. InZar(y) \in Nat
      BY <3>1, InZarRules
    <3> QED BY <3>2 DEF y
  <2>8. <<>> \in Seq(Shapes) /\ Total(<<>>, Sinks) = 0
    BY SinksNat, TotalEmpty
  <2>9. buffer(g) = q \/ buffer(g) = <<>>
    BY <2>3 DEF When
  <2> HIDE DEF buffer, q
  <2>10. /\ buffer(g) \in Seq(Shapes) /\ Total(buffer(g), Sinks) \in Nat
         /\ Total(buffer(g), Sinks) <= InZar(TakenCosts[i] + 1)
    <3>1. CASE buffer(g) = q
      BY <2>5, <2>6, <3>1
    <3>2. CASE buffer(g) = <<>>
      BY <2>7, <2>8, <3>2
    <3> QED BY <2>9, <3>1, <3>2
  <2> QED BY <2>6, <2>10 DEF g
<1> DEFINE f == [i \in DOMAIN Capped |-> bases(Capped[i])]
           g == [i \in DOMAIN CappedGaps |-> buffer(CappedGaps[i])]
<1>3. FlattenSeq(f) \in Seq(Shapes) /\ Total(FlattenSeq(f), Sinks) = 0
  <2>1. f = [i \in DOMAIN Capped |-> f[i]] /\ \A i \in DOMAIN Capped : f[i] \in Seq(Z)
    <3> HIDE DEF bases, Z
    <3> QED BY <1>1
  <2> HIDE DEF f, Z
  <2>2. FlattenSeq(f) \in Seq(Z)
    BY <2>1, FlatEach, CappedIn
  <2> QED BY <2>2, SinksNat, TotalZero DEF Z
<1>4. CappedGaps \in Seq(Holes) /\ Len(CappedGaps) \in 0..6 /\ DOMAIN CappedGaps = 1..Len(CappedGaps)
  <2>1. CappedGaps \in Seq(Holes)
    BY CappedGapsIn
  <2>2. DOMAIN CappedGaps = 1..Len(CappedGaps)
    BY <2>1
  <2> QED BY <2>1, <2>2, TakenTyped
<1> DEFINE k == Len(CappedGaps)
<1>5. /\ g = [i \in DOMAIN CappedGaps |-> g[i]] /\ \A i \in DOMAIN CappedGaps : g[i] \in Seq(Shapes)
      /\ \A i \in 1..k : TakenCosts[i] \in Nat /\ Total(g[i], Sinks) \in Nat /\ Total(g[i], Sinks) <= InZar(TakenCosts[i] + 1)
  <2> HIDE DEF buffer
  <2> QED BY <1>2, <1>4
<1>6. AutoTransfers = FlattenSeq(f) \o FlattenSeq(g)
  BY DEF AutoTransfers, Each
<1> HIDE DEF f, g
<1>7. g \in Seq(Seq(Shapes)) /\ Len(g) = k /\ FlattenSeq(g) \in Seq(Shapes)
  BY <1>4, <1>5, FlatEach
<1>8. PICK G \in [0..k -> Nat] :
        /\ G[0] = 0 /\ \A i \in 1..k : G[i] = G[i - 1] + Total(g[i], Sinks)
        /\ Total(FlattenSeq(g), Sinks) = G[k]
  BY <1>7, SinksNat, FlattenTotal
<1> DEFINE sum(i) == SumOf(SubSeq(TakenCosts, 1, i))
           S == [i \in 0..k |-> InZar(sum(i) + i)]
<1>9. /\ TakenCosts \in Seq(Nat) /\ Len(TakenCosts) = k /\ k \in Nat /\ k <= 6 /\ sum(0) = 0 /\ sum(k) = SumOf(TakenCosts)
      /\ \A i \in 0..k : sum(i) \in Nat
      /\ \A i \in 1..k : sum(i) = sum(i - 1) + TakenCosts[i]
  <2>1. TakenCosts \in Seq(Nat) /\ Len(TakenCosts) = k /\ k \in 0..6
    BY TakenTyped
  <2>2. k \in Nat /\ k <= 6
    <3> HIDE DEF k
    <3> QED BY <2>1
  <2> QED BY <2>1, <2>2, SumGrows
<1> HIDE DEF sum, k
<1>10. ASSUME NEW x \in Int PROVE InZar(x) \in Int
  BY InZarRules
<1>11. S \in [0..k -> Int]
  <2>1. \A i \in 0..k : sum(i) + i \in Int
    BY <1>9
  <2> QED BY <1>10, <2>1
<1>12. S[0] = 0 /\ S[k] = InZar(SumOf(TakenCosts) + k)
  <2>1. 0 \in 0..k /\ k \in 0..k
    BY <1>9
  <2>2. sum(0) + 0 = 0 /\ InZar(0) = 0
    BY <1>9, InZarRules
  <2>3. S[0] = InZar(sum(0) + 0) /\ S[k] = InZar(sum(k) + k)
    BY <2>1
  <2> QED BY <1>9, <2>2, <2>3
<1>13. ASSUME NEW i \in 1..k PROVE G[i] - G[i - 1] <= S[i] - S[i - 1]
  <2>1. i \in 0..k /\ i - 1 \in 0..k
    BY <1>9
  <2> DEFINE x == sum(i - 1) + (i - 1)   y == TakenCosts[i] + 1
  <2>2. x \in Int /\ y \in Int /\ sum(i) + i = x + y
    <3>1. sum(i - 1) \in Nat /\ TakenCosts[i] \in Nat /\ sum(i) = sum(i - 1) + TakenCosts[i] /\ i \in Int
      BY <1>5, <1>9, <2>1
    <3> QED BY <3>1
  <2>3. S[i] = InZar(sum(i) + i) /\ S[i - 1] = InZar(x)
    BY <2>1
  <2>4. InZar(x + y) = InZar(x) + InZar(y) /\ InZar(x) \in Int /\ InZar(y) \in Int
    <3> HIDE DEF x, y
    <3> QED BY <1>10, <2>2, InZarRules
  <2>5. G[i] = G[i - 1] + Total(g[i], Sinks) /\ Total(g[i], Sinks) \in Nat /\ Total(g[i], Sinks) <= InZar(y) /\ G[i - 1] \in Nat
    BY <1>5, <1>8, <2>1
  <2>6. S[i] = InZar(x) + InZar(y)
    BY <2>2, <2>3, <2>4
  <2> DEFINE X == InZar(x)   Y == InZar(y)   t == Total(g[i], Sinks)
  <2>7. G[i] = G[i - 1] + t /\ t \in Nat /\ t <= Y /\ G[i - 1] \in Nat /\ S[i] = X + Y /\ S[i - 1] = X /\ X \in Int /\ Y \in Int
    BY <2>3, <2>4, <2>5, <2>6
  <2> HIDE DEF X, Y, t, S
  <2> QED BY <2>7
<1> HIDE DEF S
<1>14. G[k] <= S[k]
  <2>1. G[0] <= S[0]
    BY <1>8, <1>12
  <2> QED BY <1>8, <1>9, <1>11, <1>13, <2>1, RunBelow
<1>15. InZar(SumOf(TakenCosts) + k) <= InZar(SumOf(TakenCosts) + 6) /\ InZar(SumOf(TakenCosts) + 6) \in Nat
       /\ InZar(SumOf(TakenCosts) + k) \in Int
  <2> DEFINE x == SumOf(TakenCosts) + k   y == SumOf(TakenCosts) + 6
  <2>1. x \in Int /\ y \in Int /\ y \in Nat /\ x <= y
    <3> DEFINE z == SumOf(TakenCosts)
    <3>1. z \in Nat
      BY TakenTyped
    <3>2. k \in Nat /\ k <= 6
      BY <1>9
    <3> HIDE DEF z
    <3>3. z + k \in Int /\ z + 6 \in Int /\ z + 6 \in Nat /\ z + k <= z + 6
      BY <3>1, <3>2
    <3> QED BY <3>3 DEF z
  <2> HIDE DEF x, y
  <2>2. InZar(x) <= InZar(y) /\ InZar(y) \in Nat /\ InZar(x) \in Int
    BY <2>1, InZarRules
  <2> QED BY <2>2 DEF x, y
<1>16. /\ AutoTransfers \in Seq(Shapes)
       /\ Total(AutoTransfers, Sinks) = Total(FlattenSeq(f), Sinks) + Total(FlattenSeq(g), Sinks)
  BY <1>3, <1>6, <1>7, SinksNat, TotalConcat, BehindIn
<1> DEFINE u == InZar(SumOf(TakenCosts) + k)   v == InZar(SumOf(TakenCosts) + 6)   t == Total(AutoTransfers, Sinks)
<1>17. t = 0 + G[k] /\ G[k] \in Nat /\ G[k] <= u /\ u <= v /\ u \in Int /\ v \in Nat
  <2>1. k \in 0..k
    BY <1>9
  <2> QED BY <1>3, <1>8, <1>12, <1>14, <1>15, <1>16, <2>1
<1> HIDE DEF u, v, t
<1>18. t <= v
  BY <1>17
<1> QED BY <1>16, <1>17, <1>18 DEF t, v

\* What auto_restock may have spent, in rand, by the end of its k-th stage.
Due(k) ==
  InZar(IF k <= 8 THEN BoughtUpTo(Less(Over(k - 3), Len(Capped))) ELSE EffectiveBudget + LastItem)

\* Stages that only look or end weigh nothing.
LEMMA LooksNothing ==
  ASSUME NEW q \in Seq(Plain({}))
  PROVE  q \in Seq(Shapes) /\ Total(q, Sinks) = 0
<1> DEFINE Z == {r \in Shapes : Sinks[r] = 0}
<1>1. ASSUME NEW r \in Plain({}) PROVE r \in Z
  <2>1. r \in Paying({}) /\ r.op \notin Spends
    BY DEF Plain, Paying
  <2> QED BY <2>1, SinkNone
<1>2. Plain({}) \subseteq Z
  BY <1>1
<1> HIDE DEF Z
<1>3. q \in Seq(Z)
  BY <1>2, SeqMonotonic
<1> QED BY <1>3, SinksNat, TotalZero DEF Z

\* The stages that neither buy nor transfer take nothing from the worth of main.
LEMMA QuietStages ==
  ASSUME NEW k \in Nat, k \notin 4..7, k # 9
  PROVE  AutoRestock(k) \in Seq(Shapes) /\ Total(AutoRestock(k), Sinks) = 0
<1>1. AutoRestock(k) \in Seq(Plain({}))
  <2>1. CASE k = 1
    <3>1. AutoRestock(k) = <<Or(Look("main"), "2")>>
      BY <2>1 DEF Each, AutoRestock
    <3> QED BY <3>1, LookIn, OrIn, OneIn, Names DEF Codes
  <2>2. CASE k = 2
    <3>1. Each(ZarSubs \o UsdtSubs \o UsdcSubs, LAMBDA a : <<Lenient(Look(a))>>) \in Seq(Plain({}))
      BY EachLookIn, SubLists DEF Each, SixSubs
    <3>2. AutoRestock(k) = IF Findings(seen) = <<>> THEN <<End("0")>>
                           ELSE Each(ZarSubs \o UsdtSubs \o UsdcSubs, LAMBDA a : <<Lenient(Look(a))>>)
      BY <2>2 DEF Each, AutoRestock
    <3> QED BY <3>1, <3>2, EndIn, OneIn DEF Each, Codes
  <2>3. CASE k = 3
    <3>1. AutoRestock(k) = When(EffectiveBudget < MinBuy, <<End("0")>>)
      BY <2>3 DEF Each, AutoRestock
    <3> QED BY <3>1, EndIn, WhenOneIn DEF Codes
  <2>4. CASE k = 8
    <3>1. AutoRestock(k) = <<Lenient(Look("main"))>>
      BY <2>4 DEF Each, AutoRestock
    <3> QED BY <3>1, LookIn, LenientIn, OneIn, Names
  <2>5. CASE k \notin {1, 2, 3, 4, 5, 6, 7, 8, 9}
    <3>1. AutoRestock(k) = <<End(IF counted > 0 THEN "2" ELSE "0")>>
      BY <2>5 DEF Each, AutoRestock
    <3> QED BY <3>1, EndIn, OneIn DEF Codes
  <2> QED BY <2>1, <2>2, <2>3, <2>4, <2>5
<1> QED BY <1>1, LooksNothing

\* Each of the items taken is bought in a stage of its own.
LEMMA DueTyped ==
  ASSUME Typed
  PROVE  /\ \A k \in Nat : Due(k) \in Int
         /\ \A k \in 0..3 : Due(k) = 0
         /\ \A k \in 4..8 : Due(k - 1) <= Due(k)
                              /\ (k - 3 \in DOMAIN Capped => Due(k) = Due(k - 1) + InZar(Capped[k - 3].need))
         /\ Due(8) <= InZar(BoughtUpTo(Len(Capped)))
         /\ \A k \in Nat : k >= 9 => Due(k) = InZar(EffectiveBudget + LastItem)
         /\ \A k \in Nat : Due(k) <= InZar(EffectiveBudget + LastItem)
         /\ InZar(BoughtUpTo(Len(Capped))) \in Int
<1> DEFINE n == Len(Capped)   e == EffectiveBudget + LastItem   m(k) == Less(Over(k - 3), n)   top == BoughtUpTo(n)
<1>1. /\ n \in Nat /\ BoughtUpTo(0) = 0 /\ top \in Nat
      /\ \A i \in 0..n : BoughtUpTo(i) \in Nat /\ BoughtUpTo(i) <= top
      /\ \A i \in 1..n : Capped[i] \in Items /\ BoughtUpTo(i) = BoughtUpTo(i - 1) + Capped[i].need
      /\ DOMAIN Capped = 1..n
  <2>1. Capped \in Seq(Items)
    BY CappedIn
  <2> QED BY <2>1, BoughtTyped
<1>2. e \in Int /\ top <= e
  BY AllWithin, BudgetTyped, LastItemTyped
<1> HIDE DEF n, e, top
<1>3. \A k \in Nat : m(k) \in 0..n
  BY <1>1 DEF Less, Over
<1>4. \A k \in 0..3 : m(k) = 0
  BY <1>1 DEF Less, Over
<1>5. ASSUME NEW k \in 4..8 PROVE \/ m(k) = m(k - 1) /\ k - 3 \notin 1..n
                                  \/ m(k) = k - 3 /\ m(k - 1) = k - 4 /\ k - 3 \in 1..n
  BY <1>1 DEF Less, Over
<1>6. \A k : Due(k) = InZar(IF k <= 8 THEN BoughtUpTo(m(k)) ELSE e)
  BY DEF Due, n, e
<1> HIDE DEF m
<1>7. \A x \in Int : InZar(x) \in Int
  BY InZarRules
<1>8. \A x, y \in Int : x <= y => InZar(x) <= InZar(y)
  <2> SUFFICES ASSUME NEW x \in Int, NEW y \in Int, x <= y PROVE InZar(x) <= InZar(y)
    OBVIOUS
  <2> QED BY InZarRules
<1>9. \A k \in Nat : k <= 8 => BoughtUpTo(m(k)) \in Nat /\ BoughtUpTo(m(k)) <= top /\ Due(k) = InZar(BoughtUpTo(m(k)))
  BY <1>1, <1>3, <1>6
<1>10. \A k \in Nat : k > 8 => Due(k) = InZar(e)
  BY <1>6
<1>11. \A k \in Nat : Due(k) \in Int /\ Due(k) <= InZar(e)
  <2> SUFFICES ASSUME NEW k \in Nat PROVE Due(k) \in Int /\ Due(k) <= InZar(e)
    OBVIOUS
  <2>1. CASE k <= 8
    <3> DEFINE b == BoughtUpTo(m(k))
    <3>1. b \in Int /\ b <= top /\ top \in Int /\ Due(k) = InZar(b)
      BY <1>1, <1>9, <2>1
    <3> HIDE DEF b
    <3>2. b <= e
      BY <1>2, <3>1
    <3> QED BY <1>2, <1>7, <1>8, <3>1, <3>2
  <2>2. CASE k > 8
    BY <1>2, <1>7, <1>10, <2>2
  <2> QED BY <2>1, <2>2
<1>12. \A k \in 0..3 : Due(k) = 0
  <2> SUFFICES ASSUME NEW k \in 0..3 PROVE Due(k) = 0
    OBVIOUS
  <2>1. Due(k) = InZar(0)
    BY <1>1, <1>4, <1>9
  <2> QED BY <2>1, InZarRules
<1>13. ASSUME NEW k \in 4..8
       PROVE  Due(k - 1) <= Due(k) /\ (k - 3 \in DOMAIN Capped => Due(k) = Due(k - 1) + InZar(Capped[k - 3].need))
  <2>1. k \in Nat /\ k <= 8 /\ k - 1 \in Nat /\ k - 1 <= 8
    OBVIOUS
  <2>2. Due(k) = InZar(BoughtUpTo(m(k))) /\ Due(k - 1) = InZar(BoughtUpTo(m(k - 1))) /\ Due(k) \in Int
    BY <1>9, <1>11, <2>1
  <2>3. CASE m(k) = m(k - 1) /\ k - 3 \notin 1..n
    BY <1>1, <2>2, <2>3
  <2>4. CASE m(k) = k - 3 /\ m(k - 1) = k - 4 /\ k - 3 \in 1..n
    <3> DEFINE i == k - 3   x == BoughtUpTo(i - 1)   y == Capped[i].need
    <3>1. i \in 1..n /\ i - 1 \in 0..n /\ i - 1 = k - 4
      BY <1>1, <2>4
    <3>2. BoughtUpTo(i) = x + y /\ x \in Nat /\ y \in Nat
      <4> HIDE DEF i
      <4> QED BY <1>1, <3>1, ItemTyped
    <3>3. Due(k) = InZar(x + y) /\ Due(k - 1) = InZar(x)
      BY <2>2, <2>4, <3>1, <3>2
    <3> HIDE DEF x, y
    <3>4. x \in Int /\ y \in Int
      BY <3>2
    <3>5. InZar(x + y) = InZar(x) + InZar(y) /\ InZar(x) \in Int
      BY <3>4, InZarRules
    <3>6. InZar(y) \in Nat
      BY <3>2, <3>4, InZarRules
    <3>7. Due(k) = Due(k - 1) + InZar(y) /\ Due(k - 1) \in Int
      BY <3>3, <3>5
    <3>8. Due(k - 1) <= Due(k)
      BY <3>6, <3>7
    <3> QED BY <3>7, <3>8 DEF y
  <2> QED BY <1>5, <2>3, <2>4
<1>14. Due(8) <= InZar(top)
  <2>1. 8 \in Nat /\ 8 <= 8
    OBVIOUS
  <2> DEFINE b == BoughtUpTo(m(8))
  <2>2. b \in Int /\ b <= top /\ top \in Int /\ Due(8) = InZar(b)
    BY <1>1, <1>9, <2>1
  <2> HIDE DEF b
  <2> QED BY <1>8, <2>2
<1>15. InZar(top) \in Int
  BY <1>1, <1>7
<1>16. \A k \in Nat : k >= 9 => Due(k) = InZar(e)
  BY <1>10
<1> QED BY <1>11, <1>12, <1>13, <1>14, <1>15, <1>16 DEF top, n, e

\* No stage takes more than it is due.
LEMMA StageCost ==
  ASSUME Typed, NEW k \in Nat \ {0}
  PROVE  AutoRestock(k) \in Seq(Shapes) /\ Total(AutoRestock(k), Sinks) \in Nat
         /\ Due(k - 1) + Total(AutoRestock(k), Sinks) <= Due(k)
         /\ (k = 2 => Total(AutoRestock(k), Sinks) = 0)
<1> DEFINE q == AutoRestock(k)   e == InZar(EffectiveBudget + LastItem)
<1>1. Due(k) \in Int /\ Due(k - 1) \in Int
  <2>1. k \in Nat /\ k - 1 \in Nat
    OBVIOUS
  <2> QED BY <2>1, DueTyped
<1>2. CASE k \notin 4..7 /\ k # 9
  <2>1. q \in Seq(Shapes) /\ Total(q, Sinks) = 0
    BY <1>2, QuietStages
  <2>2. Due(k - 1) <= Due(k)
    <3>1. CASE k \in 1..3
      <4>1. k - 1 \in 0..3 /\ k \in 0..3
        BY <3>1
      <4>2. Due(k) = 0 /\ Due(k - 1) = 0
        BY <4>1, DueTyped
      <4> QED BY <4>2
    <3>2. CASE k = 8
      <4>1. k \in 4..8
        BY <3>2
      <4> QED BY <4>1, DueTyped
    <3>3. CASE k >= 10
      <4>1. k \in Nat /\ k - 1 \in Nat /\ k >= 9 /\ k - 1 >= 9
        BY <3>3
      <4>2. Due(k) = e /\ Due(k - 1) = e
        BY <4>1, DueTyped
      <4> QED BY <1>1, <4>2
    <3> QED BY <1>2, <3>1, <3>2, <3>3
  <2> HIDE DEF q
  <2>3. Due(k - 1) + Total(q, Sinks) <= Due(k) /\ Total(q, Sinks) \in Nat
    BY <1>1, <2>1, <2>2
  <2> QED BY <2>1, <2>3 DEF q
<1>3. CASE k \in 4..7
  <2>1. k \in 4..8
    BY <1>3
  <2>2. q = IF k - 3 \in DOMAIN Capped THEN AutoBuy(Capped[k - 3]) ELSE <<>>
    BY <1>3 DEF Each, AutoRestock
  <2> HIDE DEF q
  <2>3. CASE k - 3 \in DOMAIN Capped
    <3> DEFINE f == Capped[k - 3]
    <3>1. f \in Items /\ q = AutoBuy(f)
      BY <2>2, <2>3, CappedIn
    <3>2. Due(k) = Due(k - 1) + InZar(f.need)
      BY <2>1, <2>3, DueTyped
    <3> HIDE DEF f
    <3>3. q \in Seq(Shapes) /\ Total(q, Sinks) <= InZar(f.need) /\ InZar(f.need) \in Nat
      BY <3>1, AutoBuyCost
    <3>4. Total(q, Sinks) \in Nat
      BY <3>3, SinksNat, TotalNat
    <3> DEFINE x == InZar(f.need)   t == Total(q, Sinks)
    <3>5. x \in Nat /\ t \in Nat /\ t <= x /\ Due(k) = Due(k - 1) + x
      BY <3>2, <3>3, <3>4
    <3> HIDE DEF x, t
    <3>6. Due(k - 1) + t <= Due(k)
      BY <1>1, <3>5
    <3> QED BY <1>3, <3>3, <3>4, <3>6 DEF t, q
  <2>4. CASE k - 3 \notin DOMAIN Capped
    <3>1. q = <<>> /\ q \in Seq(Shapes)
      BY <2>2, <2>4
    <3>2. Total(q, Sinks) = 0
      BY <3>1, SinksNat, TotalEmpty
    <3>3. Due(k - 1) <= Due(k)
      BY <2>1, DueTyped
    <3>4. Due(k - 1) + Total(q, Sinks) <= Due(k) /\ Total(q, Sinks) \in Nat
      BY <1>1, <3>2, <3>3
    <3> QED BY <1>3, <3>1, <3>4 DEF q
  <2> QED BY <2>3, <2>4
<1>4. CASE k = 9
  <2>1. q = AutoTransfers
    BY <1>4 DEF Each, AutoRestock
  <2> DEFINE s1 == BoughtUpTo(Len(Capped))   s2 == SumOf(TakenCosts) + 6   b == EffectiveBudget + LastItem
  <2>2. s1 \in Int /\ s2 \in Int /\ b \in Int /\ s1 + s2 <= b
    <3> DEFINE y == SumOf(TakenCosts)
    <3>1. s1 \in Nat /\ y \in Nat /\ b \in Int
      BY BoughtTyped, TakenTyped, BudgetTyped, LastItemTyped
    <3>2. s1 + y + 6 <= b
      BY AllWithin
    <3> HIDE DEF s1, b, y
    <3>3. s1 \in Int /\ y + 6 \in Int /\ b \in Int /\ s1 + (y + 6) <= b
      BY <3>1, <3>2
    <3> QED BY <3>3 DEF y
  <2>3. q \in Seq(Shapes) /\ Total(q, Sinks) <= InZar(s2)
    BY <2>1, TransfersCost
  <2>4. Total(q, Sinks) \in Nat
    BY <2>3, SinksNat, TotalNat
  <2>5. Due(k - 1) <= InZar(s1) /\ Due(k) = InZar(b)
    <3>1. k - 1 = 8 /\ k \in Nat /\ k >= 9
      BY <1>4
    <3> QED BY <3>1, DueTyped
  <2> HIDE DEF s1, s2, b, q
  <2>6. InZar(s1) \in Int /\ InZar(s2) \in Int /\ InZar(s1 + s2) = InZar(s1) + InZar(s2)
    BY <2>2, InZarRules
  <2>7. InZar(s1 + s2) <= InZar(b) /\ InZar(b) \in Int
    <3> DEFINE z == s1 + s2
    <3>1. z \in Int /\ z <= b
      BY <2>2
    <3> HIDE DEF z
    <3>2. InZar(z) <= InZar(b) /\ InZar(b) \in Int
      BY <2>2, <3>1, InZarRules
    <3> QED BY <3>2 DEF z
  <2> DEFINE u == InZar(s1)   v == InZar(s2)   x == InZar(b)   t == Total(q, Sinks)   y == InZar(s1 + s2)
  <2>8. u \in Int /\ v \in Int /\ x \in Int /\ t \in Nat /\ y = u + v /\ y <= x /\ t <= v /\ Due(k - 1) <= u /\ Due(k) = x
    BY <2>3, <2>4, <2>5, <2>6, <2>7
  <2> HIDE DEF u, v, x, y, t
  <2>9. Due(k - 1) + t <= Due(k)
    BY <1>1, <2>8
  <2> QED BY <1>4, <2>3, <2>4, <2>9 DEF t, q
<1> QED BY <1>2, <1>3, <1>4

\* What has left the main account in quote currency, and what the queue may
\* still take, is no more than was due by now.
Spent  == Worths(held) - Worths(bal) + Total(queue, Sinks)
Frugal == script = "auto" /\ trades = 0 => Spent <= Due(stage)

\* What is due at a stage depends only on the scan and on the troubles logged before it.
LEMMA DueSame ==
  ASSUME UNCHANGED <<old, dark, log>>
  PROVE  Capped' = Capped /\ EffectiveBudget' = EffectiveBudget /\ (stage' = stage => Due(stage)' = Due(stage))
<1>1. EffectiveBudget' = EffectiveBudget
  BY DEF EffectiveBudget, MainWorth, Get
<1>2. Findings(old)' = Findings(old)
  BY DEF Findings, Starved, Price, Get
<1>3. Capped' = Capped
  BY <1>1, <1>2 DEF Capped
<1>4. Costs(Capped)' = Costs(Capped)
  BY <1>3 DEF Costs
<1> QED BY <1>1, <1>3, <1>4 DEF Due, BoughtUpTo, LastItem

\* The worth of main is a natural.
LEMMA PursesWorth == ASSUME NEW v \in Purses PROVE Worths(v) \in Nat
<1>1. "main" \in Accounts /\ "USDC" \in Currencies /\ "USDT" \in Currencies /\ "ZAR" \in Currencies
  BY Names
<1>2. v["main"]["USDC"] \in Nat /\ v["main"]["USDT"] \in Nat /\ v["main"]["ZAR"] \in Nat
  BY <1>1 DEF Purses
<1>3. \A x \in Nat : InZar(x) \in Nat
  <2> SUFFICES ASSUME NEW x \in Nat PROVE InZar(x) \in Nat
    OBVIOUS
  <2>1. x \in Int
    OBVIOUS
  <2> QED BY <2>1, InZarRules
<1>4. InZar(v["main"]["USDC"]) \in Nat /\ InZar(v["main"]["USDT"]) \in Nat
  BY <1>2, <1>3
<1> QED BY <1>2, <1>4 DEF Worths

\* The parts of what is spent are integers.
LEMMA SpentTyped ==
  ASSUME Typed
  PROVE  /\ Worths(held) \in Nat /\ Worths(bal) \in Nat /\ Total(queue, Sinks) \in Nat
         /\ Due(stage) \in Int /\ stage \in Nat
<1>1. Worths(held) \in Nat /\ Worths(bal) \in Nat
  BY PursesWorth DEF Typed
<1>2. Total(queue, Sinks) \in Nat
  BY QueueShapes, SinksNat, TotalNat
<1>3. stage \in Nat
  BY DEF Typed
<1> QED BY <1>1, <1>2, <1>3, DueTyped

\* What is spent is an integer.
LEMMA SpentInt == ASSUME Typed PROVE Spent \in Int
BY SpentTyped DEF Spent

\* Nothing is due before the first buy.
LEMMA DueStart == ASSUME Typed PROVE stage \in 0..3 => Due(stage) = 0
BY DueTyped

\* Nothing is spent when a script starts.
LEMMA FrugalInit == Init => Frugal
<1> SUFFICES ASSUME Init PROVE Spent <= Due(stage)
  BY DEF Frugal
<1>1. Typed /\ bal = held /\ queue = <<>> /\ stage = 0
  BY TypedInit DEF Init, WalletInit
<1>2. Total(queue, Sinks) = 0
  BY <1>1, SinksNat, TotalEmpty
<1>3. Worths(held) \in Nat /\ Worths(bal) = Worths(held)
  BY <1>1, SpentTyped
<1>4. Due(stage) = 0
  <2>1. stage \in 0..3
    BY <1>1
  <2> QED BY <1>1, <2>1, DueTyped
<1> QED BY <1>2, <1>3, <1>4 DEF Spent

\* Leaving takes nothing from the worth of main.
LEMMA SinkEnd == \A code \in Codes : Sinks[End(code)] = 0
BY EndShape DEF Sinks, Spends

\* What a request takes was in the queue.
LEMMA SpentSpend ==
  ASSUME Typed, Accepted \/ AcceptedOnly \/ Refused
  PROVE  Spent' <= Spent
<1> DEFINE r == Head(queue)   t == Tail(queue)
<1>1. queue # <<>> /\ r.op \in Spends /\ held' = held
  BY DEF Accepted, AcceptedOnly, Refused
<1>2. Spending(r) /\ r \in Shapes
  BY <1>1, HeadIn
<1>3. /\ Sinks[r] \in Nat /\ Total(t, Sinks) \in Nat /\ Total(queue, Sinks) = Sinks[r] + Total(t, Sinks)
      /\ Skip(r) => Total(queue', Sinks) <= Total(t, Sinks)
  BY <1>1, SinksNat, SinkEnd, RestWeight
<1>4. Total(queue', Sinks) <= Total(t, Sinks)
  <2>1. queue' = t \/ Skip(r)
    BY DEF Accepted, AcceptedOnly, Refused
  <2> HIDE DEF r, t
  <2>2. CASE queue' = t
    BY <1>3, <2>2
  <2> QED BY <1>3, <2>1, <2>2
<1>5. Worths(held) \in Nat /\ Worths(bal) \in Nat /\ Total(queue, Sinks) \in Nat
  BY SpentTyped
<1>6. Total(queue', Sinks) \in Nat
  <2>1. Typed'
    BY SpendTyped
  <2>2. Typed' => (queue \in Seq(Shapes))'
    BY QueueShapes, PTL
  <2>3. queue' \in Seq(Shapes)
    BY <2>1, <2>2
  <2> QED BY <2>3, SinksNat, TotalNat
<1>7. Worths(bal') \in Int /\ Worths(bal') >= Worths(bal) - Sinks[r]
  <2>1. bal \in Purses
    BY DEF Typed
  <2>2. ASSUME Takes(r), NEW n \in 0..2, bal' = Carry(r, n)
        PROVE  Worths(bal') \in Int /\ Worths(bal') >= Worths(bal) - Sinks[r]
    <3> HIDE DEF r
    <3>1. Worths(Carry(r, n)) \in Int /\ Worths(Carry(r, n)) >= Worths(bal) - Sinks[r]
      BY <1>2, <2>1, <2>2, CarryWorth
    <3> QED BY <2>2, <3>1
  <2>3. CASE Accepted
    <3>1. Takes(r) /\ bal' = Carry(r, 2) /\ 2 \in 0..2
      BY <2>3 DEF Accepted
    <3> QED BY <2>2, <3>1
  <2>4. CASE AcceptedOnly
    <3>1. PICK n \in 0..2 : Takes(r) /\ bal' = Carry(r, n)
      BY <2>4 DEF AcceptedOnly
    <3> QED BY <2>2, <3>1
  <2>5. CASE Refused
    <3>1. bal' = bal
      BY <2>5 DEF Refused
    <3> QED BY <1>3, <1>5, <3>1
  <2> QED BY <2>3, <2>4, <2>5
<1>8. Spent' = Worths(held) - Worths(bal') + Total(queue', Sinks)
  BY <1>1 DEF Spent, Worths
<1> HIDE DEF r, t
<1> QED BY <1>3, <1>4, <1>5, <1>6, <1>7, <1>8 DEF Spent

\* Reading balances and dropping requests never raise what is spent.
LEMMA SpentRest ==
  ASSUME Typed, Looked \/ Ends
  PROVE  Spent' <= Spent
<1> DEFINE r == Head(queue)   t == Tail(queue)
<1>1. queue # <<>> /\ held' = held /\ bal' = bal
  BY DEF Looked, Ends
<1>2. /\ Sinks[r] \in Nat /\ Total(t, Sinks) \in Nat /\ Total(queue, Sinks) = Sinks[r] + Total(t, Sinks)
      /\ Skip(r) \/ queue' = SubSeq(queue, 2 + r.drop, Len(queue)) => Total(queue', Sinks) <= Total(t, Sinks)
  BY <1>1, SinksNat, SinkEnd, RestWeight
<1>3. Total(queue', Sinks) <= Total(t, Sinks)
  <2>1. queue' = t \/ Skip(r) \/ queue' = SubSeq(queue, 2 + r.drop, Len(queue))
    BY DEF Looked, Ends
  <2> HIDE DEF r, t
  <2>2. CASE queue' = t
    BY <1>2, <2>2
  <2> QED BY <1>2, <2>1, <2>2
<1>4. Worths(held) \in Nat /\ Worths(bal) \in Nat /\ Total(queue, Sinks) \in Nat
  BY SpentTyped
<1>5. Total(queue', Sinks) \in Nat
  <2>1. Typed'
    BY LookTyped, EndsTyped
  <2>2. Typed' => (queue \in Seq(Shapes))'
    BY QueueShapes, PTL
  <2>3. queue' \in Seq(Shapes)
    BY <2>1, <2>2
  <2> QED BY <2>3, SinksNat, TotalNat
<1>6. Spent' = Worths(held) - Worths(bal) + Total(queue', Sinks)
  BY <1>1 DEF Spent, Worths
<1> HIDE DEF r, t
<1> QED BY <1>2, <1>3, <1>4, <1>5, <1>6 DEF Spent

\* The next stage puts no more in the queue than it is due.
LEMMA FrugalAdvance ==
  ASSUME Typed, script = "auto", Spent <= Due(stage), Advance(AutoRestock(stage + 1)),
         AutoRestock(stage + 1) \in Seq(Asks(stage + 1))
  PROVE  Spent' <= Due(stage)'
<1> DEFINE k == stage + 1   q == AutoRestock(k)
<1>1. /\ queue = <<>> /\ queue' = q /\ stage' = k /\ UNCHANGED <<held, bal, dark, log>>
      /\ old' = IF stage = 1 THEN seen ELSE old
  BY DEF Advance
<1>2. stage \in Nat /\ k \in Nat \ {0} /\ k - 1 = stage
  BY DEF Typed
<1>3. /\ Worths(held) \in Nat /\ Worths(bal) \in Nat /\ Due(stage) \in Int /\ Total(queue, Sinks) = 0
  BY <1>1, SpentTyped, SinksNat, TotalEmpty
<1>4. Total(q, Sinks) \in Nat /\ Due(stage) + Total(q, Sinks) <= Due(k) /\ (k = 2 => Total(q, Sinks) = 0) /\ Due(k) \in Int
  <2> HIDE DEF k
  <2> QED BY <1>2, StageCost, DueTyped
<1>5. Spent' = Worths(held) - Worths(bal) + Total(q, Sinks)
  BY <1>1 DEF Spent, Worths
<1>6. Due(stage)' = IF stage = 1 THEN 0 ELSE Due(k)
  <2>1. CASE stage # 1
    <3>1. UNCHANGED <<old, dark, log>>
      BY <1>1, <2>1
    <3>2. Capped' = Capped /\ EffectiveBudget' = EffectiveBudget
      BY <3>1, DueSame
    <3>3. Costs(Capped)' = Costs(Capped)
      BY <3>2 DEF Costs
    <3>4. Due(stage)' = Due(k)
      BY <1>1, <3>2, <3>3 DEF Due, BoughtUpTo, LastItem
    <3> QED BY <2>1, <3>4
  <2>2. CASE stage = 1
    <3>1. Typed'
      BY AdvanceTyped
    <3>2. stage' \in 0..3
      BY <1>1, <2>2
    <3>3. Typed' => (stage \in 0..3 => Due(stage) = 0)'
      BY DueStart, PTL
    <3>4. Due(stage)' = 0
      BY <3>1, <3>2, <3>3
    <3> QED BY <2>2, <3>4
  <2> QED BY <2>1, <2>2
<1>7. stage = 1 => k = 2 /\ Due(stage) = 0
  <2> SUFFICES ASSUME stage = 1 PROVE k = 2 /\ Due(stage) = 0
    OBVIOUS
  <2>1. stage \in 0..3 /\ k = 2
    OBVIOUS
  <2> QED BY <2>1, DueTyped
<1>8. Worths(held) - Worths(bal) <= Due(stage)
  BY <1>3 DEF Spent
<1> HIDE DEF k, q
<1>9. CASE stage = 1
  BY <1>3, <1>4, <1>5, <1>6, <1>7, <1>8, <1>9
<1>10. CASE stage # 1
  BY <1>3, <1>4, <1>5, <1>6, <1>8, <1>10
<1> QED BY <1>9, <1>10

\* Every step keeps what is spent within what is due.
LEMMA FrugalStep == Typed /\ Frugal /\ [Next]_walletVars => Frugal'
<1> SUFFICES ASSUME Typed, Frugal, [Next]_walletVars, script' = "auto", trades' = 0
             PROVE  Spent' <= Due(stage)'
  BY DEF Frugal
<1>1. CASE Accepted \/ AcceptedOnly \/ Refused
  <2>1. UNCHANGED <<script, trades, old, dark, log, stage>>
    BY <1>1 DEF Accepted, AcceptedOnly, Refused
  <2>2. Spent' <= Spent
    BY <1>1, SpentSpend
  <2>3. Spent <= Due(stage) /\ Due(stage)' = Due(stage)
    BY <2>1, DueSame DEF Frugal
  <2>4. Spent' \in Int
    <3>1. Typed' => (Spent \in Int)'
      BY SpentInt, PTL
    <3>2. Typed'
      BY <1>1, SpendTyped
    <3> QED BY <3>1, <3>2
  <2>5. Spent \in Int /\ Due(stage) \in Int
    BY SpentTyped DEF Spent
  <2> QED BY <2>2, <2>3, <2>4, <2>5
<1>2. CASE Looked \/ Ends
  <2>1. UNCHANGED <<script, trades, old, dark, log>>
    BY <1>2 DEF Looked, Ends
  <2>2. stage' = stage
    <3>1. CASE Looked
      BY <3>1 DEF Looked
    <3>2. CASE Ends
      BY <2>1, <3>2, EndsTyped
    <3> QED BY <1>2, <3>1, <3>2
  <2>3. Spent' <= Spent
    BY <1>2, SpentRest
  <2>4. Spent <= Due(stage) /\ Due(stage)' = Due(stage)
    BY <2>1, <2>2, DueSame DEF Frugal
  <2>5. Spent' \in Int
    <3>1. Typed' => (Spent \in Int)'
      BY SpentInt, PTL
    <3>2. Typed'
      BY <1>2, LookTyped, EndsTyped
    <3> QED BY <3>1, <3>2
  <2>6. Spent \in Int /\ Due(stage) \in Int
    BY SpentTyped DEF Spent
  <2> QED BY <2>3, <2>4, <2>5, <2>6
<1>3. CASE BotSpends
  <2>1. trades' = trades + 1 /\ trades \in Nat
    BY <1>3 DEF BotSpends, Typed
  <2> QED BY <2>1
<1>4. CASE RestockNext \/ TopupNext \/ LiquidateNext \/ ReplenishNext
  <2>1. PICK plan \in Seq(Asks(stage + 1)) : Advance(plan) /\ PlanOfScript(plan, stage + 1)
    BY <1>4, Advances DEF PlanOfScript
  <2>2. script = "auto" /\ trades = 0
    BY <2>1 DEF Advance
  <2>3. plan = AutoRestock(stage + 1)
    BY <2>1, <2>2, PlanIs
  <2>4. AutoRestock(stage + 1) \in Seq(Asks(stage + 1)) /\ Advance(AutoRestock(stage + 1))
    BY <2>1, <2>3
  <2> QED BY <2>2, <2>4, FrugalAdvance DEF Frugal
<1>5. CASE UNCHANGED walletVars
  <2>1. UNCHANGED <<script, trades, old, dark, log, stage, held, bal, queue>>
    BY <1>5 DEF walletVars
  <2>2. Spent' = Spent /\ Due(stage)' = Due(stage)
    BY <2>1, DueSame DEF Spent, Worths
  <2> QED BY <2>1, <2>2 DEF Frugal
<1> QED BY <1>1, <1>2, <1>3, <1>4, <1>5 DEF Next, WalletStep

\* Less than a dollar is no dollar.
LEMMA WholeDollars == ASSUME NEW x \in Int, x * Rate < Rate PROVE x <= 0
<1> SUFFICES ASSUME x >= 1 PROVE FALSE
  OBVIOUS
<1>1. Rate \in Nat \ {0} /\ x - 1 \in Nat
  BY RateTyped
<1>2. \A m, n \in Nat : m * n \in Nat
  OBVIOUS
<1> DEFINE d == (x - 1) * Rate
<1>3. d \in Nat
  BY <1>1, <1>2
<1>4. d = x * Rate - Rate
  BY <1>1
<1> DEFINE y == x * Rate
<1>5. y \in Int /\ d = y - Rate /\ y < Rate
  BY <1>1, <1>4
<1> HIDE DEF d, y
<1> QED BY <1>1, <1>3, <1>5

\* In dollars, each rounded down, it is no more either.
LEMMA DollarsLost ==
  ASSUME NEW a \in Nat, NEW b \in Nat, NEW z \in Nat, NEW y \in Nat, NEW s \in Int,
         (InZar(a) + z) - (InZar(b) + y) <= InZar(s)
  PROVE  (a + z \div Rate) - (b + y \div Rate) <= s
<1> DEFINE p == z \div Rate   q == y \div Rate   x == a + p - b - q - s
<1>1. Rate \in Nat \ {0}
  BY RateTyped
<1>2. p \in Nat /\ q \in Nat /\ p * Rate <= z /\ y < q * Rate + Rate /\ p * Rate \in Int /\ q * Rate \in Int
  BY <1>1
<1> HIDE DEF p, q
<1>3. x * Rate = a * Rate + p * Rate - b * Rate - q * Rate - s * Rate
  BY <1>1, <1>2
<1> DEFINE A == a * Rate   B == b * Rate   P == p * Rate   Q == q * Rate   S == s * Rate   X == x * Rate
<1>4. A \in Int /\ B \in Int /\ P \in Int /\ Q \in Int /\ S \in Int /\ X \in Int
  BY <1>1, <1>2
<1>5. X = A + P - B - Q - S /\ P <= z /\ y < Q + Rate /\ (A + z) - (B + y) <= S
  BY <1>2, <1>3 DEF InZar
<1>6. x \in Int
  BY <1>2
<1> HIDE DEF A, B, P, Q, S, X
<1>7. X < Rate
  BY <1>1, <1>4, <1>5
<1>8. x <= 0
  BY <1>6, <1>7, WholeDollars DEF X
<1>9. (a + p) - (b + q) <= s
  BY <1>2, <1>8
<1> QED BY <1>9 DEF p, q

\* At no stage is more due than the budget and the last item, so the invariant implies the bound.
LEMMA FrugalBudget == Typed /\ Frugal => BudgetNearlyKept
<1> SUFFICES ASSUME Typed, Frugal, script = "auto", trades = 0
             PROVE  MainWorth(held) - MainWorth(bal) <= EffectiveBudget + LastItem
  BY DEF BudgetNearlyKept
<1> DEFINE h(c) == held["main"][c]   v(c) == bal["main"][c]   s == EffectiveBudget + LastItem
<1>1. "main" \in Accounts /\ "USDC" \in Currencies /\ "USDT" \in Currencies /\ "ZAR" \in Currencies
  BY Names
<1>2. \A c \in {"USDC", "USDT", "ZAR"} : h(c) \in Nat /\ v(c) \in Nat
  BY <1>1 DEF Typed, Purses
<1>3. MainWorth(held) = h("USDC") + h("USDT") + h("ZAR") \div Rate /\ MainWorth(bal) = v("USDC") + v("USDT") + v("ZAR") \div Rate
  BY <1>1 DEF MainWorth, Get, Typed, Purses
<1>4. s \in Int
  BY BudgetTyped, LastItemTyped
<1>5. Worths(held) - Worths(bal) <= InZar(s)
  <2>1. Worths(held) \in Nat /\ Worths(bal) \in Nat /\ Total(queue, Sinks) \in Nat /\ Due(stage) \in Int /\ stage \in Nat
    BY SpentTyped
  <2>2. Worths(held) - Worths(bal) + Total(queue, Sinks) <= Due(stage)
    BY DEF Frugal, Spent
  <2>3. Due(stage) <= InZar(s) /\ InZar(s) \in Int
    BY <1>4, <2>1, DueTyped, InZarRules
  <2> HIDE DEF s
  <2> QED BY <2>1, <2>2, <2>3
<1>6. /\ Worths(held) = InZar(h("USDC")) + InZar(h("USDT")) + h("ZAR")
      /\ Worths(bal) = InZar(v("USDC")) + InZar(v("USDT")) + v("ZAR")
  BY DEF Worths
<1> DEFINE a == h("USDC") + h("USDT")   b == v("USDC") + v("USDT")   z == h("ZAR")   y == v("ZAR")
<1> HIDE DEF h, v, s
<1>7. InZar(a) = InZar(h("USDC")) + InZar(h("USDT")) /\ InZar(b) = InZar(v("USDC")) + InZar(v("USDT"))
  <2>1. h("USDC") \in Int /\ h("USDT") \in Int /\ v("USDC") \in Int /\ v("USDT") \in Int
    BY <1>2
  <2> QED BY <2>1, InZarRules
<1>8. a \in Nat /\ b \in Nat /\ z \in Nat /\ y \in Nat
  BY <1>2
<1>9. (InZar(a) + z) - (InZar(b) + y) <= InZar(s)
  BY <1>5, <1>6, <1>7
<1>10. MainWorth(held) = a + z \div Rate /\ MainWorth(bal) = b + y \div Rate
  BY <1>3
<1> HIDE DEF a, b, z, y
<1>11. (a + z \div Rate) - (b + y \div Rate) <= s
  BY <1>4, <1>8, <1>9, DollarsLost
<1> QED BY <1>10, <1>11 DEF s

\* The auto-restock never takes from main more than the budget it announced and one last item,
\* whatever the exchange refuses, while the bot does not trade.
THEOREM AutoBudgetKept == Spec => []BudgetNearlyKept
<1>1. Init => Typed /\ Frugal
  BY TypedInit, FrugalInit
<1>2. Typed /\ Frugal /\ [Next]_walletVars => (Typed /\ Frugal)'
  BY TypedStep, FrugalStep
<1> QED BY <1>1, <1>2, FrugalBudget, PTL DEF Spec

\* The property of the run: every script keeps the reserves its source keeps back, and the auto-
\* restock its budget.
THEOREM WalletSpendingBounded == Spec => []SpendingBounded
BY WalletTypeOK, WalletReservesKept, AutoBudgetKept, PTL DEF SpendingBounded

=============================================================================
