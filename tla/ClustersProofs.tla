--------------------------- MODULE ClustersProofs ---------------------------
(***************************************************************************)
(* Proofs about Kubernetes clusters.  Clusters: the restarts that are      *)
(* recorded are never more than a pod made, and a newer state records all  *)
(* of them.  ClusterStates: what the rules of a cluster see is what its    *)
(* page counts.                                                            *)
(***************************************************************************)
EXTENDS Clusters, ClusterStates, FiniteSetTheorems, WellFoundedInduction, TLAPS

-----------------------------------------------------------------------------
(* Sums over finite sets.  MapThenSumSet takes elements away one by one, in  *)
(* an order nobody knows; the lemmas say that the order does not matter, so  *)
(* that a sum changes by what is added.  They are proved by a smallest       *)
(* counterexample, which needs no theorem with an operator for parameter.    *)

Pick(s) == CHOOSE x \in s : TRUE

\* g is what MapThenSumSet computes with for the values f of the elements of S.
IsSum(g, f, S) ==
    g = [s \in SUBSET S |-> IF s = {} THEN 0 ELSE f[Pick(s)] + g[s \ {Pick(s)}]]

\* A set of naturals that is not empty has a least element.
LEMMA LeastNatural ==
    ASSUME NEW T, T \subseteq Nat, T # {}
    PROVE  \E x \in T : \A y \in T : x <= y
<1>1. PICK x \in T : \A y \in T : ~(<<y, x>> \in OpToRel(<, Nat))
  BY NatLessThanWellFounded, WFMin, Zenon
<1>2. \A y \in T : ~(y < x)
  <2> SUFFICES ASSUME NEW y \in T, y < x PROVE FALSE
    OBVIOUS
  <2>1. <<y, x>> \in Nat \X Nat
    OBVIOUS
  <2>2. <<y, x>> \in OpToRel(<, Nat)
    BY <2>1 DEF OpToRel
  <2> QED BY <1>1, <2>2, Zenon
<1> QED BY <1>2

\* Some subset in a collection of subsets of a finite set is smallest.
LEMMA SmallestSubset ==
    ASSUME NEW S, IsFiniteSet(S), NEW C, C \subseteq SUBSET S, C # {}
    PROVE  \E U \in C : \A V \in C : V \subseteq U => V = U
<1>1. IsWellFoundedOn(StrictSubsetOrdering(S), SUBSET S)
  BY FS_StrictSubsetOrderingWellFounded, FS_FiniteSubsetsOfFinite, Zenon
<1>2. PICK U \in C : \A V \in C : ~(<<V, U>> \in StrictSubsetOrdering(S))
  BY <1>1, WFMin, Zenon
<1>3. ASSUME NEW V \in C, V \subseteq U, V # U PROVE FALSE
  <2>1. <<V, U>> \in (SUBSET S) \X (SUBSET S)
    BY <1>3
  <2>2. <<V, U>> \in StrictSubsetOrdering(S)
    BY <1>3, <2>1 DEF StrictSubsetOrdering
  <2> QED BY <1>2, <2>2, Zenon
<1> QED BY <1>3, Zenon

LEMMA PickIsIn ==
    ASSUME NEW s, s # {}
    PROVE  Pick(s) \in s
BY Zenon DEF Pick

\* What MapThenSumSet computes with exists: take the smallest set over whose subsets
\* there is no such function and take its elements away.
LEMMA SumExists ==
    ASSUME NEW S, IsFiniteSet(S), NEW f \in [S -> Nat]
    PROVE  \E g \in [SUBSET S -> Nat] : IsSum(g, f, S)
<1> DEFINE Val(h, s) == IF s = {} THEN 0 ELSE f[Pick(s)] + h[s \ {Pick(s)}]
           Upto(n) == {s \in SUBSET S : Cardinality(s) <= n}
           Good(n) == \E h \in [Upto(n) -> Nat] : \A s \in Upto(n) : h[s] = Val(h, s)
<1>0. \A s \in SUBSET S : IsFiniteSet(s) /\ Cardinality(s) \in Nat /\ Cardinality(s) <= Cardinality(S)
  BY FS_Subset, FS_CardinalityType
<1>1. Good(0)
  <2>1. Upto(0) = {{}}
    <3>1. \A s \in SUBSET S : Cardinality(s) <= 0 <=> s = {}
      BY <1>0, FS_EmptySet
    <3> QED BY <3>1
  <2>2. PICK h : h = [s \in Upto(0) |-> 0]
    BY Zenon
  <2>3. h \in [Upto(0) -> Nat]
    BY <2>2
  <2>4. \A s \in Upto(0) : h[s] = Val(h, s)
    BY <2>1, <2>2
  <2> QED BY <2>3, <2>4, Zenon
<1>2. ASSUME NEW n \in Nat, Good(n) PROVE Good(n + 1)
  <2>1. PICK h \in [Upto(n) -> Nat] : \A s \in Upto(n) : h[s] = Val(h, s)
    BY <1>2, Zenon
  <2>2. \A s \in Upto(n + 1) : s # {} => Pick(s) \in s /\ Pick(s) \in S /\ s \ {Pick(s)} \in Upto(n)
    <3> SUFFICES ASSUME NEW s \in Upto(n + 1), s # {}
                 PROVE  Pick(s) \in s /\ Pick(s) \in S /\ s \ {Pick(s)} \in Upto(n)
      OBVIOUS
    <3>1. Pick(s) \in s
      BY PickIsIn
    <3>2. Cardinality(s \ {Pick(s)}) = Cardinality(s) - 1
      BY <1>0, <3>1, FS_RemoveElement
    <3> QED BY <1>0, <3>1, <3>2
  <2>3. PICK k : k = [s \in Upto(n + 1) |-> Val(h, s)]
    BY Zenon
  <2>4. k \in [Upto(n + 1) -> Nat]
    <3>1. \A s \in Upto(n + 1) : Val(h, s) \in Nat
      <4> HIDE DEF Upto
      <4> QED BY <2>1, <2>2
    <3> QED BY <2>3, <3>1, Zenon
  <2>5. \A s \in Upto(n) : s \in Upto(n + 1) /\ k[s] = h[s]
    <3>1. \A s \in Upto(n) : s \in Upto(n + 1)
      BY <1>0
    <3> QED BY <2>1, <2>3, <3>1, Zenon
  <2>6. ASSUME NEW s \in Upto(n + 1) PROVE k[s] = Val(k, s)
    <3>1. k[s] = Val(h, s)
      BY <2>3, Zenon
    <3>2. CASE s = {}
      BY <3>1, <3>2, Zenon
    <3>3. CASE s # {}
      <4>1. k[s \ {Pick(s)}] = h[s \ {Pick(s)}]
        BY <2>2, <2>5, <3>3, Zenon
      <4> QED BY <3>1, <3>3, <4>1, Zenon
    <3> QED BY <3>2, <3>3, Zenon
  <2> QED BY <2>4, <2>6, Zenon
<1>3. Good(Cardinality(S))
  <2> DEFINE Bad == {n \in Nat : ~Good(n)}
  <2> HIDE DEF Good
  <2> SUFFICES ASSUME ~Good(Cardinality(S)) PROVE FALSE
    OBVIOUS
  <2>1. Cardinality(S) \in Bad
    BY FS_CardinalityType
  <2>2. PICK n \in Bad : \A m \in Bad : n <= m
    BY <2>1, LeastNatural, Zenon
  <2>3. n # 0
    BY <1>1, <2>2
  <2>4. n - 1 \in Nat /\ ~(n <= n - 1) /\ (n - 1) + 1 = n
    BY <2>2, <2>3
  <2>5. Good(n - 1)
    BY <2>2, <2>4
  <2>6. Good((n - 1) + 1)
    BY <1>2, <2>4, <2>5, Zenon
  <2> QED BY <2>2, <2>4, <2>6
<1>4. Upto(Cardinality(S)) = SUBSET S
  BY <1>0
<1>5. PICK g \in [SUBSET S -> Nat] : \A s \in SUBSET S : g[s] = Val(g, s)
  <2> HIDE DEF Upto
  <2> QED BY <1>3, <1>4, Zenon
<1>6. g = [s \in SUBSET S |-> Val(g, s)]
  <2> HIDE DEF Val
  <2> QED BY <1>5
<1> QED BY <1>6, Zenon DEF IsSum

\* The equation of such a function, and the sum of nothing.
LEMMA SumEquation ==
    ASSUME NEW S, IsFiniteSet(S), NEW f \in [S -> Nat], NEW g, IsSum(g, f, S), NEW s \in SUBSET S
    PROVE  /\ s = {} => g[s] = 0
           /\ s # {} => Pick(s) \in s /\ g[s] = f[Pick(s)] + g[s \ {Pick(s)}]
BY PickIsIn, Zenon DEF IsSum

\* Sums of the same values over the same set are the same, whatever sets the two
\* functions are about.
LEMMA SumsAgree ==
    ASSUME NEW S, IsFiniteSet(S), NEW f \in [S -> Nat], NEW g, IsSum(g, f, S),
           NEW T, IsFiniteSet(T), NEW e \in [T -> Nat], NEW h, IsSum(h, e, T),
           NEW s \in SUBSET S, s \in SUBSET T, \A x \in s : f[x] = e[x]
    PROVE  g[s] = h[s]
<1> DEFINE C == {u \in SUBSET s : g[u] # h[u]}
<1> SUFFICES ASSUME g[s] # h[s] PROVE FALSE
  OBVIOUS
<1>1. IsFiniteSet(s)
  BY FS_Subset
<1>2. C \subseteq SUBSET s /\ s \in C
  OBVIOUS
<1>3. PICK u \in C : \A v \in C : v \subseteq u => v = u
  BY <1>1, <1>2, SmallestSubset, Zenon
<1>4. u \in SUBSET S /\ u \in SUBSET T /\ g[u] # h[u]
  BY <1>3
<1>5. u # {}
  BY <1>4, SumEquation, Zenon
<1>6. /\ Pick(u) \in u
      /\ g[u] = f[Pick(u)] + g[u \ {Pick(u)}]
      /\ h[u] = e[Pick(u)] + h[u \ {Pick(u)}]
  BY <1>4, <1>5, SumEquation
<1>7. g[u \ {Pick(u)}] = h[u \ {Pick(u)}]
  <2>1. u \ {Pick(u)} \subseteq u /\ u \ {Pick(u)} # u /\ u \ {Pick(u)} \in SUBSET s
    BY <1>3, <1>6
  <2> QED BY <1>3, <2>1
<1>8. f[Pick(u)] = e[Pick(u)]
  BY <1>3, <1>6
<1> QED BY <1>4, <1>6, <1>7, <1>8, Zenon

LEMMA SumsAreNatural ==
    ASSUME NEW S, IsFiniteSet(S), NEW f \in [S -> Nat], NEW g, IsSum(g, f, S), NEW s \in SUBSET S
    PROVE  g[s] \in Nat
<1>1. PICK h \in [SUBSET S -> Nat] : IsSum(h, f, S)
  BY SumExists, Zenon
<1>2. g[s] = h[s]
  BY <1>1, SumsAgree
<1> QED BY <1>1, <1>2

\* Any element may be taken first.
LEMMA SumRemoves ==
    ASSUME NEW S, IsFiniteSet(S), NEW f \in [S -> Nat], NEW g, IsSum(g, f, S),
           NEW s \in SUBSET S, NEW x \in s
    PROVE  g[s] = f[x] + g[s \ {x}]
<1>0. \A u \in SUBSET S : u # {} => Pick(u) \in u /\ g[u] = f[Pick(u)] + g[u \ {Pick(u)}]
  <2> SUFFICES ASSUME NEW u \in SUBSET S, u # {}
               PROVE  Pick(u) \in u /\ g[u] = f[Pick(u)] + g[u \ {Pick(u)}]
    BY Zenon
  <2> QED BY PickIsIn, Zenon DEF IsSum
<1> DEFINE Fine(u) == \A y \in u : g[u] = f[y] + g[u \ {y}]
           C == {u \in SUBSET s : ~Fine(u)}
<1> SUFFICES ASSUME ~Fine(s) PROVE FALSE
  OBVIOUS
<1> HIDE DEF Fine
<1>1. IsFiniteSet(s)
  BY FS_Subset
<1>2. C \subseteq SUBSET s /\ s \in C
  OBVIOUS
<1>2a. C # {}
  BY <1>2
<1>3. PICK u \in C : \A v \in C : v \subseteq u => v = u
  <2> HIDE DEF C
  <2> QED BY <1>1, <1>2, <1>2a, SmallestSubset
<1>4. PICK y \in u : g[u] # f[y] + g[u \ {y}]
  BY <1>3, Zenon DEF Fine
<1>5. PICK z : z = Pick(u)
  BY Zenon
<1>6. u \in SUBSET S /\ u # {}
  BY <1>3, <1>4
<1>7. z \in u /\ g[u] = f[z] + g[u \ {z}]
  BY <1>0, <1>5, <1>6, Zenon
<1>8. y # z
  BY <1>4, <1>7, Zenon
<1>9. Fine(u \ {z}) /\ Fine(u \ {y})
  <2>1. u \ {z} \subseteq u /\ u \ {z} # u /\ u \ {z} \in SUBSET s
    BY <1>3, <1>7
  <2>2. u \ {y} \subseteq u /\ u \ {y} # u /\ u \ {y} \in SUBSET s
    BY <1>3, <1>4
  <2> QED BY <1>3, <2>1, <2>2
<1>10. (u \ {z}) \ {y} = (u \ {y}) \ {z}
  OBVIOUS
<1>11. g[u \ {z}] = f[y] + g[(u \ {y}) \ {z}] /\ g[u \ {y}] = f[z] + g[(u \ {y}) \ {z}]
  <2>1. y \in u \ {z} /\ z \in u \ {y}
    BY <1>4, <1>7, <1>8
  <2> QED BY <1>9, <1>10, <2>1, Zenon DEF Fine
<1>12. f[y] \in Nat /\ f[z] \in Nat /\ g[(u \ {y}) \ {z}] \in Nat
  <2>1. (u \ {y}) \ {z} \in SUBSET S /\ y \in S /\ z \in S
    BY <1>4, <1>6, <1>7
  <2> QED BY <2>1, SumsAreNatural
<1> QED BY <1>4, <1>7, <1>11, <1>12

-----------------------------------------------------------------------------
(* The sum itself *)

Sum(f, S) == MapThenSumSet(LAMBDA x : f[x], S)

LEMMA SumIsSum ==
    ASSUME NEW S, IsFiniteSet(S), NEW f \in [S -> Nat]
    PROVE  \E g : IsSum(g, f, S) /\ Sum(f, S) = g[S]
<1>1. \E g : IsSum(g, f, S)
  BY SumExists, Zenon
<1>2. PICK g : /\ g = CHOOSE h : IsSum(h, f, S)
               /\ Sum(f, S) = g[S]
  BY Zenon DEF Sum, MapThenSumSet, MapThenFoldSet, IsSum, Pick
<1>3. IsSum(g, f, S)
  BY <1>1, <1>2, Zenon
<1> QED BY <1>2, <1>3, Zenon

\* The sum over a set is a number, that of the empty set is 0, and another element
\* adds its value.
LEMMA SumAdds ==
    ASSUME NEW S, IsFiniteSet(S), NEW x, x \notin S, NEW f \in [S \cup {x} -> Nat]
    PROVE  Sum(f, S \cup {x}) = f[x] + Sum([y \in S |-> f[y]], S)
<1>1. IsFiniteSet(S \cup {x})
  BY FS_AddElement
<1>2. PICK e : e = [y \in S |-> f[y]]
  BY Zenon
<1>3. e \in [S -> Nat]
  BY <1>2
<1>4. PICK g : IsSum(g, f, S \cup {x}) /\ Sum(f, S \cup {x}) = g[S \cup {x}]
  BY <1>1, SumIsSum, Zenon
<1>5. PICK h : IsSum(h, e, S) /\ Sum(e, S) = h[S]
  BY <1>3, SumIsSum, Zenon
<1>6. g[S \cup {x}] = f[x] + g[(S \cup {x}) \ {x}]
  BY <1>1, <1>4, SumRemoves
<1>7. (S \cup {x}) \ {x} = S
  OBVIOUS
<1>8. g[S] = h[S]
  <2>1. S \in SUBSET (S \cup {x}) /\ S \in SUBSET S /\ \A y \in S : f[y] = e[y]
    BY <1>2
  <2> QED BY <1>1, <1>3, <1>4, <1>5, <2>1, SumsAgree
<1> QED BY <1>2, <1>4, <1>5, <1>6, <1>7, <1>8, Zenon

LEMMA SumType ==
    ASSUME NEW S, IsFiniteSet(S), NEW f \in [S -> Nat]
    PROVE  /\ Sum(f, S) \in Nat
           /\ S = {} => Sum(f, S) = 0
<1>1. PICK g : IsSum(g, f, S) /\ Sum(f, S) = g[S]
  BY SumIsSum, Zenon
<1>2. S \in SUBSET S
  OBVIOUS
<1>3. g[S] \in Nat
  BY <1>1, <1>2, SumsAreNatural, Zenon
<1>4. S = {} => g[S] = 0
  BY <1>1, <1>2, SumEquation, Zenon
<1> QED BY <1>1, <1>3, <1>4, Zenon

-----------------------------------------------------------------------------
(* Restarts: the invariant *)

ReadersAndReports ==
    /\ reader \in [host : Hosts, phase : {"idle", "reading", "reporting"}, time : Nat]
    /\ reports \subseteq [host : Hosts, late : BOOLEAN, error : BOOLEAN, state : SavedStates]

ClustersTypeOK ==
    /\ pods \in [Pods -> PodStates]
    /\ ReadersAndReports
    /\ row # None => row \in ClusterRows
    /\ restarts \subseteq [time : Nat, pod : Pods, count : Nat]
    /\ now \in Nat
    /\ reader.time <= now /\ now <= MaxTime

\* A counter shows what restarted since it last started again.
CounterOK(x) == x.count <= x.restarted /\ (~x.reset => x.count = x.restarted)

\* y is a pod as it was no earlier than x.
Grew(x, y) ==
    /\ x.created = y.created
    /\ x.restarted <= y.restarted
    /\ x.reset => y.reset
    /\ \/ y.count <= y.restarted - x.restarted
       \/ y.count - x.count = y.restarted - x.restarted

\* The states that are saved or may be.
Known == {r.state : r \in {q \in reports : ~q.error}} \cup (IF row = None THEN {} ELSE {row.state})

\* What a state shows of a pod was true once.
ShownOnce ==
    /\ \A p \in Pods : CounterOK(pods[p])
    /\ \A s \in Known :
          /\ s.time <= reader.time
          /\ \A p \in Pods : s.pods[p] # None =>
                CounterOK(s.pods[p]) /\ pods[p].life # "unborn" /\ Grew(s.pods[p], pods[p])

\* Of two states with different times the later one was read later, and a pod that
\* is gone does not come back.
ReadInOrder ==
    \A s, t \in Known : \A p \in Pods : s.time < t.time /\ s.pods[p] # None =>
        /\ t.pods[p] # None => Grew(s.pods[p], t.pods[p])
        /\ t.pods[p] = None => /\ pods[p].life = "deleted"
                               /\ \A u \in Known : t.time < u.time => u.pods[p] = None

RowsOK ==
    /\ row = None => restarts = {}
    /\ row # None => \A r \in restarts : r.time <= row.state.time
    /\ \A p \in Pods : IsFiniteSet(RowsOf(p))

\* No more is recorded than the state shows, and what is recorded of a pod that the
\* state does not show is of one that is gone.
RecordedOK ==
    row # None => \A p \in Pods :
        /\ row.state.pods[p] # None => Recorded(p) <= row.state.pods[p].restarted
        /\ row.state.pods[p] = None /\ Recorded(p) # 0 =>
              /\ pods[p].life = "deleted"
              /\ Recorded(p) <= pods[p].restarted
              /\ \A s \in Known : row.state.time < s.time => s.pods[p] = None

RestartsInv == ClustersTypeOK /\ ShownOnce /\ ReadInOrder /\ RowsOK /\ RecordedOK

-----------------------------------------------------------------------------
(* Sums of rows *)

LEMMA CountIsSum ==
    ASSUME NEW X, IsFiniteSet(X), \A r \in X : r.count \in Nat
    PROVE  CountOf(X) = Sum([r \in X |-> r.count], X)
<1>1. PICK f : f = [r \in X |-> r.count]
  BY Zenon
<1>2. f \in [X -> Nat] /\ \A r \in X : f[r] = r.count
  BY <1>1
<1> DEFINE Eq(h) == h = [s \in SUBSET X |-> IF s = {} THEN 0 ELSE Pick(s).count + h[s \ {Pick(s)}]]
<1>3. \A h : IsSum(h, f, X) <=> Eq(h)
  <2>1. \A s \in SUBSET X : s # {} => f[Pick(s)] = Pick(s).count
    BY <1>2, PickIsIn
  <2> SUFFICES ASSUME NEW h
               PROVE  [s \in SUBSET X |-> IF s = {} THEN 0 ELSE f[Pick(s)] + h[s \ {Pick(s)}]]
                      = [s \in SUBSET X |-> IF s = {} THEN 0 ELSE Pick(s).count + h[s \ {Pick(s)}]]
    BY Zenon DEF IsSum
  <2> QED BY <2>1
<1>4. PICK g : IsSum(g, f, X) /\ Sum(f, X) = g[X]
  BY <1>2, SumIsSum, Zenon
<1>5. PICK h : h = (CHOOSE k : Eq(k)) /\ CountOf(X) = h[X]
  BY Zenon DEF CountOf, MapThenSumSet, MapThenFoldSet, Pick
<1>6. IsSum(h, f, X)
  <2> HIDE DEF Eq
  <2> QED BY <1>3, <1>4, <1>5, Zenon
<1>7. g[X] = h[X]
  BY <1>2, <1>4, <1>6, SumsAgree
<1> QED BY <1>1, <1>4, <1>5, <1>7, Zenon

\* Another row adds its count.
LEMMA CountAdds ==
    ASSUME NEW X, IsFiniteSet(X), NEW x, x \notin X, \A r \in X \cup {x} : r.count \in Nat
    PROVE  CountOf(X \cup {x}) = CountOf(X) + x.count
<1>1. PICK f : f = [r \in X \cup {x} |-> r.count]
  BY Zenon
<1>2. f \in [X \cup {x} -> Nat] /\ f[x] = x.count
  BY <1>1
<1>3. [r \in X |-> f[r]] = [r \in X |-> r.count]
  BY <1>1
<1>4. IsFiniteSet(X \cup {x})
  BY FS_AddElement
<1>5. CountOf(X \cup {x}) = Sum(f, X \cup {x}) /\ CountOf(X) = Sum([r \in X |-> r.count], X)
  BY <1>1, <1>4, CountIsSum
<1>6. Sum(f, X \cup {x}) = f[x] + Sum([r \in X |-> f[r]], X)
  BY <1>2, SumAdds
<1>7. Sum([r \in X |-> r.count], X) \in Nat
  <2>1. [r \in X |-> r.count] \in [X -> Nat]
    OBVIOUS
  <2> QED BY <2>1, SumType, Zenon
<1> QED BY <1>2, <1>3, <1>5, <1>6, <1>7

LEMMA CountType ==
    ASSUME NEW X, IsFiniteSet(X), \A r \in X : r.count \in Nat
    PROVE  CountOf(X) \in Nat /\ (X = {} => CountOf(X) = 0)
<1>1. [r \in X |-> r.count] \in [X -> Nat]
  OBVIOUS
<1> QED BY <1>1, CountIsSum, SumType, Zenon
-----------------------------------------------------------------------------
(* The states that are known *)

LEMMA KnownTyped ==
    ASSUME ClustersTypeOK, NEW s \in Known
    PROVE  s \in SavedStates
BY DEF ClustersTypeOK, ReadersAndReports, ClusterRows, Known

LEMMA NoStateTyped ==
    NoState \in SavedStates /\ NoState.time = 0 /\ \A p \in Pods : NoState.pods[p] = None
BY DEF NoState, SavedStates

\* A step that learns of no new state leaves the states in order.
LEMMA OrderKept ==
    ASSUME ClustersTypeOK, ShownOnce, ReadInOrder,
           Known' \subseteq Known \cup {NoState}, pods' = pods, reader.time <= reader'.time,
           reader'.time \in Nat
    PROVE  ShownOnce' /\ ReadInOrder'
<1>0. reader.time \in Nat
  BY DEF ClustersTypeOK, ReadersAndReports
<1>1. \A s \in Known' : s \in SavedStates /\ (s \in Known \/ s = NoState)
  BY KnownTyped, NoStateTyped
<1>2. ShownOnce'
  <2>1. \A p \in Pods : CounterOK(pods[p])'
    BY DEF ShownOnce, CounterOK
  <2>2. ASSUME NEW s \in Known'
        PROVE  /\ s.time <= reader'.time
               /\ \A p \in Pods : s.pods[p] # None =>
                     CounterOK(s.pods[p]) /\ pods'[p].life # "unborn" /\ Grew(s.pods[p], pods'[p])
    <3>1. CASE s \in Known
      <4>1. s.time \in Nat /\ s.time <= reader.time
        BY <3>1, KnownTyped DEF ShownOnce, SavedStates
      <4>2. s.time <= reader'.time
        BY <1>0, <4>1
      <4> QED BY <3>1, <4>2, Zenon DEF ShownOnce
    <3>2. CASE s = NoState
      BY <3>2, NoStateTyped
    <3> QED BY <1>1, <3>1, <3>2
  <2> QED BY <2>1, <2>2, Zenon DEF ShownOnce, CounterOK
<1>3. ReadInOrder'
  <2> SUFFICES ASSUME NEW s \in Known', NEW t \in Known', NEW p \in Pods,
                      s.time < t.time, s.pods[p] # None
               PROVE  /\ t.pods[p] # None => Grew(s.pods[p], t.pods[p])
                      /\ t.pods[p] = None =>
                            /\ pods[p].life = "deleted"
                            /\ \A u \in Known' : t.time < u.time => u.pods[p] = None
    BY Zenon DEF ReadInOrder
  <2>1. s \in Known
    BY <1>1, NoStateTyped
  <2>2. s.time \in Nat /\ t.time \in Nat
    BY <1>1 DEF SavedStates
  <2>3. t \in Known
    BY <1>1, <2>2, NoStateTyped
  <2>4. \A u \in Known' : u \in Known \/ u.pods[p] = None
    BY <1>1, NoStateTyped
  <2> QED BY <2>1, <2>3, <2>4, Zenon DEF ReadInOrder
<1> QED BY <1>2, <1>3

\* Nothing is recorded of a cluster without a row.
LEMMA NothingRecorded ==
    ASSUME NEW p, RowsOf(p) = {}
    PROVE  Recorded(p) = 0
<1>1. CountOf({}) = 0
  BY FS_EmptySet, CountType
<1> QED BY <1>1, Zenon DEF Recorded

LEMMA RecordedType ==
    ASSUME ClustersTypeOK, RowsOK, NEW p \in Pods
    PROVE  Recorded(p) \in Nat
<1>1. IsFiniteSet(RowsOf(p)) /\ \A r \in RowsOf(p) : r.count \in Nat
  BY DEF RowsOK, RowsOf, ClustersTypeOK
<1>2. CountOf(RowsOf(p)) \in Nat
  BY <1>1, CountType, Zenon
<1> QED BY <1>2, Zenon DEF Recorded

\* What is recorded stays right when no state is saved and no pod changes.
LEMMA RecordsKept ==
    ASSUME RowsOK, RecordedOK, ClustersTypeOK, ClustersTypeOK',
           Known' \subseteq Known \cup {NoState}, pods' = pods, restarts' = restarts,
           \/ row # None /\ row' # None /\ row'.state = row.state
           \/ row = None
    PROVE  RowsOK' /\ RecordedOK'
<1>1. \A p \in Pods : Recorded(p)' = Recorded(p) /\ RowsOf(p)' = RowsOf(p)
  <2> SUFFICES ASSUME NEW p \in Pods PROVE Recorded(p)' = Recorded(p) /\ RowsOf(p)' = RowsOf(p)
    BY Zenon
  <2>1. RowsOf(p)' = RowsOf(p)
    BY DEF RowsOf
  <2> QED BY <2>1, Zenon DEF Recorded
<1>2. CASE row = None
  <2>1. restarts = {}
    BY <1>2 DEF RowsOK
  <2>2. \A p \in Pods : RowsOf(p) = {}
    BY <2>1 DEF RowsOf
  <2>3. \A p \in Pods : Recorded(p)' = 0
    BY <1>1, <2>2, NothingRecorded, Zenon
  <2>4. RowsOK'
    BY <1>1, <2>1 DEF RowsOK
  <2>5. row' # None => \A p \in Pods : row'.state.pods[p] # None => 0 <= row'.state.pods[p].restarted
    BY DEF ClustersTypeOK, ClusterRows, SavedStates, PodStates
  <2>6. RecordedOK'
    BY <2>3, <2>5, Zenon DEF RecordedOK
  <2> QED BY <2>4, <2>6
<1>3. CASE row # None /\ row' # None /\ row'.state = row.state
  <2>1. RowsOK'
    BY <1>1, <1>3 DEF RowsOK
  <2>2. \A s \in Known', p \in Pods : s \in Known \/ s.pods[p] = None
    BY NoStateTyped
  <2>3. RecordedOK'
    BY <1>1, <1>3, <2>2, Zenon DEF RecordedOK
  <2> QED BY <2>1, <2>3
<1> QED BY <1>2, <1>3

-----------------------------------------------------------------------------
(* Steps of the cluster *)

\* What a pod does keeps what was shown of it true.
LEMMA GrewTypes ==
    ASSUME NEW x \in PodStates
    PROVE  x.created \in Nat /\ x.count \in Nat /\ x.restarted \in Nat /\ x.reset \in BOOLEAN
BY DEF PodStates

LEMMA PodFields_life ==
    ASSUME NEW x \in PodStates, NEW l0 \in {"unborn", "there", "deleted"}, NEW y, y = [x EXCEPT !.life = l0]
    PROVE  y \in PodStates /\ y.life = l0 /\ y.created = x.created /\ y.count = x.count /\ y.restarted = x.restarted /\ y.reset = x.reset
BY DEF PodStates

LEMMA PodFields_created ==
    ASSUME NEW x \in PodStates, NEW c0 \in Nat, NEW y, y = [x EXCEPT !.created = c0]
    PROVE  y \in PodStates /\ y.life = x.life /\ y.created = c0 /\ y.count = x.count /\ y.restarted = x.restarted /\ y.reset = x.reset
BY DEF PodStates

LEMMA PodFields_count ==
    ASSUME NEW x \in PodStates, NEW c0 \in Nat, NEW y, y = [x EXCEPT !.count = c0]
    PROVE  y \in PodStates /\ y.life = x.life /\ y.created = x.created /\ y.count = c0 /\ y.restarted = x.restarted /\ y.reset = x.reset
BY DEF PodStates

LEMMA PodFields_restarted ==
    ASSUME NEW x \in PodStates, NEW r0 \in Nat, NEW y, y = [x EXCEPT !.restarted = r0]
    PROVE  y \in PodStates /\ y.life = x.life /\ y.created = x.created /\ y.count = x.count /\ y.restarted = r0 /\ y.reset = x.reset
BY DEF PodStates

LEMMA PodFields_reset ==
    ASSUME NEW x \in PodStates, NEW y, y = [x EXCEPT !.reset = TRUE]
    PROVE  y \in PodStates /\ y.life = x.life /\ y.created = x.created /\ y.count = x.count /\ y.restarted = x.restarted /\ y.reset = TRUE
BY Zenon DEF PodStates

PodStep(p) == PodCreated(p) \/ PodRestarts(p) \/ CounterLost(p) \/ PodDeleted(p)

LEMMA PodStepGrows ==
    ASSUME ClustersTypeOK, NEW q \in Pods, PodStep(q), NEW p \in Pods, CounterOK(pods[p])
    PROVE  /\ pods'[p] \in PodStates
           /\ CounterOK(pods'[p])
           /\ pods[p].life # "unborn" => pods'[p].life # "unborn"
           /\ pods[p].life = "deleted" => pods'[p].life = "deleted"
           /\ pods[p].restarted <= pods'[p].restarted
           /\ \A x \in PodStates : pods[p].life # "unborn" /\ Grew(x, pods[p]) => Grew(x, pods'[p])
<1>0. pods[p] \in PodStates /\ pods[q] \in PodStates /\ pods \in [Pods -> PodStates] /\ now \in Nat
  BY DEF ClustersTypeOK
<1>1. CASE p # q
  <2>1. pods'[p] = pods[p]
    BY <1>0, <1>1 DEF PodStep, PodCreated, PodRestarts, CounterLost, PodDeleted
  <2>2. pods[p].restarted \in Nat
    BY <1>0, GrewTypes
  <2> QED BY <1>0, <2>1, <2>2
<1>2. CASE p = q
  <2>1. PICK y : y = pods[q]
    BY Zenon
  <2>2. y \in PodStates /\ CounterOK(y) /\ y = pods[p]
    BY <1>0, <1>2, <2>1
  <2>3. CASE PodCreated(q)
    <3>1. PICK w : w = [y EXCEPT !.life = "there"]
      BY Zenon
    <3>2. PICK z : z = [w EXCEPT !.created = now]
      BY Zenon
    <3>3. pods'[p] = z /\ y.life = "unborn"
      BY <1>0, <1>2, <2>1, <3>1, <3>2, <2>3 DEF PodCreated
    <3>4. y.count + 1 \in Nat /\ y.restarted + 1 \in Nat /\ 0 \in Nat
      BY <2>2, GrewTypes
    <3>5. w \in PodStates /\ w.restarted = y.restarted /\ w.life = "there" /\ w.count = y.count /\ w.reset = y.reset
      BY <1>0, <2>2, <3>1, <3>4, PodFields_count, PodFields_life
    <3>6. z \in PodStates /\ z.life = "there" /\ z.count = y.count /\ z.restarted = y.restarted /\ z.reset = y.reset
      BY <1>0, <2>2, <3>2, <3>4, <3>5, PodFields_restarted, PodFields_created, PodFields_reset
    <3>7. CounterOK(z) /\ y.restarted <= z.restarted
      BY <2>2, <3>6, GrewTypes DEF CounterOK
    <3> QED BY <2>2, <3>3, <3>6, <3>7
  <2>4. CASE PodRestarts(q)
    <3>1. PICK w : w = [y EXCEPT !.count = y.count + 1]
      BY Zenon
    <3>2. PICK z : z = [w EXCEPT !.restarted = y.restarted + 1]
      BY Zenon
    <3>3. pods'[p] = z /\ y.life = "there"
      BY <1>0, <1>2, <2>1, <3>1, <3>2, <2>4 DEF PodRestarts
    <3>4. y.count + 1 \in Nat /\ y.restarted + 1 \in Nat /\ 0 \in Nat
      BY <2>2, GrewTypes
    <3>5. w \in PodStates /\ w.restarted = y.restarted /\ w.life = y.life /\ w.created = y.created /\ w.count = y.count + 1 /\ w.reset = y.reset
      BY <1>0, <2>2, <3>1, <3>4, PodFields_count, PodFields_life
    <3>6. z \in PodStates /\ z.life = y.life /\ z.created = y.created /\ z.count = y.count + 1 /\ z.restarted = y.restarted + 1 /\ z.reset = y.reset
      BY <1>0, <2>2, <3>2, <3>4, <3>5, PodFields_restarted, PodFields_created, PodFields_reset
    <3>7. CounterOK(z) /\ y.restarted <= z.restarted
      BY <2>2, <3>6, GrewTypes DEF CounterOK
    <3>8. ASSUME NEW x \in PodStates, Grew(x, y) PROVE Grew(x, z)
      <4>1. /\ x.restarted \in Nat /\ x.count \in Nat
            /\ y.restarted \in Nat /\ y.count \in Nat
        BY <2>2, <3>8, GrewTypes
      <4> QED BY <3>6, <3>8, <4>1 DEF Grew
    <3> QED BY <2>2, <3>3, <3>6, <3>7, <3>8
  <2>5. CASE CounterLost(q)
    <3>1. PICK w : w = [y EXCEPT !.count = 0]
      BY Zenon
    <3>2. PICK z : z = [w EXCEPT !.reset = TRUE]
      BY Zenon
    <3>3. pods'[p] = z /\ y.life = "there"
      BY <1>0, <1>2, <2>1, <3>1, <3>2, <2>5 DEF CounterLost
    <3>4. y.count + 1 \in Nat /\ y.restarted + 1 \in Nat /\ 0 \in Nat
      BY <2>2, GrewTypes
    <3>5. w \in PodStates /\ w.restarted = y.restarted /\ w.life = y.life /\ w.created = y.created /\ w.count = 0
      BY <1>0, <2>2, <3>1, <3>4, PodFields_count, PodFields_life
    <3>6. z \in PodStates /\ z.life = y.life /\ z.created = y.created /\ z.count = 0 /\ z.restarted = y.restarted /\ z.reset = TRUE
      BY <3>2, <3>5, PodFields_reset, Zenon
    <3>7. CounterOK(z) /\ y.restarted <= z.restarted
      BY <2>2, <3>6, GrewTypes DEF CounterOK
    <3>8. ASSUME NEW x \in PodStates, Grew(x, y) PROVE Grew(x, z)
      <4>1. /\ x.restarted \in Nat /\ x.count \in Nat
            /\ y.restarted \in Nat /\ y.count \in Nat
        BY <2>2, <3>8, GrewTypes
      <4> QED BY <3>6, <3>8, <4>1 DEF Grew
    <3> QED BY <2>2, <3>3, <3>6, <3>7, <3>8
  <2>6. CASE PodDeleted(q)
    <3>1. PICK z : z = [y EXCEPT !.life = "deleted"]
      BY Zenon
    <3>3. pods'[p] = z /\ y.life = "there"
      BY <1>0, <1>2, <2>1, <3>1, <2>6 DEF PodDeleted
    <3>6. z \in PodStates /\ z.life = "deleted" /\ z.created = y.created /\ z.count = y.count /\ z.restarted = y.restarted /\ z.reset = y.reset
      BY <2>2, <3>1, PodFields_life
    <3>7. CounterOK(z) /\ y.restarted <= z.restarted
      BY <2>2, <3>6, GrewTypes DEF CounterOK
    <3>8. ASSUME NEW x \in PodStates, Grew(x, y) PROVE Grew(x, z)
      <4>1. /\ x.restarted \in Nat /\ x.count \in Nat
            /\ y.restarted \in Nat /\ y.count \in Nat
        BY <2>2, <3>8, GrewTypes
      <4> QED BY <3>6, <3>8, <4>1 DEF Grew
    <3> QED BY <2>2, <3>3, <3>6, <3>7, <3>8
  <2> QED BY <2>3, <2>4, <2>5, <2>6 DEF PodStep
<1> QED BY <1>1, <1>2

\* A step of a pod keeps the invariant.
LEMMA PodsKeepInv ==
    ASSUME RestartsInv, NEW q \in Pods, PodStep(q)
    PROVE  RestartsInv'
<1> USE DEF RestartsInv
<1>1. UNCHANGED <<readerVars, storeVars, now>>
  BY DEF PodStep, PodCreated, PodRestarts, CounterLost, PodDeleted
<1>2. /\ reader' = reader /\ reports' = reports /\ row' = row /\ restarts' = restarts
      /\ now' = now
  BY <1>1 DEF readerVars, storeVars
<1>3. \A p \in Pods : CounterOK(pods[p])
  BY DEF ShownOnce
<1>4. \A p \in Pods :
          /\ pods'[p] \in PodStates
          /\ CounterOK(pods'[p])
          /\ pods[p].life # "unborn" => pods'[p].life # "unborn"
          /\ pods[p].life = "deleted" => pods'[p].life = "deleted"
          /\ pods[p].restarted <= pods'[p].restarted
          /\ \A x \in PodStates : pods[p].life # "unborn" /\ Grew(x, pods[p]) => Grew(x, pods'[p])
  BY <1>3, PodStepGrows, Zenon
<1>5. ClustersTypeOK'
  <2>1. \E f : pods' = [pods EXCEPT ![q] = f]
    BY DEF PodStep, PodCreated, PodRestarts, CounterLost, PodDeleted
  <2>2. pods' \in [Pods -> PodStates]
    BY <1>4, <2>1 DEF ClustersTypeOK
  <2> QED BY <1>2, <2>2 DEF ClustersTypeOK, ReadersAndReports
<1>6. Known' = Known
  BY <1>2 DEF Known
<1>7. \A s \in Known, p \in Pods : s.pods[p] # None => s.pods[p] \in PodStates
  BY KnownTyped DEF SavedStates
<1>8. ShownOnce'
  <2>1. \A s \in Known, p \in Pods : s.pods[p] # None =>
            CounterOK(s.pods[p]) /\ pods'[p].life # "unborn" /\ Grew(s.pods[p], pods'[p])
    BY <1>4, <1>7 DEF ShownOnce
  <2>2. \A s \in Known : s.time <= reader'.time
    BY <1>2 DEF ShownOnce
  <2> QED BY <1>4, <1>6, <2>1, <2>2, Zenon DEF ShownOnce
<1>9. ReadInOrder'
  <2>1. \A s, t \in Known : \A p \in Pods : s.time < t.time /\ s.pods[p] # None =>
            /\ t.pods[p] # None => Grew(s.pods[p], t.pods[p])
            /\ t.pods[p] = None => /\ pods'[p].life = "deleted"
                                   /\ \A u \in Known : t.time < u.time => u.pods[p] = None
    <3> SUFFICES ASSUME NEW s \in Known, NEW t \in Known, NEW p \in Pods,
                        s.time < t.time, s.pods[p] # None
                 PROVE  /\ t.pods[p] # None => Grew(s.pods[p], t.pods[p])
                        /\ t.pods[p] = None =>
                              /\ pods'[p].life = "deleted"
                              /\ \A u \in Known : t.time < u.time => u.pods[p] = None
      BY Zenon
    <3>1. pods[p].life = "deleted" => pods'[p].life = "deleted"
      BY <1>4
    <3> QED BY <3>1, Zenon DEF ReadInOrder
  <2> QED BY <1>6, <2>1 DEF ReadInOrder
<1>10. \A p \in Pods : RowsOf(p)' = RowsOf(p) /\ Recorded(p)' = Recorded(p)
  BY <1>2 DEF RowsOf, Recorded
<1>11. RowsOK'
  BY <1>2, <1>10 DEF RowsOK
<1>12. RecordedOK'
  <2>1. \A p \in Pods : Recorded(p) \in Nat /\ pods[p].restarted \in Nat /\ pods'[p].restarted \in Nat
    BY <1>4, RecordedType, GrewTypes DEF ClustersTypeOK
  <2>2. \A p \in Pods : Recorded(p) <= pods[p].restarted => Recorded(p) <= pods'[p].restarted
    BY <1>4, <2>1
  <2> QED BY <1>2, <1>4, <1>6, <1>10, <2>2, Zenon DEF RecordedOK
<1> QED BY <1>5, <1>8, <1>9, <1>11, <1>12

-----------------------------------------------------------------------------
(* Steps of the reader *)

\* ReadEnds: what is listed now follows what was listed before.
LEMMA ReadEndsKeepsInv ==
    ASSUME RestartsInv, NEW ok \in BOOLEAN, ReadEnds(ok)
    PROVE  RestartsInv'
<1> USE DEF RestartsInv
<1>1. /\ pods' = pods /\ row' = row /\ restarts' = restarts /\ now' = now
      /\ reader' = [reader EXCEPT !.phase = "reporting"]
  BY DEF ReadEnds, clusterVars, storeVars
<1>2. PICK new : new = [time |-> reader.time, pods |-> IF ok THEN Listed ELSE NoState.pods]
  BY Zenon
<1>2a. PICK rep : rep = [host |-> reader.host, late |-> FALSE, error |-> ~ok, state |-> new]
  BY Zenon
<1>3. reports' = reports \cup {rep} /\ rep.state = new /\ rep.error = ~ok
  BY <1>2, <1>2a, Zenon DEF ReadEnds
<1>4. reader.host \in Hosts /\ reader.time \in Nat /\ reader'.time = reader.time
  BY <1>1 DEF ClustersTypeOK, ReadersAndReports
<1>5. new \in SavedStates /\ new.time = reader.time
  <2>1. Listed \in [Pods -> PodStates \cup {None}]
    BY DEF Listed, ClustersTypeOK
  <2>2. NoState.pods \in [Pods -> PodStates \cup {None}]
    BY DEF NoState
  <2> QED BY <1>2, <1>4, <2>1, <2>2 DEF SavedStates
<1>6. ClustersTypeOK'
  <2>1. rep \in [host : Hosts, late : BOOLEAN, error : BOOLEAN, state : SavedStates]
    BY <1>2a, <1>4, <1>5
  <2>2. reader' \in [host : Hosts, phase : {"idle", "reading", "reporting"}, time : Nat]
    BY <1>1 DEF ClustersTypeOK, ReadersAndReports
  <2>3. ReadersAndReports'
    BY <1>3, <2>1, <2>2, Zenon DEF ClustersTypeOK, ReadersAndReports
  <2> QED BY <1>1, <1>4, <2>3 DEF ClustersTypeOK
<1>7. CASE ~ok
  <2>1. Known' \subseteq Known \cup {NoState}
    <3>1. {q \in reports' : ~q.error} = {q \in reports : ~q.error}
      BY <1>3, <1>7, Zenon
    <3> QED BY <1>1, <3>1 DEF Known
  <2>2. ShownOnce' /\ ReadInOrder'
    <3>1. reader.time <= reader'.time /\ reader'.time \in Nat
      BY <1>4
    <3> QED BY <1>1, <2>1, <3>1, OrderKept, Zenon
  <2>3. RowsOK' /\ RecordedOK'
    BY <1>1, <1>6, <2>1, RecordsKept, Zenon
  <2> QED BY <1>6, <2>2, <2>3
<1>8. CASE ok
  <2>1. Known' \subseteq Known \cup {new}
    BY <1>1, <1>3 DEF Known
  <2>2. \A p \in Pods : /\ new.pods[p] # None => new.pods[p] = pods[p] /\ pods[p].life = "there"
                        /\ pods[p].life = "there" => new.pods[p] # None
    <3>1. new.pods = Listed
      BY <1>2, <1>8
    <3>2. \A p \in Pods : pods[p] \in PodStates /\ pods[p] # None
      BY ClustersAssumption DEF ClustersTypeOK, ClustersAssumption
    <3> QED BY <3>1, <3>2 DEF Listed
  <2>3. \A p \in Pods : CounterOK(pods[p]) /\ Grew(pods[p], pods[p])
    <3>1. \A p \in Pods : pods[p] \in PodStates
      BY DEF ClustersTypeOK
    <3>2. \A p \in Pods : Grew(pods[p], pods[p])
      BY <3>1, GrewTypes DEF Grew
    <3> QED BY <3>2 DEF ShownOnce
  <2>4. ShownOnce'
    <3>1. ASSUME NEW s \in Known'
          PROVE  /\ s.time <= reader'.time
                 /\ \A p \in Pods : s.pods[p] # None =>
                       CounterOK(s.pods[p]) /\ pods'[p].life # "unborn" /\ Grew(s.pods[p], pods'[p])
      <4>1. CASE s \in Known
        BY <1>1, <1>4, <4>1, Zenon DEF ShownOnce
      <4>2. CASE s = new
        <5>1. s.time <= reader'.time
          BY <1>4, <1>5, <4>2
        <5>2. \A p \in Pods : pods[p].life = "there" => pods[p].life # "unborn"
          OBVIOUS
        <5> QED BY <1>1, <2>2, <2>3, <4>2, <5>1, <5>2, Zenon
      <4> QED BY <2>1, <4>1, <4>2
    <3> QED BY <1>1, <2>3, <3>1, Zenon DEF ShownOnce
  <2>5. ReadInOrder'
    <3> SUFFICES ASSUME NEW s \in Known', NEW t \in Known', NEW p \in Pods,
                        s.time < t.time, s.pods[p] # None
                 PROVE  /\ t.pods[p] # None => Grew(s.pods[p], t.pods[p])
                        /\ t.pods[p] = None =>
                              /\ pods'[p].life = "deleted"
                              /\ \A u \in Known' : t.time < u.time => u.pods[p] = None
      BY Zenon DEF ReadInOrder
    <3>1. \A x \in Known : x.time \in Nat /\ x.time <= reader.time
      BY KnownTyped DEF ShownOnce, SavedStates
    <3>2. \A x \in Known' : x.time \in Nat /\ x.time <= new.time
      BY <1>4, <1>5, <2>1, <3>1
    <3>3. s \in Known
      BY <1>4, <1>5, <2>1, <3>2
    <3>4. pods[p].life \in {"unborn", "there", "deleted"}
      BY DEF ClustersTypeOK, PodStates
    <3>5. CASE t = new
      <4>1. pods[p].life # "unborn" /\ Grew(s.pods[p], pods[p])
        BY <3>3, Zenon DEF ShownOnce
      <4>2. t.pods[p] = None => pods[p].life = "deleted"
        BY <2>2, <3>4, <3>5, <4>1
      <4>3. \A u \in Known' : ~(t.time < u.time)
        BY <1>4, <1>5, <3>2, <3>5
      <4> QED BY <1>1, <2>2, <3>5, <4>1, <4>2, <4>3, Zenon
    <3>6. CASE t \in Known
      <4>1. CASE t.pods[p] # None
        BY <3>3, <3>6, <4>1, Zenon DEF ReadInOrder
      <4>2. CASE t.pods[p] = None
        <5>1. /\ pods[p].life = "deleted"
              /\ \A u \in Known : t.time < u.time => u.pods[p] = None
          BY <3>3, <3>6, <4>2, Zenon DEF ReadInOrder
        <5>2. new.pods[p] = None
          BY <2>2, <5>1
        <5> QED BY <1>1, <2>1, <4>2, <5>1, <5>2
      <4> QED BY <4>1, <4>2
    <3> QED BY <2>1, <3>5, <3>6
  <2>6. \A p \in Pods : RowsOf(p)' = RowsOf(p) /\ Recorded(p)' = Recorded(p)
    BY <1>1 DEF RowsOf, Recorded
  <2>7. RowsOK'
    BY <1>1, <2>6 DEF RowsOK
  <2>8. RecordedOK'
    <3>1. \A p \in Pods : pods[p].life = "deleted" => new.pods[p] = None
      BY <2>2
    <3>2. \A s \in Known' : s \in Known \/ s = new
      BY <2>1
    <3> QED BY <1>1, <2>6, <3>1, <3>2, Zenon DEF RecordedOK
  <2> QED BY <1>6, <2>4, <2>5, <2>7, <2>8
<1> QED BY <1>7, <1>8

\* A step that lists and saves no state.
LEMMA QuietKeepsInv ==
    ASSUME RestartsInv, ClustersTypeOK', Known' \subseteq Known \cup {NoState},
           pods' = pods, restarts' = restarts, reader.time <= reader'.time,
           \/ row # None /\ row' # None /\ row'.state = row.state
           \/ row = None
    PROVE  RestartsInv'
<1>1. reader'.time \in Nat
  BY DEF ClustersTypeOK, ReadersAndReports
<1>2. ShownOnce' /\ ReadInOrder'
  BY <1>1, OrderKept, Zenon DEF RestartsInv
<1>3. RowsOK' /\ RecordedOK'
  BY RecordsKept, Zenon DEF RestartsInv
<1> QED BY <1>2, <1>3, Zenon DEF RestartsInv

\* The reader's other steps.
LEMMA ReaderKeepsInv ==
    ASSUME RestartsInv,
           \/ ReadBegins
           \/ \E h \in Hosts : MoveReader(h)
           \/ \E r \in reports : ReportGivenUp(r)
    PROVE  RestartsInv'
<1>0. /\ pods' = pods /\ row' = row /\ restarts' = restarts /\ now' = now
      /\ ClustersTypeOK
  BY Zenon DEF ReadBegins, MoveReader, ReportGivenUp, clusterVars, storeVars, RestartsInv
<1>1. CASE ReadBegins
  <2>1. reader' = [[reader EXCEPT !.phase = "reading"] EXCEPT !.time = now] /\ reports' = reports
    BY <1>1 DEF ReadBegins
  <2>2. /\ reader' \in [host : Hosts, phase : {"idle", "reading", "reporting"}, time : Nat]
        /\ reader'.time = now
    BY <1>0, <2>1, Zenon DEF ClustersTypeOK, ReadersAndReports
  <2>3. ClustersTypeOK' /\ reader.time <= reader'.time
    BY <1>0, <2>1, <2>2 DEF ClustersTypeOK, ReadersAndReports
  <2>4. Known' = Known
    BY <1>0, <2>1, Zenon DEF Known
  <2> QED BY <1>0, <2>3, <2>4, QuietKeepsInv
<1>2. ASSUME NEW h \in Hosts, MoveReader(h) PROVE RestartsInv'
  <2>1. reader' = [[reader EXCEPT !.host = h] EXCEPT !.phase = "idle"] /\ reports' = reports
    BY <1>2, Zenon DEF MoveReader
  <2>2. /\ reader' \in [host : Hosts, phase : {"idle", "reading", "reporting"}, time : Nat]
        /\ reader'.time = reader.time /\ reader.time \in Nat
    BY <1>0, <2>1, Zenon DEF ClustersTypeOK, ReadersAndReports
  <2>3. ClustersTypeOK' /\ reader.time <= reader'.time
    BY <1>0, <2>1, <2>2 DEF ClustersTypeOK, ReadersAndReports
  <2>4. Known' = Known
    BY <1>0, <2>1, Zenon DEF Known
  <2> QED BY <1>0, <2>3, <2>4, QuietKeepsInv
<1>3. ASSUME NEW r \in reports, ReportGivenUp(r) PROVE RestartsInv'
  <2>0. r \in [host : Hosts, late : BOOLEAN, error : BOOLEAN, state : SavedStates]
    BY <1>0 DEF ClustersTypeOK, ReadersAndReports
  <2>1. PICK late : late = [r EXCEPT !.late = TRUE]
    BY Zenon
  <2>2. /\ late \in [host : Hosts, late : BOOLEAN, error : BOOLEAN, state : SavedStates]
        /\ late.error = r.error /\ late.state = r.state
    BY <2>0, <2>1, Zenon
  <2>3. reports' = (reports \ {r}) \cup {late} /\ reader' = [reader EXCEPT !.phase = "idle"]
    BY <1>3, <2>1, Zenon DEF ReportGivenUp
  <2>4. /\ reader' \in [host : Hosts, phase : {"idle", "reading", "reporting"}, time : Nat]
        /\ reader'.time = reader.time /\ reader.time \in Nat
    BY <1>0, <2>3 DEF ClustersTypeOK, ReadersAndReports
  <2>5. ReadersAndReports'
    BY <1>0, <2>2, <2>3, <2>4 DEF ClustersTypeOK, ReadersAndReports
  <2>6. ClustersTypeOK' /\ reader.time <= reader'.time
    BY <1>0, <2>4, <2>5 DEF ClustersTypeOK
  <2>7. Known' \subseteq Known
    BY <1>0, <2>2, <2>3 DEF Known
  <2> QED BY <1>0, <2>6, <2>7, QuietKeepsInv
<1> QED BY <1>1, <1>2, <1>3

-----------------------------------------------------------------------------
(* Steps of the store *)

\* The answer of a report.
LEMMA AnsweredKeeps ==
    ASSUME ClustersTypeOK, NEW r \in reports, Answered(r), now' = now
    PROVE  /\ ReadersAndReports'
           /\ reader'.time = reader.time /\ reader.time \in Nat
           /\ reports' = reports \ {r}
           /\ r \in [host : Hosts, late : BOOLEAN, error : BOOLEAN, state : SavedStates]
BY DEF ClustersTypeOK, ReadersAndReports, Answered

\* Reports that save no state, and removing and adding hosts and the cluster.
LEMMA StoreKeepsInv ==
    ASSUME RestartsInv,
           \/ \E r \in reports : MakeCluster(r) \/ SaveError(r) \/ ReportDropped(r)
           \/ RemoveCluster
           \/ \E h \in Hosts : RemoveHost(h) \/ AddHost(h)
    PROVE  RestartsInv'
<1>0. pods' = pods /\ now' = now /\ ClustersTypeOK
  BY DEF MakeCluster, SaveError, ReportDropped, RemoveCluster, RemoveHost, AddHost, clusterVars, RestartsInv
<1>1. ASSUME NEW r \in reports, MakeCluster(r) PROVE RestartsInv'
  <2>1. /\ row = None /\ r.host \in hosts /\ Answered(r) /\ restarts' = restarts
        /\ row' = [host |-> r.host, state |-> IF r.error THEN NoState ELSE r.state]
    BY <1>1 DEF MakeCluster
  <2>2. /\ ReadersAndReports' /\ reader'.time = reader.time /\ reader.time \in Nat
        /\ reports' = reports \ {r}
        /\ r \in [host : Hosts, late : BOOLEAN, error : BOOLEAN, state : SavedStates]
    BY <1>0, <2>1, AnsweredKeeps, Zenon
  <2>3. row' \in ClusterRows
    BY <2>1, <2>2, NoStateTyped DEF ClusterRows
  <2>4. ClustersTypeOK' /\ reader.time <= reader'.time
    BY <1>0, <2>1, <2>2, <2>3 DEF ClustersTypeOK
  <2>5. Known' \subseteq Known \cup {NoState}
    <3>1. row'.state = NoState \/ (~r.error /\ row'.state = r.state)
      BY <2>1
    <3> QED BY <2>2, <3>1 DEF Known
  <2> QED BY <1>0, <2>1, <2>4, <2>5, QuietKeepsInv, Zenon
<1>2. ASSUME NEW r \in reports, SaveError(r) PROVE RestartsInv'
  <2>1. /\ row # None /\ r.host \in hosts /\ Answered(r) /\ restarts' = restarts
        /\ row' = [row EXCEPT !.host = r.host]
    BY <1>2 DEF SaveError
  <2>2. /\ ReadersAndReports' /\ reader'.time = reader.time /\ reader.time \in Nat
        /\ reports' = reports \ {r}
        /\ r \in [host : Hosts, late : BOOLEAN, error : BOOLEAN, state : SavedStates]
    BY <1>0, <2>1, AnsweredKeeps, Zenon
  <2>3. row' \in ClusterRows /\ row'.state = row.state
    BY <1>0, <2>1, <2>2 DEF ClustersTypeOK, ClusterRows
  <2>4. ClustersTypeOK' /\ reader.time <= reader'.time /\ row' # None
    BY <1>0, <2>1, <2>2, <2>3, ClustersAssumption DEF ClustersTypeOK, ClustersAssumption
  <2>5. Known' \subseteq Known \cup {NoState}
    BY <2>1, <2>2, <2>3 DEF Known
  <2> QED BY <1>0, <2>1, <2>3, <2>4, <2>5, QuietKeepsInv, Zenon
<1>3. ASSUME NEW r \in reports, ReportDropped(r) PROVE RestartsInv'
  <2>1. Answered(r) /\ restarts' = restarts /\ row' = row
    BY <1>3 DEF ReportDropped, storeVars
  <2>2. /\ ReadersAndReports' /\ reader'.time = reader.time /\ reader.time \in Nat
        /\ reports' = reports \ {r}
    BY <1>0, <2>1, AnsweredKeeps, Zenon
  <2>4. ClustersTypeOK' /\ reader.time <= reader'.time
    BY <1>0, <2>1, <2>2 DEF ClustersTypeOK
  <2>5. Known' \subseteq Known \cup {NoState}
    BY <2>1, <2>2 DEF Known
  <2> QED BY <1>0, <2>1, <2>4, <2>5, QuietKeepsInv, Zenon
<1>4. CASE RemoveCluster
  <2>1. row' = None /\ restarts' = {} /\ reader' = reader /\ reports' = reports
    BY <1>4 DEF RemoveCluster, readerVars
  <2>2. ClustersTypeOK' /\ reader.time <= reader'.time /\ reader'.time \in Nat
    BY <1>0, <2>1 DEF ClustersTypeOK, ReadersAndReports
  <2>3. Known' \subseteq Known \cup {NoState}
    BY <2>1 DEF Known
  <2>4. ShownOnce' /\ ReadInOrder'
    BY <1>0, <2>2, <2>3, OrderKept, Zenon DEF RestartsInv
  <2>5. RowsOK'
    BY <2>1, FS_EmptySet DEF RowsOK, RowsOf
  <2>6. RecordedOK'
    BY <2>1 DEF RecordedOK
  <2> QED BY <2>2, <2>4, <2>5, <2>6, Zenon DEF RestartsInv
<1>5. ASSUME NEW h \in Hosts, RemoveHost(h) PROVE RestartsInv'
  <2>1. /\ restarts' = restarts /\ reader' = reader /\ reports' = reports
        /\ row' = IF row # None /\ row.host = h THEN [row EXCEPT !.host = None] ELSE row
    BY <1>5 DEF RemoveHost, readerVars
  <2>2. row # None => row' \in ClusterRows /\ row'.state = row.state /\ row' # None
    BY <1>0, <2>1, ClustersAssumption DEF ClustersTypeOK, ClusterRows, ClustersAssumption
  <2>3. row = None => row' = None
    BY <2>1
  <2>4. ClustersTypeOK' /\ reader.time <= reader'.time
    BY <1>0, <2>1, <2>2, <2>3 DEF ClustersTypeOK, ReadersAndReports
  <2>5. Known' \subseteq Known \cup {NoState}
    BY <2>1, <2>2, <2>3 DEF Known
  <2> QED BY <1>0, <2>1, <2>2, <2>4, <2>5, QuietKeepsInv, Zenon
<1>6. ASSUME NEW h \in Hosts, AddHost(h) PROVE RestartsInv'
  <2>1. restarts' = restarts /\ reader' = reader /\ reports' = reports /\ row' = row
    BY <1>6 DEF AddHost, readerVars
  <2>2. ClustersTypeOK' /\ reader.time <= reader'.time
    BY <1>0, <2>1 DEF ClustersTypeOK, ReadersAndReports
  <2>3. Known' \subseteq Known \cup {NoState}
    BY <2>1 DEF Known
  <2> QED BY <1>0, <2>1, <2>2, <2>3, QuietKeepsInv, Zenon
<1> QED BY <1>1, <1>2, <1>3, <1>4, <1>5, <1>6

\* The states a report brings and replaces are known.
LEMMA SaveStateStates ==
    ASSUME RestartsInv, NEW r \in reports, SaveState(r)
    PROVE  /\ row.state \in Known /\ r.state \in Known
           /\ row.state \in SavedStates /\ r.state \in SavedStates
           /\ row.state.time < r.state.time
           /\ row' # None /\ row' \in ClusterRows /\ row'.state = r.state
           /\ Known' \subseteq Known
<1>1. /\ row # None /\ ~r.error /\ Answered(r)
      /\ row' = [host |-> r.host, state |-> r.state]
      /\ r.state.time > row.state.time
  BY DEF SaveState, Newer
<1>2. row.state \in Known /\ r.state \in Known
  BY <1>1 DEF Known
<1>3. row.state \in SavedStates /\ r.state \in SavedStates
  BY <1>2, KnownTyped, Zenon DEF RestartsInv
<1>4. row.state.time < r.state.time
  BY <1>1, <1>3 DEF SavedStates
<1>5. r.host \in Hosts /\ reports' = reports \ {r}
  BY <1>1 DEF RestartsInv, ClustersTypeOK, ReadersAndReports, Answered
<1>6. row' \in ClusterRows /\ row'.state = r.state
  BY <1>1, <1>3, <1>5 DEF ClusterRows
<1>7. row' # None
  BY <1>6, ClustersAssumption DEF ClustersAssumption
<1>8. Known' \subseteq Known
  <2>1. {q \in reports' : ~q.error} \subseteq {q \in reports : ~q.error}
    BY <1>5
  <2> QED BY <1>2, <1>6, <1>7, <2>1 DEF Known
<1> QED BY <1>2, <1>3, <1>4, <1>6, <1>7, <1>8, Zenon

\* Restarts counts no more than there were between two states, and all of them when
\* no counter started again.
LEMMA CountedOK ==
    ASSUME NEW prev \in SavedStates, NEW next \in SavedStates, NEW p \in Pods,
           next.pods[p] # None => CounterOK(next.pods[p]),
           prev.pods[p] # None => CounterOK(prev.pods[p]),
           prev.pods[p] # None /\ next.pods[p] # None => Grew(prev.pods[p], next.pods[p])
    PROVE  /\ Counted(prev, next, p) \in Nat
           /\ next.pods[p] = None => Counted(prev, next, p) = 0
           /\ next.pods[p] # None /\ prev.pods[p] = None => Counted(prev, next, p) <= next.pods[p].restarted
           /\ next.pods[p] # None /\ prev.pods[p] # None =>
                 Counted(prev, next, p) <= next.pods[p].restarted - prev.pods[p].restarted
           /\ prev.time > 0 /\ next.pods[p] # None /\ ~next.pods[p].reset =>
                 \/ prev.pods[p] = None /\ next.pods[p].created <= prev.time
                 \/ prev.pods[p] = None /\ Counted(prev, next, p) = next.pods[p].restarted
                 \/ /\ prev.pods[p] # None
                    /\ Counted(prev, next, p) = next.pods[p].restarted - prev.pods[p].restarted
<1>0. prev.time \in Nat
  BY DEF SavedStates
<1>1. CASE next.pods[p] = None
  BY <1>1 DEF Counted
<1>2. CASE next.pods[p] # None /\ prev.pods[p] = None
  <2>1. PICK y \in PodStates : y = next.pods[p]
    BY <1>2 DEF SavedStates
  <2>2. y.count \in Nat /\ y.restarted \in Nat /\ y.created \in Nat /\ CounterOK(y)
    BY <1>2, <2>1, GrewTypes
  <2>3. Counted(prev, next, p) = IF prev.time = 0 \/ y.created <= prev.time THEN 0 ELSE y.count
    BY <1>2, <2>1 DEF Counted
  <2> QED BY <1>0, <1>2, <2>1, <2>2, <2>3 DEF CounterOK
<1>3. CASE next.pods[p] # None /\ prev.pods[p] # None
  <2>1. PICK y \in PodStates : y = next.pods[p]
    BY <1>3 DEF SavedStates
  <2>2. PICK x \in PodStates : x = prev.pods[p]
    BY <1>3 DEF SavedStates
  <2>3. /\ y.count \in Nat /\ y.restarted \in Nat /\ CounterOK(y)
        /\ x.count \in Nat /\ x.restarted \in Nat /\ CounterOK(x)
        /\ Grew(x, y)
    BY <1>3, <2>1, <2>2, GrewTypes
  <2>4. Counted(prev, next, p) = IF prev.time = 0 THEN 0
                                 ELSE IF x.count <= y.count THEN y.count - x.count ELSE y.count
    BY <1>3, <2>1, <2>2 DEF Counted
  <2>5. /\ Counted(prev, next, p) \in Nat
        /\ Counted(prev, next, p) <= y.restarted - x.restarted
    BY <2>3, <2>4 DEF Grew
  <2>6. prev.time > 0 /\ ~y.reset => Counted(prev, next, p) = y.restarted - x.restarted
    <3> SUFFICES ASSUME prev.time > 0, ~y.reset PROVE Counted(prev, next, p) = y.restarted - x.restarted
      OBVIOUS
    <3>1. y.count = y.restarted /\ x.count = x.restarted /\ x.restarted <= y.restarted
      BY <2>3 DEF CounterOK, Grew
    <3> QED BY <1>0, <2>3, <2>4, <3>1
  <2> QED BY <1>3, <2>1, <2>2, <2>5, <2>6
<1> QED BY <1>1, <1>2, <1>3

\* Saving a state records what was counted.
LEMMA SaveStateRecords ==
    ASSUME RestartsInv, NEW r \in reports, SaveState(r), NEW p \in Pods
    PROVE  /\ Counted(row.state, r.state, p) \in Nat
           /\ Recorded(p)' = Recorded(p) + Counted(row.state, r.state, p)
           /\ IsFiniteSet(RowsOf(p)')
           /\ r.state.pods[p] = None => Counted(row.state, r.state, p) = 0
           /\ r.state.pods[p] # None /\ row.state.pods[p] = None =>
                 Counted(row.state, r.state, p) <= r.state.pods[p].restarted
           /\ r.state.pods[p] # None /\ row.state.pods[p] # None =>
                 Counted(row.state, r.state, p) <= r.state.pods[p].restarted - row.state.pods[p].restarted
           /\ row.state.time > 0 /\ r.state.pods[p] # None /\ ~r.state.pods[p].reset =>
                 \/ row.state.pods[p] = None /\ r.state.pods[p].created <= row.state.time
                 \/ row.state.pods[p] = None /\ Counted(row.state, r.state, p) = r.state.pods[p].restarted
                 \/ /\ row.state.pods[p] # None
                    /\ Counted(row.state, r.state, p) = r.state.pods[p].restarted - row.state.pods[p].restarted
<1>1. PICK prev : prev = row.state
  BY Zenon
<1>2. PICK next : next = r.state
  BY Zenon
<1>3. /\ prev \in Known /\ next \in Known /\ prev \in SavedStates /\ next \in SavedStates
      /\ prev.time < next.time
  BY <1>1, <1>2, SaveStateStates, Zenon
<1>4. /\ next.pods[p] # None => CounterOK(next.pods[p])
      /\ prev.pods[p] # None => CounterOK(prev.pods[p])
      /\ prev.pods[p] # None /\ next.pods[p] # None => Grew(prev.pods[p], next.pods[p])
  BY <1>3, Zenon DEF RestartsInv, ShownOnce, ReadInOrder
<1>5. PICK n : n = Counted(prev, next, p)
  BY Zenon
<1>6. /\ n \in Nat
      /\ next.pods[p] = None => n = 0
      /\ next.pods[p] # None /\ prev.pods[p] = None => n <= next.pods[p].restarted
      /\ next.pods[p] # None /\ prev.pods[p] # None => n <= next.pods[p].restarted - prev.pods[p].restarted
      /\ prev.time > 0 /\ next.pods[p] # None /\ ~next.pods[p].reset =>
            \/ prev.pods[p] = None /\ next.pods[p].created <= prev.time
            \/ prev.pods[p] = None /\ n = next.pods[p].restarted
            \/ prev.pods[p] # None /\ n = next.pods[p].restarted - prev.pods[p].restarted
  BY <1>3, <1>4, <1>5, CountedOK
<1>7. PICK new : new = [time |-> next.time, pod |-> p, count |-> n]
  BY Zenon
<1>8. RowsOf(p)' = IF n > 0 THEN RowsOf(p) \cup {new} ELSE RowsOf(p)
  <2>1. restarts' = restarts \cup {[time |-> next.time, pod |-> q, count |-> Counted(prev, next, q)] :
                                  q \in {q \in Pods : Counted(prev, next, q) > 0}}
    BY <1>1, <1>2, Zenon DEF SaveState, SaveRestarts
  <2> DEFINE Of(q) == [time |-> next.time, pod |-> q, count |-> Counted(prev, next, q)]
  <2>2. \A q \in Pods : Of(q).pod = q
    OBVIOUS
  <2>3. Of(p) = new
    BY <1>5, <1>7
  <2>4. restarts' = restarts \cup {Of(q) : q \in {q \in Pods : Counted(prev, next, q) > 0}}
    BY <2>1, Zenon
  <2> HIDE DEF Of
  <2> QED BY <1>5, <2>2, <2>3, <2>4 DEF RowsOf
<1>9. IsFiniteSet(RowsOf(p)) /\ \A x \in RowsOf(p) : x.count \in Nat /\ x.time \in Nat /\ x.time <= prev.time
  <2>1. row # None
    BY DEF SaveState
  <2> QED BY <1>1, <2>1 DEF RestartsInv, RowsOK, RowsOf, ClustersTypeOK
<1>10. new \notin RowsOf(p) /\ new.count = n
  <2>1. new.time = next.time /\ new.count = n
    BY <1>7
  <2>2. next.time \in Nat /\ prev.time \in Nat
    BY <1>3 DEF SavedStates
  <2> QED BY <1>3, <1>9, <2>1, <2>2
<1>11. Recorded(p) \in Nat
  BY RecordedType DEF RestartsInv
<1>12. CASE n > 0
  <2>1. RowsOf(p)' = RowsOf(p) \cup {new}
    BY <1>8, <1>12
  <2>2. CountOf(RowsOf(p) \cup {new}) = CountOf(RowsOf(p)) + n
    <3>1. \A x \in RowsOf(p) \cup {new} : x.count \in Nat
      BY <1>6, <1>9, <1>10
    <3>2. CountOf(RowsOf(p) \cup {new}) = CountOf(RowsOf(p)) + new.count
      BY <1>9, <1>10, <3>1, CountAdds
    <3> QED BY <1>10, <3>2
  <2>3. IsFiniteSet(RowsOf(p) \cup {new})
    BY <1>9, FS_AddElement
  <2>4. Recorded(p)' = Recorded(p) + n /\ IsFiniteSet(RowsOf(p)')
    BY <2>1, <2>2, <2>3, Zenon DEF Recorded
  <2> QED BY <1>1, <1>2, <1>5, <1>6, <2>4
<1>13. CASE ~(n > 0)
  <2>1. n = 0 /\ RowsOf(p)' = RowsOf(p)
    BY <1>6, <1>8, <1>13
  <2>2. Recorded(p)' = Recorded(p)
    BY <2>1, Zenon DEF Recorded
  <2>3. Recorded(p)' = Recorded(p) + n /\ IsFiniteSet(RowsOf(p)')
    BY <1>9, <1>11, <2>1, <2>2
  <2> QED BY <1>1, <1>2, <1>5, <1>6, <2>3
<1> QED BY <1>12, <1>13

LEMMA SaveStateKeepsInv ==
    ASSUME RestartsInv, NEW r \in reports, SaveState(r)
    PROVE  RestartsInv'
<1>0. /\ ClustersTypeOK /\ pods' = pods /\ now' = now /\ Answered(r) /\ row # None
      /\ SaveRestarts(row.state, r.state)
  BY DEF RestartsInv, SaveState, clusterVars
<1>1. /\ row.state \in Known /\ r.state \in Known
      /\ row.state \in SavedStates /\ r.state \in SavedStates
      /\ row.state.time < r.state.time
      /\ row' # None /\ row' \in ClusterRows /\ row'.state = r.state
      /\ Known' \subseteq Known
  BY SaveStateStates, Zenon
<1>2. /\ ReadersAndReports' /\ reader'.time = reader.time /\ reader.time \in Nat
  BY <1>0, AnsweredKeeps, Zenon
<1>3. row.state.time \in Nat /\ r.state.time \in Nat
  BY <1>1 DEF SavedStates
<1>4. \A x \in restarts' : x \in restarts \/ x.time = r.state.time
  BY <1>0 DEF SaveRestarts
<1>5. restarts' \subseteq [time : Nat, pod : Pods, count : Nat]
  <2>1. \A p \in Pods : Counted(row.state, r.state, p) \in Nat
    BY SaveStateRecords, Zenon
  <2>2. {[time |-> r.state.time, pod |-> p, count |-> Counted(row.state, r.state, p)] :
            p \in {q \in Pods : Counted(row.state, r.state, q) > 0}} \subseteq [time : Nat, pod : Pods, count : Nat]
    BY <1>3, <2>1
  <2> QED BY <1>0, <2>2 DEF SaveRestarts, ClustersTypeOK
<1>6. ClustersTypeOK'
  BY <1>0, <1>1, <1>2, <1>5 DEF ClustersTypeOK
<1>7. ShownOnce' /\ ReadInOrder'
  <2>1. reader.time <= reader'.time /\ reader'.time \in Nat /\ Known' \subseteq Known \cup {NoState}
    BY <1>1, <1>2
  <2> QED BY <1>0, <2>1, OrderKept, Zenon DEF RestartsInv
<1>8. RowsOK'
  <2>1. \A p \in Pods : IsFiniteSet(RowsOf(p)')
    BY SaveStateRecords, Zenon
  <2>2. \A x \in restarts : x.time \in Nat /\ x.time <= row.state.time
    BY <1>0 DEF RestartsInv, RowsOK, ClustersTypeOK
  <2>3. \A x \in restarts' : x.time <= r.state.time
    BY <1>1, <1>3, <1>4, <2>2
  <2> QED BY <1>1, <2>1, <2>3 DEF RowsOK
<1>9. RecordedOK'
  <2> SUFFICES ASSUME NEW p \in Pods
               PROVE  /\ r.state.pods[p] # None => Recorded(p)' <= r.state.pods[p].restarted
                      /\ r.state.pods[p] = None /\ Recorded(p)' # 0 =>
                            /\ pods[p].life = "deleted"
                            /\ Recorded(p)' <= pods[p].restarted
                            /\ \A s \in Known : r.state.time < s.time => s.pods[p] = None
    BY <1>0, <1>1 DEF RecordedOK
  <2>1. PICK n : n = Counted(row.state, r.state, p)
    BY Zenon
  <2>2. /\ n \in Nat /\ Recorded(p)' = Recorded(p) + n
        /\ r.state.pods[p] = None => n = 0
        /\ r.state.pods[p] # None /\ row.state.pods[p] = None => n <= r.state.pods[p].restarted
        /\ r.state.pods[p] # None /\ row.state.pods[p] # None =>
              n <= r.state.pods[p].restarted - row.state.pods[p].restarted
    BY <2>1, SaveStateRecords, Zenon
  <2>3. Recorded(p) \in Nat
    BY <1>0, RecordedType DEF RestartsInv
  <2>4. /\ row.state.pods[p] # None => Recorded(p) <= row.state.pods[p].restarted
        /\ row.state.pods[p] = None /\ Recorded(p) # 0 =>
              /\ pods[p].life = "deleted"
              /\ Recorded(p) <= pods[p].restarted
              /\ \A s \in Known : row.state.time < s.time => s.pods[p] = None
    BY <1>0, Zenon DEF RestartsInv, RecordedOK
  <2>5. /\ row.state.pods[p] # None => row.state.pods[p].restarted \in Nat
        /\ r.state.pods[p] # None => r.state.pods[p].restarted \in Nat
        /\ pods[p].restarted \in Nat
    BY <1>0, <1>1, GrewTypes DEF SavedStates, ClustersTypeOK
  <2>6. CASE r.state.pods[p] # None
    <3>1. row.state.pods[p] = None => Recorded(p) = 0
      BY <1>1, <2>4, <2>6, Zenon
    <3> QED BY <2>2, <2>3, <2>4, <2>5, <2>6, <3>1
  <2>7. CASE r.state.pods[p] = None /\ row.state.pods[p] # None
    <3>1. /\ pods[p].life = "deleted"
          /\ \A s \in Known : r.state.time < s.time => s.pods[p] = None
      BY <1>1, <2>7, Zenon DEF RestartsInv, ReadInOrder
    <3>2. row.state.pods[p].restarted <= pods[p].restarted
      BY <1>1, <2>7 DEF RestartsInv, ShownOnce, Grew
    <3>3. Recorded(p)' <= pods[p].restarted
      BY <2>2, <2>3, <2>4, <2>5, <2>7, <3>2
    <3> QED BY <2>7, <3>1, <3>3
  <2>8. CASE r.state.pods[p] = None /\ row.state.pods[p] = None
    <3>1. Recorded(p)' = Recorded(p)
      BY <2>2, <2>3, <2>8
    <3>2. \A s \in Known : s.time \in Nat
      BY <1>0, KnownTyped DEF SavedStates
    <3>3. \A s \in Known : r.state.time < s.time => row.state.time < s.time
      BY <1>1, <1>3, <3>2
    <3> QED BY <2>4, <2>8, <3>1, <3>3
  <2> QED BY <2>6, <2>7, <2>8
<1> QED BY <1>6, <1>7, <1>8, <1>9 DEF RestartsInv

-----------------------------------------------------------------------------
(* The invariant *)

LEMMA RestartsInvInit == Init => RestartsInv
<1> SUFFICES ASSUME Init PROVE RestartsInv
  OBVIOUS
<1>1. /\ pods = [p \in Pods |-> Unborn] /\ reports = {} /\ row = None /\ restarts = {}
      /\ reader \in [host : Hosts, phase : {"idle"}, time : {0}]
      /\ now \in 1 .. MaxTime /\ MaxTime \in Nat
  BY ClustersAssumption DEF Init, ClustersAssumption
<1>2. Unborn \in PodStates /\ CounterOK(Unborn)
  BY DEF Unborn, PodStates, CounterOK
<1>3. ClustersTypeOK
  <2>1. reader \in [host : Hosts, phase : {"idle", "reading", "reporting"}, time : Nat] /\ reader.time = 0
    BY <1>1
  <2> QED BY <1>1, <1>2, <2>1 DEF ClustersTypeOK, ReadersAndReports
<1>4. Known = {}
  BY <1>1 DEF Known
<1>5. ShownOnce /\ ReadInOrder
  BY <1>1, <1>2, <1>4 DEF ShownOnce, ReadInOrder
<1>6. RowsOK
  BY <1>1, FS_EmptySet DEF RowsOK, RowsOf
<1>7. RecordedOK
  BY <1>1 DEF RecordedOK
<1> QED BY <1>3, <1>5, <1>6, <1>7 DEF RestartsInv

\* Steps of the evaluator and the clock.
LEMMA OthersKeepInv ==
    ASSUME RestartsInv, Evaluate \/ CollectorRestarts \/ Tick \/ UNCHANGED vars
    PROVE  RestartsInv'
<1>1. /\ pods' = pods /\ reader' = reader /\ reports' = reports /\ row' = row /\ restarts' = restarts
      /\ now' = now \/ (now < MaxTime /\ now' = now + 1)
      /\ ClustersTypeOK
  BY Zenon DEF Evaluate, CollectorRestarts, Tick, vars, clusterVars, readerVars, storeVars, RestartsInv
<1>2. ClustersTypeOK' /\ reader.time <= reader'.time
  <2>1. ReadersAndReports' /\ reader.time \in Nat
    BY <1>1 DEF ClustersTypeOK, ReadersAndReports
  <2>2. now' \in Nat /\ reader.time <= now' /\ now' <= MaxTime
    BY <1>1, <2>1, ClustersAssumption DEF ClustersTypeOK, ClustersAssumption
  <2> QED BY <1>1, <2>1, <2>2 DEF ClustersTypeOK
<1>3. Known' \subseteq Known \cup {NoState}
  BY <1>1 DEF Known
<1> QED BY <1>1, <1>2, <1>3, QuietKeepsInv, Zenon

LEMMA RestartsInvStep == RestartsInv /\ [Next]_vars => RestartsInv'
<1> SUFFICES ASSUME RestartsInv, [Next]_vars PROVE RestartsInv'
  OBVIOUS
<1>1. CASE ClusterNext
  BY <1>1, PodsKeepInv, Zenon DEF ClusterNext, PodStep
<1>2. CASE ReaderNext
  BY <1>2, ReadEndsKeepsInv, ReaderKeepsInv, Zenon DEF ReaderNext
<1>3. CASE StoreNext
  BY <1>3, SaveStateKeepsInv, StoreKeepsInv, Zenon DEF StoreNext, Saves
<1>4. CASE Evaluate \/ CollectorRestarts \/ Tick \/ UNCHANGED vars
  BY <1>4, OthersKeepInv, Zenon
<1> QED BY <1>1, <1>2, <1>3, <1>4, Zenon DEF Next

\* Whatever reports are late, fail or come from another reader, and whatever counters
\* start again: the rows that saveClusterMetrics makes never add up to more restarts
\* of a pod than its container made.
THEOREM RestartsNeverOvercounted == Spec => []NeverOvercounted
<1>1. RestartsInv => NeverOvercounted
  <2> SUFFICES ASSUME RestartsInv, NEW p \in Pods PROVE Recorded(p) <= pods[p].restarted
    BY Zenon DEF NeverOvercounted
  <2>1. Recorded(p) \in Nat /\ pods[p].restarted \in Nat
    BY RecordedType, GrewTypes DEF RestartsInv, ClustersTypeOK
  <2>2. CASE row = None
    <3>1. RowsOf(p) = {}
      BY <2>2 DEF RestartsInv, RowsOK, RowsOf
    <3> QED BY <2>1, <3>1, NothingRecorded
  <2>3. CASE row # None /\ row.state.pods[p] = None
    BY <2>1, <2>3 DEF RestartsInv, RecordedOK
  <2>4. CASE row # None /\ row.state.pods[p] # None
    <3>1. row.state \in Known
      BY <2>4 DEF Known
    <3>2. row.state.pods[p].restarted \in Nat
      BY <2>4, <3>1, KnownTyped, GrewTypes DEF RestartsInv, SavedStates
    <3>3. row.state.pods[p].restarted <= pods[p].restarted
      BY <2>4, <3>1 DEF RestartsInv, ShownOnce, Grew
    <3>4. Recorded(p) <= row.state.pods[p].restarted
      BY <2>4 DEF RestartsInv, RecordedOK
    <3> QED BY <2>1, <3>2, <3>3, <3>4
  <2> QED BY <2>2, <2>3, <2>4
<1> QED BY <1>1, RestartsInvInit, RestartsInvStep, PTL DEF Spec

\* A step that saves no state records nothing and changes no state.
LEMMA OthersRecordNothing ==
    ASSUME RestartsInv, [Next]_vars, \A r \in reports : ~SaveState(r)
    PROVE  row = None \/ row' = None \/ (row'.state = row.state /\ restarts' = restarts)
<1>0. ClustersTypeOK
  BY DEF RestartsInv
<1>1. CASE ClusterNext
  BY <1>1 DEF ClusterNext, PodCreated, PodRestarts, CounterLost, PodDeleted, storeVars
<1>2. CASE ReaderNext
  BY <1>2 DEF ReaderNext, ReadBegins, ReadEnds, MoveReader, ReportGivenUp, storeVars
<1>3. CASE Evaluate \/ CollectorRestarts \/ Tick \/ UNCHANGED vars
  BY <1>3, Zenon DEF Evaluate, CollectorRestarts, Tick, vars, storeVars
<1>4. ASSUME NEW r \in reports, MakeCluster(r) \/ SaveError(r) \/ ReportDropped(r)
      PROVE  row = None \/ row' = None \/ (row'.state = row.state /\ restarts' = restarts)
  BY <1>0, <1>4 DEF MakeCluster, SaveError, ReportDropped, storeVars, ClustersTypeOK, ClusterRows
<1>5. CASE RemoveCluster
  BY <1>5 DEF RemoveCluster
<1>6. ASSUME NEW h \in Hosts, RemoveHost(h) \/ AddHost(h)
      PROVE  row = None \/ row' = None \/ (row'.state = row.state /\ restarts' = restarts)
  BY <1>0, <1>6 DEF RemoveHost, AddHost, ClustersTypeOK, ClusterRows
<1>7. CASE StoreNext
  BY <1>4, <1>5, <1>6, <1>7, Zenon DEF StoreNext, Saves
<1> QED BY <1>1, <1>2, <1>3, <1>7, Zenon DEF Next

LEMMA StepsRecordAll ==
    ASSUME RestartsInv, [Next]_vars, NEW p \in Pods
    PROVE  AllRecorded(p)
<1> SUFFICES ASSUME row # None, row' # None, row.state.time > 0, row'.state.pods[p] # None,
                    ~row'.state.pods[p].reset
             PROVE  \/ row.state.pods[p] = None /\ row'.state.pods[p].created <= row.state.time
                    \/ Recorded(p)' - Recorded(p) =
                           row'.state.pods[p].restarted
                           - (IF row.state.pods[p] = None THEN 0 ELSE row.state.pods[p].restarted)
  BY Zenon DEF AllRecorded
<1>0. Recorded(p) \in Nat
  BY RecordedType DEF RestartsInv
<1>1. ASSUME NEW r \in reports, SaveState(r)
      PROVE  \/ row.state.pods[p] = None /\ row'.state.pods[p].created <= row.state.time
             \/ Recorded(p)' - Recorded(p) =
                    row'.state.pods[p].restarted
                    - (IF row.state.pods[p] = None THEN 0 ELSE row.state.pods[p].restarted)
  <2>1. row'.state = r.state /\ r.state \in SavedStates
    BY <1>1, SaveStateStates, Zenon
  <2>2. r.state.pods[p].restarted \in Nat
    BY <2>1, GrewTypes DEF SavedStates
  <2>3. PICK n : n = Counted(row.state, r.state, p)
    BY Zenon
  <2>4. /\ n \in Nat /\ Recorded(p)' = Recorded(p) + n
        /\ \/ row.state.pods[p] = None /\ r.state.pods[p].created <= row.state.time
           \/ row.state.pods[p] = None /\ n = r.state.pods[p].restarted
           \/ row.state.pods[p] # None /\ n = r.state.pods[p].restarted - row.state.pods[p].restarted
    BY <1>1, <2>1, <2>3, SaveStateRecords, Zenon
  <2> QED BY <1>0, <2>1, <2>2, <2>4
<1>2. CASE \A r \in reports : ~SaveState(r)
  <2>1. row'.state = row.state /\ restarts' = restarts
    BY <1>2, OthersRecordNothing, Zenon
  <2>2. Recorded(p)' = Recorded(p)
    <3>1. RowsOf(p)' = RowsOf(p)
      BY <2>1 DEF RowsOf
    <3> QED BY <3>1, Zenon DEF Recorded
  <2>3. row.state \in Known
    BY DEF Known
  <2>4. row.state.pods[p].restarted \in Nat
    BY <2>1, <2>3, KnownTyped, GrewTypes DEF RestartsInv, SavedStates
  <2> QED BY <1>0, <2>1, <2>2, <2>4
<1> QED BY <1>1, <1>2, Zenon

\* A state that replaces another one records, of every pod whose counter never
\* started again, exactly the restarts since, also after reads that failed and
\* reports that were late: Restarts compares with the state that is saved.
THEOREM NoRestartMissed == Spec => NoneMissed
<1>1. RestartsInv /\ [Next]_vars => [\A p \in Pods : AllRecorded(p)]_vars
  BY StepsRecordAll, Zenon
<1> QED BY <1>1, RestartsInvInit, RestartsInvStep, PTL DEF Spec, NoneMissed

-----------------------------------------------------------------------------
(* What the rules see: sums and cardinalities *)

\* The image of a finite set is finite, and as large when the function is injective.
LEMMA FiniteImage ==
    ASSUME NEW S, IsFiniteSet(S), NEW f, f = [x \in S |-> f[x]], NEW T, T = {f[x] : x \in S}
    PROVE  IsFiniteSet(T) /\ ((\A x, y \in S : f[x] = f[y] => x = y) => Cardinality(T) = Cardinality(S))
<1>1. f \in [S -> T] /\ DOMAIN f = S /\ \A t \in T : \E x \in S : f[x] = t
  OBVIOUS
<1>2. f \in Surjection(S, T)
  BY <1>1, Zenon DEF Surjection
<1>3. IsFiniteSet(T) /\ (f \in Injection(S, T) => Cardinality(T) = Cardinality(S))
  BY <1>2, FS_Surjection, Zenon
<1>4. (\A x, y \in S : f[x] = f[y] => x = y) => f \in Injection(S, T)
  BY <1>1, Zenon DEF Injection, IsInjective
<1> QED BY <1>3, <1>4, Zenon

LEMMA TotalIsSum ==
    ASSUME NEW X, IsFiniteSet(X), \A t \in X : t.value \in Nat
    PROVE  Total(X) = Sum([t \in X |-> t.value], X)
<1>1. PICK f : f = [t \in X |-> t.value]
  BY Zenon
<1>2. f \in [X -> Nat] /\ \A t \in X : f[t] = t.value
  BY <1>1
<1> DEFINE Eq(h) == h = [s \in SUBSET X |-> IF s = {} THEN 0 ELSE Pick(s).value + h[s \ {Pick(s)}]]
<1>3. \A h : IsSum(h, f, X) <=> Eq(h)
  <2>1. \A s \in SUBSET X : s # {} => f[Pick(s)] = Pick(s).value
    BY <1>2, PickIsIn
  <2> SUFFICES ASSUME NEW h
               PROVE  [s \in SUBSET X |-> IF s = {} THEN 0 ELSE f[Pick(s)] + h[s \ {Pick(s)}]]
                      = [s \in SUBSET X |-> IF s = {} THEN 0 ELSE Pick(s).value + h[s \ {Pick(s)}]]
    BY Zenon DEF IsSum
  <2> QED BY <2>1
<1>4. PICK g : IsSum(g, f, X) /\ Sum(f, X) = g[X]
  BY <1>2, SumIsSum, Zenon
<1>5. PICK h : h = (CHOOSE k : Eq(k)) /\ Total(X) = h[X]
  BY Zenon DEF Total, MapThenSumSet, MapThenFoldSet, Pick
<1>6. IsSum(h, f, X)
  <2> HIDE DEF Eq
  <2> QED BY <1>3, <1>4, <1>5, Zenon
<1>7. g[X] = h[X]
  BY <1>2, <1>4, <1>6, SumsAgree
<1> QED BY <1>1, <1>4, <1>5, <1>7, Zenon

\* Another target adds its value.
LEMMA TotalAdds ==
    ASSUME NEW X, IsFiniteSet(X), NEW x, x \notin X, \A t \in X \cup {x} : t.value \in Nat
    PROVE  Total(X \cup {x}) = x.value + Total(X)
<1>1. PICK f : f = [t \in X \cup {x} |-> t.value]
  BY Zenon
<1>2. f \in [X \cup {x} -> Nat] /\ f[x] = x.value
  BY <1>1
<1>3. [t \in X |-> f[t]] = [t \in X |-> t.value]
  BY <1>1
<1>4. IsFiniteSet(X \cup {x})
  BY FS_AddElement
<1>5. Total(X \cup {x}) = Sum(f, X \cup {x}) /\ Total(X) = Sum([t \in X |-> t.value], X)
  BY <1>1, <1>4, TotalIsSum
<1>6. Sum(f, X \cup {x}) = f[x] + Sum([t \in X |-> f[t]], X)
  BY <1>2, SumAdds
<1> QED BY <1>2, <1>3, <1>5, <1>6, Zenon

LEMMA TotalOfNone == Total({}) = 0
<1>1. IsFiniteSet({})
  BY FS_EmptySet
<1>2. Total({}) = Sum([t \in {} |-> t.value], {})
  BY <1>1, TotalIsSum, Zenon
<1>3. [t \in {} |-> t.value] \in [{} -> Nat]
  OBVIOUS
<1> QED BY <1>1, <1>2, <1>3, SumType, Zenon

\* When every element of P counts for the one target of its key, the values of the
\* targets add up to the elements of P.
LEMMA EachCountsOnce ==
    ASSUME NEW K, IsFiniteSet(K), NEW P, IsFiniteSet(P), NEW key \in [P -> K],
           NEW t, \A k \in K : t[k].value = Cardinality({p \in P : key[p] = k}),
           \A j, k \in K : t[j] = t[k] => j = k
    PROVE  Total({t[k] : k \in K}) = Cardinality(P)
<1> DEFINE Of(u) == {p \in P : key[p] \in u}
           Fine(u) == Total({t[k] : k \in u}) = Cardinality(Of(u))
           C == {u \in SUBSET K : ~Fine(u)}
<1>0. \A u : IsFiniteSet(Of(u))
  BY FS_Subset
<1>1. Of(K) = P
  OBVIOUS
<1> SUFFICES ASSUME ~Fine(K) PROVE FALSE
  BY <1>1, Zenon
<1>2. C \subseteq SUBSET K /\ K \in C
  <2> HIDE DEF Fine
  <2> QED OBVIOUS
<1>3. PICK u \in C : \A v \in C : v \subseteq u => v = u
  <2>1. C # {}
    BY <1>2
  <2> HIDE DEF C
  <2> QED BY <1>2, <2>1, SmallestSubset
<1>4. u \in SUBSET K /\ ~Fine(u) /\ IsFiniteSet(u)
  <2>1. u \in SUBSET K /\ ~Fine(u)
    <3> HIDE DEF Fine
    <3> QED BY <1>3
  <2> QED BY <2>1, FS_Subset, Zenon
<1>5. u # {}
  <2> SUFFICES ASSUME u = {} PROVE FALSE
    OBVIOUS
  <2>1. {t[k] : k \in {}} = {} /\ Of({}) = {}
    OBVIOUS
  <2>2. Cardinality({}) = 0
    BY FS_EmptySet
  <2> QED BY <1>4, <2>1, <2>2, TotalOfNone, Zenon
<1>6. PICK k \in u : TRUE
  BY <1>5
<1>7. PICK v : v = u \ {k}
  BY Zenon
<1>8. Fine(v)
  <2> HIDE DEF Fine
  <2>1. v \subseteq u /\ v # u /\ v \in SUBSET K
    BY <1>4, <1>6, <1>7
  <2> QED BY <1>3, <2>1
<1>9. {t[j] : j \in u} = {t[j] : j \in v} \cup {t[k]} /\ t[k] \notin {t[j] : j \in v}
  BY <1>4, <1>6, <1>7
<1>10. IsFiniteSet({t[j] : j \in v})
  <2>1. PICK f : f = [j \in v |-> t[j]]
    BY Zenon
  <2>2. f = [j \in v |-> f[j]] /\ {t[j] : j \in v} = {f[j] : j \in v}
    BY <2>1
  <2>3. IsFiniteSet(v)
    BY <1>4, <1>7, FS_Subset
  <2>4. PICK T : T = {f[j] : j \in v}
    BY Zenon
  <2>5. IsFiniteSet(T)
    BY <2>2, <2>3, <2>4, FiniteImage
  <2> QED BY <2>2, <2>4, <2>5, Zenon
<1>11. PICK Q : Q = {p \in P : key[p] = k}
  BY Zenon
<1>12. Of(u) = Of(v) \cup Q /\ Of(v) \cap Q = {} /\ IsFiniteSet(Q) /\ k \in K
  <2>1. IsFiniteSet(Q)
    BY <1>11, FS_Subset
  <2> QED BY <1>4, <1>6, <1>7, <1>11, <2>1
<1> HIDE DEF Of
<1>13. /\ Cardinality(Of(u)) = Cardinality(Of(v)) + Cardinality(Q)
       /\ Cardinality(Q) \in Nat /\ Cardinality(Of(v)) \in Nat
  <2>1. PICK A : A = Of(v)
    BY Zenon
  <2>2. IsFiniteSet(A) /\ IsFiniteSet(Q) /\ A \cap Q = {}
    BY <1>0, <1>12, <2>1, Zenon
  <2>3. Cardinality(A \cup Q) = Cardinality(A) + Cardinality(Q) - Cardinality(A \cap Q)
    BY <2>2, FS_Union, Zenon
  <2>4. Cardinality({}) = 0 /\ Cardinality(Q) \in Nat /\ Cardinality(A) \in Nat
    BY <2>2, FS_EmptySet, FS_CardinalityType, Zenon
  <2>5. Cardinality(A \cup Q) = Cardinality(A) + Cardinality(Q)
    <3>1. PICK c, d : c = Cardinality(A) /\ d = Cardinality(Q) /\ c \in Nat /\ d \in Nat
      BY <2>4, Zenon
    <3>2. Cardinality(A \cup Q) = c + d - 0
      BY <2>2, <2>3, <2>4, <3>1, Zenon
    <3>3. c + d - 0 = c + d
      BY <3>1
    <3> QED BY <3>1, <3>2, <3>3, Zenon
  <2> QED BY <1>12, <2>1, <2>4, <2>5, Zenon
<1>14. \A x \in {t[j] : j \in v} \cup {t[k]} : x.value \in Nat
  <2>1. \A j \in K : t[j].value \in Nat
    <3> SUFFICES ASSUME NEW j \in K PROVE t[j].value \in Nat
      BY Zenon
    <3>1. IsFiniteSet({p \in P : key[p] = j})
      BY FS_Subset
    <3> QED BY <3>1, FS_CardinalityType, Zenon
  <2> QED BY <1>4, <1>6, <1>7, <2>1
<1>15. Total({t[j] : j \in u}) = t[k].value + Total({t[j] : j \in v})
  <2>1. PICK X, x : X = {t[j] : j \in v} /\ x = t[k]
    BY Zenon
  <2>2. Total(X \cup {x}) = x.value + Total(X)
    BY <1>9, <1>10, <1>14, <2>1, TotalAdds, Zenon
  <2> QED BY <1>9, <2>1, <2>2, Zenon
<1>16. t[k].value = Cardinality(Q)
  BY <1>11, <1>12, Zenon
<1> QED BY <1>4, <1>8, <1>13, <1>15, <1>16

-----------------------------------------------------------------------------
(* What the rules see: the invariant *)

PresentNodes == {n \in NodeNames : objects.nodes[n] # NotThere}
PresentWorkloads == {w \in WorkloadIds : objects.workloads[w] # NotThere}
PresentPods == {p \in PodIds : objects.pods[p] # NotThere}

\* The API shows objects of these forms, and finitely many.
StatesInv ==
    /\ objects \in [nodes : [NodeNames -> NodeForms \cup {NotThere}],
                    workloads : [WorkloadIds -> WorkloadForms \cup {NotThere}],
                    pods : [PodIds -> PodForms \cup {NotThere}]]
    /\ IsFiniteSet(PresentNodes)
    /\ IsFiniteSet(PresentWorkloads)
    /\ IsFiniteSet(PresentPods)

LEMMA StatesInvInit == StatesInit => StatesInv
<1> SUFFICES ASSUME StatesInit PROVE StatesInv
  OBVIOUS
<1>1. PresentNodes = {} /\ PresentWorkloads = {} /\ PresentPods = {}
  BY DEF StatesInit, PresentNodes, PresentWorkloads, PresentPods
<1> QED BY <1>1, FS_EmptySet DEF StatesInit, StatesInv

LEMMA StatesInvStep == StatesInv /\ [StatesNext]_objects => StatesInv'
<1> SUFFICES ASSUME StatesInv, [StatesNext]_objects PROVE StatesInv'
  OBVIOUS
<1>1. ASSUME NEW n \in NodeNames, NEW form \in NodeForms \cup {NotThere}, NodeChanges(n, form)
      PROVE  StatesInv'
  <2>1. IsFiniteSet(PresentNodes \cup {n})
    BY FS_AddElement DEF StatesInv
  <2>2. PresentNodes' \subseteq PresentNodes \cup {n}
    BY <1>1 DEF NodeChanges, StatesInv, PresentNodes
  <2>3. IsFiniteSet(PresentNodes')
    BY <2>1, <2>2, FS_Subset, Zenon
  <2>4. PresentWorkloads' = PresentWorkloads /\ PresentPods' = PresentPods
    BY <1>1 DEF NodeChanges, StatesInv, PresentWorkloads, PresentPods
  <2> QED BY <1>1, <2>3, <2>4 DEF NodeChanges, StatesInv
<1>2. ASSUME NEW w \in WorkloadIds, NEW form \in WorkloadForms \cup {NotThere}, WorkloadChanges(w, form)
      PROVE  StatesInv'
  <2>1. IsFiniteSet(PresentWorkloads \cup {w})
    BY FS_AddElement DEF StatesInv
  <2>2. PresentWorkloads' \subseteq PresentWorkloads \cup {w}
    BY <1>2 DEF WorkloadChanges, StatesInv, PresentWorkloads
  <2>3. IsFiniteSet(PresentWorkloads')
    BY <2>1, <2>2, FS_Subset, Zenon
  <2>4. PresentNodes' = PresentNodes /\ PresentPods' = PresentPods
    BY <1>2 DEF WorkloadChanges, StatesInv, PresentNodes, PresentPods
  <2> QED BY <1>2, <2>3, <2>4 DEF WorkloadChanges, StatesInv
<1>3. ASSUME NEW p \in PodIds, NEW form \in PodForms \cup {NotThere}, PodChanges(p, form)
      PROVE  StatesInv'
  <2>1. IsFiniteSet(PresentPods \cup {p})
    BY FS_AddElement DEF StatesInv
  <2>2. PresentPods' \subseteq PresentPods \cup {p}
    BY <1>3 DEF PodChanges, StatesInv, PresentPods
  <2>3. IsFiniteSet(PresentPods')
    BY <2>1, <2>2, FS_Subset, Zenon
  <2>4. PresentNodes' = PresentNodes /\ PresentWorkloads' = PresentWorkloads
    BY <1>3 DEF PodChanges, StatesInv, PresentNodes, PresentWorkloads
  <2> QED BY <1>3, <2>3, <2>4 DEF PodChanges, StatesInv
<1>4. CASE UNCHANGED objects
  BY <1>4 DEF StatesInv, PresentNodes, PresentWorkloads, PresentPods
<1> QED BY <1>1, <1>2, <1>3, <1>4 DEF StatesNext

-----------------------------------------------------------------------------
(* What the rules see: one state *)

\* The names of nodes and the keys of workloads tell them apart.
Distinct(state) ==
    /\ IsFiniteSet(state.nodes) /\ IsFiniteSet(state.workloads) /\ IsFiniteSet(state.pods)
    /\ \A m, n \in state.nodes : m.name = n.name => m = n
    /\ \A n \in state.nodes : n.ready \in BOOLEAN
    /\ \A v, w \in state.workloads : Key(v) = Key(w) => v = w
    /\ \A w \in state.workloads : Missing(w) \in Nat

LEMMA MaxOfInts ==
    ASSUME NEW i \in Int
    PROVE  Max({i, 0}) \in Nat
<1>1. PICK m : m = Max({i, 0})
  BY Zenon
<1>2. \E x \in {i, 0} : \A y \in {i, 0} : x >= y
  OBVIOUS
<1>3. m \in {i, 0} /\ \A y \in {i, 0} : m >= y
  BY <1>1, <1>2, Zenon DEF Max
<1> QED BY <1>1, <1>3

LEMMA StateIsDistinct ==
    ASSUME StatesInv
    PROVE  Distinct(ClusterState)
<1>1. /\ ClusterState.nodes = {node(n) : n \in PresentNodes}
      /\ ClusterState.workloads = {workload(w) : w \in PresentWorkloads}
      /\ ClusterState.pods = {pod(p) : p \in PresentPods}
  BY DEF ClusterState, PresentNodes, PresentWorkloads, PresentPods
<1>2. IsFiniteSet({node(n) : n \in PresentNodes})
  <2>1. PICK f : f = [n \in PresentNodes |-> node(n)]
    BY Zenon
  <2>2. PICK T : T = {f[n] : n \in PresentNodes}
    BY Zenon
  <2>3. f = [n \in PresentNodes |-> f[n]] /\ T = {node(n) : n \in PresentNodes}
    BY <2>1, <2>2
  <2>4. IsFiniteSet(T)
    BY <2>2, <2>3, FiniteImage DEF StatesInv
  <2> QED BY <2>3, <2>4, Zenon
<1>3. IsFiniteSet({workload(w) : w \in PresentWorkloads})
  <2>1. PICK f : f = [w \in PresentWorkloads |-> workload(w)]
    BY Zenon
  <2>2. PICK T : T = {f[w] : w \in PresentWorkloads}
    BY Zenon
  <2>3. f = [w \in PresentWorkloads |-> f[w]] /\ T = {workload(w) : w \in PresentWorkloads}
    BY <2>1, <2>2
  <2>4. IsFiniteSet(T)
    BY <2>2, <2>3, FiniteImage DEF StatesInv
  <2> QED BY <2>3, <2>4, Zenon
<1>4. IsFiniteSet({pod(p) : p \in PresentPods})
  <2>1. PICK f : f = [p \in PresentPods |-> pod(p)]
    BY Zenon
  <2>2. PICK T : T = {f[p] : p \in PresentPods}
    BY Zenon
  <2>3. f = [p \in PresentPods |-> f[p]] /\ T = {pod(p) : p \in PresentPods}
    BY <2>1, <2>2
  <2>4. IsFiniteSet(T)
    BY <2>2, <2>3, FiniteImage DEF StatesInv
  <2> QED BY <2>3, <2>4, Zenon
<1>5. \A n : node(n).name = n /\ node(n).ready \in BOOLEAN
  BY DEF node
<1>6. ASSUME NEW v \in PresentWorkloads, NEW w \in PresentWorkloads, Key(workload(v)) = Key(workload(w))
      PROVE  v = w
  <2>1. v.namespace = w.namespace /\ v.kind = w.kind /\ v.name = w.name
    BY <1>6 DEF Key, workload
  <2>2. /\ v = [namespace |-> v.namespace, kind |-> v.kind, name |-> v.name]
        /\ w = [namespace |-> w.namespace, kind |-> w.kind, name |-> w.name]
    BY StatesAssumption, Zenon DEF PresentWorkloads
  <2> QED BY <2>1, <2>2, Zenon
<1>7. ASSUME NEW w \in PresentWorkloads PROVE Missing(workload(w)) \in Nat
  <2>1. objects.workloads[w] \in WorkloadForms
    BY DEF PresentWorkloads, StatesInv
  <2>2. objects.workloads[w].replicas \in Int \cup {NotSet} /\ objects.workloads[w].available \in Int
    BY <2>1, StatesAssumption, Zenon
  <2>3. workload(w).desired \in Int /\ workload(w).available \in Int
    BY <2>2 DEF workload
  <2>4. workload(w).desired - workload(w).available \in Int
    BY <2>3
  <2> QED BY <2>4, MaxOfInts, Zenon DEF Missing
<1>8. \A m, n \in ClusterState.nodes : m.name = n.name => m = n
  BY <1>1, <1>5, Zenon
<1>9. \A n \in ClusterState.nodes : n.ready \in BOOLEAN
  BY <1>1, <1>5, Zenon
<1>10. \A v, w \in ClusterState.workloads : Key(v) = Key(w) => v = w
  BY <1>1, <1>6, Zenon
<1>11. \A w \in ClusterState.workloads : Missing(w) \in Nat
  BY <1>1, <1>7, Zenon
<1> QED BY <1>1, <1>2, <1>3, <1>4, <1>8, <1>9, <1>10, <1>11, Zenon DEF Distinct

\* A rule of a namespace looks at the keys of the namespace.
LEMMA KeysOfNamespace ==
    ASSUME NEW state, NEW metric, NEW namespace, namespace # AnyNamespace
    PROVE  Keys(metric, namespace, state)
           = {k \in Keys(metric, AnyNamespace, state) : k[1] = namespace}
<1>1. \A ns : inNamespace(AnyNamespace, ns) /\ (inNamespace(namespace, ns) <=> ns = namespace)
  BY DEF inNamespace
<1>2. \A w : Key(w)[1] = w.namespace
  BY DEF Key
<1>3. \A p : WorkloadKey(p)[1] = p.namespace
  BY DEF WorkloadKey
<1> HIDE DEF inNamespace, Key, WorkloadKey
<1>4. \A k : k \in Keys(metric, namespace, state) <=> k \in Keys(metric, AnyNamespace, state) /\ k[1] = namespace
  BY <1>1, <1>2, <1>3, Zenon DEF Keys
<1> QED BY <1>4

LEMMA KeysFinite ==
    ASSUME NEW state, Distinct(state), NEW metric, NEW namespace
    PROVE  IsFiniteSet(Keys(metric, namespace, state))
<1>1. PICK W, P : /\ W = {w \in state.workloads : inNamespace(namespace, w.namespace)}
                  /\ P = {p \in state.pods : inNamespace(namespace, p.namespace)}
  BY Zenon
<1>2. IsFiniteSet(W) /\ IsFiniteSet(P)
  <2>1. W \subseteq state.workloads /\ P \subseteq state.pods
    BY <1>1
  <2> QED BY <2>1, FS_Subset, Zenon DEF Distinct
<1>3. PICK f, g : f = [w \in W |-> Key(w)] /\ g = [p \in P |-> WorkloadKey(p)]
  BY Zenon
<1>4. PICK A, B : A = {f[w] : w \in W} /\ B = {g[p] : p \in P}
  BY Zenon
<1>5. /\ f = [w \in W |-> f[w]] /\ A = {Key(w) : w \in W}
      /\ g = [p \in P |-> g[p]] /\ B = {WorkloadKey(p) : p \in P}
  BY <1>3, <1>4
<1>6. IsFiniteSet(A) /\ IsFiniteSet(B)
  BY <1>2, <1>4, <1>5, FiniteImage
<1>7. Keys(metric, namespace, state) \subseteq A \cup B
  BY <1>1, <1>5 DEF Keys
<1>8. IsFiniteSet(A \cup B)
  BY <1>6, FS_Union, Zenon
<1> QED BY <1>7, <1>8, FS_Subset, Zenon

\* What is left of a finite set without those that satisfy a condition.
LEMMA CountRest ==
    ASSUME NEW S, IsFiniteSet(S), NEW T, T \subseteq S
    PROVE  IsFiniteSet(S \ T) /\ Cardinality(S \ T) = Cardinality(S) - Cardinality(T)
<1>1. S \cap T = T
  OBVIOUS
<1>2. IsFiniteSet(S \ T) /\ Cardinality(S \ T) = Cardinality(S) - Cardinality(S \cap T)
  BY FS_Difference, Zenon
<1> QED BY <1>1, <1>2, Zenon

LEMMA NodesAgree ==
    ASSUME NEW state, Distinct(state)
    PROVE  Total(kubeTargets("kube_node", AnyNamespace, state))
           = Counts(state).nodes - Counts(state).nodesReady
<1>1. PICK K, R, P : K = state.nodes /\ R = {n \in K : n.ready} /\ P = K \ R
  BY Zenon
<1>2. IsFiniteSet(K) /\ IsFiniteSet(P) /\ Cardinality(P) = Cardinality(K) - Cardinality(R)
  BY <1>1, CountRest DEF Distinct
<1>3. PICK t : t = [n \in K |-> [target |-> n.name, value |-> IF n.ready THEN 0 ELSE 1, reason |-> n.pressure]]
  BY Zenon
<1>4. kubeTargets("kube_node", AnyNamespace, state) = {t[n] : n \in K}
  BY <1>1, <1>3 DEF kubeTargets
<1>5. \A m, n \in K : t[m] = t[n] => m = n
  <2>1. \A n \in K : t[n].target = n.name
    BY <1>3
  <2>2. \A m, n \in K : m.name = n.name => m = n
    BY <1>1, Zenon DEF Distinct
  <2> SUFFICES ASSUME NEW m \in K, NEW n \in K, t[m] = t[n] PROVE m = n
    BY Zenon
  <2>3. m.name = n.name
    BY <2>1, Zenon
  <2> QED BY <2>2, <2>3, Zenon
<1>6. PICK key : key = [n \in P |-> n]
  BY Zenon
<1>7. key \in [P -> K]
  BY <1>1, <1>6
<1>8. ASSUME NEW k \in K PROVE t[k].value = Cardinality({p \in P : key[p] = k})
  <2>1. Cardinality({}) = 0 /\ Cardinality({k}) = 1
    BY FS_EmptySet, FS_Singleton
  <2>2. t[k].value = IF k.ready THEN 0 ELSE 1
    BY <1>3
  <2>3. {p \in P : key[p] = k} = IF k.ready THEN {} ELSE {k}
    BY <1>1, <1>6
  <2> QED BY <2>1, <2>2, <2>3, Zenon
<1>9. Total({t[n] : n \in K}) = Cardinality(P)
  BY <1>2, <1>5, <1>7, <1>8, EachCountsOnce
<1>10. Counts(state).nodes = Cardinality(K) /\ Counts(state).nodesReady = Cardinality(R)
  BY <1>1 DEF Counts
<1> QED BY <1>2, <1>4, <1>9, <1>10, Zenon

LEMMA WorkloadsAgree ==
    ASSUME NEW state, Distinct(state)
    PROVE  Cardinality({t \in kubeTargets("kube_workload", AnyNamespace, state) : t.value > 0})
           = Counts(state).workloads - Counts(state).workloadsReady
<1>1. PICK K, R, P : K = state.workloads /\ R = {w \in K : Missing(w) = 0} /\ P = K \ R
  BY Zenon
<1>2. IsFiniteSet(K) /\ IsFiniteSet(P) /\ Cardinality(P) = Cardinality(K) - Cardinality(R)
  <2>1. IsFiniteSet(K) /\ R \subseteq K
    BY <1>1 DEF Distinct
  <2> QED BY <1>1, <2>1, CountRest, Zenon
<1> DEFINE Of(w) == [target |-> Key(w), value |-> Missing(w), reason |-> podReason(PodsOf(Key(w), state))]
<1>3. kubeTargets("kube_workload", AnyNamespace, state) = {Of(w) : w \in K}
  <2>1. \A w \in K : Key(w) \in Keys("kube_workload", AnyNamespace, state)
    BY <1>1 DEF Keys, inNamespace
  <2>2. {w \in K : Key(w) \in Keys("kube_workload", AnyNamespace, state)} = K
    BY <2>1
  <2> QED BY <1>1, <2>2 DEF kubeTargets
<1>4. \A w : Of(w).target = Key(w) /\ Of(w).value = Missing(w)
  OBVIOUS
<1> HIDE DEF Of
<1>5. PICK t : t = [w \in P |-> Of(w)]
  BY Zenon
<1>6. PICK T : T = {t[w] : w \in P}
  BY Zenon
<1>7. t = [w \in P |-> t[w]]
  BY <1>5
<1>8. \A v, w \in P : t[v] = t[w] => v = w
  <2>1. \A w \in P : t[w].target = Key(w) /\ w \in K
    BY <1>1, <1>4, <1>5
  <2>2. \A v, w \in K : Key(v) = Key(w) => v = w
    BY <1>1, Zenon DEF Distinct
  <2> SUFFICES ASSUME NEW v \in P, NEW w \in P, t[v] = t[w] PROVE v = w
    BY Zenon
  <2>3. Key(v) = Key(w) /\ v \in K /\ w \in K
    BY <2>1, Zenon
  <2> QED BY <2>2, <2>3, Zenon
<1>9. Cardinality(T) = Cardinality(P)
  BY <1>2, <1>6, <1>7, <1>8, FiniteImage
<1>10. \A w \in K : w \in P <=> Of(w).value > 0
  <2>1. \A w \in K : Missing(w) \in Nat
    BY <1>1, Zenon DEF Distinct
  <2> QED BY <1>1, <1>4, <2>1
<1>11. {x \in {Of(w) : w \in K} : x.value > 0} = T
  BY <1>1, <1>5, <1>6, <1>10
<1>12. Counts(state).workloads = Cardinality(K) /\ Counts(state).workloadsReady = Cardinality(R)
  BY <1>1 DEF Counts
<1> QED BY <1>2, <1>3, <1>9, <1>11, <1>12, Zenon

\* What a pending rule says of a workload.
PendingTarget(key, state) ==
    [target |-> key, value |-> Cardinality(PodsOf(key, state) \cap InPhase(state, "Pending")),
     reason |-> podReason(PodsOf(key, state) \cap InPhase(state, "Pending"))]

LEMMA PendingTargets ==
    ASSUME NEW state, NEW namespace
    PROVE  kubeTargets("kube_pending", namespace, state)
           = {PendingTarget(key, state) : key \in Keys("kube_pending", namespace, state)}
BY DEF kubeTargets, PendingTarget

LEMMA PendingAgree ==
    ASSUME NEW state, Distinct(state)
    PROVE  Total(kubeTargets("kube_pending", AnyNamespace, state)) = Counts(state).podsPending
<1>1. PICK K, P : K = Keys("kube_pending", AnyNamespace, state) /\ P = InPhase(state, "Pending")
  BY Zenon
<1>2. IsFiniteSet(K) /\ IsFiniteSet(P)
  <2>1. P \subseteq state.pods
    BY <1>1 DEF InPhase
  <2> QED BY <1>1, <2>1, KeysFinite, FS_Subset, Zenon DEF Distinct
<1>3. PICK key : key = [p \in P |-> WorkloadKey(p)]
  BY Zenon
<1>4. key \in [P -> K]
  <2>1. \A p \in P : WorkloadKey(p) \in K
    BY <1>1 DEF Keys, InPhase, inNamespace
  <2> QED BY <1>3, <2>1, Zenon
<1>5. PICK t : t = [k \in K |-> PendingTarget(k, state)]
  BY Zenon
<1>6. \A k \in K : t[k].target = k /\ t[k].value = Cardinality(PodsOf(k, state) \cap P)
  BY <1>1, <1>5 DEF PendingTarget
<1>7. \A k \in K : t[k].value = Cardinality({p \in P : key[p] = k})
  <2> SUFFICES ASSUME NEW k \in K PROVE PodsOf(k, state) \cap P = {p \in P : key[p] = k}
    BY <1>6, Zenon
  <2> QED BY <1>1, <1>3 DEF PodsOf, InPhase
<1>8. \A j, k \in K : t[j] = t[k] => j = k
  BY <1>6, Zenon
<1>9. Total({t[k] : k \in K}) = Cardinality(P)
  BY <1>2, <1>4, <1>7, <1>8, EachCountsOnce
<1>10. kubeTargets("kube_pending", AnyNamespace, state) = {t[k] : k \in K}
  BY <1>1, <1>5, PendingTargets
<1>11. Counts(state).podsPending = Cardinality(P)
  BY <1>1 DEF Counts
<1> QED BY <1>9, <1>10, <1>11, Zenon

LEMMA NamespacesAgree ==
    ASSUME NEW state, NEW namespace, namespace # AnyNamespace,
           NEW metric \in {"kube_workload", "kube_pending"}
    PROVE  kubeTargets(metric, namespace, state)
           = {t \in kubeTargets(metric, AnyNamespace, state) : t.target[1] = namespace}
<1>1. CASE metric = "kube_pending"
  <2>1. \A k : PendingTarget(k, state).target = k
    BY DEF PendingTarget
  <2> QED BY <1>1, <2>1, KeysOfNamespace, PendingTargets
<1>2. CASE metric = "kube_workload"
  <2> DEFINE Of(w) == [target |-> Key(w), value |-> Missing(w), reason |-> podReason(PodsOf(Key(w), state))]
  <2>1. \A ns : kubeTargets("kube_workload", ns, state)
                = {Of(w) : w \in {w \in state.workloads : Key(w) \in Keys("kube_workload", ns, state)}}
    BY DEF kubeTargets
  <2>2. \A w : Of(w).target = Key(w)
    OBVIOUS
  <2> HIDE DEF Of
  <2>3. \A k : k \in Keys("kube_workload", namespace, state)
               <=> k \in Keys("kube_workload", AnyNamespace, state) /\ k[1] = namespace
    BY KeysOfNamespace
  <2> QED BY <1>2, <2>1, <2>2, <2>3
<1> QED BY <1>1, <1>2

\* clusterSummary and kubeTargets: the page and the rules of a cluster agree in every
\* state the API can show, whatever the objects and however many there are.
THEOREM RulesAgreeWithPage == StatesSpec => []RulesSeePage
<1>1. ASSUME StatesInv PROVE RulesSeePage
  <2>1. PICK state : state = ClusterState
    BY Zenon
  <2>2. Distinct(state)
    BY <1>1, <2>1, StateIsDistinct, Zenon
  <2>3. Total(kubeTargets("kube_node", AnyNamespace, state)) = Counts(state).nodes - Counts(state).nodesReady
    BY <2>2, NodesAgree, Zenon
  <2>4. Cardinality({t \in kubeTargets("kube_workload", AnyNamespace, state) : t.value > 0})
        = Counts(state).workloads - Counts(state).workloadsReady
    BY <2>2, WorkloadsAgree, Zenon
  <2>5. Total(kubeTargets("kube_pending", AnyNamespace, state)) = Counts(state).podsPending
    BY <2>2, PendingAgree, Zenon
  <2>6. \A metric \in {"kube_workload", "kube_pending"}, w \in WorkloadIds :
           kubeTargets(metric, w.namespace, state)
           = {t \in kubeTargets(metric, AnyNamespace, state) : t.target[1] = w.namespace}
    <3> SUFFICES ASSUME NEW metric \in {"kube_workload", "kube_pending"}, NEW w \in WorkloadIds
                 PROVE  kubeTargets(metric, w.namespace, state)
                        = {t \in kubeTargets(metric, AnyNamespace, state) : t.target[1] = w.namespace}
      BY Zenon
    <3>1. w.namespace # AnyNamespace
      BY StatesAssumption, Zenon
    <3> QED BY <3>1, NamespacesAgree
  <2> QED BY <2>1, <2>3, <2>4, <2>5, <2>6, Zenon DEF RulesSeePage, clusterSummary
<1> QED BY <1>1, StatesInvInit, StatesInvStep, PTL DEF StatesSpec

=============================================================================
