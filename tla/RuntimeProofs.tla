------------------------- MODULE RuntimeProofs -------------------------
(***************************************************************************)
(* Theorems about the parts of the runtime: the replicated data types, for *)
(* any number of replicas, updates and copies, the HTTP counter and a Raft *)
(* node.                                                                   *)
(***************************************************************************)
EXTENDS MCRuntime, SequencingProofs, FunctionTheorems, SequenceTheorems

-----------------------------------------------------------------------------
(* Sums over a finite set, element by element.                             *)

Chosen(s) == CHOOSE x \in s : TRUE

SumRule(f, g, s) ==
    g[s] = IF s = {} THEN 0 ELSE f[Chosen(s)] + g[s \ {Chosen(s)}]

SumStep(f, S, g) ==
    [s \in SUBSET S |-> IF s = {} THEN 0 ELSE f[Chosen(s)] + g[s \ {Chosen(s)}]]

\* The function that MapThenSumSet() defines by recursion.
Sums(f, S) == CHOOSE g : g = SumStep(f, S, g)

LEMMA SumIsRecursive ==
    ASSUME NEW S, NEW f
    PROVE  MapThenSumSet(LAMBDA n : f[n], S) = Sums(f, S)[S]
BY DEF MapThenSumSet, MapThenFoldSet, Sums, SumStep, Chosen

LEMMA ChosenProperties ==
    ASSUME NEW s, IsFiniteSet(s), s # {}
    PROVE  /\ Chosen(s) \in s /\ IsFiniteSet(s \ {Chosen(s)})
           /\ Cardinality(s) \in Nat
           /\ Cardinality(s \ {Chosen(s)}) = Cardinality(s) - 1
<1>1. Chosen(s) \in s
  BY DEF Chosen
<1>2. QED
  BY <1>1, FS_RemoveElement, FS_CardinalityType

\* The recursion has a solution: sets of n elements at most have one for all n.
LEMMA SumsExist ==
    ASSUME NEW S, IsFiniteSet(S), NEW f
    PROVE  \A s \in SUBSET S : SumRule(f, Sums(f, S), s)
<1> DEFINE Solves(g, n) == \A s \in SUBSET S : Cardinality(s) <= n => SumRule(f, g, s)
           T == {n \in Nat : \E g : Solves(g, n)}
<1>1. \A s \in SUBSET S : IsFiniteSet(s) /\ Cardinality(s) \in Nat
  BY FS_Subset, FS_CardinalityType
<1>2. 0 \in T
  <2> DEFINE g == [s \in SUBSET S |-> 0]
  <2>1. ASSUME NEW s \in SUBSET S, Cardinality(s) <= 0 PROVE SumRule(f, g, s)
    <3>1. s = {}
      BY <1>1, <2>1, FS_EmptySet
    <3>2. QED
      BY <3>1 DEF SumRule
  <2>2. Solves(g, 0)
    BY <2>1
  <2> HIDE DEF g, Solves
  <2>3. QED
    BY <2>2
<1>3. ASSUME NEW n \in Nat, n \in T PROVE n + 1 \in T
  <2>1. PICK g : Solves(g, n)
    BY <1>3
  <2> DEFINE h == SumStep(f, S, g)
  <2>2. \A s \in SUBSET S :
           h[s] = IF s = {} THEN 0 ELSE f[Chosen(s)] + g[s \ {Chosen(s)}]
    BY DEF SumStep
  <2> HIDE DEF h
  <2>3. ASSUME NEW s \in SUBSET S, Cardinality(s) <= n + 1 PROVE SumRule(f, h, s)
    <3>1. CASE s = {}
      BY <2>2, <3>1 DEF SumRule
    <3>2. CASE s # {}
      <4> DEFINE t == s \ {Chosen(s)}
      <4>1. t \in SUBSET S /\ Cardinality(t) <= n
        BY <1>1, <2>3, <3>2, ChosenProperties
      <4>2. SumRule(f, g, t)
        BY <2>1, <4>1
      <4>3. g[t] = h[t]
        BY <2>2, <4>1, <4>2 DEF SumRule
      <4>4. QED
        BY <2>2, <3>2, <4>3 DEF SumRule
    <3>3. QED
      BY <3>1, <3>2
  <2>4. Solves(h, n + 1)
    BY <2>3
  <2> HIDE DEF Solves
  <2>5. QED
    BY <2>4
<1>4. PICK g : Solves(g, Cardinality(S))
  <2>1. Cardinality(S) \in Nat
    BY FS_CardinalityType
  <2> HIDE DEF Solves
  <2>2. \A n \in Nat : n \in T => n + 1 \in T
    BY <1>3
  <2>3. Cardinality(S) \in T
    <3> HIDE DEF T
    <3>1. QED
      BY <1>2, <2>1, <2>2, NaturalInduction
  <2>4. QED
    BY <2>3
<1>5. \A s \in SUBSET S : SumRule(f, g, s)
  BY <1>4, FS_Subset
<1> DEFINE G == [s \in SUBSET S |-> g[s]]
<1>6. \A s \in SUBSET S : s # {} => s \ {Chosen(s)} \in SUBSET S
  OBVIOUS
<1>7. G = SumStep(f, S, G)
  BY <1>5, <1>6 DEF SumRule, SumStep
<1> HIDE DEF G
<1>8. Sums(f, S) = SumStep(f, S, Sums(f, S))
  BY <1>7 DEF Sums
<1>9. QED
  BY <1>8 DEF SumStep, SumRule

\* The sum of what each member of S has is what there is of all of them.
LEMMA SumOfParts ==
    ASSUME NEW S, IsFiniteSet(S), NEW f, NEW W,
           \A u \in W : u.by \in S,
           \A x \in S : /\ IsFiniteSet({u \in W : u.by = x})
                        /\ Cardinality({u \in W : u.by = x}) = f[x]
    PROVE  Cardinality(W) = MapThenSumSet(LAMBDA n : f[n], S)
<1> DEFINE Of(s) == {u \in W : u.by \in s}
           Good(s) == IsFiniteSet(Of(s)) /\ Cardinality(Of(s)) = Sums(f, S)[s]
           T == {n \in Nat : \A s \in SUBSET S : Cardinality(s) = n => Good(s)}
<1>1. \A s \in SUBSET S : /\ IsFiniteSet(s) /\ Cardinality(s) \in Nat
                          /\ SumRule(f, Sums(f, S), s)
  BY FS_Subset, FS_CardinalityType, SumsExist
<1>2. 0 \in T
  <2>1. ASSUME NEW s \in SUBSET S, Cardinality(s) = 0 PROVE Good(s)
    <3>1. s = {}
      BY <1>1, <2>1, FS_EmptySet
    <3>2. Of(s) = {} /\ Sums(f, S)[s] = 0
      BY <1>1, <3>1 DEF SumRule
    <3>3. QED
      BY <3>2, FS_EmptySet
  <2> HIDE DEF Good
  <2>2. QED
    BY <2>1
<1>3. ASSUME NEW n \in Nat, n \in T PROVE n + 1 \in T
  <2>1. ASSUME NEW s \in SUBSET S, Cardinality(s) = n + 1 PROVE Good(s)
    <3>1. s # {}
      <4>1. Cardinality({}) = 0 /\ n + 1 # 0
        BY FS_EmptySet
      <4>2. QED
        BY <2>1, <4>1
    <3> DEFINE x == Chosen(s)
               t == s \ {x}
               A == {u \in W : u.by = x}
    <3>2. x \in S /\ x \in s /\ t \in SUBSET S /\ Cardinality(t) = n
      BY <1>1, <2>1, <3>1, ChosenProperties
    <3>3. Good(t)
      BY <1>3, <3>2
    <3>4. IsFiniteSet(A) /\ Cardinality(A) = f[x]
      BY <3>2
    <3>5. Of(s) = Of(t) \cup A /\ Of(t) \cap A = {}
      BY <3>2
    <3>6. Sums(f, S)[s] = f[x] + Sums(f, S)[t]
      BY <1>1, <3>1 DEF SumRule
    <3> HIDE DEF x, t, A, Of
    <3>7. IsFiniteSet(Of(s))
          /\ Cardinality(Of(s)) = Cardinality(Of(t)) + Cardinality(A) - Cardinality({})
      BY <3>3, <3>4, <3>5, FS_Union
    <3>8. Cardinality(Of(t)) \in Nat /\ Cardinality(A) \in Nat /\ Cardinality({}) = 0
      BY <3>3, <3>4, FS_CardinalityType, FS_EmptySet
    <3>9. QED
      BY <3>3, <3>4, <3>6, <3>7, <3>8
  <2> HIDE DEF Good
  <2>2. QED
    BY <2>1
<1>4. Good(S)
  <2>1. \A n \in Nat : n \in T => n + 1 \in T
    BY <1>3
  <2> HIDE DEF Good
  <2>2. Cardinality(S) \in T
    <3> HIDE DEF T
    <3>1. QED
      BY <1>1, <1>2, <2>1, NaturalInduction
  <2>3. QED
    BY <2>2
<1>5. Of(S) = W
  OBVIOUS
<1>6. QED
  BY <1>4, <1>5, SumIsRecursive

-----------------------------------------------------------------------------
(* Vectors of counts.                                                      *)

LEMMA MergedCounts ==
    ASSUME NEW c \in Counts, NEW d \in Counts
    PROVE  /\ Merged(c, d) \in Counts
           /\ \A n \in Replica : \A k \in Nat :
                k <= Merged(c, d)[n] <=> k <= c[n] \/ k <= d[n]
BY DEF Counts, Merged

LEMMA IncrementedCounts ==
    ASSUME NEW c \in Counts, NEW r \in Replica
    PROVE  /\ Incremented(c, r) \in Counts
           /\ Incremented(c, r)[r] = c[r] + 1
           /\ \A n \in Replica \ {r} : Incremented(c, r)[n] = c[n]
BY DEF Counts, Incremented

-----------------------------------------------------------------------------
(* The counter.                                                            *)

Kinds == {"positive", "negative"}

\* A replica has the latest count of itself: nobody can know more of it.
OwnIsLatest == \A r \in Replica : \A kind \in Kinds :
    /\ \A q \in Replica : counter[q][kind][r] <= counter[r][kind][r]
    /\ \A c \in counterCopies : c.counter[kind][r] <= counter[r][kind][r]

\* The replicas' counters and the copies, with the updates behind them.
CounterStates ==
    counterCopies \cup {[counter |-> counter[r], updates |-> updates[r]] : r \in Replica}

\* The counts tell exactly which updates have come in.
HistoryFits == \A s \in CounterStates : s.updates = KnownTo(s.counter)

CounterInv == CounterTypeOK /\ HistoryFits /\ OwnIsLatest

LEMMA MergedCounters ==
    ASSUME NEW a \in PNCounters, NEW b \in PNCounters
    PROVE  /\ MergedCounter(a, b) \in PNCounters
           /\ \A kind \in Kinds : \A n \in Replica : \A k \in Nat :
                k <= MergedCounter(a, b)[kind][n] <=>
                   k <= a[kind][n] \/ k <= b[kind][n]
BY MergedCounts DEF MergedCounter, PNCounters, Kinds

LEMMA CountsAreNumbers ==
    ASSUME NEW c \in PNCounters, NEW kind \in Kinds, NEW n \in Replica
    PROVE  c[kind][n] \in Nat
BY DEF PNCounters, Counts, Kinds

\* A count stands for as many updates of its replica.
LEMMA CountsAreUpdates ==
    ASSUME NEW c \in PNCounters, NEW kind \in Kinds, NEW n \in Replica,
           c[kind][n] <= MaxUpdates
    PROVE  LET S == {u \in {v \in KnownTo(c) : v.kind = kind} : u.by = n}
           IN  IsFiniteSet(S) /\ Cardinality(S) = c[kind][n]
<1> DEFINE S == {u \in {v \in KnownTo(c) : v.kind = kind} : u.by = n}
           m == c[kind][n]
           f == [i \in 1..m |-> [by |-> n, kind |-> kind, number |-> i]]
<1>1. m \in Nat
  BY CountsAreNumbers
<1>2. \A i \in 1..m : f[i] \in S
  BY <1>1, CounterAssumption DEF KnownTo, Updates, Kinds
<1>3. ASSUME NEW u \in S PROVE \E i \in 1..m : f[i] = u
  <2>1. /\ u.number \in 1..m /\ u.by = n /\ u.kind = kind
        /\ u = [by |-> u.by, kind |-> u.kind, number |-> u.number]
    BY <1>1, CounterAssumption DEF KnownTo, Updates
  <2>2. QED
    BY <2>1
<1>4. \A i, k \in 1..m : f[i] = f[k] => i = k
  OBVIOUS
<1>5. f \in Bijection(1..m, S)
  <2>1. f \in [1..m -> S]
    BY <1>2
  <2> HIDE DEF f, S, m
  <2>2. QED
    BY <1>3, <1>4, <2>1, Fun_IsBij
<1>6. ExistsBijection(1..m, S)
  BY <1>5 DEF ExistsBijection
<1>7. IsFiniteSet(1..m) /\ IsFiniteSet(S) /\ Cardinality(S) = m
  <2> HIDE DEF S, m
  <2>1. IsFiniteSet(1..m)
    BY <1>1, FS_Interval
  <2>2. QED
    BY <1>1, <1>6, <2>1, FS_Bijection, FS_CountingElements
<1>8. QED
  BY <1>7

\* The state of a replica is among the states.
LEMMA OwnCounterState ==
    ASSUME NEW r \in Replica
    PROVE  \E s \in CounterStates : s.counter = counter[r] /\ s.updates = updates[r]
<1> DEFINE s == [counter |-> counter[r], updates |-> updates[r]]
<1>1. s \in CounterStates /\ s.counter = counter[r] /\ s.updates = updates[r]
  BY DEF CounterStates
<1>2. QED
  BY <1>1

\* The update that a replica makes has the number that follows its count.
LEMMA NextIsCounted ==
    ASSUME CounterTypeOK, HistoryFits, NEW r \in Replica, NEW kind \in Kinds,
           counter[r][kind][r] \in 0..(MaxUpdates - 1)
    PROVE  /\ NextUpdate(r, kind)
                = [by |-> r, kind |-> kind, number |-> counter[r][kind][r] + 1]
           /\ NextUpdate(r, kind) \in Updates
<1> DEFINE n == counter[r][kind][r]
           S == {u \in {v \in KnownTo(counter[r]) : v.kind = kind} : u.by = r}
<1>1. counter[r] \in PNCounters /\ updates[r] = KnownTo(counter[r])
  BY OwnCounterState DEF CounterTypeOK, HistoryFits
<1>2. n \in Nat /\ n <= MaxUpdates /\ n + 1 \in 1..MaxUpdates
  BY CounterAssumption
<1>3. Cardinality(S) = n
  BY <1>1, <1>2, CountsAreUpdates
<1>4. {u \in updates[r] : u.kind = kind /\ u.by = r} = S
  BY <1>1
<1> HIDE DEF S
<1>5. QED
  BY <1>2, <1>3, <1>4 DEF NextUpdate, Updates, Kinds

\* What an increment or a decrement does, in one form for both.
Counted(r, kind) ==
    /\ counter' \in [Replica -> PNCounters]
    /\ counter[r][kind][r] \in 0..(MaxUpdates - 1)
    /\ counter'[r][kind][r] = counter[r][kind][r] + 1
    /\ \A q \in Replica : \A k \in Kinds : \A n \in Replica :
         q # r \/ k # kind \/ n # r => counter'[q][k][n] = counter[q][k][n]
    /\ updates' = [updates EXCEPT ![r] = updates[r] \cup
         {[by |-> r, kind |-> kind, number |-> counter[r][kind][r] + 1]}]
    /\ counterCopies' = counterCopies

LEMMA IncrementCounts ==
    ASSUME CounterTypeOK, HistoryFits, NEW r \in Replica, Increment(r)
    PROVE  Counted(r, "positive")
<1> DEFINE c == [counter[r] EXCEPT !.positive = Incremented(counter[r].positive, r)]
<1>1. /\ counter[r] \in PNCounters
      /\ counter[r].positive \in Counts
      /\ counter[r].negative \in Counts
  BY DEF CounterTypeOK, PNCounters
<1>2. /\ counter' = [counter EXCEPT ![r] = c]
      /\ updates' = [updates EXCEPT ![r] = updates[r] \cup {NextUpdate(r, "positive")}]
      /\ counterCopies' = counterCopies
  BY DEF Increment
<1>3. /\ c \in PNCounters
      /\ c.positive = Incremented(counter[r].positive, r)
      /\ c.negative = counter[r].negative
  BY <1>1, IncrementedCounts DEF PNCounters
<1> HIDE DEF c
<1>4. counter' \in [Replica -> PNCounters] /\ counter'[r] = c
  BY <1>2, <1>3 DEF CounterTypeOK
<1>5. \A q \in Replica \ {r} : counter'[q] = counter[q]
  BY <1>2 DEF CounterTypeOK
<1>6. counter[r].positive[r] \in 0..(MaxUpdates - 1)
  BY <1>1, CounterAssumption DEF Increment, CanUpdate, Counts
<1>7. \A n \in Replica : n # r => c.positive[n] = counter[r].positive[n]
  BY <1>1, <1>3, IncrementedCounts
<1>8. c.positive[r] = counter[r].positive[r] + 1
  BY <1>1, <1>3, IncrementedCounts
<1>9. NextUpdate(r, "positive") = [by |-> r, kind |-> "positive", number |-> counter[r].positive[r] + 1]
  BY <1>6, NextIsCounted DEF Kinds
<1>10. QED
  BY <1>2, <1>3, <1>4, <1>5, <1>6, <1>7, <1>8, <1>9 DEF Counted, Kinds

LEMMA DecrementCounts ==
    ASSUME CounterTypeOK, HistoryFits, NEW r \in Replica, Decrement(r)
    PROVE  Counted(r, "negative")
<1> DEFINE c == [counter[r] EXCEPT !.negative = Incremented(counter[r].negative, r)]
<1>1. /\ counter[r] \in PNCounters
      /\ counter[r].positive \in Counts
      /\ counter[r].negative \in Counts
  BY DEF CounterTypeOK, PNCounters
<1>2. /\ counter' = [counter EXCEPT ![r] = c]
      /\ updates' = [updates EXCEPT ![r] = updates[r] \cup {NextUpdate(r, "negative")}]
      /\ counterCopies' = counterCopies
  BY DEF Decrement
<1>3. /\ c \in PNCounters
      /\ c.negative = Incremented(counter[r].negative, r)
      /\ c.positive = counter[r].positive
  BY <1>1, IncrementedCounts DEF PNCounters
<1> HIDE DEF c
<1>4. counter' \in [Replica -> PNCounters] /\ counter'[r] = c
  BY <1>2, <1>3 DEF CounterTypeOK
<1>5. \A q \in Replica \ {r} : counter'[q] = counter[q]
  BY <1>2 DEF CounterTypeOK
<1>6. counter[r].negative[r] \in 0..(MaxUpdates - 1)
  BY <1>1, CounterAssumption DEF Decrement, CanUpdate, Counts
<1>7. \A n \in Replica : n # r => c.negative[n] = counter[r].negative[n]
  BY <1>1, <1>3, IncrementedCounts
<1>8. c.negative[r] = counter[r].negative[r] + 1
  BY <1>1, <1>3, IncrementedCounts
<1>9. NextUpdate(r, "negative") = [by |-> r, kind |-> "negative", number |-> counter[r].negative[r] + 1]
  BY <1>6, NextIsCounted DEF Kinds
<1>10. QED
  BY <1>2, <1>3, <1>4, <1>5, <1>6, <1>7, <1>8, <1>9 DEF Counted, Kinds

\* Every step of a counter is one of these.
LEMMA CounterSteps ==
    ASSUME CounterTypeOK, HistoryFits, [CounterNext]_counterVars
    PROVE  \/ \E r \in Replica : \E kind \in Kinds : Counted(r, kind)
           \/ \E r \in Replica : TakeCounter(r)
           \/ \E r \in Replica : \E c \in counterCopies : MergeCounter(r, c)
           \/ UNCHANGED counterVars
BY IncrementCounts, DecrementCounts DEF CounterNext, Kinds

LEMMA CounterTypeStep ==
    ASSUME CounterTypeOK, HistoryFits, [CounterNext]_counterVars PROVE CounterTypeOK'
<1>1. ASSUME NEW r \in Replica, NEW kind \in Kinds, Counted(r, kind)
      PROVE  CounterTypeOK'
  <2> DEFINE u == [by |-> r, kind |-> kind, number |-> counter[r][kind][r] + 1]
  <2>1. u \in Updates
    BY <1>1, NextIsCounted DEF Counted
  <2>2. updates' = [updates EXCEPT ![r] = updates[r] \cup {u}]
    BY <1>1 DEF Counted
  <2> HIDE DEF u
  <2>3. updates' \in [Replica -> SUBSET Updates]
    BY <2>1, <2>2 DEF CounterTypeOK
  <2>4. QED
    BY <1>1, <2>3 DEF CounterTypeOK, Counted
<1>2. ASSUME NEW r \in Replica, TakeCounter(r) PROVE CounterTypeOK'
  BY <1>2 DEF CounterTypeOK, TakeCounter
<1>3. ASSUME NEW r \in Replica, NEW c \in counterCopies, MergeCounter(r, c)
      PROVE  CounterTypeOK'
  <2>1. c.counter \in PNCounters /\ c.updates \subseteq Updates
    BY DEF CounterTypeOK
  <2>2. MergedCounter(counter[r], c.counter) \in PNCounters
    BY <2>1, MergedCounters DEF CounterTypeOK
  <2>3. QED
    BY <1>3, <2>1, <2>2 DEF CounterTypeOK, MergeCounter
<1>4. CASE UNCHANGED counterVars
  BY <1>4 DEF CounterTypeOK, counterVars
<1>5. QED
  BY <1>1, <1>2, <1>3, <1>4, CounterSteps

LEMMA OwnIsLatestStep ==
    ASSUME CounterInv, [CounterNext]_counterVars PROVE OwnIsLatest'
<1>1. CounterTypeOK /\ CounterTypeOK'
  BY CounterTypeStep DEF CounterInv
<1>2. \A q, n \in Replica : \A k \in Kinds :
         counter[q][k][n] \in Nat /\ counter'[q][k][n] \in Nat
  BY <1>1, CountsAreNumbers DEF CounterTypeOK
<1>3. \A c \in counterCopies : \A k \in Kinds : \A n \in Replica : c.counter[k][n] \in Nat
  BY <1>1, CountsAreNumbers DEF CounterTypeOK
<1>4. SUFFICES ASSUME NEW n \in Replica, NEW k \in Kinds
      PROVE  /\ \A q \in Replica : counter'[q][k][n] <= counter'[n][k][n]
             /\ \A c \in counterCopies' : c.counter[k][n] <= counter'[n][k][n]
  BY DEF OwnIsLatest, Kinds
<1>5. /\ \A q \in Replica : counter[q][k][n] <= counter[n][k][n]
      /\ \A c \in counterCopies : c.counter[k][n] <= counter[n][k][n]
  BY DEF CounterInv, OwnIsLatest, Kinds
<1>6. ASSUME NEW r \in Replica, NEW kind \in Kinds, Counted(r, kind)
      PROVE  /\ \A q \in Replica : counter'[q][k][n] <= counter'[n][k][n]
             /\ \A c \in counterCopies' : c.counter[k][n] <= counter'[n][k][n]
  <2>1. /\ counter'[r][kind][r] = counter[r][kind][r] + 1
        /\ \A q \in Replica : q # r \/ k # kind \/ n # r => counter'[q][k][n] = counter[q][k][n]
        /\ counterCopies' = counterCopies
    BY <1>6 DEF Counted
  <2>2. \A q \in Replica : counter'[q][k][n] <= counter'[n][k][n]
    BY <1>2, <1>5, <2>1
  <2>3. counter[n][k][n] <= counter'[n][k][n]
    BY <1>2, <2>1
  <2>4. QED
    BY <1>2, <1>3, <1>5, <2>1, <2>2, <2>3
<1>7. ASSUME NEW r \in Replica, TakeCounter(r)
      PROVE  /\ \A q \in Replica : counter'[q][k][n] <= counter'[n][k][n]
             /\ \A c \in counterCopies' : c.counter[k][n] <= counter'[n][k][n]
  <2> DEFINE d == [counter |-> counter[r], updates |-> updates[r]]
  <2>1. /\ counterCopies' = counterCopies \cup {d} /\ counter' = counter
        /\ d.counter = counter[r]
    BY <1>7 DEF TakeCounter
  <2> HIDE DEF d
  <2>2. QED
    BY <1>5, <2>1
<1>8. ASSUME NEW r \in Replica, NEW c \in counterCopies, MergeCounter(r, c)
      PROVE  /\ \A q \in Replica : counter'[q][k][n] <= counter'[n][k][n]
             /\ \A d \in counterCopies' : d.counter[k][n] <= counter'[n][k][n]
  <2>1. /\ counter' = [counter EXCEPT ![r] = MergedCounter(counter[r], c.counter)]
        /\ counterCopies' = counterCopies
    BY <1>8 DEF MergeCounter
  <2>2. counter[r] \in PNCounters /\ c.counter \in PNCounters
    BY <1>1 DEF CounterTypeOK
  <2>3. \A m \in Nat : m <= counter'[r][k][n] <=> m <= counter[r][k][n] \/ m <= c.counter[k][n]
    BY <1>1, <2>1, <2>2, MergedCounters DEF CounterTypeOK, Kinds
  <2>4. counter'[r][k][n] <= counter[r][k][n] \/ counter'[r][k][n] <= c.counter[k][n]
    BY <1>2, <2>3
  <2>5. counter'[r][k][n] >= counter[r][k][n]
    BY <1>2, <2>3
  <2>6. \A q \in Replica \ {r} : counter'[q][k][n] = counter[q][k][n]
    BY <1>1, <2>1 DEF CounterTypeOK
  <2>7. counter'[r][k][n] <= counter[n][k][n]
    BY <1>2, <1>3, <1>5, <2>4
  <2>8. counter'[n][k][n] >= counter[n][k][n]
    BY <1>2, <2>5, <2>6
  <2>9. QED
    BY <1>2, <1>3, <1>5, <2>1, <2>6, <2>7, <2>8
<1>9. CASE UNCHANGED counterVars
  BY <1>5, <1>9 DEF counterVars
<1>10. QED
  BY <1>1, <1>6, <1>7, <1>8, <1>9, CounterSteps DEF CounterInv

\* What the merged counts know.
LEMMA MergeKnows ==
    ASSUME NEW a \in PNCounters, NEW b \in PNCounters
    PROVE  KnownTo(MergedCounter(a, b)) = KnownTo(a) \cup KnownTo(b)
<1>1. ASSUME NEW u \in Updates
      PROVE  u \in KnownTo(MergedCounter(a, b)) <=> u \in KnownTo(a) \/ u \in KnownTo(b)
  <2>1. u.kind \in Kinds /\ u.by \in Replica /\ u.number \in Nat
    BY DEF Updates, Kinds
  <2>2. QED
    BY <2>1, MergedCounters DEF KnownTo
<1>2. QED
  BY <1>1 DEF KnownTo

LEMMA UpdateIsNew ==
    ASSUME CounterInv, CounterTypeOK', NEW r \in Replica, NEW kind \in Kinds,
           Counted(r, kind)
    PROVE  LET u == [by |-> r, kind |-> kind, number |-> counter[r][kind][r] + 1]
           IN  /\ u \in Updates
               /\ \A q \in Replica : u \notin KnownTo(counter[q])
               /\ KnownTo(counter'[r]) = KnownTo(counter[r]) \cup {u}
               /\ \A q \in Replica \ {r} : KnownTo(counter'[q]) = KnownTo(counter[q])
<1> DEFINE u == [by |-> r, kind |-> kind, number |-> counter[r][kind][r] + 1]
<1>1. CounterTypeOK /\ \A q \in Replica : counter[q][kind][r] <= counter[r][kind][r]
  BY DEF CounterInv, OwnIsLatest
<1>2. \A q, n \in Replica : \A k \in Kinds :
         counter[q][k][n] \in Nat /\ counter'[q][k][n] \in Nat
  BY <1>1, CountsAreNumbers DEF CounterTypeOK
<1>3. u \in Updates
  BY <1>2, CounterAssumption DEF Counted, Updates, Kinds
<1>4. ASSUME NEW q \in Replica PROVE u \notin KnownTo(counter[q])
  BY <1>1, <1>2 DEF KnownTo
<1>5. ASSUME NEW v \in Updates
      PROVE  /\ v \in KnownTo(counter'[r]) <=> v \in KnownTo(counter[r]) \/ v = u
             /\ \A q \in Replica \ {r} :
                  v \in KnownTo(counter'[q]) <=> v \in KnownTo(counter[q])
  <2>1. /\ v.kind \in Kinds /\ v.by \in Replica /\ v.number \in Nat
        /\ v = [by |-> v.by, kind |-> v.kind, number |-> v.number]
    BY DEF Updates, Kinds
  <2>2. CASE v.kind = kind /\ v.by = r
    <3>1. v = u <=> v.number = counter[r][kind][r] + 1
      BY <2>1, <2>2
    <3>2. \A q \in Replica \ {r} : counter'[q][kind][r] = counter[q][kind][r]
      BY DEF Counted
    <3>3. \A q \in Replica :
            /\ v \in KnownTo(counter[q]) <=> v.number <= counter[q][kind][r]
            /\ v \in KnownTo(counter'[q]) <=> v.number <= counter'[q][kind][r]
      BY <2>2 DEF KnownTo
    <3>4. v.number <= counter'[r][kind][r] <=>
             v.number <= counter[r][kind][r] \/ v.number = counter[r][kind][r] + 1
      BY <1>2, <2>1 DEF Counted
    <3>5. v \in KnownTo(counter'[r]) <=> v \in KnownTo(counter[r]) \/ v = u
      BY <3>1, <3>3, <3>4
    <3>6. QED
      BY <3>2, <3>3, <3>5
  <2>3. CASE ~(v.kind = kind /\ v.by = r)
    <3>1. v # u
      BY <2>3
    <3>2. \A q \in Replica : counter'[q][v.kind][v.by] = counter[q][v.kind][v.by]
      BY <2>1, <2>3 DEF Counted
    <3>3. QED
      BY <3>1, <3>2 DEF KnownTo
  <2>4. QED
    BY <2>2, <2>3
<1>6. KnownTo(counter'[r]) = KnownTo(counter[r]) \cup {u}
  BY <1>3, <1>5 DEF KnownTo
<1>7. \A q \in Replica \ {r} : KnownTo(counter'[q]) = KnownTo(counter[q])
  BY <1>5 DEF KnownTo
<1>8. QED
  BY <1>3, <1>4, <1>6, <1>7

LEMMA HistoryFitsStep ==
    ASSUME CounterInv, [CounterNext]_counterVars PROVE HistoryFits'
<1>1. CounterTypeOK /\ CounterTypeOK' /\ HistoryFits
  BY CounterTypeStep DEF CounterInv
<1>2. /\ \A q \in Replica : updates[q] = KnownTo(counter[q])
      /\ \A c \in counterCopies : c.updates = KnownTo(c.counter)
  <2>1. counterCopies \subseteq CounterStates
    BY DEF CounterStates
  <2>2. QED
    BY <1>1, <2>1, OwnCounterState DEF HistoryFits
<1>3. SUFFICES /\ \A q \in Replica : updates'[q] = KnownTo(counter'[q])
               /\ \A c \in counterCopies' : c.updates = KnownTo(c.counter)
  BY DEF HistoryFits, CounterStates, KnownTo
<1>4. ASSUME NEW r \in Replica, NEW kind \in Kinds, Counted(r, kind)
      PROVE  /\ \A q \in Replica : updates'[q] = KnownTo(counter'[q])
             /\ \A c \in counterCopies' : c.updates = KnownTo(c.counter)
  <2> DEFINE u == [by |-> r, kind |-> kind, number |-> counter[r][kind][r] + 1]
  <2>1. /\ KnownTo(counter'[r]) = KnownTo(counter[r]) \cup {u}
        /\ \A q \in Replica \ {r} : KnownTo(counter'[q]) = KnownTo(counter[q])
    BY <1>1, <1>4, UpdateIsNew
  <2>2. /\ updates' = [updates EXCEPT ![r] = updates[r] \cup {u}]
        /\ counterCopies' = counterCopies
    BY <1>4 DEF Counted
  <2> HIDE DEF u
  <2>3. /\ updates'[r] = updates[r] \cup {u}
        /\ \A q \in Replica \ {r} : updates'[q] = updates[q]
    BY <1>1, <2>2 DEF CounterTypeOK
  <2>4. QED
    BY <1>2, <2>1, <2>2, <2>3
<1>5. ASSUME NEW r \in Replica, TakeCounter(r)
      PROVE  /\ \A q \in Replica : updates'[q] = KnownTo(counter'[q])
             /\ \A c \in counterCopies' : c.updates = KnownTo(c.counter)
  BY <1>2, <1>5 DEF TakeCounter
<1>6. ASSUME NEW r \in Replica, NEW c \in counterCopies, MergeCounter(r, c)
      PROVE  /\ \A q \in Replica : updates'[q] = KnownTo(counter'[q])
             /\ \A d \in counterCopies' : d.updates = KnownTo(d.counter)
  <2>1. /\ counter'[r] = MergedCounter(counter[r], c.counter)
        /\ updates'[r] = updates[r] \cup c.updates
        /\ \A q \in Replica \ {r} : counter'[q] = counter[q] /\ updates'[q] = updates[q]
        /\ counterCopies' = counterCopies
    BY <1>1, <1>6 DEF MergeCounter, CounterTypeOK
  <2>2. counter[r] \in PNCounters /\ c.counter \in PNCounters
    BY <1>1 DEF CounterTypeOK
  <2>3. KnownTo(counter'[r]) = KnownTo(counter[r]) \cup KnownTo(c.counter)
    BY <2>1, <2>2, MergeKnows
  <2>4. QED
    BY <1>2, <2>1, <2>3
<1>7. CASE UNCHANGED counterVars
  BY <1>2, <1>7 DEF counterVars
<1>8. QED
  BY <1>1, <1>4, <1>5, <1>6, <1>7, CounterSteps

LEMMA CounterInitInv == CounterInit => CounterInv
<1> SUFFICES ASSUME CounterInit PROVE CounterInv
  OBVIOUS
<1>1. CounterTypeOK /\ OwnIsLatest
  BY DEF CounterInit, CounterTypeOK, OwnIsLatest, PNCounters, Counts, NoCounts, Kinds
<1>2. ASSUME NEW r \in Replica PROVE KnownTo(counter[r]) = {}
  BY DEF CounterInit, KnownTo, Updates, NoCounts
<1>3. HistoryFits
  BY <1>2 DEF CounterInit, HistoryFits, CounterStates
<1>4. QED
  BY <1>1, <1>3 DEF CounterInv

LEMMA CounterStep == CounterInv /\ [CounterNext]_counterVars => CounterInv' /\ CounterTypeOK'
BY CounterTypeStep, HistoryFitsStep, OwnIsLatestStep DEF CounterInv

\* In every configuration the counters, the copies of them and the histories have
\* their types.
THEOREM CounterTypeCorrect == CounterSpec => []CounterTypeOK
<1>1. CounterInv => CounterTypeOK
  BY DEF CounterInv
<1>2. QED
  BY <1>1, CounterInitInv, CounterStep, PTL DEF CounterSpec

\* In every configuration no replica, and no copy, counts more updates of a
\* replica than that replica itself.
THEOREM CountersKnowThemselves == CounterSpec => []OwnIsLatest
<1>1. CounterInv => OwnIsLatest
  BY DEF CounterInv
<1>2. QED
  BY <1>1, CounterInitInv, CounterStep, PTL DEF CounterSpec

\* In every configuration a step of the counters is a step of the abstract
\* specification: a new update, a copy, or learning what a copy knows.
THEOREM CountersShareKnowledge == CounterSpec => ImplementsKnowledge
<1> DEFINE K == [r \in Replica |-> KnownTo(counter[r])]
           C == {KnownTo(c.counter) : c \in counterCopies}
<1>1. CounterInit => Knowledge!Init
  <2> SUFFICES ASSUME CounterInit PROVE Knowledge!Init
    OBVIOUS
  <2>1. ASSUME NEW r \in Replica PROVE KnownTo(counter[r]) = {}
    BY DEF CounterInit, KnownTo, Updates, NoCounts
  <2>2. QED
    BY <2>1 DEF CounterInit, Knowledge!Init
<1>2. CounterInv /\ CounterTypeOK' /\ [CounterNext]_counterVars
        => [Knowledge!Next]_(Knowledge!vars)
  <2> SUFFICES ASSUME CounterInv, CounterTypeOK', [CounterNext]_counterVars
               PROVE  [Knowledge!Next]_(Knowledge!vars)
    OBVIOUS
  <2>1. CounterTypeOK
    BY DEF CounterInv
  <2>2. ASSUME NEW r \in Replica, NEW kind \in Kinds, Counted(r, kind)
        PROVE  Knowledge!Make(r)
    <3> DEFINE u == [by |-> r, kind |-> kind, number |-> counter[r][kind][r] + 1]
    <3>1. /\ u \in Updates
          /\ \A q \in Replica : u \notin KnownTo(counter[q])
          /\ KnownTo(counter'[r]) = KnownTo(counter[r]) \cup {u}
          /\ \A q \in Replica \ {r} : KnownTo(counter'[q]) = KnownTo(counter[q])
      BY <2>2, UpdateIsNew
    <3> HIDE DEF u
    <3>2. u \in Updates \ Knowledge!Made
      BY <3>1 DEF Knowledge!Made
    <3>3. K' = [K EXCEPT ![r] = K[r] \cup {u}]
      BY <3>1
    <3>4. C' = C
      BY <2>2 DEF Counted
    <3>5. QED
      BY <3>2, <3>3, <3>4 DEF Knowledge!Make
  <2>3. ASSUME NEW r \in Replica, TakeCounter(r) PROVE Knowledge!TakeCopy(r)
    <3>1. K' = K /\ counterCopies' = counterCopies
            \cup {[counter |-> counter[r], updates |-> updates[r]]}
      BY <2>3 DEF TakeCounter
    <3> DEFINE c == [counter |-> counter[r], updates |-> updates[r]]
    <3>2. C' = C \cup {K[r]}
      <4>1. counterCopies' = counterCopies \cup {c} /\ c.counter = counter[r]
        BY <3>1
      <4> HIDE DEF c
      <4>2. C' = C \cup {KnownTo(c.counter)}
        BY <4>1
      <4>3. QED
        BY <4>1, <4>2
    <3>3. QED
      BY <3>1, <3>2 DEF Knowledge!TakeCopy
  <2>4. ASSUME NEW r \in Replica, NEW c \in counterCopies, MergeCounter(r, c)
        PROVE  Knowledge!Learn(r, KnownTo(c.counter)) /\ KnownTo(c.counter) \in C
    <3>1. /\ counter[r] \in PNCounters /\ c.counter \in PNCounters
          /\ counter' = [counter EXCEPT ![r] = MergedCounter(counter[r], c.counter)]
          /\ C' = C
      BY <2>1, <2>4 DEF CounterTypeOK, MergeCounter
    <3>2. KnownTo(counter'[r]) = KnownTo(counter[r]) \cup KnownTo(c.counter)
      BY <2>1, <3>1, MergeKnows DEF CounterTypeOK
    <3>3. K' = [K EXCEPT ![r] = K[r] \cup KnownTo(c.counter)]
      BY <2>1, <3>1, <3>2 DEF CounterTypeOK
    <3>4. QED
      BY <3>1, <3>3 DEF Knowledge!Learn
  <2>5. CASE UNCHANGED counterVars
    BY <2>5 DEF counterVars, Knowledge!vars
  <2>6. QED
    BY <2>1, <2>2, <2>3, <2>4, <2>5, CounterSteps DEF CounterInv, Knowledge!Next
<1>3. QED
  BY <1>1, <1>2, CounterInitInv, CounterStep, PTL
  DEF CounterSpec, ImplementsKnowledge, Knowledge!Spec

\* No replica counts more updates of itself than it may make.
OwnIsBounded == \A n \in Replica : \A k \in Kinds : counter[n][k][n] <= MaxUpdates

LEMMA OwnIsBoundedStep ==
    ASSUME CounterInv, OwnIsBounded, [CounterNext]_counterVars PROVE OwnIsBounded'
<1>1. CounterTypeOK /\ CounterTypeOK' /\ OwnIsLatest
  BY CounterStep DEF CounterInv
<1>2. \A q, n \in Replica : \A k \in Kinds :
         counter[q][k][n] \in Nat /\ counter'[q][k][n] \in Nat
  BY <1>1, CountsAreNumbers DEF CounterTypeOK
<1>3. SUFFICES ASSUME NEW n \in Replica, NEW k \in Kinds
               PROVE  counter'[n][k][n] <= MaxUpdates
  BY DEF OwnIsBounded
<1>4. counter[n][k][n] <= MaxUpdates
  BY DEF OwnIsBounded
<1>5. ASSUME NEW r \in Replica, NEW kind \in Kinds, Counted(r, kind)
      PROVE  counter'[n][k][n] <= MaxUpdates
  <2>1. CASE r = n /\ kind = k
    BY <1>2, <1>5, <2>1, CounterAssumption DEF Counted
  <2>2. CASE ~(r = n /\ kind = k)
    BY <1>4, <1>5, <2>2 DEF Counted
  <2>3. QED
    BY <2>1, <2>2
<1>6. ASSUME NEW r \in Replica, TakeCounter(r) PROVE counter'[n][k][n] <= MaxUpdates
  BY <1>4, <1>6 DEF TakeCounter
<1>7. ASSUME NEW r \in Replica, NEW c \in counterCopies, MergeCounter(r, c)
      PROVE  counter'[n][k][n] <= MaxUpdates
  <2>1. counter' = [counter EXCEPT ![r] = MergedCounter(counter[r], c.counter)]
    BY <1>7 DEF MergeCounter
  <2>2. CASE r = n
    <3>1. counter[n] \in PNCounters /\ c.counter \in PNCounters
      BY <1>1 DEF CounterTypeOK
    <3>2. counter'[n] = MergedCounter(counter[n], c.counter)
      BY <1>1, <2>1, <2>2 DEF CounterTypeOK
    <3>3. \A m \in Nat : m <= counter'[n][k][n] <=> m <= counter[n][k][n] \/ m <= c.counter[k][n]
      BY <3>1, <3>2, MergedCounters
    <3>4. c.counter[k][n] <= counter[n][k][n] /\ c.counter[k][n] \in Nat
      BY <1>1, <3>1, CountsAreNumbers DEF OwnIsLatest
    <3>5. counter'[n][k][n] <= counter[n][k][n]
      BY <1>2, <3>3, <3>4
    <3>6. QED
      BY <1>2, <1>4, <3>5, CounterAssumption
  <2>3. CASE r # n
    BY <1>1, <1>4, <2>1, <2>3 DEF CounterTypeOK
  <2>4. QED
    BY <2>2, <2>3
<1>8. CASE UNCHANGED counterVars
  BY <1>4, <1>8 DEF counterVars
<1>9. QED
  BY <1>1, <1>5, <1>6, <1>7, <1>8, CounterSteps DEF CounterInv

LEMMA SumOfCounts ==
    ASSUME IsFiniteSet(Replica), NEW c \in PNCounters, NEW kind \in Kinds,
           \A n \in Replica : c[kind][n] <= MaxUpdates
    PROVE  GValue(c[kind]) = Cardinality({u \in KnownTo(c) : u.kind = kind})
<1> DEFINE W == {u \in KnownTo(c) : u.kind = kind}
           f == c[kind]
<1>1. \A u \in W : u.by \in Replica
  BY DEF KnownTo, Updates
<1>2. \A n \in Replica : /\ IsFiniteSet({u \in W : u.by = n})
                         /\ Cardinality({u \in W : u.by = n}) = f[n]
  BY CountsAreUpdates
<1> HIDE DEF W, f
<1>3. Cardinality(W) = MapThenSumSet(LAMBDA n : f[n], Replica)
  BY <1>1, <1>2, SumOfParts
<1>4. GValue(f) = MapThenSumSet(LAMBDA n : f[n], Replica)
  BY DEF GValue
<1>5. QED
  BY <1>3, <1>4 DEF W, f

LEMMA CounterBoundInit == CounterInit => OwnIsBounded
BY CounterAssumption DEF CounterInit, OwnIsBounded, NoCounts, Kinds

LEMMA StatesAreBounded ==
    ASSUME CounterInv, OwnIsBounded, NEW s \in CounterStates
    PROVE  /\ s.counter \in PNCounters /\ s.updates = KnownTo(s.counter)
           /\ \A k \in Kinds : \A n \in Replica : s.counter[k][n] <= MaxUpdates
<1>1. s.counter \in PNCounters /\ s.updates = KnownTo(s.counter)
  BY DEF CounterStates, CounterInv, CounterTypeOK, HistoryFits
<1>2. ASSUME NEW k \in Kinds, NEW n \in Replica PROVE s.counter[k][n] <= MaxUpdates
  <2>1. counter[n] \in PNCounters /\ s.counter[k][n] <= counter[n][k][n]
    BY DEF CounterStates, CounterInv, CounterTypeOK, OwnIsLatest
  <2>2. counter[n][k][n] <= MaxUpdates
    BY DEF OwnIsBounded
  <2>3. s.counter[k][n] \in Nat /\ counter[n][k][n] \in Nat
    BY <1>1, <2>1, CountsAreNumbers
  <2>4. QED
    BY <2>1, <2>2, <2>3, CounterAssumption
<1>3. QED
  BY <1>1, <1>2

\* Among finitely many replicas value() is the number of increments that have come
\* in less that of the decrements, whatever was merged, how often and in which order.
THEOREM ValuesCountUpdates ==
    ASSUME IsFiniteSet(Replica)
    PROVE  CounterSpec => []ValueIsNetOfKnown
<1>1. CounterInv /\ OwnIsBounded => ValueIsNetOfKnown
  <2> SUFFICES ASSUME CounterInv, OwnIsBounded, NEW r \in Replica
               PROVE  Value(counter[r]) =
                        Cardinality({u \in updates[r] : u.kind = "positive"})
                          - Cardinality({u \in updates[r] : u.kind = "negative"})
    BY DEF ValueIsNetOfKnown
  <2>1. [counter |-> counter[r], updates |-> updates[r]] \in CounterStates
    BY DEF CounterStates
  <2>2. /\ counter[r] \in PNCounters /\ updates[r] = KnownTo(counter[r])
        /\ \A k \in Kinds : \A n \in Replica : counter[r][k][n] <= MaxUpdates
    BY <2>1, StatesAreBounded
  <2>3. /\ GValue(counter[r]["positive"])
             = Cardinality({u \in KnownTo(counter[r]) : u.kind = "positive"})
        /\ GValue(counter[r]["negative"])
             = Cardinality({u \in KnownTo(counter[r]) : u.kind = "negative"})
    BY <2>2, SumOfCounts DEF Kinds
  <2>4. QED
    BY <2>2, <2>3 DEF Value
<1>2. CounterInv /\ OwnIsBounded /\ [CounterNext]_counterVars => OwnIsBounded'
  BY OwnIsBoundedStep
<1>3. QED
  BY <1>1, <1>2, CounterInitInv, CounterBoundInit, CounterStep, PTL DEF CounterSpec

\* What has come in determines the counts: replicas, and copies, that the same
\* increments and decrements have reached are equal, whatever they merged and in
\* which order.
Convergence == \A s, t \in CounterStates : s.updates = t.updates => s.counter = t.counter

LEMMA KnowledgeDetermines ==
    ASSUME NEW c \in PNCounters, NEW d \in PNCounters, KnownTo(c) = KnownTo(d),
           \A k \in Kinds : \A n \in Replica : c[k][n] <= MaxUpdates /\ d[k][n] <= MaxUpdates
    PROVE  c = d
<1>1. ASSUME NEW a \in PNCounters, NEW b \in PNCounters, KnownTo(a) \subseteq KnownTo(b),
             NEW k \in Kinds, NEW n \in Replica, a[k][n] <= MaxUpdates
      PROVE  a[k][n] <= b[k][n]
  <2>1. a[k][n] \in Nat /\ b[k][n] \in Nat
    BY CountsAreNumbers
  <2>2. CASE a[k][n] = 0
    BY <2>1, <2>2
  <2>3. CASE a[k][n] # 0
    <3> DEFINE u == [by |-> n, kind |-> k, number |-> a[k][n]]
    <3>1. u \in Updates
      BY <1>1, <2>1, <2>3, CounterAssumption DEF Updates, Kinds
    <3>2. u \in KnownTo(a)
      BY <2>1, <3>1 DEF KnownTo
    <3>3. u \in KnownTo(b)
      BY <1>1, <3>2
    <3>4. QED
      BY <3>3 DEF KnownTo
  <2>4. QED
    BY <2>2, <2>3
<1>2. ASSUME NEW k \in Kinds, NEW n \in Replica PROVE c[k][n] = d[k][n]
  <2>1. c[k][n] <= d[k][n] /\ d[k][n] <= c[k][n]
    BY <1>1
  <2>2. QED
    BY <2>1, CountsAreNumbers
<1>3. /\ c.positive \in Counts /\ d.positive \in Counts
      /\ c.negative \in Counts /\ d.negative \in Counts
      /\ c = [positive |-> c.positive, negative |-> c.negative]
      /\ d = [positive |-> d.positive, negative |-> d.negative]
  BY DEF PNCounters
<1>4. \A n \in Replica : c.positive[n] = d.positive[n] /\ c.negative[n] = d.negative[n]
  BY <1>2 DEF Kinds
<1>5. c.positive = d.positive /\ c.negative = d.negative
  BY <1>3, <1>4 DEF Counts
<1>6. QED
  BY <1>3, <1>5

\* In every configuration replicas, and copies, that the same updates have reached
\* have the same counts, and so the same value.
THEOREM CountersConverge == CounterSpec => []Convergence
<1>1. CounterInv /\ OwnIsBounded => Convergence
  BY StatesAreBounded, KnowledgeDetermines DEF Convergence
<1>2. CounterInv /\ OwnIsBounded /\ [CounterNext]_counterVars => OwnIsBounded'
  BY OwnIsBoundedStep
<1>3. QED
  BY <1>1, <1>2, CounterInitInv, CounterBoundInit, CounterStep, PTL DEF CounterSpec

-----------------------------------------------------------------------------
(* The vector clock.                                                       *)

\* The events that a clock counts.
EventsOf(c) == {e \in Events : e.number <= c[e.by]}

StampInv(s) == /\ s.clock \in Counts
               /\ \A n \in Replica : s.clock[n] <= MaxEvents
               /\ s.past = EventsOf(s.clock)

\* No clock, current or sent, is ahead of a replica in that replica's events.
OwnClockIsLatest == \A r \in Replica : \A s \in Stamps : s.clock[r] <= clock[r][r]

\* A clock, current or sent, counts exactly the events that came before it.
ClockInv ==
    /\ ClockTypeOK
    /\ \A s \in Stamps : StampInv(s)
    /\ OwnClockIsLatest

StampOf(r) == [clock |-> clock[r], past |-> past[r]]

\* Naming the events of a replica by their numbers loses none: a clock counts
\* as many of them as it says.
LEMMA OwnEventsCount ==
    ASSUME NEW c \in Counts, NEW r \in Replica, c[r] <= MaxEvents
    PROVE  Cardinality({e \in EventsOf(c) : e.by = r}) = c[r]
<1> DEFINE S == {e \in EventsOf(c) : e.by = r}
           f == [i \in 1..c[r] |-> [by |-> r, number |-> i]]
<1>1. c[r] \in Nat
  BY DEF Counts
<1>2. \A i \in 1..c[r] : f[i] \in S
  BY <1>1, ClockAssumption DEF EventsOf, Events
<1>3. ASSUME NEW e \in S PROVE \E i \in 1..c[r] : f[i] = e
  <2>1. e.number \in 1..c[r] /\ e.by = r /\ e = [by |-> e.by, number |-> e.number]
    BY <1>1, ClockAssumption DEF EventsOf, Events
  <2>2. QED
    BY <2>1
<1>4. \A i, k \in 1..c[r] : f[i] = f[k] => i = k
  OBVIOUS
<1>5. f \in Bijection(1..c[r], S)
  <2>1. f \in [1..c[r] -> S]
    BY <1>2
  <2> HIDE DEF f, S
  <2>2. QED
    BY <1>3, <1>4, <2>1, Fun_IsBij
<1>6. ExistsBijection(1..c[r], S)
  BY <1>5 DEF ExistsBijection
<1>7. QED
  BY <1>1, <1>6, FS_CountingElements

\* Inclusion of the events is what compare() finds.
LEMMA CompareIsInclusion ==
    ASSUME NEW a \in Counts, NEW b \in Counts,
           \A n \in Replica : a[n] <= MaxEvents /\ b[n] <= MaxEvents
    PROVE  Compare(a, b) = CausalOrder(EventsOf(a), EventsOf(b))
<1>1. ASSUME NEW c \in Counts, NEW d \in Counts, NEW n \in Replica, c[n] > d[n],
             c[n] <= MaxEvents
      PROVE  ~(EventsOf(c) \subseteq EventsOf(d))
  <2> DEFINE e == [by |-> n, number |-> c[n]]
  <2>1. c[n] \in Nat /\ d[n] \in Nat
    BY DEF Counts
  <2>2. e \in EventsOf(c) /\ e \notin EventsOf(d)
    BY <1>1, <2>1, ClockAssumption DEF EventsOf, Events
  <2>3. QED
    BY <2>2
<1>2. ASSUME NEW c \in Counts, NEW d \in Counts, \A n \in Replica : ~(c[n] > d[n])
      PROVE  EventsOf(c) \subseteq EventsOf(d)
  <2>1. ASSUME NEW e \in Events, e.number <= c[e.by] PROVE e.number <= d[e.by]
    <3>1. e.by \in Replica /\ e.number \in Nat
      BY DEF Events
    <3>2. c[e.by] \in Nat /\ d[e.by] \in Nat /\ ~(c[e.by] > d[e.by])
      BY <1>2, <3>1 DEF Counts
    <3>3. QED
      BY <2>1, <3>1, <3>2
  <2>2. QED
    BY <2>1 DEF EventsOf
<1>3. (\E n \in Replica : a[n] > b[n]) <=> ~(EventsOf(a) \subseteq EventsOf(b))
  BY <1>1, <1>2
<1>4. (\E n \in Replica : a[n] < b[n]) <=> ~(EventsOf(b) \subseteq EventsOf(a))
  <2>1. \A n \in Replica : a[n] < b[n] <=> b[n] > a[n]
    BY DEF Counts
  <2>2. QED
    BY <1>1, <1>2, <2>1
<1> DEFINE P == EventsOf(a)
           Q == EventsOf(b)
           less == \E n \in Replica : a[n] < b[n]
           greater == \E n \in Replica : a[n] > b[n]
<1>5. /\ greater <=> ~(P \subseteq Q)
      /\ less <=> ~(Q \subseteq P)
      /\ P = Q <=> P \subseteq Q /\ Q \subseteq P
  BY <1>3, <1>4
<1>6. Compare(a, b) = CASE less /\ ~greater -> "before"
                       [] greater /\ ~less -> "after"
                       [] ~less /\ ~greater -> "equal"
                       [] OTHER -> "concurrent"
  BY DEF Compare
<1> HIDE DEF P, Q, less, greater
<1>7. Compare(a, b) = CausalOrder(P, Q)
  BY <1>5, <1>6 DEF CausalOrder
<1>8. QED
  BY <1>7 DEF P, Q

LEMMA MergeEvents ==
    ASSUME NEW c \in Counts, NEW d \in Counts
    PROVE  EventsOf(Merged(c, d)) = EventsOf(c) \cup EventsOf(d)
<1>1. ASSUME NEW e \in Events
      PROVE  e.number <= Merged(c, d)[e.by] <=> e.number <= c[e.by] \/ e.number <= d[e.by]
  <2>1. e.by \in Replica /\ e.number \in Nat
    BY DEF Events
  <2>2. QED
    BY <2>1, MergedCounts
<1>2. QED
  BY <1>1 DEF EventsOf

LEMMA IncrementEvents ==
    ASSUME NEW c \in Counts, NEW r \in Replica, c[r] < MaxEvents
    PROVE  EventsOf(Incremented(c, r)) =
             EventsOf(c) \cup {[by |-> r, number |-> c[r] + 1]}
<1> DEFINE new == [by |-> r, number |-> c[r] + 1]
<1>1. c[r] \in Nat /\ new \in Events
  BY ClockAssumption DEF Counts, Events
<1>2. ASSUME NEW e \in Events
      PROVE  e.number <= Incremented(c, r)[e.by] <=> e.number <= c[e.by] \/ e = new
  <2>1. /\ e.by \in Replica /\ e.number \in Nat
        /\ e = [by |-> e.by, number |-> e.number]
    BY DEF Events
  <2>2. CASE e.by = r
    <3>1. e = new <=> e.number = c[r] + 1
      BY <2>1, <2>2
    <3>2. Incremented(c, r)[e.by] = c[r] + 1
      BY <2>2, IncrementedCounts
    <3>3. QED
      BY <1>1, <2>1, <2>2, <3>1, <3>2
  <2>3. CASE e.by # r
    <3>1. e # new /\ Incremented(c, r)[e.by] = c[e.by]
      BY <2>1, <2>3, IncrementedCounts
    <3>2. QED
      BY <3>1
  <2>4. QED
    BY <2>2, <2>3
<1>3. QED
  BY <1>1, <1>2 DEF EventsOf

LEMMA ClockInitInv == ClockInit => ClockInv
<1> SUFFICES ASSUME ClockInit PROVE ClockInv
  OBVIOUS
<1>1. NoCounts \in Counts /\ \A n \in Replica : NoCounts[n] = 0
  BY DEF NoCounts, Counts
<1>2. EventsOf(NoCounts) = {}
  BY <1>1 DEF EventsOf, Events
<1>3. ClockTypeOK
  BY <1>1 DEF ClockInit, ClockTypeOK
<1>4. \A s \in Stamps : s = [clock |-> NoCounts, past |-> {}]
  BY DEF Stamps, ClockInit
<1>5. ASSUME NEW s \in Stamps PROVE StampInv(s)
  <2>1. s.clock = NoCounts /\ s.past = {}
    BY <1>4
  <2>2. QED
    BY <1>1, <1>2, <2>1, ClockAssumption DEF StampInv
<1>6. OwnClockIsLatest
  <2>1. \A r \in Replica : clock[r] = NoCounts
    BY DEF ClockInit
  <2>2. QED
    BY <1>1, <1>4, <2>1 DEF OwnClockIsLatest
<1>7. QED
  BY <1>3, <1>5, <1>6 DEF ClockInv

\* Taking part in an event, with or without the clock d of another replica.
LEMMA EventKeepsStamp ==
    ASSUME NEW r \in Replica, StampInv(StampOf(r)), CanAct(r),
           NEW c \in Counts, \A n \in Replica : c[n] <= MaxEvents,
           c[r] = clock[r][r]
    PROVE  /\ Incremented(c, r) \in Counts
           /\ \A n \in Replica : Incremented(c, r)[n] <= MaxEvents
           /\ EventsOf(Incremented(c, r)) = EventsOf(c) \cup {NextEvent(r)}
<1>1. clock[r] \in Counts /\ clock[r][r] <= MaxEvents /\ past[r] = EventsOf(clock[r])
  BY DEF StampInv, StampOf
<1>2. NextEvent(r) = [by |-> r, number |-> clock[r][r] + 1]
  BY <1>1, OwnEventsCount DEF NextEvent
<1>3. clock[r][r] \in Nat /\ clock[r][r] + 1 <= MaxEvents
  BY <1>1, <1>2, ClockAssumption DEF CanAct, Events, Counts
<1>4. EventsOf(Incremented(c, r)) = EventsOf(c) \cup {NextEvent(r)}
  <2>1. c[r] < MaxEvents
    BY <1>3, ClockAssumption
  <2>2. QED
    BY <1>2, <2>1, IncrementEvents
<1>5. ASSUME NEW n \in Replica PROVE Incremented(c, r)[n] <= MaxEvents
  <2>1. CASE n = r
    BY <1>3, <2>1, IncrementedCounts
  <2>2. CASE n # r
    <3>1. Incremented(c, r)[n] = c[n]
      BY <2>2, IncrementedCounts
    <3>2. QED
      BY <3>1
  <2>3. QED
    BY <2>1, <2>2
<1>6. QED
  BY <1>4, <1>5, IncrementedCounts

\* A step that gives replica r a clock that counts what it knows of, and leaves
\* everything else, keeps the invariant.
LEMMA StampStep ==
    ASSUME ClockInv, NEW r \in Replica, NEW c \in Counts,
           clock' = [clock EXCEPT ![r] = c],
           past' = [past EXCEPT ![r] = EventsOf(c)],
           \A n \in Replica : c[n] <= MaxEvents,
           c[r] >= clock[r][r],
           \A n \in Replica \ {r} : c[n] <= clock[n][n],
           UNCHANGED clockCopies
    PROVE  ClockInv'
<1>1. ClockTypeOK /\ \A s \in Stamps : StampInv(s)
  BY DEF ClockInv
<1>2. EventsOf(c) \in SUBSET Events
  BY DEF EventsOf
<1>3. ClockTypeOK'
  BY <1>1, <1>2 DEF ClockTypeOK
<1>4. ASSUME NEW q \in Replica PROVE StampInv([clock |-> clock'[q], past |-> past'[q]])
  <2>1. CASE q = r
    <3>1. clock'[q] = c /\ past'[q] = EventsOf(c)
      BY <1>1, <2>1 DEF ClockTypeOK
    <3>2. QED
      BY <3>1 DEF StampInv
  <2>2. CASE q # r
    <3>1. clock'[q] = clock[q] /\ past'[q] = past[q]
      BY <1>1, <2>2 DEF ClockTypeOK
    <3>2. StampInv([clock |-> clock[q], past |-> past[q]])
      BY <1>1 DEF Stamps
    <3>3. QED
      BY <3>1, <3>2
  <2>3. QED
    BY <2>1, <2>2
<1>5. \A s \in clockCopies' : StampInv(s)
  BY <1>1 DEF Stamps
<1>6. \A s \in Stamps' : StampInv(s)
  BY <1>4, <1>5 DEF Stamps
<1>7. (\A s \in Stamps : StampInv(s))'
  BY <1>6 DEF StampInv, EventsOf, Events
<1>8. ASSUME NEW n \in Replica, NEW s \in Stamps' PROVE s.clock[n] <= clock'[n][n]
  <2>1. clock'[r] = c /\ \A q \in Replica \ {r} : clock'[q] = clock[q]
    BY <1>1 DEF ClockTypeOK
  <2>2. /\ clock[n][n] \in Nat /\ clock'[n][n] \in Nat
        /\ clock'[n][n] >= clock[n][n]
        /\ c[n] <= clock'[n][n]
    BY <1>1, <2>1 DEF ClockTypeOK, Counts
  <2>3. CASE s.clock = c
    BY <2>2, <2>3
  <2>4. CASE s \in Stamps
    <3>1. s.clock[n] <= clock[n][n] /\ s.clock[n] \in Nat
      BY <1>1, <2>4 DEF ClockInv, OwnClockIsLatest, StampInv, Counts
    <3>2. QED
      BY <2>2, <3>1
  <2>5. s.clock = c \/ s \in Stamps
    <3>1. CASE s \in clockCopies
      BY <3>1 DEF Stamps
    <3>2. ASSUME NEW q \in Replica, s = [clock |-> clock'[q], past |-> past'[q]]
          PROVE  s.clock = c \/ s \in Stamps
      <4>1. CASE q = r
        BY <2>1, <3>2, <4>1
      <4>2. CASE q # r
        <5>1. clock'[q] = clock[q] /\ past'[q] = past[q]
          BY <1>1, <4>2 DEF ClockTypeOK
        <5>2. QED
          BY <3>2, <5>1 DEF Stamps
      <4>3. QED
        BY <4>1, <4>2
    <3>3. QED
      BY <3>1, <3>2 DEF Stamps
  <2>6. QED
    BY <2>3, <2>4, <2>5
<1>9. QED
  BY <1>3, <1>7, <1>8 DEF ClockInv, OwnClockIsLatest

LEMMA StampsInUse ==
    /\ clockCopies \subseteq Stamps
    /\ \A r \in Replica : /\ StampOf(r) \in Stamps
                         /\ StampOf(r).clock = clock[r]
                         /\ StampOf(r).past = past[r]
BY DEF Stamps, StampOf

LEMMA ClockStep == ClockInv /\ [ClockNext]_clockVars => ClockInv'
<1> SUFFICES ASSUME ClockInv, [ClockNext]_clockVars PROVE ClockInv'
  OBVIOUS
<1>1. ClockTypeOK /\ \A s \in Stamps : StampInv(s)
  BY DEF ClockInv
<1>2. \A r \in Replica :
        /\ StampInv(StampOf(r))
        /\ clock[r] \in Counts
        /\ \A n \in Replica : clock[r][n] <= MaxEvents
        /\ past[r] = EventsOf(clock[r])
        /\ \A n \in Replica : clock[r][n] <= clock[n][n]
  <2> TAKE r \in Replica
  <2>1. /\ StampOf(r) \in Stamps
        /\ StampOf(r).clock = clock[r]
        /\ StampOf(r).past = past[r]
    BY StampsInUse
  <2>2. StampInv(StampOf(r))
    BY <1>1, <2>1
  <2>3. \A n \in Replica : StampOf(r).clock[n] <= clock[n][n]
    BY <2>1 DEF ClockInv, OwnClockIsLatest
  <2>4. QED
    BY <2>1, <2>2, <2>3 DEF StampInv
<1>3. ASSUME NEW r \in Replica, Act(r) PROVE ClockInv'
  <2> DEFINE c == Incremented(clock[r], r)
  <2>1. /\ c \in Counts
        /\ \A n \in Replica : c[n] <= MaxEvents
        /\ EventsOf(c) = EventsOf(clock[r]) \cup {NextEvent(r)}
    BY <1>2, <1>3, EventKeepsStamp DEF Act
  <2>2. past' = [past EXCEPT ![r] = EventsOf(c)]
    BY <1>2, <1>3, <2>1 DEF Act
  <2>3. clock' = [clock EXCEPT ![r] = c] /\ UNCHANGED clockCopies
    BY <1>3 DEF Act
  <2>4. /\ c[r] = clock[r][r] + 1 /\ clock[r][r] \in Nat
        /\ \A n \in Replica \ {r} : c[n] = clock[r][n]
    BY <1>2, IncrementedCounts DEF Counts
  <2>5. \A n \in Replica : clock[r][n] <= clock[n][n]
    BY <1>2
  <2>6. c[r] >= clock[r][r] /\ \A n \in Replica \ {r} : c[n] <= clock[n][n]
    BY <2>4, <2>5
  <2> HIDE DEF c
  <2>7. QED
    BY <2>1, <2>2, <2>3, <2>6, StampStep
<1>4. ASSUME NEW r \in Replica, NEW m \in clockCopies, Receive(r, m) PROVE ClockInv'
  <2> DEFINE d == Merged(clock[r], m.clock)
             c == Incremented(d, r)
  <2>1. /\ m.clock \in Counts
        /\ \A n \in Replica : m.clock[n] <= MaxEvents
        /\ m.past = EventsOf(m.clock)
    BY <1>1 DEF Stamps, StampInv
  <2>2. d \in Counts
    BY <1>2, <2>1, MergedCounts
  <2>3. ASSUME NEW n \in Replica PROVE d[n] <= MaxEvents
    BY <1>2, <2>1 DEF Merged
  <2>4. EventsOf(d) = past[r] \cup m.past
    BY <1>2, <2>1, MergeEvents
  <2>5. \A n \in Replica :
           /\ clock[r][n] \in Nat /\ m.clock[n] \in Nat /\ clock[n][n] \in Nat
           /\ clock[r][n] <= clock[n][n]
           /\ m.clock[n] <= clock[n][n]
    <3>1. \A n \in Replica : m.clock[n] <= clock[n][n]
      BY StampsInUse DEF ClockInv, OwnClockIsLatest
    <3>2. QED
      BY <1>2, <2>1, <3>1 DEF Counts
  <2>6. d[r] = clock[r][r] /\ \A n \in Replica : d[n] <= clock[n][n]
    BY <2>5 DEF Merged
  <2> HIDE DEF d
  <2>7. /\ c \in Counts
        /\ \A n \in Replica : c[n] <= MaxEvents
        /\ EventsOf(c) = EventsOf(d) \cup {NextEvent(r)}
    BY <1>2, <1>4, <2>2, <2>3, <2>6, EventKeepsStamp DEF Receive
  <2>8. c[r] = clock[r][r] + 1 /\ \A n \in Replica \ {r} : c[n] = d[n]
    BY <2>2, <2>6, IncrementedCounts
  <2>9. c[r] >= clock[r][r] /\ \A n \in Replica \ {r} : c[n] <= clock[n][n]
    BY <2>5, <2>6, <2>8
  <2>10. past' = [past EXCEPT ![r] = EventsOf(c)]
    BY <1>4, <2>4, <2>7 DEF Receive
  <2>11. clock' = [clock EXCEPT ![r] = c] /\ UNCHANGED clockCopies
    BY <1>4 DEF Receive, d
  <2> HIDE DEF c
  <2>12. QED
    BY <2>7, <2>9, <2>10, <2>11, StampStep
<1>5. ASSUME NEW r \in Replica, Send(r) PROVE ClockInv'
  <2>1. clock' = clock /\ past' = past
    BY <1>5 DEF Send
  <2>2. \A s \in clockCopies' : s \in clockCopies \/ s = StampOf(r)
    BY <1>5 DEF Send, StampOf
  <2>3. clockCopies' \subseteq [clock : Counts, past : SUBSET Events]
    BY <1>1, <1>2, <2>2 DEF StampOf, ClockTypeOK
  <2>4. ClockTypeOK'
    BY <1>1, <2>1, <2>3 DEF ClockTypeOK
  <2>5. \A s \in Stamps' : s \in Stamps
    BY <2>1, <2>2 DEF Stamps, StampOf
  <2>6. (\A s \in Stamps : StampInv(s))'
    BY <1>1, <2>5 DEF StampInv, EventsOf, Events
  <2>7. OwnClockIsLatest'
    BY <2>1, <2>5 DEF ClockInv, OwnClockIsLatest
  <2>8. QED
    BY <2>4, <2>6, <2>7 DEF ClockInv
<1>6. CASE UNCHANGED clockVars
  BY <1>1, <1>6 DEF clockVars, ClockInv, ClockTypeOK, OwnClockIsLatest, Stamps,
                         StampInv, EventsOf, Events
<1>7. QED
  BY <1>3, <1>4, <1>5, <1>6 DEF ClockNext

\* In every configuration compare() orders two clocks exactly as the events
\* behind them are included in each other.
THEOREM ClocksCompareCausally == ClockSpec => []CompareIsCausal
<1>1. ClockInv => CompareIsCausal
  <2> SUFFICES ASSUME ClockInv, NEW s \in Stamps, NEW t \in Stamps
               PROVE  Compare(s.clock, t.clock) = CausalOrder(s.past, t.past)
    BY DEF CompareIsCausal
  <2>1. StampInv(s) /\ StampInv(t)
    BY DEF ClockInv
  <2>2. QED
    BY <2>1, CompareIsInclusion DEF StampInv
<1>2. QED
  BY <1>1, ClockInitInv, ClockStep, PTL DEF ClockSpec

\* In every configuration clocks and pasts have their types.
THEOREM ClockTypeCorrect == ClockSpec => []ClockTypeOK
<1>1. ClockInv => ClockTypeOK
  BY DEF ClockInv
<1>2. QED
  BY <1>1, ClockInitInv, ClockStep, PTL DEF ClockSpec

-----------------------------------------------------------------------------
(* The observed-remove set.                                                *)

\* The tags that an element has, at the replicas and in the copies, were taken
\* from the counter of the replica they name, and by one element each.
TagsTaken == \A s \in SetStates : \A e \in Element : \A tag \in s.elements[e] :
                tag.counter < tagCounter[tag.node_id]

SetInv == SetTypeOK /\ TagsTaken /\ TagsUnique

LEMMA SetStatesTyped ==
    SetTypeOK => SetStates \subseteq [elements : Tagged, history : Histories]
BY DEF SetTypeOK, SetStates

LEMMA OwnSetState ==
    ASSUME NEW r \in Replica
    PROVE  \E s \in SetStates : s.elements = elements[r] /\ s.history = history[r]
<1> DEFINE s == [elements |-> elements[r], history |-> history[r]]
<1>1. s \in SetStates /\ s.elements = elements[r] /\ s.history = history[r]
  BY DEF SetStates
<1>2. QED
  BY <1>1

LEMMA SetInitInv == SetInit => SetInv
<1> SUFFICES ASSUME SetInit PROVE SetInv
  OBVIOUS
<1>1. SetTypeOK
  BY DEF SetInit, SetTypeOK, Tagged, Histories
<1>2. \A s \in SetStates : \A e \in Element : s.elements[e] = {}
  BY DEF SetInit, SetStates
<1>3. QED
  BY <1>1, <1>2 DEF SetInv, TagsTaken, TagsUnique

LEMMA HistoryTypes ==
    ASSUME SetTypeOK, NEW r \in Replica
    PROVE  /\ \A e \in Element : AddIsNoted(r, e) =>
                history' \in [Replica -> Histories] /\ adds' \in [Replica -> Nat]
           /\ \A e \in Element : RemovalIsNoted(r, e) =>
                history' \in [Replica -> Histories] /\ adds' \in [Replica -> Nat]
<1>1. history[r] \in Histories /\ adds[r] \in Nat
  BY DEF SetTypeOK
<1>2. ASSUME NEW e \in Element, AddIsNoted(r, e)
      PROVE  history' \in [Replica -> Histories] /\ adds' \in [Replica -> Nat]
  <2> DEFINE a == [by |-> r, number |-> adds[r] + 1, element |-> e]
             h == [history[r] EXCEPT !.added = history[r].added \cup {a}]
  <2>1. a \in Adds
    BY <1>1 DEF Adds
  <2> HIDE DEF a
  <2>2. h \in Histories
    BY <1>1, <2>1 DEF Histories
  <2>3. history' = [history EXCEPT ![r] = h]
    BY <1>2 DEF AddIsNoted, a
  <2>4. adds' = [adds EXCEPT ![r] = adds[r] + 1]
    BY <1>2 DEF AddIsNoted
  <2> HIDE DEF h
  <2>5. QED
    BY <1>1, <2>2, <2>3, <2>4 DEF SetTypeOK
<1>3. ASSUME NEW e \in Element, RemovalIsNoted(r, e)
      PROVE  history' \in [Replica -> Histories] /\ adds' \in [Replica -> Nat]
  <2> DEFINE A == {a \in history[r].added : a.element = e}
             h == [history[r] EXCEPT !.removed = history[r].removed \cup A]
  <2>1. A \subseteq Adds
    BY <1>1 DEF Histories
  <2> HIDE DEF A
  <2>2. h \in Histories
    BY <1>1, <2>1 DEF Histories
  <2>3. history' = [history EXCEPT ![r] = h]
    BY <1>3 DEF RemovalIsNoted, A
  <2> HIDE DEF h
  <2>4. QED
    BY <1>3, <2>2, <2>3 DEF RemovalIsNoted, SetTypeOK
<1>4. QED
  BY <1>2, <1>3

LEMMA SetTypeStep == SetTypeOK /\ [SetNext]_setVars => SetTypeOK'
<1> SUFFICES ASSUME SetTypeOK, [SetNext]_setVars PROVE SetTypeOK'
  OBVIOUS
<1>1. ASSUME NEW r \in Replica, NEW e \in Element, Add(r, e) PROVE SetTypeOK'
  <2> DEFINE t == elements[r][e] \cup {[node_id |-> r, counter |-> tagCounter[r]]}
             s == [elements[r] EXCEPT ![e] = t]
  <2>1. elements' = [elements EXCEPT ![r] = s]
    BY <1>1 DEF Add
  <2>2. s \in Tagged
    BY DEF SetTypeOK, Tagged, UniqueTag
  <2> HIDE DEF s, t
  <2>3. elements' \in [Replica -> Tagged]
    BY <2>1, <2>2 DEF SetTypeOK
  <2>4. tagCounter' \in [Replica -> Nat]
    BY <1>1 DEF Add, SetTypeOK
  <2>5. AddIsNoted(r, e) /\ setCopies' = setCopies
    BY <1>1 DEF Add
  <2>6. QED
    BY <2>3, <2>4, <2>5, HistoryTypes DEF SetTypeOK
<1>2. ASSUME NEW r \in Replica, NEW e \in Element, Remove(r, e) PROVE SetTypeOK'
  <2> DEFINE s == [elements[r] EXCEPT ![e] = {}]
  <2>1. elements' = [elements EXCEPT ![r] = s]
    BY <1>2 DEF Remove
  <2>2. s \in Tagged
    BY DEF SetTypeOK, Tagged
  <2> HIDE DEF s
  <2>3. RemovalIsNoted(r, e) /\ UNCHANGED <<tagCounter, setCopies>>
    BY <1>2 DEF Remove
  <2>4. QED
    BY <2>1, <2>2, <2>3, HistoryTypes DEF SetTypeOK
<1>3. ASSUME NEW r \in Replica, TakeSet(r) PROVE SetTypeOK'
  BY <1>3 DEF TakeSet, SetTypeOK
<1>4. ASSUME NEW r \in Replica, NEW s \in setCopies, MergeSet(r, s) PROVE SetTypeOK'
  <2> DEFINE h == [added |-> history[r].added \cup s.history.added,
                   removed |-> history[r].removed \cup s.history.removed]
  <2>1. /\ elements[r] \in Tagged /\ s.elements \in Tagged
        /\ history[r] \in Histories /\ s.history \in Histories
    BY DEF SetTypeOK
  <2>2. MergedSet(elements[r], s.elements) \in Tagged
    BY <2>1 DEF MergedSet, Tagged
  <2>3. h \in Histories
    BY <2>1 DEF Histories
  <2>4. history' = [history EXCEPT ![r] = h]
    BY <1>4 DEF MergeSet
  <2> HIDE DEF h
  <2>5. QED
    BY <1>4, <2>2, <2>3, <2>4 DEF MergeSet, SetTypeOK
<1>5. CASE UNCHANGED setVars
  BY <1>5 DEF setVars, SetTypeOK
<1>6. QED
  BY <1>1, <1>2, <1>3, <1>4, <1>5 DEF SetNext

\* Somewhere, in use or in a copy, the element has the tag.
Holds(e, tag) == \E s \in SetStates : tag \in s.elements[e]

\* A step that changes one replica's set to s spreads only the tags of s.
LEMMA OneSetChanges ==
    ASSUME SetTypeOK, NEW r \in Replica, NEW s \in Tagged,
           elements' = [elements EXCEPT ![r] = s], UNCHANGED setCopies,
           NEW e \in Element, NEW tag, Holds(e, tag)'
    PROVE  tag \in s[e] \/ Holds(e, tag)
<1>1. PICK t \in SetStates' : tag \in t.elements[e]
  BY DEF Holds
<1>2. t \in setCopies \/ \E q \in Replica : t.elements = elements'[q]
  BY <1>1 DEF SetStates
<1>3. CASE t \in setCopies
  BY <1>1, <1>3 DEF Holds, SetStates
<1>4. ASSUME NEW q \in Replica, t.elements = elements'[q] PROVE tag \in s[e] \/ Holds(e, tag)
  <2>1. CASE q = r
    BY <1>1, <1>4, <2>1 DEF SetTypeOK
  <2>2. CASE q # r
    <3>1. t.elements = elements[q]
      BY <1>4, <2>2 DEF SetTypeOK
    <3>2. QED
      BY <1>1, <3>1, OwnSetState DEF Holds
  <2>3. QED
    BY <2>1, <2>2
<1>5. QED
  BY <1>2, <1>3, <1>4

\* Only add() brings in a tag that was nowhere, and it is the next of its replica.
LEMMA TagsComeFromAdds ==
    ASSUME SetTypeOK, [SetNext]_setVars
    PROVE  \/ /\ tagCounter' = tagCounter
              /\ \A e \in Element : \A tag : Holds(e, tag)' => Holds(e, tag)
           \/ \E r \in Replica : \E g \in Element :
                /\ tagCounter' = [tagCounter EXCEPT ![r] = tagCounter[r] + 1]
                /\ \A e \in Element : \A tag : Holds(e, tag)' =>
                     \/ Holds(e, tag)
                     \/ e = g /\ tag = [node_id |-> r, counter |-> tagCounter[r]]
<1> DEFINE Kept == /\ tagCounter' = tagCounter
                   /\ \A e \in Element : \A tag : Holds(e, tag)' => Holds(e, tag)
           AddedBy(r, g) ==
             /\ tagCounter' = [tagCounter EXCEPT ![r] = tagCounter[r] + 1]
             /\ \A e \in Element : \A tag : Holds(e, tag)' =>
                  \/ Holds(e, tag)
                  \/ e = g /\ tag = [node_id |-> r, counter |-> tagCounter[r]]
<1>1. \A r \in Replica : \A e \in Element : \A tag :
         tag \in elements[r][e] => Holds(e, tag)
  BY OwnSetState DEF Holds
<1>2. \A r \in Replica : elements[r] \in Tagged
  BY DEF SetTypeOK
<1>3. ASSUME NEW r \in Replica, NEW g \in Element, Add(r, g) PROVE AddedBy(r, g)
  <2> DEFINE new == [node_id |-> r, counter |-> tagCounter[r]]
             s == [elements[r] EXCEPT ![g] = elements[r][g] \cup {new}]
  <2>1. elements' = [elements EXCEPT ![r] = s] /\ UNCHANGED setCopies
    BY <1>3 DEF Add
  <2>2. s \in Tagged
    <3>1. new \in UniqueTag
      BY DEF SetTypeOK, UniqueTag
    <3>2. QED
      BY <1>2, <3>1 DEF Tagged
  <2>3. \A e \in Element : \A tag :
           tag \in s[e] => tag \in elements[r][e] \/ (e = g /\ tag = new)
    BY <1>2 DEF Tagged
  <2> HIDE DEF s
  <2>4. \A e \in Element : \A tag : Holds(e, tag)' =>
           Holds(e, tag) \/ (e = g /\ tag = new)
    BY <1>1, <2>1, <2>2, <2>3, OneSetChanges
  <2>5. QED
    BY <1>3, <2>4 DEF Add
<1>4. ASSUME NEW r \in Replica, NEW g \in Element, Remove(r, g) PROVE Kept
  <2> DEFINE s == [elements[r] EXCEPT ![g] = {}]
  <2>1. elements' = [elements EXCEPT ![r] = s] /\ UNCHANGED <<setCopies, tagCounter>>
    BY <1>4 DEF Remove
  <2>2. /\ s \in Tagged
        /\ \A e \in Element : \A tag : tag \in s[e] => tag \in elements[r][e]
    BY <1>2 DEF Tagged
  <2> HIDE DEF s
  <2>3. QED
    BY <1>1, <2>1, <2>2, OneSetChanges
<1>5. ASSUME NEW r \in Replica, TakeSet(r) PROVE Kept
  <2>1. SetStates' = SetStates /\ tagCounter' = tagCounter
    BY <1>5 DEF TakeSet, SetStates
  <2>2. QED
    BY <2>1 DEF Holds
<1>6. ASSUME NEW r \in Replica, NEW t \in setCopies, MergeSet(r, t) PROVE Kept
  <2> DEFINE s == MergedSet(elements[r], t.elements)
  <2>1. elements' = [elements EXCEPT ![r] = s] /\ UNCHANGED <<setCopies, tagCounter>>
    BY <1>6 DEF MergeSet
  <2>2. t.elements \in Tagged
    BY DEF SetTypeOK
  <2>3. s \in Tagged
    BY <1>2, <2>2 DEF MergedSet, Tagged
  <2>4. \A e \in Element : \A tag :
           tag \in s[e] => tag \in elements[r][e] \/ tag \in t.elements[e]
    BY DEF MergedSet
  <2>5. \A e \in Element : \A tag : tag \in t.elements[e] => Holds(e, tag)
    BY DEF Holds, SetStates
  <2> HIDE DEF s
  <2>6. QED
    BY <1>1, <2>1, <2>3, <2>4, <2>5, OneSetChanges
<1>7. CASE UNCHANGED setVars
  <2>1. SetStates' = SetStates /\ tagCounter' = tagCounter
    BY <1>7 DEF setVars, SetStates
  <2>2. QED
    BY <2>1 DEF Holds
<1>8. QED
  BY <1>3, <1>4, <1>5, <1>6, <1>7 DEF SetNext

LEMMA SetStep == SetInv /\ [SetNext]_setVars => SetInv'
<1> SUFFICES ASSUME SetInv, [SetNext]_setVars PROVE SetInv'
  OBVIOUS
<1>1. SetTypeOK /\ SetTypeOK'
  BY SetTypeStep DEF SetInv
<1>2. \A e \in Element : \A tag : Holds(e, tag) =>
         tag \in UniqueTag /\ tag.counter < tagCounter[tag.node_id]
  BY <1>1, SetStatesTyped DEF SetInv, TagsTaken, Holds, Tagged
<1>3. \A e, f \in Element : \A tag : Holds(e, tag) /\ Holds(f, tag) => e = f
  BY DEF SetInv, TagsUnique, Holds
<1>4. SUFFICES /\ \A e \in Element : \A tag : Holds(e, tag)' =>
                    tag.counter < tagCounter'[tag.node_id]
               /\ \A e, f \in Element : \A tag :
                    Holds(e, tag)' /\ Holds(f, tag)' => e = f
  <2>1. TagsTaken'
    BY <1>4 DEF TagsTaken, Holds
  <2>2. TagsUnique'
    BY <1>4 DEF TagsUnique, Holds
  <2>3. QED
    BY <1>1, <2>1, <2>2 DEF SetInv
<1>5. CASE /\ tagCounter' = tagCounter
           /\ \A e \in Element : \A tag : Holds(e, tag)' => Holds(e, tag)
  BY <1>2, <1>3, <1>5
<1>6. ASSUME NEW r \in Replica, NEW g \in Element,
             tagCounter' = [tagCounter EXCEPT ![r] = tagCounter[r] + 1],
             \A e \in Element : \A tag : Holds(e, tag)' =>
                \/ Holds(e, tag)
                \/ e = g /\ tag = [node_id |-> r, counter |-> tagCounter[r]]
      PROVE  /\ \A e \in Element : \A tag : Holds(e, tag)' =>
                  tag.counter < tagCounter'[tag.node_id]
             /\ \A e, f \in Element : \A tag :
                  Holds(e, tag)' /\ Holds(f, tag)' => e = f
  <2> DEFINE new == [node_id |-> r, counter |-> tagCounter[r]]
  <2>1. \A n \in Replica : /\ tagCounter[n] \in Nat /\ tagCounter'[n] \in Nat
                           /\ tagCounter'[n] >= tagCounter[n]
                           /\ tagCounter'[r] = tagCounter[r] + 1
    BY <1>1, <1>6 DEF SetTypeOK
  <2>2. new.counter < tagCounter'[new.node_id]
    BY <2>1
  <2>3. ASSUME NEW e \in Element, NEW tag, Holds(e, tag)
        PROVE  tag.counter < tagCounter'[tag.node_id] /\ tag # new
    <3>1. /\ tag.node_id \in Replica /\ tag.counter \in Nat
          /\ tag.counter < tagCounter[tag.node_id]
      BY <1>2, <2>3 DEF UniqueTag
    <3>2. tag.counter < tagCounter'[tag.node_id]
      BY <2>1, <3>1
    <3>3. ~(tagCounter[r] < tagCounter[r])
      BY <2>1
    <3>4. tag # new
      BY <3>1, <3>3
    <3>5. QED
      BY <3>2, <3>4
  <2>4. \A e \in Element : \A tag : Holds(e, tag)' => Holds(e, tag) \/ (e = g /\ tag = new)
    BY <1>6
  <2> HIDE DEF new
  <2>5. QED
    BY <1>3, <2>2, <2>3, <2>4
<1>7. QED
  BY <1>1, <1>5, <1>6, TagsComeFromAdds

\* In every configuration the observed-remove sets have their types.
THEOREM SetTypeCorrect == SetSpec => []SetTypeOK
<1>1. SetInv => SetTypeOK
  BY DEF SetInv
<1>2. QED
  BY <1>1, SetInitInv, SetStep, PTL DEF SetSpec

\* In every configuration a tag names one add(): it is never found on two
\* elements, at any replicas or in copies taken at any time.
THEOREM TagsNameOneAdd == SetSpec => []TagsUnique
<1>1. SetInv => TagsUnique
  BY DEF SetInv
<1>2. QED
  BY <1>1, SetInitInv, SetStep, PTL DEF SetSpec

\* What AddsStand says of one set and the history behind it.
Keeps(s, h) == \A e \in Element :
    /\ Stands(h, e) => e \in Members(s)
    /\ e \in Members(s) => \E a \in h.added : a.element = e

LEMMA KeepsAll ==
    AddsStand <=> /\ \A s \in setCopies : Keeps(s.elements, s.history)
                  /\ \A r \in Replica : Keeps(elements[r], history[r])
<1>1. setCopies \subseteq SetStates
  BY DEF SetStates
<1>2. AddsStand => \A r \in Replica : Keeps(elements[r], history[r])
  BY OwnSetState DEF AddsStand, Keeps
<1>3. QED
  BY <1>1, <1>2 DEF AddsStand, SetStates, Keeps

LEMMA MergeKeeps ==
    ASSUME NEW s \in Tagged, NEW t \in Tagged, NEW h \in Histories, NEW k \in Histories,
           Keeps(s, h), Keeps(t, k)
    PROVE  Keeps(MergedSet(s, t), [added |-> h.added \cup k.added,
                                   removed |-> h.removed \cup k.removed])
BY DEF Keeps, MergedSet, Members, Stands

\* A step that changes the set and the history of r keeps AddsStand if the new ones do.
LEMMA OneReplicaKeeps ==
    ASSUME SetTypeOK, AddsStand, NEW r \in Replica, NEW s, NEW h, Keeps(s, h),
           elements' = [elements EXCEPT ![r] = s], history' = [history EXCEPT ![r] = h],
           UNCHANGED setCopies
    PROVE  AddsStand'
<1>1. ASSUME NEW q \in Replica PROVE Keeps(elements'[q], history'[q])
  <2>1. CASE q = r
    BY <2>1 DEF SetTypeOK
  <2>2. CASE q # r
    <3>1. elements'[q] = elements[q] /\ history'[q] = history[q]
      BY <2>2 DEF SetTypeOK
    <3>2. QED
      BY <3>1, KeepsAll
  <2>3. QED
    BY <2>1, <2>2
<1>2. \A t \in setCopies' : Keeps(t.elements, t.history)
  BY KeepsAll
<1>3. QED
  BY <1>1, <1>2 DEF AddsStand, SetStates, Keeps

LEMMA AddsStandStep == SetTypeOK /\ AddsStand /\ [SetNext]_setVars => AddsStand'
<1> SUFFICES ASSUME SetTypeOK, AddsStand, [SetNext]_setVars PROVE AddsStand'
  OBVIOUS
<1>1. \A r \in Replica : /\ elements[r] \in Tagged /\ history[r] \in Histories
                         /\ Keeps(elements[r], history[r])
  BY KeepsAll DEF SetTypeOK
<1>2. ASSUME NEW r \in Replica, NEW g \in Element, Add(r, g) PROVE AddsStand'
  <2> DEFINE new == [node_id |-> r, counter |-> tagCounter[r]]
             a == [by |-> r, number |-> adds[r] + 1, element |-> g]
             s == [elements[r] EXCEPT ![g] = elements[r][g] \cup {new}]
             h == [history[r] EXCEPT !.added = history[r].added \cup {a}]
  <2>1. /\ elements' = [elements EXCEPT ![r] = s]
        /\ history' = [history EXCEPT ![r] = h]
        /\ UNCHANGED setCopies
    BY <1>2 DEF Add, AddIsNoted
  <2>2. h.added = history[r].added \cup {a} /\ h.removed = history[r].removed
    BY <1>1 DEF Histories
  <2>3. s[g] # {} /\ \A e \in Element \ {g} : s[e] = elements[r][e]
    BY <1>1 DEF Tagged
  <2>4. a.element = g
    OBVIOUS
  <2> HIDE DEF s, h, a
  <2>5. Keeps(s, h)
    BY <1>1, <2>2, <2>3, <2>4 DEF Keeps, Members, Stands
  <2>6. QED
    BY <2>1, <2>5, OneReplicaKeeps
<1>3. ASSUME NEW r \in Replica, NEW g \in Element, Remove(r, g) PROVE AddsStand'
  <2> DEFINE A == {a \in history[r].added : a.element = g}
             s == [elements[r] EXCEPT ![g] = {}]
             h == [history[r] EXCEPT !.removed = history[r].removed \cup A]
  <2>1. /\ elements' = [elements EXCEPT ![r] = s]
        /\ history' = [history EXCEPT ![r] = h]
        /\ UNCHANGED setCopies
    BY <1>3 DEF Remove, RemovalIsNoted
  <2>2. h.added = history[r].added /\ h.removed = history[r].removed \cup A
    BY <1>1 DEF Histories
  <2>3. s[g] = {} /\ \A e \in Element \ {g} : s[e] = elements[r][e]
    BY <1>1 DEF Tagged
  <2> HIDE DEF s, h
  <2>4. Keeps(s, h)
    BY <1>1, <2>2, <2>3 DEF Keeps, Members, Stands
  <2>5. QED
    BY <2>1, <2>4, OneReplicaKeeps
<1>4. ASSUME NEW r \in Replica, TakeSet(r) PROVE AddsStand'
  BY <1>4 DEF TakeSet, AddsStand, SetStates
<1>5. ASSUME NEW r \in Replica, NEW t \in setCopies, MergeSet(r, t) PROVE AddsStand'
  <2>1. /\ t.elements \in Tagged /\ t.history \in Histories
        /\ Keeps(t.elements, t.history)
    BY KeepsAll DEF SetTypeOK
  <2> DEFINE s == MergedSet(elements[r], t.elements)
             h == [added |-> history[r].added \cup t.history.added,
                   removed |-> history[r].removed \cup t.history.removed]
  <2>2. Keeps(s, h)
    BY <1>1, <2>1, MergeKeeps
  <2>3. /\ elements' = [elements EXCEPT ![r] = s]
        /\ history' = [history EXCEPT ![r] = h]
        /\ UNCHANGED setCopies
    BY <1>5 DEF MergeSet
  <2> HIDE DEF s, h
  <2>4. QED
    BY <2>2, <2>3, OneReplicaKeeps
<1>6. CASE UNCHANGED setVars
  BY <1>6 DEF setVars, AddsStand, SetStates, Members, Stands
<1>7. QED
  BY <1>2, <1>3, <1>4, <1>5, <1>6 DEF SetNext

\* In every configuration a set has each element of which an add has come in and no
\* removal of that add, and only elements that somebody added.
THEOREM AddsAreKept == SetSpec => []AddsStand
<1>1. SetInit => AddsStand
  <2> SUFFICES ASSUME SetInit PROVE AddsStand
    OBVIOUS
  <2>1. \A s \in SetStates : \A e \in Element : s.elements[e] = {} /\ s.history.added = {}
    BY DEF SetInit, SetStates
  <2>2. QED
    BY <2>1 DEF AddsStand, Members, Stands
<1>2. SetInv => SetTypeOK
  BY DEF SetInv
<1>3. QED
  BY <1>1, <1>2, SetInitInv, SetStep, AddsStandStep, PTL DEF SetSpec

-----------------------------------------------------------------------------
(* The last-write-wins map.                                                *)

NoneLate(W) == \A w \in W : ~w.late

\* x is the entry of a write of W that no write of W is later than.
IsLatest(x, W) ==
    \E w \in W : w.entry = x /\ \A v \in W : ~Earlier(x.timestamp, v.entry.timestamp)

\* What a replica that has seen the writes W of a key has for it: an entry as soon
\* as there is a write and, if none of them was late, the latest.
EntryFits(x, W) ==
    /\ x = NoEntry <=> W = {}
    /\ x # NoEntry /\ NoneLate(W) => IsLatest(x, W)

MapInv ==
    /\ MapTypeOK
    /\ \A s \in MapStates : \A k \in Key : EntryFits(s.entries[k], WritesOf(k, s.seen))

\* Timestamps are totally ordered.
LEMMA TimestampsAreOrdered ==
    ASSUME NEW s \in Timestamp, NEW t \in Timestamp, NEW u \in Timestamp
    PROVE  /\ ~Earlier(s, s)
           /\ Earlier(s, t) => ~Earlier(t, s)
           /\ ~Earlier(s, t) /\ ~Earlier(t, s) => s = t
           /\ ~Earlier(s, t) /\ ~Earlier(t, u) => ~Earlier(s, u)
BY DEF Timestamp, Earlier

LEMMA LaterEntryFits ==
    ASSUME NEW x \in Entry \cup {NoEntry}, NEW V \in SUBSET Write, EntryFits(x, V),
           NEW y \in Entry \cup {NoEntry}, NEW W \in SUBSET Write, EntryFits(y, W)
    PROVE  /\ LaterEntry(x, y) \in Entry \cup {NoEntry}
           /\ EntryFits(LaterEntry(x, y), V \cup W)
<1> DEFINE z == LaterEntry(x, y)
<1>1. z \in {x, y} /\ (z = NoEntry <=> x = NoEntry /\ y = NoEntry)
  BY DEF LaterEntry
<1>2. z = NoEntry <=> V \cup W = {}
  BY <1>1 DEF EntryFits
<1>3. ASSUME z # NoEntry, NoneLate(V \cup W) PROVE IsLatest(z, V \cup W)
  <2>1. NoneLate(V) /\ NoneLate(W)
    BY <1>3 DEF NoneLate
  <2>2. \A w \in V \cup W : w.entry.timestamp \in Timestamp
    BY DEF Write, Entry
  <2>3. x # NoEntry => x.timestamp \in Timestamp
    BY DEF Entry
  <2>4. y # NoEntry => y.timestamp \in Timestamp
    BY DEF Entry
  <2>5. CASE x = NoEntry
    <3>1. z = y /\ V = {}
      BY <1>3, <2>5 DEF LaterEntry, EntryFits
    <3>2. QED
      BY <1>3, <2>1, <3>1 DEF EntryFits
  <2>6. CASE y = NoEntry
    <3>1. z = x /\ W = {}
      BY <2>6 DEF LaterEntry, EntryFits
    <3>2. QED
      BY <1>3, <2>1, <3>1 DEF EntryFits
  <2>7. CASE x # NoEntry /\ y # NoEntry
    <3>1. IsLatest(x, V) /\ IsLatest(y, W)
      BY <2>1, <2>7 DEF EntryFits
    <3>2. CASE z = x /\ ~Earlier(x.timestamp, y.timestamp)
      <4>1. \A w \in V \cup W : ~Earlier(x.timestamp, w.entry.timestamp)
        BY <2>2, <2>3, <2>4, <2>7, <3>1, <3>2, TimestampsAreOrdered DEF IsLatest
      <4>2. QED
        BY <3>1, <3>2, <4>1 DEF IsLatest
    <3>3. CASE z = y /\ Earlier(x.timestamp, y.timestamp)
      <4>1. ~Earlier(y.timestamp, x.timestamp)
        BY <2>3, <2>4, <2>7, <3>3, TimestampsAreOrdered
      <4>2. \A w \in V \cup W : ~Earlier(y.timestamp, w.entry.timestamp)
        BY <2>2, <2>3, <2>4, <2>7, <3>1, <4>1, TimestampsAreOrdered DEF IsLatest
      <4>3. QED
        BY <3>1, <3>3, <4>2 DEF IsLatest
    <3>4. QED
      BY <2>7, <3>2, <3>3 DEF LaterEntry
  <2>8. QED
    BY <2>5, <2>6, <2>7
<1>4. QED
  BY <1>1, <1>2, <1>3 DEF EntryFits

LEMMA MapStatesTyped ==
    MapTypeOK => \A s \in MapStates : s.entries \in Maps /\ s.seen \in SUBSET Write
BY DEF MapTypeOK, MapStates

LEMMA WritesOfUnion ==
    ASSUME NEW k, NEW V, NEW W
    PROVE  WritesOf(k, V \cup W) = WritesOf(k, V) \cup WritesOf(k, W)
BY DEF WritesOf

LEMMA MapInitInv == MapInit => MapInv
<1> SUFFICES ASSUME MapInit PROVE MapInv
  OBVIOUS
<1>1. MapTypeOK
  BY DEF MapInit, MapTypeOK, Maps
<1>2. ASSUME NEW s \in MapStates, NEW k \in Key
      PROVE  EntryFits(s.entries[k], WritesOf(k, s.seen))
  <2>1. PICK r \in Replica : s = [entries |-> entries[r], seen |-> seen[r]]
    BY DEF MapInit, MapStates
  <2>2. s.entries[k] = NoEntry /\ WritesOf(k, s.seen) = {}
    BY <2>1 DEF MapInit, WritesOf
  <2>3. QED
    BY <2>2 DEF EntryFits
<1>3. QED
  BY <1>1, <1>2 DEF MapInv

\* A step that changes one replica keeps the invariant if the new state fits.
LEMMA OneMapChanges ==
    ASSUME MapInv, NEW r \in Replica, NEW m \in Maps, NEW W \in SUBSET Write,
           entries' = [entries EXCEPT ![r] = m], seen' = [seen EXCEPT ![r] = W],
           written' \in Nat, UNCHANGED mapCopies,
           \A k \in Key : EntryFits(m[k], WritesOf(k, W))
    PROVE  MapInv'
<1>1. MapTypeOK /\ MapTypeOK'
  BY DEF MapInv, MapTypeOK
<1>2. /\ entries'[r] = m /\ seen'[r] = W
      /\ \A q \in Replica \ {r} : entries'[q] = entries[q] /\ seen'[q] = seen[q]
  BY <1>1 DEF MapTypeOK
<1>3. ASSUME NEW s \in MapStates', NEW k \in Key
      PROVE  EntryFits(s.entries[k], WritesOf(k, s.seen))
  <2>1. CASE s \in MapStates
    BY <2>1 DEF MapInv
  <2>2. CASE s = [entries |-> m, seen |-> W]
    BY <2>2
  <2>3. s \in MapStates \/ s = [entries |-> m, seen |-> W]
    BY <1>2 DEF MapStates
  <2>4. QED
    BY <2>1, <2>2, <2>3
<1>4. QED
  BY <1>1, <1>3 DEF MapInv

LEMMA MapStep == MapInv /\ [MapNext]_mapVars => MapInv'
<1> SUFFICES ASSUME MapInv, [MapNext]_mapVars PROVE MapInv'
  OBVIOUS
<1>1. /\ MapTypeOK
      /\ \A s \in MapStates : \A k \in Key : EntryFits(s.entries[k], WritesOf(k, s.seen))
  BY DEF MapInv
<1>2. ASSUME NEW r \in Replica
      PROVE  /\ entries[r] \in Maps /\ seen[r] \in SUBSET Write
             /\ \A k \in Key : EntryFits(entries[r][k], WritesOf(k, seen[r]))
  <2>1. [entries |-> entries[r], seen |-> seen[r]] \in MapStates
    BY DEF MapStates
  <2>2. QED
    BY <1>1, <2>1 DEF MapTypeOK
<1>3. ASSUME NEW r \in Replica, NEW k \in Key, NEW time \in Time, Set(r, k, time)
      PROVE  MapInv'
  <2> DEFINE t == [time |-> time, node_id_hash |-> hash[r]]
             e == [value |-> written, timestamp |-> t]
             late == \E w \in WritesOf(k, seen[r]) : ~Earlier(w.entry.timestamp, t)
             w == [key |-> k, entry |-> e, late |-> late]
             m == [entries[r] EXCEPT ![k] = e]
             W == seen[r] \cup {w}
  <2>1. /\ entries' = [entries EXCEPT ![r] = m] /\ seen' = [seen EXCEPT ![r] = W]
        /\ written' = written + 1 /\ UNCHANGED mapCopies
    BY <1>3 DEF Set
  <2>2. /\ t \in Timestamp /\ e \in Entry /\ w \in Write
        /\ e.timestamp = t /\ w.entry = e /\ w.key = k /\ w.late = late
    BY <1>1, MapAssumption DEF Timestamp, Entry, Write, MapTypeOK
  <2> HIDE DEF e, t, w
  <2>3. m \in Maps /\ W \in SUBSET Write /\ written' \in Nat
    <3>1. entries[r] \in Maps /\ seen[r] \in SUBSET Write /\ written \in Nat
      BY <1>1, <1>2 DEF MapTypeOK
    <3>2. m \in Maps
      BY <2>2, <3>1 DEF Maps
    <3>3. QED
      BY <2>1, <2>2, <3>1, <3>2
  <2>4. ASSUME NEW l \in Key PROVE EntryFits(m[l], WritesOf(l, W))
    <3>1. CASE l # k
      <4>1. m[l] = entries[r][l] /\ WritesOf(l, W) = WritesOf(l, seen[r])
        BY <1>2, <2>2, <3>1 DEF Maps, WritesOf
      <4>2. QED
        BY <1>2, <4>1
    <3>2. CASE l = k
      <4>1. m[l] = e /\ WritesOf(l, W) = WritesOf(k, seen[r]) \cup {w}
        BY <1>2, <2>2, <3>2 DEF Maps, WritesOf
      <4>2. e # NoEntry
        BY <2>2, NoEntryAssumption
      <4>3. ASSUME NoneLate(WritesOf(l, W)) PROVE IsLatest(e, WritesOf(l, W))
        <5>1. \A v \in WritesOf(k, seen[r]) : Earlier(v.entry.timestamp, t)
          <6>1. w \in WritesOf(l, W)
            BY <4>1
          <6>2. ~late
            BY <2>2, <4>3, <6>1 DEF NoneLate
          <6>3. QED
            BY <6>2
        <5>2. \A v \in WritesOf(k, seen[r]) : v.entry.timestamp \in Timestamp
          BY <1>2 DEF WritesOf, Write, Entry
        <5>3. \A v \in WritesOf(k, seen[r]) \cup {w} : ~Earlier(t, v.entry.timestamp)
          BY <2>2, <5>1, <5>2, TimestampsAreOrdered
        <5>4. QED
          BY <2>2, <4>1, <5>3 DEF IsLatest
      <4>4. QED
        BY <4>1, <4>2, <4>3 DEF EntryFits
    <3>3. QED
      BY <3>1, <3>2
  <2> HIDE DEF m, W
  <2>5. QED
    BY <2>1, <2>3, <2>4, OneMapChanges
<1>4. ASSUME NEW r \in Replica, TakeMap(r) PROVE MapInv'
  <2>1. MapStates' = MapStates
    BY <1>4 DEF TakeMap, MapStates
  <2>2. MapTypeOK'
    BY <1>1, <1>2, <1>4 DEF TakeMap, MapTypeOK
  <2>3. QED
    BY <1>1, <2>1, <2>2 DEF MapInv
<1>5. ASSUME NEW r \in Replica, NEW c \in mapCopies, MergeMap(r, c) PROVE MapInv'
  <2> DEFINE m == MergedMap(entries[r], c.entries)
             W == seen[r] \cup c.seen
  <2>1. /\ entries' = [entries EXCEPT ![r] = m] /\ seen' = [seen EXCEPT ![r] = W]
        /\ written' = written /\ UNCHANGED mapCopies
    BY <1>5 DEF MergeMap
  <2>2. /\ c.entries \in Maps /\ c.seen \in SUBSET Write
        /\ \A k \in Key : EntryFits(c.entries[k], WritesOf(k, c.seen))
    BY <1>1 DEF MapStates, MapTypeOK
  <2>3. ASSUME NEW k \in Key
        PROVE  m[k] \in Entry \cup {NoEntry} /\ EntryFits(m[k], WritesOf(k, W))
    <3>1. /\ entries[r][k] \in Entry \cup {NoEntry} /\ c.entries[k] \in Entry \cup {NoEntry}
          /\ WritesOf(k, seen[r]) \in SUBSET Write /\ WritesOf(k, c.seen) \in SUBSET Write
      BY <1>2, <2>2 DEF Maps, WritesOf
    <3>2. m[k] = LaterEntry(entries[r][k], c.entries[k])
      BY DEF MergedMap
    <3>3. WritesOf(k, W) = WritesOf(k, seen[r]) \cup WritesOf(k, c.seen)
      BY WritesOfUnion
    <3>4. /\ EntryFits(entries[r][k], WritesOf(k, seen[r]))
          /\ EntryFits(c.entries[k], WritesOf(k, c.seen))
      BY <1>2, <2>2
    <3> HIDE DEF m, W
    <3>5. QED
      BY <3>1, <3>2, <3>3, <3>4, LaterEntryFits
  <2>4. m \in Maps
    BY <2>3 DEF MergedMap, Maps
  <2>5. W \in SUBSET Write /\ written' \in Nat
    BY <1>1, <1>2, <2>1, <2>2 DEF MapTypeOK
  <2> HIDE DEF m, W
  <2>6. QED
    BY <2>1, <2>3, <2>4, <2>5, OneMapChanges
<1>6. CASE UNCHANGED mapVars
  BY <1>1, <1>6 DEF mapVars, MapInv, MapTypeOK, MapStates
<1>7. QED
  BY <1>3, <1>4, <1>5, <1>6 DEF MapNext

\* For any replicas, keys, clocks and hashes, replicas that have seen the same
\* writes of a key agree on its entry if the timestamps of these writes differ and
\* none of them was late, whatever was merged and in which order.
THEOREM OrderlyWritesConverge == MapSpec => []SameWritesSameEntry
<1>1. MapInv => SameWritesSameEntry
  <2> SUFFICES ASSUME MapInv, NEW s \in MapStates, NEW t \in MapStates, NEW k \in Key,
                      WritesOf(k, s.seen) = WritesOf(k, t.seen),
                      Orderly(WritesOf(k, s.seen))
               PROVE  s.entries[k] = t.entries[k]
    BY DEF SameWritesSameEntry
  <2> DEFINE W == WritesOf(k, s.seen)
             x == s.entries[k]
             y == t.entries[k]
  <2>1. EntryFits(x, W) /\ EntryFits(y, W)
    BY DEF MapInv
  <2>2. \A w \in W : w.entry.timestamp \in Timestamp
    BY MapStatesTyped DEF MapInv, WritesOf, Write, Entry
  <2>3. NoneLate(W) /\ \A v, w \in W : v.entry.timestamp = w.entry.timestamp => v = w
    BY DEF Orderly, NoneLate
  <2> HIDE DEF W, x, y
  <2>4. ASSUME W = {} PROVE x = y
    BY <2>1, <2>4 DEF EntryFits
  <2>5. ASSUME W # {} PROVE x = y
    <3>1. IsLatest(x, W) /\ IsLatest(y, W)
      BY <2>1, <2>3, <2>5 DEF EntryFits
    <3>2. PICK v \in W : /\ v.entry = x
                         /\ \A u \in W : ~Earlier(x.timestamp, u.entry.timestamp)
      BY <3>1 DEF IsLatest
    <3>3. PICK w \in W : /\ w.entry = y
                         /\ \A u \in W : ~Earlier(y.timestamp, u.entry.timestamp)
      BY <3>1 DEF IsLatest
    <3>4. ~Earlier(x.timestamp, y.timestamp) /\ ~Earlier(y.timestamp, x.timestamp)
      BY <3>2, <3>3
    <3>5. x.timestamp = y.timestamp
      BY <2>2, <3>2, <3>3, <3>4, TimestampsAreOrdered
    <3>6. QED
      BY <2>3, <3>2, <3>3, <3>5
  <2>6. x = y
    BY <2>4, <2>5
  <2>7. QED
    BY <2>6 DEF x, y
<1>2. QED
  BY <1>1, MapInitInv, MapStep, PTL DEF MapSpec

-----------------------------------------------------------------------------
(* The HTTP counter.                                                       *)

\* The net effect of e when the requests stand as f says.
NetOf(e, f) == e.base + Cardinality({q \in e.of : f[q] = "added"})
                      - Cardinality({q \in e.of : f[q] = "taken"})

Answered == {q \in Request : request[q] \in {"added", "taken", "set"}}

\* The counter is the net effect of answered requests, among them all that met
\* no race.
EffectInv ==
    /\ IsFiniteSet(effect.of) /\ effect.of \subseteq Answered
    /\ writers \ exposed \subseteq effect.of
    /\ wrapped \/ counterValue = NetOf(effect, request)

\* So is what a request in progress has read of it.
BasisInv(q) ==
    /\ IsFiniteSet(basis[q].of) /\ basis[q].of \subseteq Answered
    /\ request[q] = "takes" => current[q] # 0
    /\ InProgress(q) => /\ writers \ exposed \subseteq basis[q].of
                        /\ wrapped \/ current[q] = NetOf(basis[q], request)

HttpInv == HttpTypeOK /\ EffectInv /\ \A q \in Request : BasisInv(q)

LEMMA HttpInitInv == HttpInit => HttpInv
<1> SUFFICES ASSUME HttpInit PROVE HttpInv
  OBVIOUS
<1>1. HttpTypeOK
  <2>1. 0 \in 0..MaxCount /\ effect \in Effects
    BY HttpAssumption DEF HttpInit, Effects
  <2>2. QED
    BY <2>1 DEF HttpInit, HttpTypeOK
<1>2. IsFiniteSet({}) /\ Cardinality({}) = 0
  BY FS_EmptySet
<1>3. effect = [base |-> 0, of |-> {}] /\ \A q \in Request : basis[q] = effect
  BY DEF HttpInit
<1>4. NetOf(effect, request) = 0
  <2>1. /\ {q \in effect.of : request[q] = "added"} = {}
        /\ {q \in effect.of : request[q] = "taken"} = {}
        /\ effect.base = 0
    BY <1>3
  <2>2. QED
    BY <1>2, <2>1 DEF NetOf
<1>5. EffectInv
  BY <1>2, <1>3, <1>4 DEF HttpInit, EffectInv
<1>6. ASSUME NEW q \in Request PROVE BasisInv(q)
  <2>1. basis[q].of = {} /\ request[q] = "new"
    BY <1>3 DEF HttpInit
  <2>2. QED
    BY <1>2, <2>1 DEF BasisInv, InProgress
<1>7. QED
  BY <1>1, <1>5, <1>6 DEF HttpInv

LEMMA NetIsKept ==
    ASSUME NEW e, NEW f, NEW g, \A q \in e.of : g[q] = f[q]
    PROVE  NetOf(e, g) = NetOf(e, f)
<1>1. \A s : {q \in e.of : g[q] = s} = {q \in e.of : f[q] = s}
  OBVIOUS
<1>2. QED
  BY <1>1 DEF NetOf

\* A request that is answered on top of e counts once.
LEMMA NetWithOne ==
    ASSUME NEW e \in Effects, IsFiniteSet(e.of), NEW x, x \notin e.of,
           NEW d, d.base = e.base, d.of = e.of \cup {x},
           NEW f, NEW g, \A q \in e.of : g[q] = f[q]
    PROVE  /\ IsFiniteSet(d.of) /\ NetOf(e, f) \in Int
           /\ g[x] = "added" => NetOf(d, g) = NetOf(e, f) + 1
           /\ g[x] = "taken" => NetOf(d, g) = NetOf(e, f) - 1
<1> DEFINE A(s) == {q \in e.of : f[q] = s}
           B(s) == {q \in d.of : g[q] = s}
<1>1. e.base \in Int
  BY DEF Effects
<1>2. IsFiniteSet(d.of)
  BY FS_AddElement
<1>3. ASSUME NEW s
      PROVE  /\ Cardinality(A(s)) \in Nat
             /\ g[x] = s => Cardinality(B(s)) = Cardinality(A(s)) + 1
             /\ g[x] # s => Cardinality(B(s)) = Cardinality(A(s))
  <2>1. IsFiniteSet(A(s)) /\ x \notin A(s)
    BY FS_Subset
  <2>2. g[x] = s => B(s) = A(s) \cup {x}
    OBVIOUS
  <2>3. g[x] # s => B(s) = A(s)
    OBVIOUS
  <2> HIDE DEF A, B
  <2>4. QED
    BY <2>1, <2>2, <2>3, FS_AddElement, FS_CardinalityType
<1>4. /\ NetOf(e, f) = e.base + Cardinality(A("added")) - Cardinality(A("taken"))
      /\ NetOf(d, g) = e.base + Cardinality(B("added")) - Cardinality(B("taken"))
  BY DEF NetOf
<1> HIDE DEF A, B
<1>5. NetOf(e, f) \in Int
  BY <1>1, <1>3, <1>4
<1>6. ASSUME g[x] = "added" PROVE NetOf(d, g) = NetOf(e, f) + 1
  <2>1. Cardinality(B("added")) = Cardinality(A("added")) + 1
    BY <1>3, <1>6
  <2>2. Cardinality(B("taken")) = Cardinality(A("taken"))
    BY <1>3, <1>6
  <2>3. QED
    BY <1>1, <1>3, <1>4, <2>1, <2>2
<1>7. ASSUME g[x] = "taken" PROVE NetOf(d, g) = NetOf(e, f) - 1
  <2>1. Cardinality(B("added")) = Cardinality(A("added"))
    BY <1>3, <1>7
  <2>2. Cardinality(B("taken")) = Cardinality(A("taken")) + 1
    BY <1>3, <1>7
  <2>3. QED
    BY <1>1, <1>3, <1>4, <2>1, <2>2
<1>8. QED
  BY <1>2, <1>5, <1>6, <1>7

LEMMA OnBasisIs ==
    ASSUME NEW q \in Request, basis[q] \in Effects
    PROVE  /\ OnBasis(q) \in Effects
           /\ OnBasis(q).base = basis[q].base
           /\ OnBasis(q).of = basis[q].of \cup {q}
BY DEF OnBasis, Effects

LEMMA ReadsKeepInv ==
    ASSUME HttpInv, NEW q \in Request, NEW at \in {"adds", "takes", "refused", "panicked"},
           at = "takes" => counterValue # 0, Reads(q, at)
    PROVE  HttpInv'
<1>1. HttpTypeOK /\ EffectInv /\ \A p \in Request : BasisInv(p)
  BY DEF HttpInv
<1>2. /\ request[q] = "new"
      /\ request'[q] = at /\ current'[q] = counterValue /\ basis'[q] = effect
      /\ \A p \in Request \ {q} : /\ request'[p] = request[p]
                                  /\ current'[p] = current[p]
                                  /\ basis'[p] = basis[p]
      /\ UNCHANGED <<counterValue, effect, writers, exposed, wrapped>>
  BY <1>1 DEF Reads, HttpTypeOK
<1>3. HttpTypeOK'
  BY <1>1 DEF Reads, HttpTypeOK
<1>4. Answered' = Answered /\ \A p \in Answered : request'[p] = request[p]
  BY <1>2 DEF Answered
<1>5. EffectInv'
  <2>1. \A p \in effect.of : request'[p] = request[p]
    BY <1>1, <1>4 DEF EffectInv
  <2>2. NetOf(effect, request') = NetOf(effect, request)
    BY <2>1, NetIsKept
  <2>3. QED
    BY <1>1, <1>2, <1>4, <2>2 DEF EffectInv
<1>6. ASSUME NEW p \in Request PROVE BasisInv(p)'
  <2>1. CASE p = q
    BY <1>1, <1>2, <1>4, <1>5, <2>1 DEF EffectInv, BasisInv, InProgress
  <2>2. CASE p # q
    <3>1. \A x \in basis[p].of : request'[x] = request[x]
      BY <1>1, <1>4 DEF BasisInv
    <3>2. NetOf(basis[p], request') = NetOf(basis[p], request)
      BY <3>1, NetIsKept
    <3>3. /\ basis'[p] = basis[p] /\ request'[p] = request[p] /\ current'[p] = current[p]
          /\ BasisInv(p)
      BY <1>1, <1>2, <2>2
    <3>4. QED
      BY <1>2, <1>4, <3>2, <3>3 DEF BasisInv, InProgress
  <2>3. QED
    BY <2>1, <2>2
<1>7. QED
  BY <1>3, <1>5, <1>6 DEF HttpInv

LEMMA WritesKeepInv ==
    ASSUME HttpInv, NEW q \in Request, NEW v \in 0..MaxCount, NEW e \in Effects,
           NEW at \in {"added", "taken", "set"}, Writes(q, v, e, at),
           request[q] \in {"new", "adds", "takes"},
           wrapped' \in BOOLEAN, wrapped => wrapped',
           IsFiniteSet(e.of), q \in e.of, e.of \subseteq Answered \cup {q},
           at = "set" \/ writers \ exposed \subseteq e.of,
           wrapped' \/ v = NetOf(e, request')
    PROVE  HttpInv'
<1>1. HttpTypeOK /\ \A p \in Request : BasisInv(p)
  BY DEF HttpInv
<1>2. /\ request'[q] = at
      /\ \A p \in Request \ {q} : request'[p] = request[p]
      /\ current' = current /\ basis' = basis /\ counterValue' = v /\ effect' = e
  BY <1>1 DEF Writes, HttpTypeOK
<1>3. HttpTypeOK'
  BY <1>1 DEF Writes, HttpTypeOK
<1>4. Answered' = Answered \cup {q} /\ \A p \in Answered : p # q /\ request'[p] = request[p]
  BY <1>2 DEF Answered
<1>5. writers' \ exposed' \subseteq (IF at = "set" THEN {} ELSE writers \ exposed) \cup {q}
  BY DEF Writes
<1>6. EffectInv'
  BY <1>2, <1>4, <1>5 DEF EffectInv
<1>7. ASSUME NEW p \in Request PROVE BasisInv(p)'
  <2>1. BasisInv(p)
    BY <1>1
  <2>2. \A x \in basis[p].of : request'[x] = request[x]
    BY <1>4, <2>1 DEF BasisInv
  <2>3. NetOf(basis[p], request') = NetOf(basis[p], request)
    BY <2>2, NetIsKept
  <2>4. CASE p = q
    BY <1>2, <1>4, <2>1, <2>4 DEF BasisInv, InProgress
  <2>5. CASE p # q
    <3>1. request'[p] = request[p]
      BY <1>2, <2>5
    <3>2. ASSUME InProgress(p) PROVE writers' \ exposed' \subseteq writers \ exposed
      BY <2>5, <3>2 DEF Writes
    <3>3. QED
      BY <1>2, <1>4, <2>1, <2>3, <3>1, <3>2 DEF BasisInv, InProgress
  <2>6. QED
    BY <2>4, <2>5
<1>8. QED
  BY <1>3, <1>6, <1>7 DEF HttpInv

LEMMA HttpStep == HttpInv /\ [HttpNext]_httpVars => HttpInv'
<1> SUFFICES ASSUME HttpInv, [HttpNext]_httpVars PROVE HttpInv'
  OBVIOUS
<1>1. HttpTypeOK /\ \A q \in Request : BasisInv(q)
  BY DEF HttpInv
<1>2. ASSUME NEW q \in Request, request[q] \in {"adds", "takes"}
      PROVE  /\ current[q] \in 0..MaxCount /\ basis[q] \in Effects
             /\ IsFiniteSet(basis[q].of) /\ basis[q].of \subseteq Answered
             /\ q \notin basis[q].of
             /\ writers \ exposed \subseteq basis[q].of
             /\ wrapped \/ current[q] = NetOf(basis[q], request)
             /\ request[q] = "takes" => current[q] # 0
  BY <1>1, <1>2 DEF HttpTypeOK, BasisInv, InProgress, Answered
<1>3. ASSUME NEW q \in Request, ReadToIncrement(q) PROVE HttpInv'
  BY <1>3, ReadsKeepInv DEF ReadToIncrement
<1>4. ASSUME NEW q \in Request, WriteIncrement(q) PROVE HttpInv'
  <2> DEFINE v == IF current[q] = MaxCount THEN 0 ELSE current[q] + 1
  <2>1. request[q] = "adds" /\ Writes(q, v, OnBasis(q), "added")
        /\ wrapped' = (wrapped \/ current[q] = MaxCount)
    BY <1>4 DEF WriteIncrement
  <2>2. request'[q] = "added" /\ \A x \in basis[q].of : request'[x] = request[x]
    BY <1>1, <1>2, <2>1 DEF Writes, HttpTypeOK, Answered
  <2>3. /\ OnBasis(q) \in Effects /\ OnBasis(q).of = basis[q].of \cup {q}
        /\ IsFiniteSet(OnBasis(q).of) /\ NetOf(basis[q], request) \in Int
        /\ NetOf(OnBasis(q), request') = NetOf(basis[q], request) + 1
    BY <1>2, <2>1, <2>2, OnBasisIs, NetWithOne
  <2>4. v \in 0..MaxCount
    BY <1>2, <2>1, HttpAssumption
  <2>5. wrapped' \/ v = NetOf(OnBasis(q), request')
    BY <1>2, <2>1, <2>3
  <2>6. wrapped' \in BOOLEAN /\ (wrapped => wrapped')
    BY <2>1
  <2> HIDE DEF v
  <2>7. QED
    BY <1>2, <2>1, <2>3, <2>4, <2>5, <2>6, WritesKeepInv
<1>5. ASSUME NEW q \in Request, ReadToDecrement(q) PROVE HttpInv'
  BY <1>5, ReadsKeepInv DEF ReadToDecrement
<1>6. ASSUME NEW q \in Request, WriteDecrement(q) PROVE HttpInv'
  <2>1. /\ request[q] = "takes" /\ wrapped' = wrapped
        /\ Writes(q, current[q] - 1, OnBasis(q), "taken")
    BY <1>6 DEF WriteDecrement
  <2>2. request'[q] = "taken" /\ \A x \in basis[q].of : request'[x] = request[x]
    BY <1>1, <1>2, <2>1 DEF Writes, HttpTypeOK, Answered
  <2>3. /\ OnBasis(q) \in Effects /\ OnBasis(q).of = basis[q].of \cup {q}
        /\ IsFiniteSet(OnBasis(q).of) /\ NetOf(basis[q], request) \in Int
        /\ NetOf(OnBasis(q), request') = NetOf(basis[q], request) - 1
    BY <1>2, <2>1, <2>2, OnBasisIs, NetWithOne
  <2>4. /\ current[q] - 1 \in 0..MaxCount
        /\ wrapped' \/ current[q] - 1 = NetOf(OnBasis(q), request')
    BY <1>2, <2>1, <2>3, HttpAssumption
  <2>5. wrapped' \in BOOLEAN /\ (wrapped => wrapped')
    BY <1>1, <2>1 DEF HttpTypeOK
  <2>6. QED
    BY <1>2, <2>1, <2>3, <2>4, <2>5, WritesKeepInv
<1>7. ASSUME NEW q \in Request, NEW v \in Settable, SetValue(q, v) PROVE HttpInv'
  <2> DEFINE e == [base |-> v, of |-> {q}]
  <2>1. request[q] = "new" /\ Writes(q, v, e, "set") /\ wrapped' = wrapped
    BY <1>7 DEF SetValue
  <2>2. v \in 0..MaxCount /\ e \in Effects
    BY HttpAssumption DEF Effects
  <2>3. IsFiniteSet(e.of)
    BY FS_Singleton
  <2>4. v = NetOf(e, request')
    <3>1. request'[q] = "set"
      BY <1>1, <2>1 DEF Writes, HttpTypeOK
    <3>2. /\ {p \in e.of : request'[p] = "added"} = {}
          /\ {p \in e.of : request'[p] = "taken"} = {}
          /\ Cardinality({}) = 0
      BY <3>1, FS_EmptySet
    <3>3. QED
      BY <2>2, <3>2 DEF NetOf
  <2>5. q \in e.of /\ e.of \subseteq Answered \cup {q}
    OBVIOUS
  <2>6. wrapped' \in BOOLEAN
    BY <1>1, <2>1 DEF HttpTypeOK
  <2> HIDE DEF e
  <2>7. QED
    BY <2>1, <2>2, <2>3, <2>4, <2>5, <2>6, WritesKeepInv
<1>8. CASE UNCHANGED httpVars
  BY <1>1, <1>8 DEF httpVars, HttpInv, HttpTypeOK, EffectInv, BasisInv, InProgress, Answered
<1>9. QED
  BY <1>3, <1>4, <1>5, <1>6, <1>7, <1>8 DEF HttpNext

\* For any requests, with any values set and for integers of any width, the
\* counter is the net effect of answered requests, each counted once, and all of
\* them since the last set_value() but those that wrote during a race.
THEOREM UpdatesAreLostInRaces == HttpSpec => []OnlyRacesLoseUpdates
<1>1. HttpInv => OnlyRacesLoseUpdates
  BY DEF HttpInv, HttpTypeOK, EffectInv, OnlyRacesLoseUpdates, NetOf, Added, Taken
<1>2. QED
  BY <1>1, HttpInitInv, HttpStep, PTL DEF HttpSpec

-----------------------------------------------------------------------------
(* The Raft node.                                                          *)

\* The message in hand is of the kind whose handler runs.
MessageFits ==
    /\ handling \in {"mayVote", "compare", "vote"} => message \in VoteRequests
    /\ handling \in {"follow", "check", "append", "queued", "commit"} =>
          message \in AppendRequests

RaftTypeInv == RaftTypeOK /\ MessageFits

\* No vote has been cast in the current term.
TermIsNew == handling \in {"newRole", "newVote"} \/ election = "vote"

\* As long as no election overlaps a message, votedFor is the vote of the current
\* term, and a vote is decided in the term that it is cast in.
VotesInv ==
    /\ handling = "idle" \/ election \notin {"term", "vote"}
    /\ \A v \in votes : v.term <= currentTerm
    /\ TermIsNew => \A v \in votes : v.term < currentTerm
    /\ ~TermIsNew => \A v \in votes : v.term = currentTerm => v.candidate = votedFor
    /\ handling = "newTerm" => message.term > currentTerm
    /\ handling \notin {"idle", "newTerm"} => message.term <= currentTerm
    /\ handling \in {"mayVote", "compare", "vote"} => message.term = currentTerm
    /\ handling \in {"compare", "vote"} => votedFor \in {Nobody, message.candidate}
    /\ \A v, w \in votes : v.term = w.term => v.candidate = w.candidate

RaftInv == RaftTypeInv /\ (overlapped \/ VotesInv)

LEMMA RaftInitInv == RaftInit => RaftInv
<1> SUFFICES ASSUME RaftInit PROVE RaftInv
  OBVIOUS
<1>1. RaftTypeOK
  <2>1. log \in Entries
    BY DEF RaftInit, Entries
  <2>2. votes \subseteq [term : Nat, candidate : Peer \cup {Me}]
    BY DEF RaftInit
  <2>3. /\ proposal \in [Proposal -> {"new", "leads", "asks", "queued", "done", "refused"}]
        /\ proposalTerm \in [Proposal -> Nat]
    BY DEF RaftInit
  <2>4. QED
    BY <2>1, <2>2, <2>3 DEF RaftInit, RaftTypeOK
<1>2. MessageFits
  BY DEF RaftInit, MessageFits
<1>3. VotesInv
  BY DEF RaftInit, VotesInv, TermIsNew
<1>4. QED
  BY <1>1, <1>2, <1>3 DEF RaftInv, RaftTypeInv

LEMMA MessageTypes ==
    ASSUME NEW m \in Message
    PROVE  /\ m.term \in Nat
           /\ m.type = "RequestVote" => m \in VoteRequests
           /\ m.type = "AppendEntries" => m \in AppendRequests
BY RaftAssumption DEF VoteRequests, AppendRequests, OtherMessages

\* The log keeps its type when it is cut and extended.
LEMMA LogsAreCut ==
    ASSUME NEW l \in Entries, NEW new \in Entries, NEW n \in Nat
    PROVE  /\ (IF Len(l) > n THEN SubSeq(l, 1, n) ELSE l) \o new \in Entries
           /\ \A t \in Nat : Append(l, t) \in Entries
<1>1. Len(l) \in Nat /\ l \in Seq(Nat)
  BY LenProperties DEF Entries
<1>2. CASE Len(l) > n
  <2>1. SubSeq(l, 1, n) \in Seq(Nat)
    BY <1>1, <1>2, SubSeqProperties
  <2>2. QED
    BY <1>1, <1>2, <2>1, ConcatProperties, AppendProperties DEF Entries
<1>3. CASE ~(Len(l) > n)
  BY <1>1, <1>3, ConcatProperties, AppendProperties DEF Entries
<1>4. QED
  BY <1>2, <1>3

LEMMA ElectKeepsType ==
    ASSUME RaftTypeInv, Elect PROVE RaftTypeInv'
<1> USE DEF RaftTypeInv, RaftTypeOK, MessageFits
<1>1. CASE Campaign
  BY <1>1 DEF Campaign
<1>2. CASE RaiseTerm
  BY <1>2 DEF RaiseTerm
<1>3. CASE VoteForMyself
  BY <1>3 DEF VoteForMyself
<1>4. CASE LockLog
  BY <1>4 DEF LockLog
<1>5. CASE Count
  BY <1>5 DEF Count
<1>6. CASE BecomeLeader
  BY <1>6 DEF BecomeLeader
<1>7. CASE Relock
  BY <1>7 DEF Relock
<1>8. CASE Beat
  BY <1>8 DEF Beat
<1>9. QED
  BY <1>1, <1>2, <1>3, <1>4, <1>5, <1>6, <1>7, <1>8 DEF Elect

LEMMA HandleKeepsType ==
    ASSUME RaftTypeInv, Handle PROVE RaftTypeInv'
<1>1. RaftTypeOK /\ MessageFits
  BY DEF RaftTypeInv
<1>2. ASSUME message \in Message PROVE message.term \in Nat
  BY <1>2, MessageTypes
<1>3. CASE AdoptTerm
  BY <1>1, <1>2, <1>3, RaftAssumption DEF AdoptTerm, GoTo, RaftTypeInv, RaftTypeOK, MessageFits
<1>4. CASE StepDown
  BY <1>1, <1>4 DEF StepDown, GoTo, RaftTypeInv, RaftTypeOK, MessageFits
<1>5. CASE ForgetVote
  BY <1>1, <1>5 DEF ForgetVote, GoTo, RaftTypeInv, RaftTypeOK, MessageFits
<1>6. CASE Dispatch
  BY <1>1, <1>6, MessageTypes DEF Dispatch, GoTo, RaftTypeInv, RaftTypeOK, MessageFits
<1>7. CASE Decide
  BY <1>1, <1>7 DEF Decide, GoTo, RaftTypeInv, RaftTypeOK, MessageFits
<1>8. CASE CompareLogs
  BY <1>1, <1>8 DEF CompareLogs, GoTo, RaftTypeInv, RaftTypeOK, MessageFits
<1>9. CASE GrantVote
  BY <1>1, <1>9 DEF GrantVote, GoTo, RaftTypeInv, RaftTypeOK, MessageFits, VoteRequests
<1>10. CASE Follow
  BY <1>1, <1>10 DEF Follow, GoTo, RaftTypeInv, RaftTypeOK, MessageFits
<1>11. CASE CheckLog
  BY <1>1, <1>11 DEF CheckLog, GoTo, RaftTypeInv, RaftTypeOK, MessageFits
<1>12. CASE HandlerQueues
  BY <1>1, <1>12 DEF HandlerQueues, GoTo, RaftTypeInv, RaftTypeOK, MessageFits
<1>13. CASE AppendToLog
  <2>1. message.prev_log_index + 1 \in Nat /\ message.entries \in Entries
    BY <1>1, <1>13 DEF AppendToLog, MessageFits, AppendRequests
  <2>2. log' \in Entries
    BY <1>1, <1>13, <2>1, LogsAreCut DEF AppendToLog, RaftTypeOK
  <2>3. QED
    BY <1>1, <1>13, <2>2 DEF AppendToLog, GoTo, RaftTypeInv, RaftTypeOK, MessageFits
<1>14. CASE Commit
  <2>1. commitIndex' \in Nat
    BY <1>1, <1>14, LenProperties DEF Commit, RaftTypeOK, MessageFits, AppendRequests, Entries
  <2>2. QED
    BY <1>1, <1>14, <2>1 DEF Commit, GoTo, RaftTypeInv, RaftTypeOK, MessageFits
<1>15. QED
  BY <1>3, <1>4, <1>5, <1>6, <1>7, <1>8, <1>9, <1>10, <1>11, <1>12, <1>13, <1>14
  DEF Handle

LEMMA RaftTypeStep == RaftTypeInv /\ [RaftNext]_raftVars => RaftTypeInv'
<1> SUFFICES ASSUME RaftTypeInv, [RaftNext]_raftVars PROVE RaftTypeInv'
  OBVIOUS
<1>1. RaftTypeOK /\ MessageFits
  BY DEF RaftTypeInv
<1>2. CASE Elect
  BY <1>2, ElectKeepsType
<1>3. CASE Handle
  BY <1>3, HandleKeepsType
<1>4. ASSUME NEW m \in Message, ReceiveMessage(m) PROVE RaftTypeInv'
  BY <1>1, <1>4, RaftAssumption DEF ReceiveMessage, RaftTypeInv, RaftTypeOK, MessageFits
<1>5. ASSUME NEW c \in Proposal, Propose(c) PROVE RaftTypeInv'
  <2>1. CASE AskLeader(c)
    BY <1>1, <2>1 DEF AskLeader, Proceeds, RaftTypeInv, RaftTypeOK, MessageFits
  <2>2. CASE ReadTerm(c)
    BY <1>1, <2>2 DEF ReadTerm, Proceeds, RaftTypeInv, RaftTypeOK, MessageFits
  <2>3. CASE ProposalQueues(c)
    BY <1>1, <2>3 DEF ProposalQueues, Proceeds, RaftTypeInv, RaftTypeOK, MessageFits
  <2>4. CASE AppendProposal(c)
    <3>1. proposalTerm[c] \in Nat /\ log \in Entries
      BY <1>1 DEF RaftTypeOK
    <3>2. log' \in Entries
      BY <2>4, <3>1, AppendProperties DEF AppendProposal, Entries
    <3>3. QED
      BY <1>1, <2>4, <3>2 DEF AppendProposal, Proceeds, RaftTypeInv, RaftTypeOK, MessageFits
  <2>5. QED
    BY <1>5, <2>1, <2>2, <2>3, <2>4 DEF Propose
<1>6. ASSUME NEW p \in Peer \ peers, AddPeer(p) PROVE RaftTypeInv'
  BY <1>1, <1>6 DEF AddPeer, RaftTypeInv, RaftTypeOK, MessageFits
<1>7. CASE UNCHANGED raftVars
  BY <1>1, <1>7 DEF raftVars, RaftTypeInv, RaftTypeOK, MessageFits
<1>8. QED
  BY <1>2, <1>3, <1>4, <1>5, <1>6, <1>7 DEF RaftNext

\* What VotesInv says of a state whose votes are counted in numbers.
LEMMA VotesAreTyped ==
    RaftTypeInv => /\ currentTerm \in Nat
                   /\ \A v \in votes : v.term \in Nat /\ v.candidate # Nobody
BY RaftAssumption DEF RaftTypeInv, RaftTypeOK

LEMMA ElectKeepsVotes ==
    ASSUME RaftTypeInv, VotesInv, Elect, ~overlapped' PROVE VotesInv'
<1> USE VotesAreTyped DEF VotesInv, TermIsNew
<1>1. CASE Campaign
  BY <1>1 DEF Campaign
<1>2. CASE RaiseTerm
  BY <1>2 DEF RaiseTerm
<1>3. CASE VoteForMyself
  <2>1. /\ handling = "idle" /\ \A v \in votes : v.term \in Nat /\ v.term < currentTerm
        /\ votes' = votes \cup {[term |-> currentTerm, candidate |-> Me]}
        /\ votedFor' = Me /\ election' = "lock" /\ UNCHANGED <<currentTerm, handling, message>>
    BY <1>3 DEF VoteForMyself
  <2>2. \A v \in votes' : v \in votes \/ (v.term = currentTerm /\ v.candidate = Me)
    BY <2>1
  <2>3. QED
    BY <2>1, <2>2
<1>4. CASE LockLog
  BY <1>4 DEF LockLog
<1>5. CASE Count
  BY <1>5 DEF Count
<1>6. CASE BecomeLeader
  BY <1>6 DEF BecomeLeader
<1>7. CASE Relock
  BY <1>7 DEF Relock
<1>8. CASE Beat
  BY <1>8 DEF Beat
<1>9. QED
  BY <1>1, <1>2, <1>3, <1>4, <1>5, <1>6, <1>7, <1>8 DEF Elect

LEMMA HandleKeepsVotes ==
    ASSUME RaftTypeInv, VotesInv, Handle PROVE VotesInv'
<1>1. /\ RaftTypeOK /\ MessageFits /\ currentTerm \in Nat
      /\ \A v \in votes : v.term \in Nat /\ v.candidate # Nobody
  BY VotesAreTyped DEF RaftTypeInv
<1>2. handling # "idle" => message \in Message /\ message.term \in Nat
  BY <1>1, MessageTypes DEF RaftTypeOK
<1>3. handling # "idle" => election \notin {"term", "vote"}
  BY DEF VotesInv
<1>4. CASE AdoptTerm
  BY <1>1, <1>2, <1>3, <1>4 DEF AdoptTerm, GoTo, VotesInv, TermIsNew
<1>5. CASE StepDown
  BY <1>1, <1>3, <1>5 DEF StepDown, GoTo, VotesInv, TermIsNew
<1>6. CASE ForgetVote
  BY <1>1, <1>2, <1>3, <1>6 DEF ForgetVote, GoTo, VotesInv, TermIsNew
<1>7. CASE Dispatch
  BY <1>1, <1>2, <1>3, <1>7 DEF Dispatch, GoTo, VotesInv, TermIsNew
<1>8. CASE Decide
  BY <1>1, <1>3, <1>8 DEF Decide, GoTo, VotesInv, TermIsNew
<1>9. CASE CompareLogs
  BY <1>1, <1>3, <1>9 DEF CompareLogs, GoTo, VotesInv, TermIsNew
<1>10. CASE GrantVote
  <2>1. /\ message.term = currentTerm /\ votedFor \in {Nobody, message.candidate}
        /\ ~TermIsNew
    BY <1>3, <1>10 DEF GrantVote, VotesInv, TermIsNew
  <2>2. /\ votes' = votes \cup {[term |-> currentTerm, candidate |-> message.candidate]}
        /\ votedFor' = message.candidate
        /\ handling' = "idle" /\ UNCHANGED <<currentTerm, election>>
    BY <1>10, <2>1 DEF GrantVote, GoTo
  <2>3. \A v \in votes : v.term = currentTerm => v.candidate = message.candidate
    BY <1>1, <2>1 DEF VotesInv
  <2>4. \A v \in votes' :
           v \in votes \/ (v.term = currentTerm /\ v.candidate = message.candidate)
    BY <2>2
  <2>5. \A v, w \in votes' : v.term = w.term => v.candidate = w.candidate
    BY <2>3, <2>4 DEF VotesInv
  <2>6. QED
    BY <1>1, <1>3, <1>10, <2>2, <2>3, <2>4, <2>5 DEF GrantVote, VotesInv, TermIsNew
<1>11. CASE Follow
  BY <1>1, <1>3, <1>11 DEF Follow, GoTo, VotesInv, TermIsNew
<1>12. CASE CheckLog
  BY <1>1, <1>3, <1>12 DEF CheckLog, GoTo, VotesInv, TermIsNew
<1>13. CASE HandlerQueues
  BY <1>1, <1>3, <1>13 DEF HandlerQueues, GoTo, VotesInv, TermIsNew
<1>14. CASE AppendToLog
  BY <1>1, <1>3, <1>14 DEF AppendToLog, GoTo, VotesInv, TermIsNew
<1>15. CASE Commit
  BY <1>1, <1>3, <1>15 DEF Commit, GoTo, VotesInv, TermIsNew
<1>16. QED
  BY <1>4, <1>5, <1>6, <1>7, <1>8, <1>9, <1>10, <1>11, <1>12, <1>13, <1>14, <1>15
  DEF Handle

LEMMA RaftStep == RaftInv /\ [RaftNext]_raftVars => RaftInv'
<1> SUFFICES ASSUME RaftInv, [RaftNext]_raftVars PROVE RaftInv'
  OBVIOUS
<1>1. RaftTypeInv /\ RaftTypeInv'
  BY RaftTypeStep DEF RaftInv
<1>2. overlapped => overlapped'
  BY DEF RaftNext, raftVars, Elect, Campaign, RaiseTerm, VoteForMyself, LockLog, Count,
         BecomeLeader, Relock, Beat, Handle, AdoptTerm, StepDown, ForgetVote, Dispatch, Decide,
         CompareLogs, GrantVote, Follow, CheckLog, HandlerQueues, AppendToLog, Commit, GoTo,
         ReceiveMessage, Propose, AskLeader, ReadTerm, ProposalQueues, AppendProposal, Proceeds,
         AddPeer
<1>3. SUFFICES ASSUME ~overlapped' PROVE VotesInv'
  BY <1>1 DEF RaftInv
<1>4. VotesInv
  BY <1>2, <1>3 DEF RaftInv
<1>5. CASE Elect
  BY <1>1, <1>3, <1>4, <1>5, ElectKeepsVotes
<1>6. CASE Handle
  BY <1>1, <1>4, <1>6, HandleKeepsVotes
<1>7. ASSUME NEW m \in Message, ReceiveMessage(m) PROVE VotesInv'
  <2>1. m.term \in Nat /\ currentTerm \in Nat
    BY <1>1, MessageTypes, VotesAreTyped
  <2>2. /\ handling = "idle" /\ election \notin {"term", "vote"} /\ message' = m
        /\ UNCHANGED <<currentTerm, votedFor, election, votes>>
    BY <1>3, <1>7 DEF ReceiveMessage
  <2>3. CASE m.term > currentTerm
    <3>1. handling' = "newTerm"
      BY <1>7, <2>3 DEF ReceiveMessage
    <3>2. QED
      BY <1>4, <2>2, <2>3, <3>1 DEF VotesInv, TermIsNew
  <2>4. CASE ~(m.term > currentTerm)
    <3>1. handling' = "dispatch"
      BY <1>7, <2>4 DEF ReceiveMessage
    <3>2. QED
      BY <1>4, <2>1, <2>2, <2>4, <3>1 DEF VotesInv, TermIsNew
  <2>5. QED
    BY <2>3, <2>4
<1>8. ASSUME NEW c \in Proposal, Propose(c) PROVE VotesInv'
  <2>1. UNCHANGED <<currentTerm, votedFor, election, handling, message, votes>>
    BY <1>8 DEF Propose, AskLeader, ReadTerm, ProposalQueues, AppendProposal, Proceeds
  <2>2. QED
    BY <1>4, <2>1 DEF VotesInv, TermIsNew
<1>9. ASSUME NEW p \in Peer \ peers, AddPeer(p) PROVE VotesInv'
  BY <1>4, <1>9 DEF AddPeer, VotesInv, TermIsNew
<1>10. CASE UNCHANGED raftVars
  BY <1>4, <1>10 DEF raftVars, VotesInv, TermIsNew
<1>11. QED
  BY <1>5, <1>6, <1>7, <1>8, <1>9, <1>10 DEF RaftNext

\* For any peers, messages and proposals a node votes once in a term, as long as
\* no election sets its term and its vote while a message is handled.
THEOREM VotesAreSingle == RaftSpec => []OneVotePerTerm
<1>1. RaftInv => OneVotePerTerm
  BY DEF RaftInv, VotesInv, OneVotePerTerm
<1>2. QED
  BY <1>1, RaftInitInv, RaftStep, PTL DEF RaftSpec

-----------------------------------------------------------------------------
(* All parts in one behaviour.                                             *)

\* The parts share no state, so that a behaviour of the runtime is one of each part,
\* and what is proved of the parts holds in MCRuntime.
THEOREM PartsAreIndependent ==
    Spec => CounterSpec /\ ClockSpec /\ SetSpec /\ MapSpec /\ HttpSpec /\ RaftSpec
<1>1. Init => CounterInit /\ ClockInit /\ SetInit /\ MapInit /\ HttpInit /\ RaftInit
  BY DEF Init
<1>2. [Next]_vars => /\ [CounterNext]_counterVars /\ [ClockNext]_clockVars
                     /\ [SetNext]_setVars /\ [MapNext]_mapVars
                     /\ [HttpNext]_httpVars /\ [RaftNext]_raftVars
  BY DEF Next, vars
<1>3. QED
  BY <1>1, <1>2, PTL
  DEF Spec, CounterSpec, ClockSpec, SetSpec, MapSpec, HttpSpec, RaftSpec

\* In every configuration the state of each part has its type.
THEOREM RuntimeTypeCorrect == Spec => []RuntimeTypeOK
<1> DEFINE Inv == /\ CounterTypeOK /\ ClockTypeOK /\ SetTypeOK
                  /\ MapInv /\ HttpInv /\ RaftInv
<1>1. MapSpec => []MapInv
  BY MapInitInv, MapStep, PTL DEF MapSpec
<1>2. HttpSpec => []HttpInv
  BY HttpInitInv, HttpStep, PTL DEF HttpSpec
<1>3. RaftSpec => []RaftInv
  BY RaftInitInv, RaftStep, PTL DEF RaftSpec
<1>4. Inv => RuntimeTypeOK
  BY DEF RuntimeTypeOK, MapInv, HttpInv, RaftInv, RaftTypeInv
<1>5. QED
  BY <1>1, <1>2, <1>3, <1>4, PartsAreIndependent, CounterTypeCorrect, ClockTypeCorrect,
     SetTypeCorrect, PTL
=============================================================================
