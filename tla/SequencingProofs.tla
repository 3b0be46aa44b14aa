-------------------------- MODULE SequencingProofs --------------------------
(* Lemmas about positions and subsequences. *)
EXTENDS Sequencing, TLAPS, FiniteSetTheorems, WellFoundedInduction

\* A non-empty set of positions has a largest element, and Max finds it.
LEMMA MaxOfPositions ==
    ASSUME NEW n \in Nat, NEW S \in SUBSET (1..n), S # {}
    PROVE  Max(S) \in S /\ \A x \in S : Max(S) >= x
<1> DEFINE T == {n - x : x \in S}
<1>1. T \subseteq Nat /\ T # {}
  <2>1. \A x \in S : n - x \in Nat
    OBVIOUS
  <2>2. PICK x \in S : TRUE
    OBVIOUS
  <2>3. n - x \in T
    BY <2>2
  <2>4. QED
    BY <2>1, <2>3
<1>2. PICK m \in T : \A y \in T : ~(<<y, m>> \in OpToRel(<, Nat))
  BY <1>1, NatLessThanWellFounded, WFMin
<1>3. PICK x \in S : m = n - x
  OBVIOUS
<1>4. \A y \in S : x >= y
  <2> TAKE y \in S
  <2>1. n - y \in T /\ n - y \in Nat /\ m \in Nat
    BY <1>1
  <2>2. ~(n - y < m)
    BY <1>2, <2>1 DEF OpToRel
  <2>3. QED
    BY <1>3, <2>2
<1>5. QED
  BY <1>4 DEF Max

\* It has a smallest element, too.
LEMMA MinOfPositions ==
    ASSUME NEW n \in Nat, NEW S \in SUBSET (1..n), S # {}
    PROVE  \E m \in S : \A x \in S : m <= x
<1> DEFINE T == {n + 1 - x : x \in S}
<1>1. T \in SUBSET (1..n) /\ T # {}
  <2>1. \A x \in S : n + 1 - x \in 1..n
    OBVIOUS
  <2>2. PICK x \in S : TRUE
    OBVIOUS
  <2>3. n + 1 - x \in T
    BY <2>2
  <2>4. QED
    BY <2>1, <2>3
<1>2. Max(T) \in T /\ \A y \in T : Max(T) >= y
  <2> HIDE DEF T
  <2>1. QED
    BY <1>1, MaxOfPositions
<1>3. PICK m \in S : Max(T) = n + 1 - m
  BY <1>2
<1>4. ASSUME NEW x \in S PROVE m <= x
  <2>1. n + 1 - m >= n + 1 - x
    BY <1>2, <1>3
  <2>2. QED
    BY <2>1
<1>5. QED
  BY <1>4

\* Positions of a sequence form a finite set.
LEMMA PositionsFinite ==
    ASSUME NEW n \in Nat, NEW S \in SUBSET (1..n)
    PROVE  IsFiniteSet(S) /\ Cardinality(S) \in Nat
<1>1. IsFiniteSet(1..n)
  BY FS_Interval
<1>2. QED
  BY <1>1, FS_Subset, FS_CardinalityType

\* h renumbers the positions I of s: r is s restricted to I.
Renumbers(h, r, s, I) ==
    /\ h \in [DOMAIN r -> I]
    /\ \A a \in DOMAIN r : r[a] = s[h[a]]
    /\ \A a, b \in DOMAIN r : h[a] = h[b] => a = b
    /\ \A i \in I : \E a \in DOMAIN r : h[a] = i

\* What Subsequence returns: a renumbering of the positions.
LEMMA SubsequenceProperties ==
    ASSUME NEW S, NEW s \in Seq(S), NEW I \in SUBSET DOMAIN s,
           NEW r \in Subsequence(s, I)
    PROVE  r \in Seq(S) /\ \E h : Renumbers(h, r, s, I)
<1> DEFINE n == Cardinality(I)
<1>1. n \in Nat
  BY PositionsFinite, Len(s) \in Nat, DOMAIN s = 1..Len(s)
<1>2. PICK h \in Bijection(1..n, I) : r = [a \in 1..n |-> s[h[a]]]
  BY DEF Subsequence
<1>3. /\ h \in [1..n -> I]
      /\ \A a, b \in 1..n : h[a] = h[b] => a = b
      /\ \A i \in I : \E a \in 1..n : h[a] = i
  BY <1>2 DEF Bijection, Injection, Surjection, IsInjective
<1>4. DOMAIN r = 1..n
  BY <1>2
<1>5. \A a \in 1..n : r[a] \in S
  BY <1>2, <1>3
<1>6. r \in [1..n -> S]
  BY <1>2, <1>4, <1>5
<1>7. r \in Seq(S)
  BY <1>1, <1>6
<1>8. Renumbers(h, r, s, I)
  BY <1>2, <1>3, <1>4 DEF Renumbers
<1>9. QED
  BY <1>7, <1>8

\* A set of positions has a positive cardinality exactly if it is not empty.
LEMMA PositionsCount ==
    ASSUME NEW n \in Nat, NEW S \in SUBSET (1..n)
    PROVE  Cardinality(S) \in Nat /\ (Cardinality(S) > 0 <=> S # {})
<1>1. IsFiniteSet(S) /\ Cardinality(S) \in Nat
  BY PositionsFinite
<1>2. QED
  BY <1>1, FS_EmptySet

\* A sequence without repetitions is as long as its range is large.
LEMMA LengthOfRange ==
    ASSUME NEW S, NEW s \in Seq(S), \A x, y \in DOMAIN s : s[x] = s[y] => x = y
    PROVE  IsFiniteSet(Range(s)) /\ Cardinality(Range(s)) = Len(s)
<1>1. Len(s) \in Nat /\ DOMAIN s = 1..Len(s) /\ s \in [1..Len(s) -> S]
  OBVIOUS
<1>2. IsFiniteSet(1..Len(s)) /\ Cardinality(1..Len(s)) = Len(s)
  <2>1. IsFiniteSet(1..Len(s))
        /\ Cardinality(1..Len(s)) = IF 1 > Len(s) THEN 0 ELSE Len(s) - 1 + 1
    BY <1>1, FS_Interval, SMTT(30)
  <2>2. QED
    BY <1>1, <2>1
<1>3. s \in [1..Len(s) -> Range(s)]
  BY <1>1 DEF Range
<1>4. s \in Bijection(1..Len(s), Range(s))
  BY <1>1, <1>3 DEF Bijection, Injection, Surjection, IsInjective, Range
<1>5. QED
  BY <1>2, <1>4, FS_Bijection DEF ExistsBijection

-----------------------------------------------------------------------------
(* Induction over the natural numbers.                                     *)

\* A set of numbers that contains 0 and every successor contains all: if m were
\* missing, adding one below it would squeeze 0..m into 1..m.
LEMMA NaturalInduction ==
    ASSUME NEW T, 0 \in T, \A n \in Nat : n \in T => n + 1 \in T
    PROVE  \A n \in Nat : n \in T
<1> SUFFICES ASSUME NEW m \in Nat, m \notin T PROVE FALSE
  OBVIOUS
<1> DEFINE f == [n \in 0..m |-> IF n \in T THEN n + 1 ELSE n]
<1>1. f \in [0..m -> 1..m]
  OBVIOUS
<1>2. \A a, b \in 0..m : f[a] = f[b] => a = b
  OBVIOUS
<1> HIDE DEF f
<1>3. /\ IsFiniteSet(0..m) /\ IsFiniteSet(1..m)
      /\ Cardinality(1..m) < Cardinality(0..m)
  <2>1. /\ IsFiniteSet(1..m)
        /\ Cardinality(1..m) = IF 1 > m THEN 0 ELSE m - 1 + 1
    BY FS_Interval
  <2>2. /\ IsFiniteSet(0..m)
        /\ Cardinality(0..m) = IF 0 > m THEN 0 ELSE m - 0 + 1
    BY FS_Interval
  <2>3. QED
    BY <2>1, <2>2
<1>4. \E x, y \in 0..m : x # y /\ f[x] = f[y]
  BY <1>1, <1>3, FS_PigeonHole
<1>5. QED
  BY <1>2, <1>4

-----------------------------------------------------------------------------
(* A filtered array is determined by the positions that are kept.          *)

\* The increasing enumerations of a set of positions.
Enumerations(I) ==
    {g \in Bijection(1..Cardinality(I), I) :
        \A a, b \in DOMAIN g : a < b => g[a] < g[b]}

LEMMA EnumerationProperties ==
    ASSUME NEW I, NEW g
    PROVE  g \in Enumerations(I) <=>
             /\ g \in [1..Cardinality(I) -> I]
             /\ \A a, b \in 1..Cardinality(I) : a < b => g[a] < g[b]
             /\ \A a, b \in 1..Cardinality(I) : g[a] = g[b] => a = b
             /\ \A i \in I : \E a \in 1..Cardinality(I) : g[a] = i
BY DEF Enumerations, Bijection, Injection, Surjection, IsInjective

\* There is one, ...
LEMMA EnumerationExists ==
    ASSUME NEW n \in Nat, NEW I \in SUBSET (1..n)
    PROVE  Enumerations(I) # {}
<1> DEFINE T == {m \in Nat : \A J \in SUBSET (1..m) : Enumerations(J) # {}}
<1>1. 0 \in T
  <2>1. SUFFICES Enumerations({}) # {}
    <3>1. \A J \in SUBSET (1..0) : J = {}
      OBVIOUS
    <3>2. QED
      BY <3>1
  <2>2. Cardinality({}) = 0
    BY FS_EmptySet
  <2>3. [a \in 1..0 |-> a] \in Enumerations({})
    <3> DEFINE g == [a \in 1..0 |-> a]
    <3>1. /\ g \in [1..0 -> {}]
          /\ \A a, b \in 1..0 : a < b => g[a] < g[b]
          /\ \A a, b \in 1..0 : g[a] = g[b] => a = b
          /\ \A i \in {} : \E a \in 1..0 : g[a] = i
      OBVIOUS
    <3> HIDE DEF g
    <3>2. QED
      BY <2>2, <3>1, EnumerationProperties
  <2>4. QED
    BY <2>3
<1>2. ASSUME NEW m \in Nat, m \in T PROVE m + 1 \in T
  <2>1. SUFFICES ASSUME NEW J \in SUBSET (1..(m + 1)) PROVE Enumerations(J) # {}
    OBVIOUS
  <2>2. CASE m + 1 \notin J
    <3>1. J \in SUBSET (1..m)
      BY <2>2
    <3>2. QED
      BY <1>2, <3>1
  <2>3. CASE m + 1 \in J
    <3> DEFINE K == J \ {m + 1}
               k == Cardinality(K)
    <3>1. K \in SUBSET (1..m)
      OBVIOUS
    <3>2. PICK g : g \in Enumerations(K)
      BY <1>2, <3>1
    <3>3. IsFiniteSet(K) /\ k \in Nat /\ Cardinality(J) = k + 1
      <4>1. IsFiniteSet(K) /\ k \in Nat
        BY <3>1, PositionsFinite
      <4>2. J = K \cup {m + 1} /\ m + 1 \notin K
        BY <2>3
      <4>3. QED
        BY <4>1, <4>2, FS_AddElement
    <3> DEFINE h == [a \in 1..(k + 1) |-> IF a = k + 1 THEN m + 1 ELSE g[a]]
    <3> HIDE DEF k
    <3>4. /\ g \in [1..k -> K]
          /\ \A a, b \in 1..k : a < b => g[a] < g[b]
          /\ \A a, b \in 1..k : g[a] = g[b] => a = b
          /\ \A i \in K : \E a \in 1..k : g[a] = i
      BY <3>2, EnumerationProperties DEF k
    <3>5. \A a \in 1..(k + 1) : a \in 1..k \/ a = k + 1
      BY <3>3
    <3>6. /\ \A a \in 1..k : h[a] = g[a] /\ h[a] \in 1..m /\ h[a] \in J
          /\ h[k + 1] = m + 1
      <4>1. k + 1 \in 1..(k + 1) /\ \A a \in 1..k : a \in 1..(k + 1) /\ a # k + 1
        BY <3>3
      <4>2. \A a \in 1..k : g[a] \in K
        BY <3>4
      <4>3. h[k + 1] = m + 1 /\ \A a \in 1..k : h[a] = g[a]
        BY <4>1
      <4>4. QED
        BY <3>1, <4>2, <4>3
    <3>7. h \in [1..(k + 1) -> J]
      BY <2>3, <3>5, <3>6
    <3> HIDE DEF h
    <3>8. /\ \A a, b \in 1..(k + 1) : a < b => h[a] < h[b]
          /\ \A a, b \in 1..(k + 1) : h[a] = h[b] => a = b
      BY <3>3, <3>4, <3>5, <3>6
    <3>9. \A i \in J : \E a \in 1..(k + 1) : h[a] = i
      <4> TAKE i \in J
      <4>1. CASE i = m + 1
        BY <3>3, <3>6, <4>1
      <4>2. CASE i \in K
        BY <3>3, <3>4, <3>6, <4>2
      <4>3. QED
        BY <4>1, <4>2
    <3>10. h \in Enumerations(J)
      BY <3>3, <3>7, <3>8, <3>9, EnumerationProperties
    <3>11. QED
      BY <3>10
  <2>4. QED
    BY <2>2, <2>3
<1> HIDE DEF T
<1>3. n \in T
  BY <1>1, <1>2, NaturalInduction
<1>4. QED
  BY <1>3 DEF T

\* ... and it is the only one.
LEMMA EnumerationUnique ==
    ASSUME NEW n \in Nat, NEW I \in SUBSET (1..n),
           NEW g \in Enumerations(I), NEW h \in Enumerations(I)
    PROVE  g = h
<1> DEFINE N == Cardinality(I)
<1>1. N \in Nat
  BY PositionsFinite
<1>2. /\ g \in [1..N -> I]
      /\ \A a, b \in 1..N : a < b => g[a] < g[b]
      /\ \A i \in I : \E a \in 1..N : g[a] = i
  BY EnumerationProperties
<1>3. /\ h \in [1..N -> I]
      /\ \A a, b \in 1..N : a < b => h[a] < h[b]
      /\ \A i \in I : \E a \in 1..N : h[a] = i
  BY EnumerationProperties
<1> HIDE DEF N
<1> DEFINE T == {m \in Nat : \A a \in 1..N : a <= m => g[a] = h[a]}
<1>4. 0 \in T
  BY <1>1
<1>5. ASSUME NEW m \in Nat, m \in T PROVE m + 1 \in T
  <2>1. SUFFICES ASSUME m + 1 \in 1..N PROVE g[m + 1] = h[m + 1]
    <3>1. \A a \in 1..N : a <= m + 1 => a <= m \/ a = m + 1
      BY <1>1
    <3>2. QED
      BY <1>5, <2>1, <3>1
  <2>2. \A a \in 1..N : a <= m => g[a] = h[a]
    BY <1>5
  <2>3. \A a \in 1..N : g[a] \in 1..n /\ h[a] \in 1..n
    BY <1>2, <1>3
  <2>4. ~(g[m + 1] < h[m + 1])
    <3>1. SUFFICES ASSUME g[m + 1] < h[m + 1] PROVE FALSE
      OBVIOUS
    <3>2. PICK j \in 1..N : h[j] = g[m + 1]
      BY <1>2, <1>3, <2>1
    <3>3. j <= m \/ j = m + 1 \/ m + 1 < j
      BY <1>1
    <3>4. QED
      BY <1>2, <1>3, <2>1, <2>2, <2>3, <3>1, <3>2, <3>3
  <2>5. ~(h[m + 1] < g[m + 1])
    <3>1. SUFFICES ASSUME h[m + 1] < g[m + 1] PROVE FALSE
      OBVIOUS
    <3>2. PICK j \in 1..N : g[j] = h[m + 1]
      BY <1>2, <1>3, <2>1
    <3>3. j <= m \/ j = m + 1 \/ m + 1 < j
      BY <1>1
    <3>4. QED
      BY <1>2, <1>3, <2>1, <2>2, <2>3, <3>1, <3>2, <3>3
  <2>6. QED
    BY <2>1, <2>3, <2>4, <2>5
<1> HIDE DEF T
<1>6. N \in T
  BY <1>1, <1>4, <1>5, NaturalInduction
<1>7. QED
  BY <1>1, <1>2, <1>3, <1>6 DEF T

\* So a loop that filters an array has one outcome.
LEMMA SubsequenceIsUnique ==
    ASSUME NEW s, NEW n \in Nat, NEW I \in SUBSET (1..n)
    PROVE  /\ Subsequence(s, I) # {}
           /\ \A x, y \in Subsequence(s, I) : x = y
<1>1. Subsequence(s, I) =
        {[a \in 1..Cardinality(I) |-> s[h[a]]] : h \in Enumerations(I)}
  BY DEF Subsequence, Enumerations
<1>2. PICK h : h \in Enumerations(I)
  BY EnumerationExists
<1>3. \A g \in Enumerations(I) : g = h
  BY <1>2, EnumerationUnique
<1>4. Subsequence(s, I) # {}
  BY <1>1, <1>2
<1>5. ASSUME NEW x \in Subsequence(s, I)
      PROVE  x = [a \in 1..Cardinality(I) |-> s[h[a]]]
  <2>1. PICK g \in Enumerations(I) : x = [a \in 1..Cardinality(I) |-> s[g[a]]]
    BY <1>1, <1>5
  <2>2. g = h
    BY <1>3, <2>1
  <2>3. QED
    BY <2>1, <2>2
<1>6. QED
  BY <1>4, <1>5
=============================================================================
