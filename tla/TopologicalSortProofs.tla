------------------------ MODULE TopologicalSortProofs ------------------------
(***************************************************************************)
(* Kahn's algorithm as buildExecutionOrder() runs it computes, for every   *)
(* pipeline, a topological order, and falls short of it exactly if the     *)
(* pipeline has a cycle.                                                   *)
(***************************************************************************)
EXTENDS TopologicalSort, SequencingProofs

-----------------------------------------------------------------------------
(* The invariant of the loop: over the graph g, the Map d (inDegree) and    *)
(* the arrays q (queue) and r (result).                                    *)

SortTypeOK(g, d, q, r) ==
    /\ IsGraph(g)
    /\ d \in [NodeSet(g) -> Int]
    /\ q \in Seq(NodeSet(g))
    /\ r \in Seq(NodeSet(g))

\* The connections to n whose source is not ordered yet.
Open(g, r, n) == {c \in DOMAIN g.connections :
                    /\ g.connections[c].to = n
                    /\ g.connections[c].from \notin Range(r)}

\* inDegree counts the open connections.  It is what makes a node with an open
\* connection wait, and a node left over have one.
InDegreeCounts(g, d, r) ==
    \A n \in NodeSet(g) : d[n] = Cardinality(Open(g, r, n))

\* The ready and the ordered nodes are those without an open connection.
ReadyMeansFree(g, d, q, r) ==
    \A n \in NodeSet(g) : d[n] = 0 <=> n \in Range(q) \cup Range(r)

NoRepeats(q, r) ==
    /\ \A x, y \in DOMAIN r : r[x] = r[y] => x = y
    /\ \A x, y \in DOMAIN q : q[x] = q[y] => x = y
    /\ Range(q) \cap Range(r) = {}

\* a has a place before b in r.
Precedes(r, a, b) == \E x, y \in DOMAIN r : x < y /\ r[x] = a /\ r[y] = b

SourcesBefore(g, r) ==
    \A c \in DOMAIN g.connections :
        g.connections[c].to \in Range(r) =>
          Precedes(r, g.connections[c].from, g.connections[c].to)

SortInv(g, d, q, r) ==
    /\ SortTypeOK(g, d, q, r)
    /\ InDegreeCounts(g, d, r)
    /\ ReadyMeansFree(g, d, q, r)
    /\ NoRepeats(q, r)
    /\ SourcesBefore(g, r)

\* A turn of the loop takes d, q and r to d2, q2 and r2.
IsTurn(g, d, q, r, d2, q2, r2) ==
    /\ q # <<>>
    /\ r2 = Append(r, Head(q))
    /\ d2 = Decreased(g, d, Head(q))
    /\ \E freed \in Freed(g, d, Head(q)) : q2 = Tail(q) \o freed

-----------------------------------------------------------------------------
(* Facts about graphs.                                                     *)

\* Sets of connections are finite.
LEMMA ConnectionsFinite ==
    ASSUME NEW g, IsGraph(g), NEW S \in SUBSET DOMAIN g.connections
    PROVE  /\ IsFiniteSet(S) /\ Cardinality(S) \in Nat
           /\ Cardinality(S) = 0 <=> S = {}
           /\ \A x \in S : x \in Nat
           /\ S # {} => Max(S) \in S /\ \A x \in S : x <= Max(S)
<1>1. /\ DOMAIN g.connections = 1..Len(g.connections)
      /\ Len(g.connections) \in Nat
  BY DEF IsGraph
<1>2. IsFiniteSet(S) /\ Cardinality(S) \in Nat
  BY <1>1, PositionsFinite
<1>3. S # {} => Max(S) \in S /\ \A x \in S : Max(S) >= x
  BY <1>1, MaxOfPositions
<1>4. S # {} => \A x \in S : Max(S) \in Nat /\ x \in Nat /\ x <= Max(S)
  BY <1>1, <1>3
<1>5. QED
  BY <1>1, <1>2, <1>3, <1>4, FS_EmptySet

\* The endpoints of a connection are nodes.
LEMMA Endpoints ==
    ASSUME NEW g, IsGraph(g), NEW c \in DOMAIN g.connections
    PROVE  /\ g.connections[c].from \in NodeSet(g)
           /\ g.connections[c].to \in NodeSet(g)
<1> DEFINE E == [from : NodeSet(g), to : NodeSet(g)]
<1>1. g.connections \in Seq(E)
  BY DEF IsGraph
<1> HIDE DEF E
<1>2. g.connections[c] \in E
  BY <1>1
<1>3. QED
  BY <1>2 DEF E

\* What the visit of a does: it frees, once each, the neighbours without an
\* open connection.
LEMMA FreedNodes ==
    ASSUME NEW g, IsGraph(g), NEW d, NEW a \in NodeSet(g),
           NEW freed \in Freed(g, d, a)
    PROVE  /\ freed \in Seq(NodeSet(g))
           /\ \A x, y \in DOMAIN freed : freed[x] = freed[y] => x = y
           /\ \A n \in NodeSet(g) : n \in Range(freed) <=>
                Edges(g, a, n) # {} /\ Decreased(g, d, a)[n] = 0
<1> DEFINE to == [c \in DOMAIN g.connections |-> g.connections[c].to]
           from == [c \in DOMAIN g.connections |-> g.connections[c].from]
           Last == {c \in DOMAIN g.connections :
                      /\ from[c] = a
                      /\ \A e \in Edges(g, a, to[c]) : e <= c}
           I == {c \in Last : Decreased(g, d, a)[to[c]] = 0}
<1>1. /\ DOMAIN g.connections = 1..Len(g.connections)
      /\ Len(g.connections) \in Nat
  BY DEF IsGraph
<1>2. to \in Seq(NodeSet(g)) /\ DOMAIN to = DOMAIN g.connections
  BY <1>1, Endpoints
<1>3. freed \in Subsequence(to, I)
  BY DEF Freed
<1>4. \A n : Edges(g, a, n) =
               {c \in DOMAIN g.connections : from[c] = a /\ to[c] = n}
  BY DEF Edges
<1>5. I \in SUBSET DOMAIN to
  OBVIOUS
<1>6. \A c \in I : /\ c \in Edges(g, a, to[c])
                   /\ \A e \in Edges(g, a, to[c]) : e <= c
                   /\ Decreased(g, d, a)[to[c]] = 0
  BY <1>4
<1>7. \A c \in DOMAIN g.connections :
         /\ c \in Edges(g, a, to[c])
         /\ \A e \in Edges(g, a, to[c]) : e <= c
         /\ Decreased(g, d, a)[to[c]] = 0
         => c \in I
  BY <1>4
<1> HIDE DEF I, to
<1>8. freed \in Seq(NodeSet(g)) /\ \E h : Renumbers(h, freed, to, I)
  BY <1>2, <1>3, <1>5, SubsequenceProperties
<1>9. PICK h : Renumbers(h, freed, to, I)
  BY <1>8
<1>10. \A x, y \in DOMAIN freed : freed[x] = freed[y] => x = y
  <2> TAKE x, y \in DOMAIN freed
  <2>1. /\ h[x] \in I /\ h[y] \in I
        /\ freed[x] = to[h[x]] /\ freed[y] = to[h[y]]
        /\ h[x] = h[y] => x = y
    BY <1>9 DEF Renumbers
  <2>2. ASSUME freed[x] = freed[y] PROVE h[x] = h[y]
    <3>1. h[x] <= h[y] /\ h[y] <= h[x]
      BY <1>6, <2>1, <2>2
    <3>2. h[x] \in Nat /\ h[y] \in Nat
      BY <1>1, <1>2, <1>5, <2>1
    <3>3. QED
      BY <3>1, <3>2
  <2>3. QED
    BY <2>1, <2>2
<1>11. ASSUME NEW n \in NodeSet(g), n \in Range(freed)
       PROVE  Edges(g, a, n) # {} /\ Decreased(g, d, a)[n] = 0
  <2>1. PICK x \in DOMAIN freed : freed[x] = n
    BY <1>11 DEF Range
  <2>2. h[x] \in I /\ to[h[x]] = n
    BY <1>9, <2>1 DEF Renumbers
  <2>3. QED
    BY <1>6, <2>2
<1>12. ASSUME NEW n \in NodeSet(g),
              Edges(g, a, n) # {}, Decreased(g, d, a)[n] = 0
       PROVE  n \in Range(freed)
  <2> DEFINE m == Max(Edges(g, a, n))
  <2>1. m \in Edges(g, a, n) /\ \A e \in Edges(g, a, n) : e <= m
    <3>1. Edges(g, a, n) \in SUBSET DOMAIN g.connections
      BY <1>4
    <3>2. QED
      BY <1>12, <3>1, ConnectionsFinite
  <2>2. m \in DOMAIN g.connections /\ to[m] = n
    BY <1>4, <2>1
  <2>3. m \in I
    BY <1>7, <1>12, <2>1, <2>2
  <2>4. PICK x \in DOMAIN freed : h[x] = m
    BY <1>9, <2>3 DEF Renumbers
  <2>5. freed[x] = n
    BY <1>9, <2>2, <2>4 DEF Renumbers
  <2>6. QED
    BY <2>5 DEF Range
<1>13. QED
  BY <1>8, <1>10, <1>11, <1>12

-----------------------------------------------------------------------------
(* The loop keeps the invariant.                                           *)

\* Before a turn the node at the head of the q has no open connection.
LEMMA HeadIsFree ==
    ASSUME NEW g, NEW d, NEW q, NEW r, NEW d2, NEW q2, NEW r2,
           SortInv(g, d, q, r), IsTurn(g, d, q, r, d2, q2, r2)
    PROVE  /\ Head(q) \in NodeSet(g)
           /\ Head(q) \in Range(q) \ Range(r)
           /\ Open(g, r, Head(q)) = {}
<1>1. q \in Seq(NodeSet(g)) /\ q # <<>>
  BY DEF SortInv, SortTypeOK, IsTurn
<1>2. Head(q) = q[1] /\ 1 \in DOMAIN q
  BY <1>1
<1>3. Head(q) \in NodeSet(g) /\ Head(q) \in Range(q)
  BY <1>1, <1>2 DEF Range
<1>4. d[Head(q)] = 0
  BY <1>3 DEF SortInv, ReadyMeansFree
<1>5. Cardinality(Open(g, r, Head(q))) = 0
  BY <1>3, <1>4 DEF SortInv, InDegreeCounts
<1>6. Open(g, r, Head(q)) = {}
  <2>1. Open(g, r, Head(q)) \in SUBSET DOMAIN g.connections
    BY DEF Open
  <2>2. QED
    BY <1>5, <2>1, ConnectionsFinite DEF SortInv, SortTypeOK
<1>7. QED
  BY <1>3, <1>6 DEF SortInv, NoRepeats

\* A turn over node a that frees the nodes of freed, seen as sets.
TurnEffect(g, d, q, r, d2, q2, r2, a, freed) ==
    /\ a \in NodeSet(g)
    /\ a \in Range(q) \ Range(r)
    /\ Open(g, r, a) = {}
    /\ freed \in Seq(NodeSet(g))
    /\ d2 = Decreased(g, d, a)
    /\ r2 = Append(r, a)
    /\ Range(r2) = Range(r) \cup {a}
    /\ q2 = Tail(q) \o freed
    /\ Range(q2) = (Range(q) \ {a}) \cup Range(freed)
    /\ \A x, y \in DOMAIN q2 : q2[x] = q2[y] => x = y
    /\ \A n \in NodeSet(g) :
         /\ d2[n] = d[n] - Cardinality(Edges(g, a, n))
         /\ Edges(g, a, n) \subseteq Open(g, r, n)
         /\ Open(g, r2, n) = Open(g, r, n) \ Edges(g, a, n)
         /\ n \in Range(freed) <=> Edges(g, a, n) # {} /\ d2[n] = 0
    /\ Range(freed) \cap (Range(q) \cup Range(r)) = {}

LEMMA TurnHasEffect ==
    ASSUME NEW g, NEW d, NEW q, NEW r, NEW d2, NEW q2, NEW r2,
           SortInv(g, d, q, r), IsTurn(g, d, q, r, d2, q2, r2)
    PROVE  \E a, freed : TurnEffect(g, d, q, r, d2, q2, r2, a, freed)
<1> DEFINE a == Head(q)
<1>1. PICK freed \in Freed(g, d, a) : q2 = Tail(q) \o freed
  BY DEF IsTurn
<1>2. /\ IsGraph(g) /\ q \in Seq(NodeSet(g)) /\ q # <<>>
      /\ r \in Seq(NodeSet(g))
  BY DEF SortInv, SortTypeOK, IsTurn
<1>3. a \in NodeSet(g) /\ a \in Range(q) \ Range(r) /\ Open(g, r, a) = {}
  BY HeadIsFree
<1>4. /\ d2 = Decreased(g, d, a)
      /\ r2 = Append(r, a)
  BY DEF IsTurn
<1> HIDE DEF a
<1>5. /\ freed \in Seq(NodeSet(g))
      /\ \A x, y \in DOMAIN freed : freed[x] = freed[y] => x = y
      /\ \A n \in NodeSet(g) : n \in Range(freed) <=>
           Edges(g, a, n) # {} /\ d2[n] = 0
  BY <1>1, <1>2, <1>3, <1>4, FreedNodes
<1>6. Range(r2) = Range(r) \cup {a}
  <2>1. /\ Len(r) \in Nat
        /\ DOMAIN r = 1..Len(r)
        /\ DOMAIN r2 = 1..(Len(r) + 1)
        /\ \A x \in 1..Len(r) : r2[x] = r[x]
        /\ r2[Len(r) + 1] = a
    BY <1>2, <1>4
  <2>2. \A n \in Range(r2) : n \in Range(r) \cup {a}
    BY <2>1 DEF Range
  <2>3. \A n \in Range(r) \cup {a} : n \in Range(r2)
    BY <2>1 DEF Range
  <2>4. QED
    BY <2>2, <2>3
<1>7. /\ Len(q) \in Nat \ {0} /\ Len(freed) \in Nat
      /\ DOMAIN q = 1..Len(q) /\ DOMAIN freed = 1..Len(freed)
      /\ DOMAIN q2 = 1..(Len(q) - 1 + Len(freed))
      /\ \A x \in 1..(Len(q) - 1) : q2[x] = q[x + 1]
      /\ \A x \in 1..Len(freed) : q2[Len(q) - 1 + x] = freed[x]
      /\ q[1] = a
  <2>1. /\ Tail(q) \in Seq(NodeSet(g)) /\ Len(Tail(q)) = Len(q) - 1
        /\ \A x \in 1..(Len(q) - 1) : Tail(q)[x] = q[x + 1]
        /\ Len(q) \in Nat \ {0} /\ q[1] = a
    BY <1>2 DEF a
  <2>2. QED
    BY <1>1, <1>2, <1>5, <2>1
<1>8. \A x \in DOMAIN q2 :
         \/ x \in 1..(Len(q) - 1) /\ q2[x] = q[x + 1]
         \/ \E y \in 1..Len(freed) :
              x = Len(q) - 1 + y /\ q2[x] = freed[y]
  <2> TAKE x \in DOMAIN q2
  <2>1. CASE x <= Len(q) - 1
    BY <1>7, <2>1
  <2>2. CASE ~(x <= Len(q) - 1)
    <3>1. x - (Len(q) - 1) \in 1..Len(freed)
      BY <1>7, <2>2
    <3>2. x = Len(q) - 1 + (x - (Len(q) - 1))
      BY <1>7
    <3>3. QED
      BY <1>7, <3>1, <3>2
  <2>3. QED
    BY <2>1, <2>2
<1>9. \A x, y \in DOMAIN q : q[x] = q[y] => x = y
  BY DEF SortInv, NoRepeats
<1>10. Range(q2) = (Range(q) \ {a}) \cup Range(freed)
  <2>1. \A n \in Range(q2) : n \in (Range(q) \ {a}) \cup Range(freed)
    <3>1. \A x \in 1..(Len(q) - 1) : q[x + 1] \in Range(q) \ {a}
      BY <1>7, <1>9 DEF Range
    <3>2. \A y \in 1..Len(freed) : freed[y] \in Range(freed)
      BY <1>7 DEF Range
    <3>3. QED
      BY <1>8, <3>1, <3>2 DEF Range
  <2>2. \A n \in Range(q) \ {a} : n \in Range(q2)
    <3> TAKE n \in Range(q) \ {a}
    <3>1. PICK x \in DOMAIN q : q[x] = n
      BY DEF Range
    <3>2. x - 1 \in 1..(Len(q) - 1) /\ (x - 1) + 1 = x
      BY <1>7, <3>1
    <3>3. q2[x - 1] = n /\ x - 1 \in DOMAIN q2
      BY <1>7, <3>1, <3>2
    <3>4. QED
      BY <3>3 DEF Range
  <2>3. \A n \in Range(freed) : n \in Range(q2)
    <3> TAKE n \in Range(freed)
    <3>1. PICK x \in 1..Len(freed) : freed[x] = n
      BY <1>7 DEF Range
    <3>2. q2[Len(q) - 1 + x] = n /\ Len(q) - 1 + x \in DOMAIN q2
      BY <1>7, <3>1
    <3>3. QED
      BY <3>2 DEF Range
  <2>4. QED
    BY <2>1, <2>2, <2>3
<1>11. \A n \in NodeSet(g) :
          /\ d2[n] = d[n] - Cardinality(Edges(g, a, n))
          /\ Edges(g, a, n) \subseteq Open(g, r, n)
          /\ Open(g, r2, n) = Open(g, r, n) \ Edges(g, a, n)
  <2> TAKE n \in NodeSet(g)
  <2>1. d2[n] = d[n] - Cardinality(Edges(g, a, n))
    BY <1>4 DEF Decreased
  <2>2. Edges(g, a, n) \subseteq Open(g, r, n)
    BY <1>3 DEF Edges, Open
  <2>3. Open(g, r2, n) = Open(g, r, n) \ Edges(g, a, n)
    BY <1>4, <1>6 DEF Edges, Open
  <2>4. QED
    BY <2>1, <2>2, <2>3
<1>12. Range(freed) \cap (Range(q) \cup Range(r)) = {}
  <2>1. SUFFICES ASSUME NEW n \in NodeSet(g), n \in Range(freed)
                 PROVE  n \notin Range(q) \cup Range(r)
    BY <1>5 DEF Range
  <2>2. Open(g, r, n) # {} /\ Open(g, r, n) \in SUBSET DOMAIN g.connections
    BY <1>5, <1>11, <2>1 DEF Open
  <2>3. Cardinality(Open(g, r, n)) # 0
    BY <1>2, <2>2, ConnectionsFinite
  <2>4. d[n] # 0
    BY <2>3 DEF SortInv, InDegreeCounts
  <2>5. QED
    BY <2>4 DEF SortInv, ReadyMeansFree
<1>13. \A x, y \in DOMAIN q2 : q2[x] = q2[y] => x = y
  <2>1. \A x \in 1..(Len(q) - 1), y \in 1..Len(freed) :
           q[x + 1] # freed[y]
    <3> TAKE x \in 1..(Len(q) - 1), y \in 1..Len(freed)
    <3>1. x + 1 \in DOMAIN q /\ y \in DOMAIN freed
      BY <1>7
    <3>2. q[x + 1] \in Range(q) /\ freed[y] \in Range(freed)
      BY <3>1 DEF Range
    <3>3. QED
      BY <1>12, <3>2
  <2>2. \A x, y \in 1..(Len(q) - 1) : q[x + 1] = q[y + 1] => x = y
    <3> TAKE x, y \in 1..(Len(q) - 1)
    <3>1. x + 1 \in DOMAIN q /\ y + 1 \in DOMAIN q
      BY <1>7
    <3>2. q[x + 1] = q[y + 1] => x + 1 = y + 1
      BY <1>9, <3>1
    <3>3. QED
      BY <3>2
  <2>3. SUFFICES ASSUME NEW x \in DOMAIN q2, NEW y \in DOMAIN q2,
                        q2[x] = q2[y]
                 PROVE  x = y
    OBVIOUS
  <2>4. CASE x \in 1..(Len(q) - 1) /\ q2[x] = q[x + 1]
    <3>1. y \in 1..(Len(q) - 1) /\ q2[y] = q[y + 1]
      BY <1>8, <2>1, <2>3, <2>4
    <3>2. QED
      BY <2>2, <2>3, <2>4, <3>1
  <2>5. ASSUME NEW u \in 1..Len(freed),
               x = Len(q) - 1 + u, q2[x] = freed[u]
        PROVE  x = y
    <3>1. PICK v \in 1..Len(freed) :
             y = Len(q) - 1 + v /\ q2[y] = freed[v]
      BY <1>8, <2>1, <2>3, <2>5
    <3>2. u = v
      BY <1>5, <1>7, <2>3, <2>5, <3>1
    <3>3. QED
      BY <2>5, <3>1, <3>2
  <2>6. QED
    BY <1>8, <2>4, <2>5
<1>14. TurnEffect(g, d, q, r, d2, q2, r2, a, freed)
  BY <1>1, <1>3, <1>4, <1>5, <1>6, <1>10, <1>11, <1>12, <1>13 DEF TurnEffect
<1>15. QED
  BY <1>14

\* The invariant holds when the loop begins, and every turn keeps it.
LEMMA LoopBegins ==
    ASSUME NEW g, IsGraph(g), NEW q \in Sources(g)
    PROVE  SortInv(g, InDegree(g), q, <<>>)
<1> DEFINE d == InDegree(g)
           r == <<>>
<1>1. IsGraph(g) /\ g.nodes \in Seq(NodeSet(g))
  BY DEF IsGraph
<1>2. /\ DOMAIN g.nodes = 1..Len(g.nodes) /\ Len(g.nodes) \in Nat
      /\ g.nodes \in Seq(NodeSet(g))
  <2>1. g.nodes \in [1..Len(g.nodes) -> NodeSet(g)]
    BY <1>1 DEF NodeSet, Range
  <2>2. QED
    BY <1>1, <2>1
<1>3. r = <<>> /\ Range(r) = {} /\ DOMAIN r = {}
  BY DEF Range
<1>4. \A n \in NodeSet(g) :
         d[n] = Cardinality(Open(g, r, n)) /\ d[n] \in Nat
  <2> TAKE n \in NodeSet(g)
  <2>1. Open(g, r, n) = {c \in DOMAIN g.connections : g.connections[c].to = n}
    BY <1>3 DEF Open
  <2>2. d[n] = Cardinality(Open(g, r, n))
    BY <2>1 DEF InDegree
  <2>3. Open(g, r, n) \in SUBSET DOMAIN g.connections
    BY DEF Open
  <2>4. QED
    BY <1>1, <2>2, <2>3, ConnectionsFinite
<1>5. d \in [NodeSet(g) -> Int]
  <2>1. d = InDegree(g)
    OBVIOUS
  <2>2. QED
    BY <1>4, <2>1 DEF InDegree
<1> DEFINE I == {i \in DOMAIN g.nodes : InDegree(g)[g.nodes[i]] = 0}
<1>6. q \in Seq(NodeSet(g)) /\ \E h : Renumbers(h, q, g.nodes, I)
  <2>1. I \in SUBSET DOMAIN g.nodes
    OBVIOUS
  <2>2. q \in Subsequence(g.nodes, I)
    BY DEF Sources
  <2> HIDE DEF I
  <2>3. QED
    BY <1>2, <2>1, <2>2, SubsequenceProperties
<1>7. PICK h : Renumbers(h, q, g.nodes, I)
  BY <1>6
<1>8. \A x, y \in DOMAIN q : q[x] = q[y] => x = y
  BY <1>1, <1>7 DEF Renumbers, IsGraph
<1>9. \A n \in NodeSet(g) : d[n] = 0 <=> n \in Range(q)
  <2> TAKE n \in NodeSet(g)
  <2>1. PICK i \in DOMAIN g.nodes : g.nodes[i] = n
    BY DEF NodeSet, Range
  <2>2. d = InDegree(g)
    OBVIOUS
  <2>3. d[n] = 0 => n \in Range(q)
    <3>1. SUFFICES ASSUME d[n] = 0 PROVE n \in Range(q)
      OBVIOUS
    <3>2. i \in I
      BY <2>1, <2>2, <3>1
    <3>3. PICK x \in DOMAIN q : h[x] = i
      BY <1>7, <3>2 DEF Renumbers
    <3>4. q[x] = n
      BY <1>7, <2>1, <3>3 DEF Renumbers
    <3>5. QED
      BY <3>4 DEF Range
  <2>4. ASSUME NEW x \in DOMAIN q, q[x] = n PROVE d[n] = 0
    <3>1. h[x] \in I /\ g.nodes[h[x]] = n
      BY <1>7, <2>4 DEF Renumbers
    <3>2. QED
      BY <2>2, <3>1
  <2>5. QED
    BY <2>3, <2>4 DEF Range
<1>10. SortTypeOK(g, d, q, r)
  BY <1>1, <1>3, <1>5, <1>6 DEF SortTypeOK
<1>11. QED
  BY <1>3, <1>4, <1>8, <1>9, <1>10
  DEF SortInv, InDegreeCounts, ReadyMeansFree, NoRepeats, SourcesBefore

LEMMA TurnKeepsSortInv ==
    ASSUME NEW g, NEW d, NEW q, NEW r, NEW d2, NEW q2, NEW r2,
           SortInv(g, d, q, r), IsTurn(g, d, q, r, d2, q2, r2)
    PROVE  SortInv(g, d2, q2, r2)
<1>1. PICK a, freed : TurnEffect(g, d, q, r, d2, q2, r2, a, freed)
  BY TurnHasEffect
<1>2. /\ IsGraph(g) /\ q \in Seq(NodeSet(g)) /\ q # <<>>
      /\ r \in Seq(NodeSet(g))
      /\ d \in [NodeSet(g) -> Int]
  BY DEF SortInv, SortTypeOK, IsTurn
<1>4. \A n \in NodeSet(g) :
         /\ Open(g, r, n) \in SUBSET DOMAIN g.connections
         /\ Edges(g, a, n) \in SUBSET DOMAIN g.connections
         /\ IsFiniteSet(Open(g, r, n)) /\ Cardinality(Open(g, r, n)) \in Nat
         /\ Cardinality(Edges(g, a, n)) \in Nat
         /\ Cardinality(Edges(g, a, n)) = 0 <=> Edges(g, a, n) = {}
  <2> TAKE n \in NodeSet(g)
  <2>1. /\ Open(g, r, n) \in SUBSET DOMAIN g.connections
        /\ Edges(g, a, n) \in SUBSET DOMAIN g.connections
    BY DEF Open, Edges
  <2>2. QED
    BY <1>2, <2>1, ConnectionsFinite
<1>5. InDegreeCounts(g, d2, r2)
  <2>1. SUFFICES ASSUME NEW n \in NodeSet(g)
                 PROVE  d2[n] = Cardinality(Open(g, r2, n))
    BY DEF InDegreeCounts
  <2>2. d[n] = Cardinality(Open(g, r, n))
    BY DEF SortInv, InDegreeCounts
  <2>3. /\ d2[n] = d[n] - Cardinality(Edges(g, a, n))
        /\ Edges(g, a, n) \subseteq Open(g, r, n)
        /\ Open(g, r2, n) = Open(g, r, n) \ Edges(g, a, n)
    BY <1>1 DEF TurnEffect
  <2>4. Cardinality(Open(g, r, n) \ Edges(g, a, n)) =
           Cardinality(Open(g, r, n)) - Cardinality(Open(g, r, n) \cap Edges(g, a, n))
    BY <1>4, FS_Difference
  <2>5. Open(g, r, n) \cap Edges(g, a, n) = Edges(g, a, n)
    BY <2>3
  <2>6. QED
    BY <2>2, <2>3, <2>4, <2>5
<1>6. SortTypeOK(g, d2, q2, r2)
  <2>1. d2 \in [NodeSet(g) -> Int]
    <3>1. \A n \in NodeSet(g) : d2[n] \in Int
      <4> TAKE n \in NodeSet(g)
      <4>1. d2[n] = d[n] - Cardinality(Edges(g, a, n))
        BY <1>1 DEF TurnEffect
      <4>2. Cardinality(Edges(g, a, n)) \in Nat
        BY <1>4
      <4>3. d[n] \in Int
        BY <1>2
      <4>4. QED
        BY <4>1, <4>2, <4>3
    <3>2. QED
      BY <1>1, <3>1 DEF TurnEffect, Decreased
  <2>2. r2 \in Seq(NodeSet(g))
    BY <1>1, <1>2 DEF TurnEffect
  <2>3. q2 \in Seq(NodeSet(g))
    <3>1. Tail(q) \in Seq(NodeSet(g)) /\ freed \in Seq(NodeSet(g))
      BY <1>1, <1>2 DEF TurnEffect
    <3>2. q2 = Tail(q) \o freed
      BY <1>1 DEF TurnEffect
    <3>3. QED
      BY <3>1, <3>2
  <2>4. QED
    BY <1>2, <2>1, <2>2, <2>3 DEF SortTypeOK
<1>7. ReadyMeansFree(g, d2, q2, r2)
  <2>1. SUFFICES ASSUME NEW n \in NodeSet(g)
                 PROVE  d2[n] = 0 <=> n \in Range(q2) \cup Range(r2)
    BY DEF ReadyMeansFree
  <2>2. d[n] = 0 <=> n \in Range(q) \cup Range(r)
    BY DEF SortInv, ReadyMeansFree
  <2>3. n \in Range(q2) \cup Range(r2) <=>
           n \in Range(q) \cup Range(r) \cup Range(freed)
    BY <1>1 DEF TurnEffect
  <2>4. /\ d2[n] = d[n] - Cardinality(Edges(g, a, n))
        /\ n \in Range(freed) <=> Edges(g, a, n) # {} /\ d2[n] = 0
        /\ Edges(g, a, n) \subseteq Open(g, r, n)
    BY <1>1 DEF TurnEffect
  <2>5. d[n] = Cardinality(Open(g, r, n)) /\ d[n] \in Int
    <3>1. d[n] \in Int
      BY <1>2
    <3>2. QED
      BY <3>1 DEF SortInv, InDegreeCounts
  <2>6. CASE Edges(g, a, n) = {}
    <3>1. Cardinality(Edges(g, a, n)) = 0
      BY <1>4, <2>6
    <3>2. d2[n] = d[n]
      BY <2>4, <2>5, <3>1
    <3>3. QED
      BY <2>2, <2>3, <2>4, <2>6, <3>2
  <2>7. CASE Edges(g, a, n) # {}
    <3>1. Open(g, r, n) # {}
      BY <2>4, <2>7
    <3>2. Cardinality(Open(g, r, n)) # 0
      BY <1>2, <1>4, <3>1, ConnectionsFinite
    <3>3. n \notin Range(q) \cup Range(r)
      BY <2>2, <2>5, <3>2
    <3>4. QED
      BY <2>3, <2>4, <2>7, <3>3
  <2>8. QED
    BY <2>6, <2>7
<1>8. \A x \in DOMAIN r : r2[x] = r[x] /\ x < Len(r) + 1
  BY <1>1, <1>2 DEF TurnEffect
<1>9. /\ DOMAIN r2 = DOMAIN r \cup {Len(r) + 1}
      /\ r2[Len(r) + 1] = a /\ Len(r) \in Nat
      /\ DOMAIN r = 1..Len(r)
  BY <1>1, <1>2 DEF TurnEffect
<1>10. NoRepeats(q2, r2)
  <2>1. \A x, y \in DOMAIN r2 : r2[x] = r2[y] => x = y
    <3>1. \A x \in DOMAIN r : r2[x] # a
      BY <1>1, <1>8 DEF TurnEffect, Range
    <3>2. \A x, y \in DOMAIN r : r[x] = r[y] => x = y
      BY DEF SortInv, NoRepeats
    <3>3. QED
      BY <1>8, <1>9, <3>1, <3>2
  <2>2. Range(q2) \cap Range(r2) = {}
    BY <1>1 DEF TurnEffect, SortInv, NoRepeats
  <2>3. QED
    BY <1>1, <2>1, <2>2 DEF NoRepeats, TurnEffect
<1>11. SourcesBefore(g, r2)
  <2>1. SUFFICES ASSUME NEW c \in DOMAIN g.connections,
                        g.connections[c].to \in Range(r2)
                 PROVE  Precedes(r2, g.connections[c].from, g.connections[c].to)
    BY DEF SourcesBefore
  <2> DEFINE from == g.connections[c].from
             to == g.connections[c].to
  <2>2. CASE to \in Range(r)
    <3>1. Precedes(r, from, to)
      BY <2>2 DEF SortInv, SourcesBefore
    <3>2. PICK x, y \in DOMAIN r : x < y /\ r[x] = from /\ r[y] = to
      BY <3>1 DEF Precedes
    <3>3. /\ x \in DOMAIN r2 /\ y \in DOMAIN r2
          /\ r2[x] = from /\ r2[y] = to
      BY <1>8, <1>9, <3>2
    <3>4. QED
      BY <3>2, <3>3 DEF Precedes
  <2>3. CASE to = a
    <3>1. Open(g, r, a) = {}
      BY <1>1 DEF TurnEffect
    <3>2. from \in Range(r)
      BY <2>3, <3>1 DEF Open
    <3>3. PICK x \in DOMAIN r : r[x] = from
      BY <3>2 DEF Range
    <3>4. /\ x \in DOMAIN r2 /\ Len(r) + 1 \in DOMAIN r2
          /\ x < Len(r) + 1 /\ r2[x] = from
          /\ r2[Len(r) + 1] = to
      BY <1>8, <1>9, <2>3, <3>3
    <3>5. QED
      BY <3>4 DEF Precedes
  <2>4. QED
    BY <1>1, <2>1, <2>2, <2>3 DEF TurnEffect
<1>12. QED
  BY <1>5, <1>6, <1>7, <1>10, <1>11 DEF SortInv

-----------------------------------------------------------------------------
(* The function Sorted.                                                    *)

\* Whatever is visited, what is pushed is determined.
LEMMA PushesAreDetermined ==
    ASSUME NEW g, IsGraph(g), NEW d, NEW a
    PROVE  /\ Sources(g) # {} /\ \A x, y \in Sources(g) : x = y
           /\ Freed(g, d, a) # {} /\ \A x, y \in Freed(g, d, a) : x = y
<1>1. /\ DOMAIN g.nodes = 1..Len(g.nodes) /\ Len(g.nodes) \in Nat
      /\ DOMAIN g.connections = 1..Len(g.connections)
      /\ Len(g.connections) \in Nat
  BY DEF IsGraph
<1> DEFINE I == {i \in DOMAIN g.nodes : InDegree(g)[g.nodes[i]] = 0}
           to == [c \in DOMAIN g.connections |-> g.connections[c].to]
           last == {c \in DOMAIN g.connections :
                      /\ g.connections[c].from = a
                      /\ \A e \in Edges(g, a, g.connections[c].to) : e <= c}
           J == {c \in last : Decreased(g, d, a)[to[c]] = 0}
<1>2. Sources(g) = Subsequence(g.nodes, I) /\ Freed(g, d, a) = Subsequence(to, J)
  BY DEF Sources, Freed
<1>3. I \in SUBSET (1..Len(g.nodes)) /\ J \in SUBSET (1..Len(g.connections))
  BY <1>1
<1> HIDE DEF I, J, to
<1>4. Subsequence(g.nodes, I) # {} /\ \A x, y \in Subsequence(g.nodes, I) : x = y
  BY <1>1, <1>3, SubsequenceIsUnique
<1>5. Subsequence(to, J) # {} /\ \A x, y \in Subsequence(to, J) : x = y
  BY <1>1, <1>3, SubsequenceIsUnique
<1>6. QED
  BY <1>2, <1>4, <1>5

\* The recursive function Turns exists: it takes one turn after the other.
LEMMA TurnsAreTurns ==
    ASSUME NEW g, IsGraph(g)
    PROVE  /\ Turns(g)[0] = BeforeLoop(g)
           /\ \A k \in 1..Len(g.nodes) :
                Turns(g)[k] = AfterTurn(g, Turns(g)[k - 1])
<1> DEFINE N == Len(g.nodes)
           Body(f, m) == [k \in 0..m |-> IF k = 0 THEN BeforeLoop(g)
                                         ELSE AfterTurn(g, f[k - 1])]
           T == {m \in Nat : \E f : f = Body(f, m)}
<1>1. N \in Nat
  BY DEF IsGraph
<1>2. 0 \in T
  <2> DEFINE f == [k \in 0..0 |-> BeforeLoop(g)]
  <2>1. f = Body(f, 0)
    OBVIOUS
  <2>2. QED
    BY <2>1
<1>3. ASSUME NEW m \in Nat, m \in T PROVE m + 1 \in T
  <2>1. PICK f : f = Body(f, m)
    BY <1>3
  <2> DEFINE h == [k \in 0..(m + 1) |->
                     IF k = m + 1 THEN AfterTurn(g, f[m]) ELSE f[k]]
  <2>2. \A k \in 0..m : f[k] = IF k = 0 THEN BeforeLoop(g)
                               ELSE AfterTurn(g, f[k - 1])
    BY <2>1
  <2>3. /\ \A k \in 0..m : h[k] = f[k]
        /\ h[m + 1] = AfterTurn(g, f[m])
    OBVIOUS
  <2> HIDE DEF h
  <2>4. ASSUME NEW k \in 0..(m + 1)
        PROVE  h[k] = IF k = 0 THEN BeforeLoop(g) ELSE AfterTurn(g, h[k - 1])
    <3>1. CASE k = m + 1
      <4>1. k - 1 = m /\ m \in 0..m /\ k # 0
        BY <3>1
      <4>2. QED
        BY <2>3, <3>1, <4>1
    <3>2. CASE k \in 1..m
      <4>1. k \in 0..m /\ k - 1 \in 0..m /\ k # 0
        BY <3>2
      <4>2. QED
        BY <2>2, <2>3, <4>1
    <3>3. CASE k = 0
      BY <2>2, <2>3, <3>3
    <3>4. QED
      BY <3>1, <3>2, <3>3
  <2>5. h = Body(h, m + 1)
    BY <2>4 DEF h
  <2>6. QED
    BY <2>5
<1> HIDE DEF T
<1>4. N \in T
  BY <1>1, <1>2, <1>3, NaturalInduction
<1>5. Turns(g) = CHOOSE f : f = Body(f, N)
  BY DEF Turns
<1>6. Turns(g) = Body(Turns(g), N)
  BY <1>4, <1>5 DEF T
<1>7. QED
  BY <1>1, <1>6

\* The loop keeps its invariant, and appends a node in every turn.
LEMMA TurnsKeepSortInv ==
    ASSUME NEW g, IsGraph(g), NEW k \in 0..Len(g.nodes)
    PROVE  LET s == Turns(g)[k]
           IN  /\ SortInv(g, s.inDegree, s.queue, s.result)
               /\ s.queue = <<>> \/ Len(s.result) = k
<1> DEFINE N == Len(g.nodes)
           s(m) == Turns(g)[m]
           Good(m) == /\ SortInv(g, s(m).inDegree, s(m).queue, s(m).result)
                      /\ s(m).queue = <<>> \/ Len(s(m).result) = m
           T == {m \in Nat : m <= N => Good(m)}
<1>1. N \in Nat
  BY DEF IsGraph
<1>2. Good(0)
  <2>1. s(0) = BeforeLoop(g)
    BY TurnsAreTurns
  <2>2. s(0).queue \in Sources(g)
    BY <2>1, PushesAreDetermined DEF BeforeLoop
  <2>3. s(0).inDegree = InDegree(g) /\ s(0).result = <<>>
    BY <2>1 DEF BeforeLoop
  <2> HIDE DEF s
  <2>4. QED
    BY <2>2, <2>3, LoopBegins
<1>3. ASSUME NEW m \in Nat, m + 1 <= N, Good(m) PROVE Good(m + 1)
  <2>1. s(m + 1) = AfterTurn(g, s(m))
    <3>1. m + 1 \in 1..N /\ (m + 1) - 1 = m
      BY <1>1, <1>3
    <3>2. QED
      BY <3>1, TurnsAreTurns
  <2>2. SortInv(g, s(m).inDegree, s(m).queue, s(m).result)
    BY <1>3
  <2> HIDE DEF s
  <2>3. CASE s(m).queue = <<>>
    BY <2>1, <2>2, <2>3 DEF AfterTurn
  <2>4. CASE s(m).queue # <<>>
    <3> DEFINE a == Head(s(m).queue)
               f == CHOOSE x \in Freed(g, s(m).inDegree, a) : TRUE
    <3>1. /\ s(m + 1).inDegree = Decreased(g, s(m).inDegree, a)
          /\ s(m + 1).queue = Tail(s(m).queue) \o f
          /\ s(m + 1).result = Append(s(m).result, a)
      <4>1. s(m + 1) = [inDegree |-> Decreased(g, s(m).inDegree, a),
                        queue    |-> Tail(s(m).queue) \o f,
                        result   |-> Append(s(m).result, a)]
        BY <2>1, <2>4 DEF AfterTurn
      <4> HIDE DEF a, f
      <4>2. QED
        BY <4>1
    <3>2. f \in Freed(g, s(m).inDegree, a)
      BY PushesAreDetermined
    <3>3. IsTurn(g, s(m).inDegree, s(m).queue, s(m).result,
                 s(m + 1).inDegree, s(m + 1).queue, s(m + 1).result)
      BY <2>4, <3>1, <3>2 DEF IsTurn
    <3>4. SortInv(g, s(m + 1).inDegree, s(m + 1).queue, s(m + 1).result)
      BY <2>2, <3>3, TurnKeepsSortInv
    <3>5. s(m).result \in Seq(NodeSet(g)) /\ Len(s(m).result) = m
      BY <1>3, <2>2, <2>4 DEF SortInv, SortTypeOK
    <3>6. Len(s(m + 1).result) = m + 1
      BY <3>1, <3>5
    <3>7. QED
      BY <3>4, <3>6
  <2>5. QED
    BY <2>3, <2>4
<1> HIDE DEF Good
<1>4. 0 \in T
  BY <1>2
<1>5. ASSUME NEW m \in Nat, m \in T PROVE m + 1 \in T
  BY <1>1, <1>3, <1>5
<1> HIDE DEF T
<1>6. k \in Nat /\ k <= N
  BY <1>1
<1>7. k \in T
  BY <1>4, <1>5, <1>6, NaturalInduction
<1>8. QED
  BY <1>6, <1>7 DEF T, Good
\* When the queue is empty every node left over is fed by a node left over, and
\* the length of the result says whether there is one.
LEMMA LeftOver ==
    ASSUME NEW g, NEW d, NEW r, SortInv(g, d, <<>>, r)
    PROVE  /\ \A b \in NodeSet(g) \ Range(r) :
                \E a \in NodeSet(g) \ Range(r) : Edges(g, a, b) # {}
           /\ Range(r) \subseteq NodeSet(g)
           /\ Len(r) = Len(g.nodes) <=> Range(r) = NodeSet(g)
<1>1. /\ IsGraph(g) /\ g.nodes \in Seq(NodeSet(g)) /\ r \in Seq(NodeSet(g))
      /\ Range(r) \subseteq NodeSet(g)
  BY DEF SortInv, SortTypeOK, IsGraph, Range
<1>2. ASSUME NEW b \in NodeSet(g) \ Range(r)
      PROVE  \E a \in NodeSet(g) \ Range(r) : Edges(g, a, b) # {}
  <2>1. d[b] # 0 /\ d[b] = Cardinality(Open(g, r, b))
    BY DEF SortInv, ReadyMeansFree, InDegreeCounts, Range
  <2>2. Open(g, r, b) \in SUBSET DOMAIN g.connections
    BY DEF Open
  <2>3. Open(g, r, b) # {}
    BY <1>1, <2>1, <2>2, ConnectionsFinite
  <2>4. PICK c \in Open(g, r, b) : TRUE
    BY <2>3
  <2>5. /\ g.connections[c].from \in NodeSet(g) \ Range(r)
        /\ c \in Edges(g, g.connections[c].from, b)
    BY <1>1, <2>4, Endpoints DEF Open, Edges
  <2>6. QED
    BY <2>5
<1>3. IsFiniteSet(Range(r)) /\ Cardinality(Range(r)) = Len(r)
  BY <1>1, LengthOfRange DEF SortInv, NoRepeats
<1>4. IsFiniteSet(NodeSet(g)) /\ Cardinality(NodeSet(g)) = Len(g.nodes)
  BY <1>1, LengthOfRange DEF IsGraph, NodeSet
<1>5. Len(r) = Len(g.nodes) <=> Range(r) = NodeSet(g)
  BY <1>1, <1>3, <1>4, FS_Subset
<1>6. QED
  BY <1>1, <1>2, <1>5

\* After as many turns as there are nodes the loop is over.
LEMMA LoopIsOver ==
    ASSUME NEW g, IsGraph(g)
    PROVE  /\ Turns(g)[Len(g.nodes)].queue = <<>>
           /\ SortInv(g, Turns(g)[Len(g.nodes)].inDegree, <<>>, Sorted(g))
<1> DEFINE s == Turns(g)[Len(g.nodes)]
<1>1. /\ SortInv(g, s.inDegree, s.queue, s.result)
      /\ s.queue = <<>> \/ Len(s.result) = Len(g.nodes)
  <2>1. Len(g.nodes) \in 0..Len(g.nodes)
    BY DEF IsGraph
  <2>2. QED
    BY <2>1, TurnsKeepSortInv
<1> HIDE DEF s
<1>2. ASSUME s.queue # <<>> PROVE FALSE
  <2>1. /\ s.result \in Seq(NodeSet(g)) /\ g.nodes \in Seq(NodeSet(g))
        /\ s.queue \in Seq(NodeSet(g))
        /\ Range(s.result) \subseteq NodeSet(g)
    BY <1>1 DEF SortInv, SortTypeOK, IsGraph, Range
  <2>2. IsFiniteSet(Range(s.result)) /\ Cardinality(Range(s.result)) = Len(g.nodes)
    BY <1>1, <1>2, <2>1, LengthOfRange DEF SortInv, NoRepeats
  <2>3. IsFiniteSet(NodeSet(g)) /\ Cardinality(NodeSet(g)) = Len(g.nodes)
    BY <2>1, LengthOfRange DEF IsGraph, NodeSet
  <2>4. Range(s.result) = NodeSet(g)
    BY <2>1, <2>2, <2>3, FS_Subset
  <2>5. s.queue[1] \in Range(s.queue) /\ s.queue[1] \in NodeSet(g)
    BY <1>2, <2>1 DEF Range
  <2>6. QED
    BY <1>1, <2>4, <2>5 DEF SortInv, NoRepeats
<1>3. QED
  BY <1>1, <1>2 DEF s, Sorted

\* A turn of a loop that is over changes nothing.
LEMMA LoopStaysOver ==
    ASSUME NEW g, IsGraph(g), NEW k \in 0..Len(g.nodes),
           Turns(g)[k].queue = <<>>
    PROVE  Turns(g)[k].result = Sorted(g)
<1> DEFINE N == Len(g.nodes)
           T == {m \in Nat : k + m <= N => Turns(g)[k + m] = Turns(g)[k]}
<1>1. N \in Nat /\ k \in Nat /\ k <= N
  BY DEF IsGraph
<1>2. 0 \in T
  BY <1>1
<1>3. ASSUME NEW m \in Nat, m \in T PROVE m + 1 \in T
  <2>1. SUFFICES ASSUME k + (m + 1) <= N
                 PROVE  Turns(g)[k + (m + 1)] = Turns(g)[k]
    OBVIOUS
  <2>2. /\ k + (m + 1) \in 1..N /\ (k + (m + 1)) - 1 = k + m /\ k + m <= N
    BY <1>1, <2>1
  <2>3. Turns(g)[k + (m + 1)] = AfterTurn(g, Turns(g)[k + m])
    BY <2>2, TurnsAreTurns
  <2>4. Turns(g)[k + m] = Turns(g)[k]
    BY <1>3, <2>2
  <2>5. QED
    BY <2>3, <2>4 DEF AfterTurn
<1> HIDE DEF T
<1>4. N - k \in Nat /\ k + (N - k) = N
  BY <1>1
<1>5. N - k \in T
  BY <1>2, <1>3, <1>4, NaturalInduction
<1>6. QED
  BY <1>4, <1>5 DEF T, Sorted

\* For every pipeline buildExecutionOrder() computes an order without
\* repetitions in which the source of a connection comes before its target; it
\* has the length it is checked for exactly if every node is in it.
THEOREM SortedIsTopological ==
    ASSUME NEW g, IsGraph(g)
    PROVE  /\ Sorted(g) \in Seq(NodeSet(g))
           /\ \A x, y \in DOMAIN Sorted(g) : Sorted(g)[x] = Sorted(g)[y] => x = y
           /\ SourcesBefore(g, Sorted(g))
           /\ Len(Sorted(g)) = Len(g.nodes) <=> Range(Sorted(g)) = NodeSet(g)
<1>1. SortInv(g, Turns(g)[Len(g.nodes)].inDegree, <<>>, Sorted(g))
  BY LoopIsOver
<1>2. Len(Sorted(g)) = Len(g.nodes) <=> Range(Sorted(g)) = NodeSet(g)
  BY <1>1, LeftOver
<1>3. QED
  BY <1>1, <1>2 DEF SortInv, SortTypeOK, NoRepeats

\* Some nodes of the graph feed each other.
HasCycle(g) ==
    \E C \in SUBSET NodeSet(g) :
        C # {} /\ \A b \in C : \E a \in C : Edges(g, a, b) # {}

\* For every pipeline 'Pipeline contains cycles' is thrown if and only if the
\* pipeline has a cycle.
THEOREM CyclesAreRejected ==
    ASSUME NEW g, IsGraph(g)
    PROVE  Len(Sorted(g)) # Len(g.nodes) <=> HasCycle(g)
<1> DEFINE r == Sorted(g)
<1>1. SortInv(g, Turns(g)[Len(g.nodes)].inDegree, <<>>, r)
  BY LoopIsOver
<1> HIDE DEF r
<1>2. /\ \A b \in NodeSet(g) \ Range(r) :
           \E a \in NodeSet(g) \ Range(r) : Edges(g, a, b) # {}
      /\ Range(r) \subseteq NodeSet(g)
      /\ Len(r) = Len(g.nodes) <=> Range(r) = NodeSet(g)
  BY <1>1, LeftOver
<1>3. Len(r) # Len(g.nodes) => HasCycle(g)
  BY <1>2 DEF HasCycle
<1>4. ASSUME HasCycle(g), Len(r) = Len(g.nodes) PROVE FALSE
  <2>1. PICK C \in SUBSET NodeSet(g) :
           C # {} /\ \A b \in C : \E a \in C : Edges(g, a, b) # {}
    BY <1>4 DEF HasCycle
  <2>2. Range(r) = NodeSet(g)
    BY <1>2, <1>4
  <2>3. DOMAIN r = 1..Len(r) /\ Len(r) \in Nat
    BY <1>1 DEF SortInv, SortTypeOK
  <2> DEFINE P == {x \in 1..Len(r) : r[x] \in C}
  <2>4. P \in SUBSET (1..Len(r)) /\ P # {}
    BY <2>1, <2>2, <2>3 DEF Range
  <2>5. PICK m \in P : \A x \in P : m <= x
    BY <2>3, <2>4, MinOfPositions
  <2>6. PICK a \in C : Edges(g, a, r[m]) # {}
    BY <2>1
  <2>7. PICK c \in Edges(g, a, r[m]) : TRUE
    BY <2>6
  <2>8. Precedes(r, a, r[m])
    <3>1. /\ c \in DOMAIN g.connections
          /\ g.connections[c].from = a /\ g.connections[c].to = r[m]
      BY <2>7 DEF Edges
    <3>2. r[m] \in Range(r)
      BY <2>3 DEF Range
    <3>3. QED
      BY <1>1, <3>1, <3>2 DEF SortInv, SourcesBefore
  <2>9. PICK x, y \in DOMAIN r : x < y /\ r[x] = a /\ r[y] = r[m]
    BY <2>8 DEF Precedes
  <2>10. y = m
    BY <1>1, <2>3, <2>9 DEF SortInv, NoRepeats
  <2>11. x \in P
    BY <2>3, <2>6, <2>9
  <2>12. QED
    BY <2>3, <2>5, <2>9, <2>10, <2>11
<1>5. QED
  BY <1>3, <1>4 DEF r
=============================================================================
