---------------------------- MODULE CountVectors ----------------------------
(* The map from node names to counts that the replicated data types of      *)
(* crdt.rs keep.  A name that a map does not hold yet counts as 0.          *)
EXTENDS Naturals, Replicas

Counts == [Replica -> Nat]

NoCounts == [n \in Replica |-> 0]

Incremented(c, r) == [c EXCEPT ![r] = @ + 1]

\* Mutant: merging adds the counts up.
MergedBySum(c, d) == [n \in Replica |-> c[n] + d[n]]

\* Mutant: the counts of the other side replace those it has.
MergedOverwrites(c, d) == [n \in Replica |-> IF d[n] = 0 THEN c[n] ELSE d[n]]

Merged(c, d) == [n \in Replica |-> IF c[n] >= d[n] THEN c[n] ELSE d[n]]

Compare(a, b) ==
    LET less == \E n \in Replica : a[n] < b[n]
        greater == \E n \in Replica : a[n] > b[n]
    IN  CASE less /\ ~greater -> "before"
          [] greater /\ ~less -> "after"
          [] ~less /\ ~greater -> "equal"
          [] OTHER -> "concurrent"
=============================================================================
