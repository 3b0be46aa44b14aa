------------------------- MODULE ReplicatedCounter -------------------------
(***************************************************************************)
(* PNCounter of crdt.rs: a counter that every replica increments and       *)
(* decrements on its own, kept as two grow-only GCounters.  A replica      *)
(* merges copies of the others, in any order, late, or twice.  The history *)
(* variable updates and the second half of every copy record which updates *)
(* came in, without looking at a count.                                     *)
(***************************************************************************)
EXTENDS CountVectors, Integers, FiniteSets, FiniteSetsExt

CONSTANTS
    MaxUpdates,   \* bound on the increments and decrements that a replica makes
    MaxCopies     \* bound on the copies taken

ASSUME CounterAssumption == MaxUpdates \in Nat /\ MaxCopies \in Nat

VARIABLES
    counter,        \* the PNCounter of each replica
    updates,        \* history: the updates that have reached each replica
    counterCopies   \* the clones (or serialised forms) that may be merged, each
                    \* with the updates of the replica it was taken of

counterVars == <<counter, updates, counterCopies>>

PNCounters == [positive : Counts, negative : Counts]

\* An update: the number-th increment, or decrement, that a replica made.
Updates == [by : Replica, kind : {"positive", "negative"}, number : 1..MaxUpdates]

\* Keys and values are in range, and a copy is a PNCounter with its updates.
CounterTypeOK ==
    /\ counter \in [Replica -> PNCounters]
    /\ updates \in [Replica -> SUBSET Updates]
    /\ counterCopies \subseteq [counter : PNCounters, updates : SUBSET Updates]

CounterInit ==
    /\ counter = [r \in Replica |-> [positive |-> NoCounts, negative |-> NoCounts]]
    /\ updates = [r \in Replica |-> {}]
    /\ counterCopies = {}

CanUpdate(r) == counter[r].positive[r] + counter[r].negative[r] < MaxUpdates

\* The update that r makes next, by r's own account of what it has done.
NextUpdate(r, kind) ==
    [by |-> r, kind |-> kind,
     number |-> Cardinality({u \in updates[r] : u.kind = kind /\ u.by = r}) + 1]

Increment(r) ==
    /\ CanUpdate(r)
    /\ counter' = [counter EXCEPT ![r].positive = Incremented(@, r)]
    /\ updates' = [updates EXCEPT ![r] = @ \cup {NextUpdate(r, "positive")}]
    /\ UNCHANGED counterCopies

Decrement(r) ==
    /\ CanUpdate(r)
    /\ counter' = [counter EXCEPT ![r].negative = Incremented(@, r)]
    /\ updates' = [updates EXCEPT ![r] = @ \cup {NextUpdate(r, "negative")}]
    /\ UNCHANGED counterCopies

\* A copy of a counter that no update has reached is left out: merging it is
\* nothing.
TakeCounter(r) ==
    LET copy == [counter |-> counter[r], updates |-> updates[r]]
    IN  /\ copy \notin counterCopies
        /\ updates[r] # {}
        /\ Cardinality(counterCopies) < MaxCopies
        /\ counterCopies' = counterCopies \cup {copy}
        /\ UNCHANGED <<counter, updates>>

MergedCounter(a, b) ==
    [positive |-> Merged(a.positive, b.positive),
     negative |-> Merged(a.negative, b.negative)]

MergeCounter(r, c) ==
    /\ counter' = [counter EXCEPT ![r] = MergedCounter(@, c.counter)]
    /\ updates' = [updates EXCEPT ![r] = @ \cup c.updates]
    /\ UNCHANGED counterCopies

CounterNext == \E r \in Replica :
    \/ Increment(r)
    \/ Decrement(r)
    \/ TakeCounter(r)
    \/ \E c \in counterCopies : MergeCounter(r, c)

CounterSpec == CounterInit /\ [][CounterNext]_counterVars

GValue(c) == MapThenSumSet(LAMBDA n : c[n], Replica)

Value(c) == GValue(c.positive) - GValue(c.negative)

-----------------------------------------------------------------------------
\* What the counts of c say of the updates behind them.
KnownTo(c) == {u \in Updates : u.number <= c[u.kind][u.by]}

Knowledge == INSTANCE SharedKnowledge
    WITH Update <- Updates,
         known  <- [r \in Replica |-> KnownTo(counter[r])],
         copies <- {KnownTo(c.counter) : c \in counterCopies}

\* Every increment and decrement is a new update, one that no other replica can
\* take for one it knows already, and merge() leaves a replica with the updates
\* that either side knew: none lost, whatever the order of the merges, and none
\* made up.
ImplementsKnowledge == Knowledge!Spec

\* value() is the number of increments that have reached the replica, directly
\* or in copies, less that of the decrements: each is counted once, however many
\* merges brought it and in which order.
ValueIsNetOfKnown == \A r \in Replica :
    Value(counter[r]) =
        Cardinality({u \in updates[r] : u.kind = "positive"})
          - Cardinality({u \in updates[r] : u.kind = "negative"})
=============================================================================
