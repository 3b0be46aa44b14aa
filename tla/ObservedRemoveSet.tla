------------------------- MODULE ObservedRemoveSet -------------------------
(***************************************************************************)
(* ORSet of crdt.rs: every add() gives the element a tag of its own, and   *)
(* remove() forgets the tags that the replica has observed.  An element is *)
(* in the set while it has a tag.  The history variables history and adds, *)
(* and the second half of every copy, record which adds and which removals *)
(* came in, without looking at a tag.                                      *)
(***************************************************************************)
EXTENDS Naturals, FiniteSets, FiniteSetsExt, Replicas

CONSTANTS
    Element,
    MaxAdds,        \* bound on the calls of add(), of all replicas together
    MaxSetCopies    \* bound on the copies taken

ASSUME SetAssumption == MaxAdds \in Nat /\ MaxSetCopies \in Nat

VARIABLES
    elements,     \* the tags of every element at each replica
    tagCounter,   \* the counter that a replica takes its tags from
    setCopies,    \* the clones (or serialised forms) that may be merged, each
                  \* with the history of the replica it was taken of
    history,      \* history: the adds that have reached each replica, and those
                  \* of them that a removal has taken away again
    adds          \* history: the number of calls of add() at each replica

setVars == <<elements, tagCounter, setCopies, history, adds>>

UniqueTag == [node_id : Replica, counter : Nat]

Tagged == [Element -> SUBSET UniqueTag]

\* The number-th call of add() at a replica.
Adds == [by : Replica, number : Nat, element : Element]

Histories == [added : SUBSET Adds, removed : SUBSET Adds]

\* Elements have tags of the replicas, and the counters are numbers.
SetTypeOK ==
    /\ elements \in [Replica -> Tagged]
    /\ tagCounter \in [Replica -> Nat]
    /\ history \in [Replica -> Histories]
    /\ setCopies \subseteq [elements : Tagged, history : Histories]
    /\ adds \in [Replica -> Nat]

SetInit ==
    /\ elements = [r \in Replica |-> [e \in Element |-> {}]]
    /\ tagCounter = [r \in Replica |-> 0]
    /\ history = [r \in Replica |-> [added |-> {}, removed |-> {}]]
    /\ setCopies = {}
    /\ adds = [r \in Replica |-> 0]

\* contains() and elements().
Members(s) == {e \in Element : s[e] # {}}

CanAdd == MapThenSumSet(LAMBDA r : adds[r], Replica) < MaxAdds

\* The histories after an add and after a removal of e at r.
AddIsNoted(r, e) ==
    /\ adds' = [adds EXCEPT ![r] = @ + 1]
    /\ history' = [history EXCEPT ![r].added =
                     @ \cup {[by |-> r, number |-> adds[r] + 1, element |-> e]}]

RemovalIsNoted(r, e) ==
    /\ history' = [history EXCEPT ![r].removed =
                     @ \cup {a \in history[r].added : a.element = e}]
    /\ UNCHANGED adds

\* Mutant: the tag is numbered by the size of the set, not by the counter.
AddWithTagOfSize(r, e) ==
    /\ CanAdd
    /\ elements' = [elements EXCEPT ![r][e] = @ \cup
         {[node_id |-> r, counter |-> Cardinality(Members(elements[r]))]}]
    /\ tagCounter' = [tagCounter EXCEPT ![r] = @ + 1]
    /\ AddIsNoted(r, e)
    /\ UNCHANGED setCopies

Add(r, e) ==
    /\ CanAdd
    /\ elements' = [elements EXCEPT ![r][e] = @ \cup
                      {[node_id |-> r, counter |-> tagCounter[r]]}]
    /\ tagCounter' = [tagCounter EXCEPT ![r] = @ + 1]
    /\ AddIsNoted(r, e)
    /\ UNCHANGED setCopies

Remove(r, e) ==
    /\ elements' = [elements EXCEPT ![r][e] = {}]
    /\ RemovalIsNoted(r, e)
    /\ UNCHANGED <<tagCounter, setCopies>>

\* A copy of a set that no add has reached is left out: merging it is nothing.
TakeSet(r) ==
    LET copy == [elements |-> elements[r], history |-> history[r]]
    IN  /\ copy \notin setCopies
        /\ history[r].added # {}
        /\ Cardinality(setCopies) < MaxSetCopies
        /\ setCopies' = setCopies \cup {copy}
        /\ UNCHANGED <<elements, tagCounter, history, adds>>

\* Mutant: of an element that both sides have, only the tags both have stay.
MergedCommon(s, t) == [e \in Element |->
    IF s[e] = {} THEN t[e] ELSE IF t[e] = {} THEN s[e] ELSE s[e] \cap t[e]]

MergedSet(s, t) == [e \in Element |-> s[e] \cup t[e]]

MergeSet(r, s) ==
    /\ elements' = [elements EXCEPT ![r] = MergedSet(@, s.elements)]
    /\ history' = [history EXCEPT ![r] =
                     [added |-> @.added \cup s.history.added,
                      removed |-> @.removed \cup s.history.removed]]
    /\ UNCHANGED <<tagCounter, setCopies, adds>>

SetNext == \E r \in Replica :
    \/ \E e \in Element : Add(r, e) \/ Remove(r, e)
    \/ TakeSet(r)
    \/ \E s \in setCopies : MergeSet(r, s)

SetSpec == SetInit /\ [][SetNext]_setVars

-----------------------------------------------------------------------------
\* The sets in use: the replicas' own and the copies, with what is behind them.
SetStates == setCopies \cup
    {[elements |-> elements[r], history |-> history[r]] : r \in Replica}

\* A tag names one add(): no two elements, at any replicas or in copies taken at
\* any time, share one, although remove() forgets the tags it takes away.
TagsUnique == \A s, t \in SetStates : \A e, f \in Element :
    e # f => s.elements[e] \cap t.elements[f] = {}

\* An add of e has come in, and no removal that took it away.
Stands(h, e) == \E a \in h.added \ h.removed : a.element = e

\* A set has every element of which an add has come in, directly or in copies,
\* and no removal of that add: no removal of an earlier add, no merge with a
\* set that has lost the element and no order of merges takes it away.  What a
\* set has was added by somebody whose add has come in.
AddsStand == \A s \in SetStates : \A e \in Element :
    /\ Stands(s.history, e) => e \in Members(s.elements)
    /\ e \in Members(s.elements) => \E a \in s.history.added : a.element = e
=============================================================================
