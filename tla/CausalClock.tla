---------------------------- MODULE CausalClock ----------------------------
(***************************************************************************)
(* VectorClock of crdt.rs: a replica counts its events with increment(),   *)
(* and receives the clock of another with update(), which is an event too. *)
(* The history variables past and the second half of every copy record     *)
(* which events came before, without looking at a clock.                   *)
(***************************************************************************)
EXTENDS CountVectors, FiniteSets

CONSTANTS
    MaxEvents,        \* bound on the events of a replica
    MaxClockCopies    \* bound on the clocks sent

ASSUME ClockAssumption == MaxEvents \in Nat /\ MaxClockCopies \in Nat

VARIABLES
    clock,        \* the VectorClock of each replica
    past,         \* history: the events that each replica knows of
    clockCopies   \* the clocks sent, each with the past of its sender

clockVars == <<clock, past, clockCopies>>

\* An event: the number-th that a replica takes part in.
Events == [by : Replica, number : 1..MaxEvents]

\* Clocks hold counts, pasts hold events.
ClockTypeOK ==
    /\ clock \in [Replica -> Counts]
    /\ past \in [Replica -> SUBSET Events]
    /\ clockCopies \subseteq [clock : Counts, past : SUBSET Events]

ClockInit ==
    /\ clock = [r \in Replica |-> NoCounts]
    /\ past = [r \in Replica |-> {}]
    /\ clockCopies = {}

\* The event that r takes part in next, by r's own account of its past.
NextEvent(r) ==
    [by |-> r, number |-> Cardinality({e \in past[r] : e.by = r}) + 1]

CanAct(r) == NextEvent(r) \in Events

Act(r) ==
    /\ CanAct(r)
    /\ clock' = [clock EXCEPT ![r] = Incremented(@, r)]
    /\ past' = [past EXCEPT ![r] = @ \cup {NextEvent(r)}]
    /\ UNCHANGED clockCopies

Send(r) ==
    LET stamp == [clock |-> clock[r], past |-> past[r]]
    IN  /\ stamp \notin clockCopies
        /\ Cardinality(clockCopies) < MaxClockCopies
        /\ clockCopies' = clockCopies \cup {stamp}
        /\ UNCHANGED <<clock, past>>

\* Mutant: update() merges but does not count an event of its own.
ReceiveWithoutEvent(r, m) ==
    /\ CanAct(r)
    /\ clock' = [clock EXCEPT ![r] = Merged(@, m.clock)]
    /\ past' = [past EXCEPT ![r] = @ \cup m.past \cup {NextEvent(r)}]
    /\ UNCHANGED clockCopies

Receive(r, m) ==
    /\ CanAct(r)
    /\ clock' = [clock EXCEPT ![r] = Incremented(Merged(@, m.clock), r)]
    /\ past' = [past EXCEPT ![r] = @ \cup m.past \cup {NextEvent(r)}]
    /\ UNCHANGED clockCopies

ClockNext == \E r \in Replica :
    Act(r) \/ Send(r) \/ \E m \in clockCopies : Receive(r, m)

ClockSpec == ClockInit /\ [][ClockNext]_clockVars

-----------------------------------------------------------------------------
\* The clocks in use: the replicas' own and those sent, with the events behind.
Stamps == clockCopies \cup {[clock |-> clock[r], past |-> past[r]] : r \in Replica}

CausalOrder(P, Q) ==
    CASE P = Q -> "equal"
      [] P # Q /\ P \subseteq Q -> "before"
      [] P # Q /\ Q \subseteq P -> "after"
      [] OTHER -> "concurrent"

\* compare() tells of any two clocks, current or sent long ago, exactly whether
\* the events behind one include those behind the other: it never orders
\* concurrent histories and never takes different histories for one.
CompareIsCausal == \A s, t \in Stamps :
    Compare(s.clock, t.clock) = CausalOrder(s.past, t.past)
=============================================================================
