----------------------------- MODULE MCRuntime -----------------------------
(* The parts of the runtime, which share no state: a behaviour exercises    *)
(* one of them, chosen at the start, and the others stay as created.        *)
EXTENDS ReplicatedCounter, CausalClock, ObservedRemoveSet, LastWriteWinsMap,
        HttpCounter, RaftNode

CONSTANTS ra, rb, rc, apple, banana, pa, pb

VARIABLE part

vars == <<part, counterVars, clockVars, setVars, mapVars, httpVars, raftVars>>

Init ==
    /\ part \in {"PNCounter", "VectorClock", "ORSet", "LWWMap", "HttpCounter", "RaftNode"}
    /\ CounterInit
    /\ ClockInit
    /\ SetInit
    /\ MapInit
    /\ HttpInit
    /\ RaftInit

Next ==
    /\ UNCHANGED part
    /\ \/ /\ part = "PNCounter"
          /\ CounterNext
          /\ UNCHANGED <<clockVars, setVars, mapVars, httpVars, raftVars>>
       \/ /\ part = "VectorClock"
          /\ ClockNext
          /\ UNCHANGED <<counterVars, setVars, mapVars, httpVars, raftVars>>
       \/ /\ part = "ORSet"
          /\ SetNext
          /\ UNCHANGED <<counterVars, clockVars, mapVars, httpVars, raftVars>>
       \/ /\ part = "LWWMap"
          /\ MapNext
          /\ UNCHANGED <<counterVars, clockVars, setVars, httpVars, raftVars>>
       \/ /\ part = "HttpCounter"
          /\ HttpNext
          /\ UNCHANGED <<counterVars, clockVars, setVars, mapVars, raftVars>>
       \/ /\ part = "RaftNode"
          /\ RaftNext
          /\ UNCHANGED <<counterVars, clockVars, setVars, mapVars, httpVars>>

Spec == Init /\ [][Next]_vars

\* The states of all parts have their types.
RuntimeTypeOK ==
    /\ CounterTypeOK /\ ClockTypeOK /\ SetTypeOK
    /\ MapTypeOK /\ HttpTypeOK /\ RaftTypeOK

-----------------------------------------------------------------------------
\* Two nodes whose names have one hash, and one with another.
CollidingHash == [r \in Replica |-> IF r = rc THEN 1 ELSE 0]

VoteRequest(term, p, index, lastTerm) ==
    [type |-> "RequestVote", term |-> term, candidate |-> p,
     last_log_index |-> index, last_log_term |-> lastTerm]

AppendRequest(term, index, prevTerm, new, commit) ==
    [type |-> "AppendEntries", term |-> term, prev_log_index |-> index,
     prev_log_term |-> prevTerm, entries |-> new, leader_commit |-> commit]

\* Two candidates of one term, one of the next with a longer log, and a leader
\* that has an entry of the term before.
Messages ==
    {VoteRequest(1, pa, 0, 0), VoteRequest(1, pb, 0, 0), VoteRequest(2, pb, 1, 1),
     AppendRequest(2, 1, 1, <<2>>, 2), [type |-> "Heartbeat", term |-> 1]}

\* One leader replicates two entries, adds a third and commits the first two;
\* then a heartbeat as send_heartbeats() makes it.
OneLeader ==
    {AppendRequest(1, 0, 0, <<1, 1>>, 0), AppendRequest(1, 2, 1, <<1>>, 2),
     AppendRequest(1, 0, 0, <<>>, 2)}
=============================================================================
