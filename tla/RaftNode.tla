------------------------------ MODULE RaftNode ------------------------------
(***************************************************************************)
(* One node of raft.rs.  The election timer, the message handler and the   *)
(* calls of propose() are tasks; each field has a lock of its own, so a    *)
(* step is one critical section.  Nothing is ever sent (the code says      *)
(* TODO): messages come from outside, and a node counts its own vote only. *)
(*                                                                          *)
(* start_election() keeps its read guard of the log until it returns, over *)
(* the second read in become_leader().  A lock of tokio is fair: who asks  *)
(* for it waits for all who asked before, a reader for a waiting writer.   *)
(***************************************************************************)
EXTENDS Integers, Sequences

CONSTANTS
    Me, Peer,           \* node ids
    Nobody,             \* voted_for is None
    Message, NoMessage,
    Proposal,           \* the calls of propose()
    MaxTerm             \* bound on the terms that elections reach

\* Of a log entry only the term is ever read.
Entries == Seq(Nat)

VoteRequests ==
    [type : {"RequestVote"}, term : Nat, candidate : Peer,
     last_log_index : Nat, last_log_term : Nat]

AppendRequests ==
    [type : {"AppendEntries"}, term : Nat, prev_log_index : Nat,
     prev_log_term : Nat, entries : Entries, leader_commit : Nat]

\* Of these only the term matters.
OtherMessages ==
    [type : {"RequestVoteResponse", "AppendEntriesResponse", "Heartbeat"}, term : Nat]

ASSUME RaftAssumption ==
    /\ Me \notin Peer /\ Nobody \notin Peer \cup {Me}
    /\ Message \subseteq VoteRequests \cup AppendRequests \cup OtherMessages
    /\ NoMessage \notin Message
    /\ MaxTerm \in Nat

VARIABLES
    role,           \* state
    currentTerm, votedFor,
    log,            \* the terms of the entries
    commitIndex, peers,
    election,       \* where start_election() is
    handling,       \* where handle_message() is
    message,        \* the message it handles
    proposal,       \* where each call of propose() is
    proposalTerm,   \* the term it has read
    votes,          \* history: the votes cast, the node's own included
    overlapped      \* history: an election has set term and vote while a
                    \* message was handled

raftVars == <<role, currentTerm, votedFor, log, commitIndex, peers, election,
              handling, message, proposal, proposalTerm, votes, overlapped>>

RaftTypeOK ==
    /\ role \in {"Follower", "Candidate", "Leader"}
    /\ currentTerm \in Nat
    /\ votedFor \in Peer \cup {Me, Nobody}
    /\ log \in Entries
    /\ commitIndex \in Nat
    /\ peers \subseteq Peer
    /\ election \in {"sleep", "term", "vote", "lock", "count", "lead", "relock", "beat"}
    /\ handling \in {"idle", "newTerm", "newRole", "newVote", "dispatch",
                     "mayVote", "compare", "vote", "follow", "check", "append",
                     "queued", "commit"}
    /\ message \in Message \cup {NoMessage}
    /\ handling = "idle" <=> message = NoMessage
    /\ proposal \in [Proposal -> {"new", "leads", "asks", "queued", "done", "refused"}]
    /\ proposalTerm \in [Proposal -> Nat]
    /\ votes \subseteq [term : Nat, candidate : Peer \cup {Me}]
    /\ overlapped \in BOOLEAN

RaftInit ==
    /\ role = "Follower" /\ currentTerm = 0 /\ votedFor = Nobody
    /\ log = <<>> /\ commitIndex = 0 /\ peers = {}
    /\ election = "sleep"
    /\ handling = "idle" /\ message = NoMessage
    /\ proposal = [c \in Proposal |-> "new"]
    /\ proposalTerm = [c \in Proposal |-> 0]
    /\ votes = {} /\ overlapped = FALSE

AddPeer(p) ==
    /\ peers' = peers \cup {p}
    /\ UNCHANGED <<role, currentTerm, votedFor, log, commitIndex, election, handling,
                   message, proposal, proposalTerm, votes, overlapped>>

-----------------------------------------------------------------------------
(* The lock of the log.                                                     *)

\* start_election() holds its guard: no task can write.
LogHeld == election \in {"count", "lead", "relock", "beat"}

\* A task waits for the guard to be released, and whoever asks after it, too.
WriterWaits == handling = "queued" \/ \E c \in Proposal : proposal[c] = "queued"

-----------------------------------------------------------------------------
(* election_timer_loop(), start_election() and become_leader().  Time may   *)
(* pass anywhere, so that the timer may run out in any state.               *)

Campaign ==
    /\ election = "sleep" /\ role # "Leader"
    /\ currentTerm < MaxTerm
    /\ role' = "Candidate"
    /\ election' = "term"
    /\ overlapped' = (overlapped \/ handling # "idle")
    /\ UNCHANGED <<currentTerm, votedFor, log, commitIndex, peers, handling, message,
                   proposal, proposalTerm, votes>>

RaiseTerm ==
    /\ election = "term"
    /\ currentTerm' = currentTerm + 1
    /\ election' = "vote"
    /\ UNCHANGED <<role, votedFor, log, commitIndex, peers, handling, message,
                   proposal, proposalTerm, votes, overlapped>>

VoteForMyself ==
    /\ election = "vote"
    /\ votedFor' = Me
    /\ votes' = votes \cup {[term |-> currentTerm, candidate |-> Me]}
    /\ election' = "lock"
    /\ UNCHANGED <<role, currentTerm, log, commitIndex, peers, handling, message,
                   proposal, proposalTerm, overlapped>>

LockLog ==
    /\ election = "lock"
    /\ ~WriterWaits
    /\ election' = "count"
    /\ UNCHANGED <<role, currentTerm, votedFor, log, commitIndex, peers, handling,
                   message, proposal, proposalTerm, votes, overlapped>>

\* One vote is a majority only without peers.  Otherwise start_election() returns.
Count ==
    /\ election = "count"
    /\ election' = IF peers = {} THEN "lead" ELSE "sleep"
    /\ UNCHANGED <<role, currentTerm, votedFor, log, commitIndex, peers, handling,
                   message, proposal, proposalTerm, votes, overlapped>>

BecomeLeader ==
    /\ election = "lead"
    /\ role' = "Leader"
    /\ election' = "relock"
    /\ UNCHANGED <<currentTerm, votedFor, log, commitIndex, peers, handling, message,
                   proposal, proposalTerm, votes, overlapped>>

\* The second read of the log.
Relock ==
    /\ election = "relock"
    /\ ~WriterWaits
    /\ election' = "beat"
    /\ UNCHANGED <<role, currentTerm, votedFor, log, commitIndex, peers, handling,
                   message, proposal, proposalTerm, votes, overlapped>>

\* After next_index and match_index, which nothing reads, and the heartbeats,
\* start_election() returns and gives up its guard.
Beat ==
    /\ election = "beat"
    /\ election' = "sleep"
    /\ UNCHANGED <<role, currentTerm, votedFor, log, commitIndex, peers, handling,
                   message, proposal, proposalTerm, votes, overlapped>>

Elect ==
    \/ Campaign \/ RaiseTerm \/ VoteForMyself
    \/ LockLog \/ Count \/ BecomeLeader \/ Relock \/ Beat

-----------------------------------------------------------------------------
(* handle_message().                                                        *)

\* The next critical section is at; after the last one the message is done.
GoTo(at) ==
    /\ handling' = at
    /\ message' = IF at = "idle" THEN NoMessage ELSE message
    /\ UNCHANGED <<peers, election, proposal, proposalTerm, overlapped>>

\* The handler reads the term.
ReceiveMessage(m) ==
    /\ handling = "idle"
    /\ message' = m
    /\ handling' = IF m.term > currentTerm THEN "newTerm" ELSE "dispatch"
    /\ overlapped' = (overlapped \/ election \in {"term", "vote"})
    /\ UNCHANGED <<role, currentTerm, votedFor, log, commitIndex, peers, election,
                   proposal, proposalTerm, votes>>

AdoptTerm ==
    /\ handling = "newTerm"
    /\ currentTerm' = message.term
    /\ GoTo("newRole")
    /\ UNCHANGED <<role, votedFor, log, commitIndex, votes>>

StepDown ==
    /\ handling = "newRole"
    /\ role' = "Follower"
    /\ GoTo("newVote")
    /\ UNCHANGED <<currentTerm, votedFor, log, commitIndex, votes>>

ForgetVote ==
    /\ handling = "newVote"
    /\ votedFor' = Nobody
    /\ GoTo("dispatch")
    /\ UNCHANGED <<role, currentTerm, log, commitIndex, votes>>

\* handle_request_vote() and handle_append_entries() read the term again.
Dispatch ==
    /\ handling = "dispatch"
    /\ GoTo(CASE message.type = "RequestVote" ->
                   IF message.term >= currentTerm THEN "mayVote" ELSE "idle"
              [] message.type = "AppendEntries" ->
                   IF message.term >= currentTerm THEN "follow" ELSE "check"
              [] OTHER -> "idle")
    /\ UNCHANGED <<role, currentTerm, votedFor, log, commitIndex, votes>>

LastTerm == IF log = <<>> THEN 0 ELSE log[Len(log)]

\* is_log_up_to_date().
UpToDate(m) ==
    \/ m.last_log_term > LastTerm
    \/ m.last_log_term = LastTerm /\ m.last_log_index >= Len(log)

\* Mutant: the vote is decided by the log alone.
DecideByLog ==
    /\ handling = "mayVote"
    /\ GoTo("compare")
    /\ UNCHANGED <<role, currentTerm, votedFor, log, commitIndex, votes>>

Decide ==
    /\ handling = "mayVote"
    /\ GoTo(IF votedFor \in {Nobody, message.candidate} THEN "compare" ELSE "idle")
    /\ UNCHANGED <<role, currentTerm, votedFor, log, commitIndex, votes>>

CompareLogs ==
    /\ handling = "compare"
    /\ ~WriterWaits
    /\ GoTo(IF UpToDate(message) THEN "vote" ELSE "idle")
    /\ UNCHANGED <<role, currentTerm, votedFor, log, commitIndex, votes>>

GrantVote ==
    /\ handling = "vote"
    /\ votedFor' = message.candidate
    /\ votes' = votes \cup {[term |-> message.term, candidate |-> message.candidate]}
    /\ GoTo("idle")
    /\ UNCHANGED <<role, currentTerm, log, commitIndex>>

Follow ==
    /\ handling = "follow"
    /\ role' = "Follower"
    /\ GoTo("check")
    /\ UNCHANGED <<currentTerm, votedFor, log, commitIndex, votes>>

\* check_log_consistency().
Consistent(m) ==
    \/ m.prev_log_index = 0
    \/ m.prev_log_index <= Len(log) /\ log[m.prev_log_index] = m.prev_log_term

CheckLog ==
    /\ handling = "check"
    /\ ~WriterWaits
    /\ GoTo(IF Consistent(message) THEN "append" ELSE "idle")
    /\ UNCHANGED <<role, currentTerm, votedFor, log, commitIndex, votes>>

HandlerQueues ==
    /\ handling = "append" /\ LogHeld
    /\ GoTo("queued")
    /\ UNCHANGED <<role, currentTerm, votedFor, log, commitIndex, votes>>

\* The log is cut after start_index entries, one more than the message builds on.
AppendToLog ==
    /\ handling \in {"append", "queued"} /\ ~LogHeld
    /\ LET start_index == message.prev_log_index + 1
       IN  log' = (IF Len(log) > start_index THEN SubSeq(log, 1, start_index) ELSE log)
                    \o message.entries
    /\ GoTo("commit")
    /\ UNCHANGED <<role, currentTerm, votedFor, commitIndex, votes>>

Commit ==
    /\ handling = "commit"
    /\ IF message.leader_commit > commitIndex
          THEN /\ ~WriterWaits
               /\ commitIndex' = IF message.leader_commit <= Len(log)
                                 THEN message.leader_commit ELSE Len(log)
          ELSE UNCHANGED commitIndex
    /\ GoTo("idle")
    /\ UNCHANGED <<role, currentTerm, votedFor, log, votes>>

Handle ==
    \/ AdoptTerm \/ StepDown \/ ForgetVote \/ Dispatch
    \/ Decide \/ CompareLogs \/ GrantVote
    \/ Follow \/ CheckLog \/ HandlerQueues \/ AppendToLog \/ Commit

-----------------------------------------------------------------------------
(* propose() and append_log_entry().                                        *)

Proceeds(c, at) ==
    /\ proposal' = [proposal EXCEPT ![c] = at]
    /\ UNCHANGED <<role, currentTerm, votedFor, commitIndex, peers, election,
                   handling, message, votes, overlapped>>

AskLeader(c) ==
    /\ proposal[c] = "new"
    /\ Proceeds(c, IF role = "Leader" THEN "leads" ELSE "refused")
    /\ UNCHANGED <<log, proposalTerm>>

ReadTerm(c) ==
    /\ proposal[c] = "leads"
    /\ proposalTerm' = [proposalTerm EXCEPT ![c] = currentTerm]
    /\ Proceeds(c, "asks")
    /\ UNCHANGED log

ProposalQueues(c) ==
    /\ proposal[c] = "asks" /\ LogHeld
    /\ Proceeds(c, "queued")
    /\ UNCHANGED <<log, proposalTerm>>

AppendProposal(c) ==
    /\ proposal[c] \in {"asks", "queued"} /\ ~LogHeld
    /\ log' = Append(log, proposalTerm[c])
    /\ Proceeds(c, "done")
    /\ UNCHANGED proposalTerm

Propose(c) == AskLeader(c) \/ ReadTerm(c) \/ ProposalQueues(c) \/ AppendProposal(c)

RaftNext ==
    \/ Elect
    \/ Handle \/ \E m \in Message : ReceiveMessage(m)
    \/ \E c \in Proposal : Propose(c)
    \/ \E p \in Peer \ peers : AddPeer(p)

RaftSpec == RaftInit /\ [][RaftNext]_raftVars

-----------------------------------------------------------------------------
\* A node votes once in a term, whatever messages come, as long as no election
\* sets its term and its vote while it handles a message: the two tasks write
\* the same fields under separate locks.
OneVotePerTerm ==
    overlapped \/ \A v, w \in votes : v.term = w.term => v.candidate = w.candidate

\* "Remove conflicting entries" (raft.rs, line 374): only those.  An entry that
\* is committed stays where it is.
CommittedEntriesStay == [][
    \A i \in DOMAIN log : i <= commitIndex => i \in DOMAIN log' /\ log'[i] = log[i]
    ]_raftVars
=============================================================================
