-------------------------- MODULE LastWriteWinsMap --------------------------
(***************************************************************************)
(* LWWMap of crdt.rs.  A write is stamped with the wall clock of its node, *)
(* in milliseconds, and a hash of the node's name; merge() keeps the later *)
(* of two entries.  Wall clocks differ, stand still for a millisecond and  *)
(* can be set back, and two names can have one hash.                       *)
(***************************************************************************)
EXTENDS Naturals, FiniteSets, Replicas

CONSTANTS
    Key,
    hash,           \* hash[r]: hash_node_id() of replica r
    Time,           \* the times that the clocks show
    NoEntry,
    MaxWrites,      \* bound on the writes, of all replicas together
    MaxMapCopies    \* bound on the copies taken

ASSUME MapAssumption ==
    /\ hash \in [Replica -> Nat]
    /\ Time \subseteq Nat
    /\ MaxWrites \in Nat /\ MaxMapCopies \in Nat

Timestamp == [time : Nat, node_id_hash : Nat]

\* Every write has a value of its own.
Entry == [value : Nat, timestamp : Timestamp]

ASSUME NoEntryAssumption == NoEntry \notin Entry

VARIABLES
    entries,     \* the map of each replica
    seen,        \* history: the writes that have reached a replica
    written,     \* the number of writes so far
    mapCopies    \* the clones (or serialised forms) that may be merged, each
                 \* with what its replica had seen

mapVars == <<entries, seen, written, mapCopies>>

Maps == [Key -> Entry \cup {NoEntry}]

\* A write, and whether its node had seen an entry that is not older.
Write == [key : Key, entry : Entry, late : BOOLEAN]

MapTypeOK ==
    /\ entries \in [Replica -> Maps]
    /\ seen \in [Replica -> SUBSET Write]
    /\ written \in Nat
    /\ mapCopies \subseteq [entries : Maps, seen : SUBSET Write]

MapInit ==
    /\ entries = [r \in Replica |-> [k \in Key |-> NoEntry]]
    /\ seen = [r \in Replica |-> {}]
    /\ written = 0
    /\ mapCopies = {}

\* The derived order of Timestamp.
Earlier(s, t) ==
    \/ s.time < t.time
    \/ s.time = t.time /\ s.node_id_hash < t.node_id_hash

WritesOf(k, W) == {w \in W : w.key = k}

Set(r, k, time) ==
    LET e == [value |-> written,
              timestamp |-> [time |-> time, node_id_hash |-> hash[r]]]
        late == \E w \in WritesOf(k, seen[r]) :
                   ~Earlier(w.entry.timestamp, e.timestamp)
    IN  /\ written < MaxWrites
        /\ entries' = [entries EXCEPT ![r][k] = e]
        /\ seen' = [seen EXCEPT ![r] =
              @ \cup {[key |-> k, entry |-> e, late |-> late]}]
        /\ written' = written + 1
        /\ UNCHANGED mapCopies

TakeMap(r) ==
    LET c == [entries |-> entries[r], seen |-> seen[r]]
    IN  /\ c \notin mapCopies
        /\ Cardinality(mapCopies) < MaxMapCopies
        /\ mapCopies' = mapCopies \cup {c}
        /\ UNCHANGED <<entries, seen, written>>

\* Mutant: the entries of the other side replace those it has.
OtherEntry(mine, theirs) == IF theirs = NoEntry THEN mine ELSE theirs

LaterEntry(mine, theirs) ==
    IF \/ theirs = NoEntry
       \/ mine # NoEntry /\ ~Earlier(mine.timestamp, theirs.timestamp)
    THEN mine ELSE theirs

MergedMap(m, n) == [k \in Key |-> LaterEntry(m[k], n[k])]

MergeMap(r, c) ==
    /\ entries' = [entries EXCEPT ![r] = MergedMap(@, c.entries)]
    /\ seen' = [seen EXCEPT ![r] = @ \cup c.seen]
    /\ UNCHANGED <<written, mapCopies>>

MapNext == \E r \in Replica :
    \/ \E k \in Key, time \in Time : Set(r, k, time)
    \/ TakeMap(r)
    \/ \E c \in mapCopies : MergeMap(r, c)

MapSpec == MapInit /\ [][MapNext]_mapVars

-----------------------------------------------------------------------------
MapStates == mapCopies \cup {[entries |-> entries[r], seen |-> seen[r]] : r \in Replica}

\* No write of W came with a clock behind what its node had seen, and no two of
\* them have one timestamp.
Orderly(W) ==
    /\ \A w \in W : ~w.late
    /\ \A v, w \in W : v.entry.timestamp = w.entry.timestamp => v = w

\* Replicas that have seen the same writes of a key have the same entry for it,
\* in whatever order the writes and the merges came, if the timestamps of the
\* writes agree with what their nodes knew and differ from each other.
SameWritesSameEntry ==
    \A s, t \in MapStates : \A k \in Key :
        WritesOf(k, s.seen) = WritesOf(k, t.seen) /\ Orderly(WritesOf(k, s.seen))
        => s.entries[k] = t.entries[k]
=============================================================================
