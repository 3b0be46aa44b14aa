-------------------------- MODULE SharedKnowledge --------------------------
(***************************************************************************)
(* What a replicated data type without conflicts promises, whatever it     *)
(* stores: an update is made once, and a replica that merges a copy of     *)
(* another replica, however old and however often, knows exactly the       *)
(* updates that either of them knew.                                       *)
(***************************************************************************)
CONSTANTS Replica, Update

VARIABLES
    known,   \* the updates that each replica knows of
    copies   \* what the copies that were taken of replicas hold

vars == <<known, copies>>

Made == UNION {known[r] : r \in Replica}

TypeOK == known \in [Replica -> SUBSET Update] /\ copies \in SUBSET SUBSET Made

Init == known = [r \in Replica |-> {}] /\ copies = {}

Make(r) ==
    /\ \E u \in Update \ Made : known' = [known EXCEPT ![r] = @ \cup {u}]
    /\ UNCHANGED copies

TakeCopy(r) ==
    /\ copies' = copies \cup {known[r]}
    /\ UNCHANGED known

Learn(r, K) ==
    /\ known' = [known EXCEPT ![r] = @ \cup K]
    /\ UNCHANGED copies

Next ==
    /\ vars' # vars
    /\ \E r \in Replica :
          Make(r) \/ TakeCopy(r) \/ \E K \in copies : Learn(r, K)

Spec == Init /\ [][Next]_vars
=============================================================================
