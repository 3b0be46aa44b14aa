------------------------------ MODULE Replicas ------------------------------
(* The node_ids of the replicas of a data type of crdt.rs.                  *)
CONSTANT Replica
=============================================================================
