---------------------------- MODULE MCReplicaSync ----------------------------
(* ReplicaSync.tla for TLC, on the machines and bounds its configurations give. *)
EXTENDS ReplicaSync
=============================================================================
