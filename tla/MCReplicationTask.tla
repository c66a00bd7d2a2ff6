-------------------------- MODULE MCReplicationTask --------------------------
(* Instances of ReplicationTask small enough for TLC. *)
EXTENDS ReplicationTask
=============================================================================
