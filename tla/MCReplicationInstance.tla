------------------------ MODULE MCReplicationInstance ------------------------
(* Instances of ReplicationInstance small enough for TLC. *)
EXTENDS ReplicationInstance
=============================================================================
