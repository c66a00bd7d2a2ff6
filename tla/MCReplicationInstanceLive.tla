---------------------- MODULE MCReplicationInstanceLive ----------------------
(* Instances of ReplicationInstanceLive small enough for TLC. *)
EXTENDS ReplicationInstanceLive
=============================================================================
