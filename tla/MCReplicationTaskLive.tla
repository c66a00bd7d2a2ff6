---------------------- MODULE MCReplicationTaskLive ----------------------
(* Instances of ReplicationTaskLive small enough for TLC. *)
EXTENDS ReplicationTaskLive
=============================================================================
