---------------------- MODULE MCEndpointLive ----------------------
(* Instances of EndpointLive small enough for TLC. *)
EXTENDS EndpointLive
=============================================================================
