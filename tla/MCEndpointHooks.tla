--------------------------- MODULE MCEndpointHooks ---------------------------
(* An instance of EndpointHooks small enough for TLC. *)
EXTENDS EndpointHooks
=============================================================================
