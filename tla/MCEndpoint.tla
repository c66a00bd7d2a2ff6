----------------------------- MODULE MCEndpoint -----------------------------
(* Instances of Endpoint small enough for TLC. *)
EXTENDS Endpoint
=============================================================================
