-------------------------------- MODULE MCTags --------------------------------
(* An instance of Tags small enough for TLC. *)
EXTENDS Tags
=============================================================================
