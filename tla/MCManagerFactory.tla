--------------------------- MODULE MCManagerFactory ---------------------------
(* ManagerFactory with a few workers that ask for a few managers. *)
EXTENDS ManagerFactory
=============================================================================
