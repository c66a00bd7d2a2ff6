----------------------------- MODULE MCPlainKinds -----------------------------
(* An instance of PlainKindsLive small enough for TLC. *)
EXTENDS PlainKindsLive
=============================================================================
