--------------------------- MODULE ManagedResource ---------------------------
(***************************************************************************)
(* What every resource kind of the controller promises about the life of   *)
(* its AWS object, whatever it does to it in between: the object exists    *)
(* only while a custom resource that carries the ACK finalizer answers for *)
(* it, it is deleted only when the deletion of that resource is requested, *)
(* and the resource goes only when the object is gone.                     *)
(*                                                                         *)
(* The descriptor of each kind (descriptor.go) says what "managed" means;  *)
(* the resource managers create and delete the object.                     *)
(***************************************************************************)

VARIABLES
  phase,    \* of the custom resource: "absent", "live" or, with a deletion timestamp, "deleting"
  managed,  \* it carries the finalizer of its kind
  exists    \* there is an AWS object of its name

vars == <<phase, managed, exists>>

Init == phase = "absent" /\ managed = FALSE /\ exists = FALSE

Declare ==
  phase = "absent" /\ phase' = "live" /\ managed' = FALSE /\ UNCHANGED exists

\* The user deletes the resource: at once when nothing holds it.
Withdraw ==
  /\ phase = "live"
  /\ phase' = IF managed THEN "deleting" ELSE "absent"
  /\ UNCHANGED <<managed, exists>>

Manage == phase # "absent" /\ managed' = TRUE /\ UNCHANGED <<phase, exists>>

Create == managed /\ ~exists /\ exists' = TRUE /\ UNCHANGED <<phase, managed>>

Delete == phase = "deleting" /\ exists /\ exists' = FALSE /\ UNCHANGED <<phase, managed>>

Release ==
  /\ phase = "deleting" /\ ~exists
  /\ phase' = "absent" /\ managed' = FALSE /\ UNCHANGED exists

Next == Declare \/ Withdraw \/ Manage \/ Create \/ Delete \/ Release

Spec == Init /\ [][Next]_vars
=============================================================================
