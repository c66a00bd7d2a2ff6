------------------------------ MODULE References ------------------------------
(***************************************************************************)
(* Several custom resources that refer to each other: a task to its        *)
(* instance and its endpoints, an instance to its subnet group, an         *)
(* endpoint to a certificate.  The controllers of the kinds run at the     *)
(* same time and share nothing but what the Kubernetes API server stores:  *)
(* a pass resolves the references of its resource by reading the referents *)
(* one after the other (ResolveReferences of references.go), then goes on  *)
(* as in ReconcilePass.  AWS does not create an object without those it    *)
(* refers to, and does not delete one that others refer to.                *)
(*                                                                         *)
(* Of a Spec only the references matter here, and of a pass whether it     *)
(* creates, deletes or leaves its object alone.                            *)
(***************************************************************************)
EXTENDS ReferenceFields, Naturals, Sequences, Functions

CONSTANTS
  Resource,   \* the custom resources
  KindOf,     \* their kinds
  Referents,  \* the resources that each refers to, in the order of ResolveReferences
  MaxEdits    \* bound: how often the user creates a resource or edits its references

ReferenceOf(kind) ==
  CASE kind = "Certificate" -> CertificateReference
    [] kind = "Endpoint" -> EndpointReference
    [] kind = "EventSubscription" -> EventSubscriptionReference
    [] kind = "ReplicationInstance" -> ReplicationInstanceReference
    [] kind = "ReplicationSubnetGroup" -> ReplicationSubnetGroupReference
    [] kind = "ReplicationTask" -> ReplicationTaskReference

ASSUME LandscapeAssumption ==
  /\ MaxEdits \in Nat
  /\ \A r \in Resource :
       /\ Referents[r] \in Seq(Resource)
       /\ {KindOf[s] : s \in Range(Referents[r])}
            \subseteq {f.referent.kind : f \in ReferenceOf(KindOf[r])}

VARIABLES
  phase,      \* where each custom resource is in its life
  valid,      \* FALSE: Spec gives a field and the reference that stands for it
  condition,  \* what its conditions say; "terminal" includes that it is synced, "unsynced" that
              \* they say nothing
  object,     \* its AWS object
  pass,       \* the controller's pass over it
  edits       \* how many edits the user has made

vars == <<phase, valid, condition, object, pass, edits>>

\* A resource is "managed" once it has the finalizer.
Phase == {"absent", "live", "managed", "deleting"}
Condition == {"synced", "unsynced", "terminal"}
Object == {"none", "creating", "ready", "deleting"}
Stage == {"idle", "resolve", "read", "markManaged", "create", "delete", "removeFinalizer",
          "patchStatus"}

\* What a pass knows: the next call, how many references are resolved, its copy of the
\* resource, and the condition that it is going to report.
Pass == [call : Stage, resolved : Nat, deleting : BOOLEAN, managed : BOOLEAN, valid : BOOLEAN,
         outcome : Condition]

NoPass == [call |-> "idle", resolved |-> 0, deleting |-> FALSE, managed |-> FALSE,
           valid |-> FALSE, outcome |-> "unsynced"]

TypeOK ==
  /\ phase \in [Resource -> Phase]
  /\ valid \in [Resource -> BOOLEAN]
  /\ condition \in [Resource -> Condition]
  /\ object \in [Resource -> Object]
  /\ pass \in [Resource -> Pass]
  /\ \A r \in Resource : pass[r].resolved <= Len(Referents[r])
  /\ edits \in 0 .. MaxEdits

Init ==
  /\ phase = [r \in Resource |-> "absent"]
  /\ valid = [r \in Resource |-> TRUE]
  /\ condition = [r \in Resource |-> "unsynced"]
  /\ object = [r \in Resource |-> "none"]
  /\ pass = [r \in Resource |-> NoPass]
  /\ edits = 0

IsReferent(s, r) == s \in Range(Referents[r])

InUse(s) == \E r \in Resource : IsReferent(s, r) /\ object[r] # "none"

-----------------------------------------------------------------------------
(* The user *)

UserEdits == edits < MaxEdits /\ edits' = edits + 1 /\ UNCHANGED <<object, pass>>

UserCreates(r) ==
  /\ phase[r] = "absent"
  /\ phase' = [phase EXCEPT ![r] = "live"]
  /\ condition' = [condition EXCEPT ![r] = "unsynced"]
  /\ \E v \in BOOLEAN : valid' = [valid EXCEPT ![r] = v]
  /\ UserEdits

UserChangesReference(r) ==
  /\ phase[r] # "absent"
  /\ valid' = [valid EXCEPT ![r] = ~@]
  /\ UserEdits /\ UNCHANGED <<phase, condition>>

Gone(r) ==
  /\ phase' = [phase EXCEPT ![r] = "absent"]
  /\ condition' = [condition EXCEPT ![r] = "unsynced"]
  /\ valid' = [valid EXCEPT ![r] = TRUE]

\* A referent may be deleted before what refers to it.
UserDeletes(r) ==
  /\ \/ phase[r] = "live" /\ Gone(r)
     \/ /\ phase[r] = "managed" /\ phase' = [phase EXCEPT ![r] = "deleting"]
        /\ UNCHANGED <<condition, valid>>
  /\ UNCHANGED <<object, pass, edits>>

-----------------------------------------------------------------------------
(* AWS *)

\* These kinds have no status: they are there, or gone, at once.
Immediate(r) == KindOf[r] \in {"Certificate", "ReplicationSubnetGroup"}

AWSProceeds(r) ==
  /\ object' = [object EXCEPT ![r] = CASE @ = "creating" -> "ready" [] @ = "deleting" -> "none"]
  /\ UNCHANGED <<phase, valid, condition, pass, edits>>

AWSCreates(r) == object[r] = "creating" /\ AWSProceeds(r)
AWSDeletes(r) == object[r] = "deleting" /\ AWSProceeds(r)

-----------------------------------------------------------------------------
(* The pass *)

\* The pass over r goes on with this call.
GoesOn(r, call) == pass' = [pass EXCEPT ![r].call = call]

Reports(r, outcome) ==
  pass' = [pass EXCEPT ![r].call = "patchStatus", ![r].outcome = outcome]

Begin(r, call) ==
  /\ pass[r].call = "idle" /\ phase[r] # "absent"
  /\ pass' = [pass EXCEPT ![r] =
       [NoPass EXCEPT !.call = call, !.deleting = phase[r] = "deleting",
                      !.managed = phase[r] # "live", !.valid = valid[r]]]
  /\ UNCHANGED <<phase, valid, condition, object, edits>>

\* The runtime ignores on a deletion whether the references can be resolved.
Reconcile(r) == Begin(r, IF phase[r] = "deleting" THEN "read" ELSE "resolve")

\* Mutant: a terminal referent counts as synced.
Usable_Terminal(s) == phase[s] # "absent" /\ condition[s] \in {"synced", "terminal"}

\* getReferencedResourceState: the referent exists, has not failed for good and is synced.
Usable(s) == phase[s] # "absent" /\ condition[s] = "synced"

\* resolveReferenceFor...: the first referent that is not usable is an error.
ResolveReference(r) ==
  /\ pass[r].call = "resolve" /\ pass[r].resolved < Len(Referents[r])
  /\ IF Usable(Referents[r][pass[r].resolved + 1])
     THEN pass' = [pass EXCEPT ![r].resolved = @ + 1]
     ELSE Reports(r, "unsynced")
  /\ UNCHANGED <<phase, valid, condition, object, edits>>

\* Mutant: the error of the validation is lost when the references can be resolved.
Resolved_Shadowed(r) ==
  /\ pass[r].call = "resolve" /\ pass[r].resolved = Len(Referents[r])
  /\ GoesOn(r, "read")
  /\ UNCHANGED <<phase, valid, condition, object, edits>>

\* ResolveReferences returns the error of validateReferenceFields at its end.
Resolved(r) ==
  /\ pass[r].call = "resolve" /\ pass[r].resolved = Len(Referents[r])
  /\ IF pass[r].valid THEN GoesOn(r, "read") ELSE Reports(r, "unsynced")
  /\ UNCHANGED <<phase, valid, condition, object, edits>>

\* Mutant: only an object that is reported as synced is deleted.
Read_DeletesSynced(r) ==
  LET found == object[r] IN
    /\ pass[r].call = "read"
    /\ CASE found = "none" /\ pass[r].deleting -> GoesOn(r, "removeFinalizer")
         [] found = "none" /\ ~pass[r].deleting ->
              GoesOn(r, IF pass[r].managed THEN "create" ELSE "markManaged")
         [] found # "none" /\ ~pass[r].deleting ->
              Reports(r, IF found = "ready" THEN "synced" ELSE "unsynced")
         [] found = "ready" /\ pass[r].deleting /\ condition[r] = "synced" -> GoesOn(r, "delete")
         [] OTHER -> \E c \in {condition[r], "unsynced"} : Reports(r, c)
    /\ UNCHANGED <<phase, valid, condition, object, edits>>

Read(r) ==
  LET found == object[r] IN
    /\ pass[r].call = "read"
    /\ CASE found = "none" /\ pass[r].deleting -> GoesOn(r, "removeFinalizer")
         [] found = "none" /\ ~pass[r].deleting ->
              GoesOn(r, IF pass[r].managed THEN "create" ELSE "markManaged")
         [] found # "none" /\ ~pass[r].deleting ->
              Reports(r, IF found = "ready" THEN "synced" ELSE "unsynced")
         [] found = "ready" /\ pass[r].deleting -> GoesOn(r, "delete")
         [] OTHER -> \E c \in {condition[r], "unsynced"} : Reports(r, c)
    /\ UNCHANGED <<phase, valid, condition, object, edits>>

MarkManaged(r) ==
  /\ pass[r].call = "markManaged" /\ phase[r] # "absent"
  /\ phase' = [phase EXCEPT ![r] = IF @ = "live" THEN "managed" ELSE @]
  /\ pass' = [pass EXCEPT ![r].call = "create", ![r].managed = TRUE]
  /\ UNCHANGED <<valid, condition, object, edits>>

\* The runtime reads a created object once more.
Create(r) ==
  /\ pass[r].call = "create" /\ object[r] = "none"
  /\ \A s \in Range(Referents[r]) : object[s] = "ready"
  /\ object' = [object EXCEPT ![r] = IF Immediate(r) THEN "ready" ELSE "creating"]
  /\ GoesOn(r, "read")
  /\ UNCHANGED <<phase, valid, condition, edits>>

\* The deletion of an object that is gone at once is over; for another one the pass has to wait.
Delete(r) ==
  /\ pass[r].call = "delete" /\ object[r] = "ready" /\ ~InUse(r)
  /\ IF Immediate(r)
     THEN object' = [object EXCEPT ![r] = "none"] /\ GoesOn(r, "removeFinalizer")
     ELSE /\ object' = [object EXCEPT ![r] = "deleting"]
          /\ \E c \in {condition[r], "unsynced"} : Reports(r, c)
  /\ UNCHANGED <<phase, valid, condition, edits>>

RemoveFinalizer(r) ==
  /\ pass[r].call = "removeFinalizer" /\ phase[r] = "deleting"
  /\ Gone(r)
  /\ pass' = [pass EXCEPT ![r] = NoPass]
  /\ UNCHANGED <<object, edits>>

\* Mutant: a terminal error is not forgotten.
PatchStatus_Sticky(r) ==
  /\ pass[r].call = "patchStatus"
  /\ condition' = [condition EXCEPT ![r] =
       IF phase[r] = "absent" \/ condition[r] = "terminal" THEN @ ELSE pass[r].outcome]
  /\ pass' = [pass EXCEPT ![r] = NoPass]
  /\ UNCHANGED <<phase, valid, object, edits>>

\* A deletion that has to be tried again says nothing of a terminal error any more.
PatchStatus(r) ==
  /\ pass[r].call = "patchStatus"
  /\ condition' = [condition EXCEPT ![r] =
       CASE phase[r] = "absent" -> @
         [] phase[r] # "absent" /\ pass[r].deleting /\ pass[r].outcome = "terminal" -> "synced"
         [] OTHER -> pass[r].outcome]
  /\ pass' = [pass EXCEPT ![r] = NoPass]
  /\ UNCHANGED <<phase, valid, object, edits>>

\* AWS refuses to create without what it takes, and to delete what is in use.
Refused(r) ==
  /\ \/ pass[r].call = "create" /\ \E s \in Range(Referents[r]) : object[s] # "ready"
     \/ pass[r].call = "delete" /\ InUse(r)
  /\ Reports(r, IF pass[r].deleting THEN condition[r] ELSE "unsynced")
  /\ UNCHANGED <<phase, valid, condition, object, edits>>

\* terminalAWSError knows errors of these kinds.
MayBeRefused(r) == KindOf[r] \in {"Endpoint", "ReplicationInstance", "ReplicationTask"}

\* Any call may fail.  A creation may be refused for good.
CallFails(r) ==
  /\ pass[r].call \notin {"idle", "patchStatus"}
  /\ \/ Reports(r, IF pass[r].deleting THEN condition[r] ELSE "unsynced")
     \/ pass[r].call = "create" /\ MayBeRefused(r) /\ Reports(r, "terminal")
  /\ UNCHANGED <<phase, valid, condition, object, edits>>

\* The controller dies, or its status is not stored.
Crash(r) ==
  /\ pass[r].call # "idle"
  /\ pass' = [pass EXCEPT ![r] = NoPass]
  /\ UNCHANGED <<phase, valid, condition, object, edits>>

\* The steps in which the API server and AWS answer as they should.
Answered(r) ==
  \/ Reconcile(r) \/ ResolveReference(r) \/ Resolved(r) \/ Read(r) \/ MarkManaged(r)
  \/ Create(r) \/ Delete(r) \/ Refused(r) \/ RemoveFinalizer(r) \/ PatchStatus(r)

Controller(r) == Answered(r) \/ CallFails(r) \/ Crash(r)

Next ==
  \E r \in Resource :
    \/ UserCreates(r) \/ UserChangesReference(r) \/ UserDeletes(r)
    \/ AWSCreates(r) \/ AWSDeletes(r)
    \/ Controller(r)

Spec == Init /\ [][Next]_vars

-----------------------------------------------------------------------------
(* Safety *)

\* A reference is resolved only when the referent's object is there to be used, unless the
\* referent's deletion has been requested: what a condition says, written by another controller
\* after it had looked at AWS, is still true when it is read.
ResolvesInTime ==
  [][\A r \in Resource :
       pass'[r].resolved > pass[r].resolved =>
         LET s == Referents[r][pass'[r].resolved] IN
           object[s] = "ready" \/ phase[s] = "deleting"]_vars

\* A resource is reported as synced only by a pass that has resolved all its references and
\* found no ambiguous one.
SyncedMeansResolved ==
  [][\A r \in Resource :
       PatchStatus(r) /\ condition'[r] \in {"synced", "terminal"} /\ ~pass[r].deleting
         => pass[r].valid /\ pass[r].resolved = Len(Referents[r])]_vars

=============================================================================
