---------------------------- MODULE ReconcilePass ----------------------------
(***************************************************************************)
(* One pass of the controller over one custom resource, as far as it is    *)
(* the same for every kind: what the ACK runtime does around the calls of  *)
(* a resource manager, and the code that the generator repeats in each     *)
(* package of pkg/resource (descriptor.go, manager.go, syncTags).          *)
(*                                                                         *)
(* The module of a kind EXTENDS this one, says what its AWS object is and  *)
(* does, and puts the steps below together with its own.  As in            *)
(* ReplicationTask a pass is split at every call that leaves the process;  *)
(* pc is the call that comes next.                                         *)
(*                                                                         *)
(* Spec is a function from the fields a behaviour is about to their        *)
(* values, beside the tags.  Unset stands for nil.                         *)
(***************************************************************************)
EXTENDS Naturals

CONSTANTS
  Field,     \* the fields of Spec that the behaviours are about
  Tag,       \* the tags (a key with one value)
  Unset,     \* the value of a field that is nil
  MaxEdits   \* bound: how often the user creates or edits the resource

ASSUME EditsAssumption == MaxEdits \in Nat

VARIABLES
  cr,       \* the custom resource, as stored by the Kubernetes API server
  object,   \* the AWS object, as stored by AWS
  pc,       \* the next call of the pass
  desired,  \* the pass's copy of the custom resource
  latest,   \* what the pass has learned of the object, merged over the custom resource
  edits     \* how many edits the user has made

vars == <<cr, object, pc, desired, latest, edits>>

local == <<desired, latest>>

Phase == {"absent", "live", "deleting"}
Synced == {"Unset", "True", "False"}

Call == {"read", "markManaged", "create", "readCreated", "removeTags", "addTags",
         "modify", "delete", "patchSpec", "removeFinalizer"}
\* The status is patched at the end of a pass: "patched" is after a patch of Spec, "patchStatus"
\* without one.
Stage == Call \union {"idle", "patchStatus", "patched", "patchError", "patchTerminal"}

\* object is the status of the AWS object, as last reported.
NoStatus == [object |-> "unset", synced |-> "Unset", terminal |-> FALSE]

NoSpec == [field |-> [f \in Field |-> Unset], tags |-> {}]

NoResource == [phase |-> "absent", finalizer |-> FALSE, spec |-> NoSpec, status |-> NoStatus]

\* The copies of a resource whose fields have a value in Values and whose object has a status
\* in Statuses.
ResourceOf(Values, Statuses) ==
  [phase : Phase, finalizer : BOOLEAN,
   spec : [field : [Field -> Values], tags : SUBSET Tag],
   status : [object : Statuses \union {"unset"}, synced : Synced, terminal : BOOLEAN]]

DeleteRequested(ko) == ko.phase = "deleting"

-----------------------------------------------------------------------------
(* The user *)

UserEdits == edits < MaxEdits /\ edits' = edits + 1 /\ UNCHANGED <<object, pc, local>>

UserCreates(spec) ==
  /\ cr.phase = "absent"
  /\ cr' = [NoResource EXCEPT !.phase = "live", !.spec = spec]
  /\ UserEdits

UserSets(f, v) ==
  /\ cr.phase # "absent" /\ cr.spec.field[f] # v
  /\ cr' = [cr EXCEPT !.spec.field[f] = v] /\ UserEdits

UserSetsTags(tags) ==
  /\ cr.phase # "absent" /\ cr.spec.tags # tags
  /\ cr' = [cr EXCEPT !.spec.tags = tags] /\ UserEdits

\* A resource without finalizers is gone at once; another one waits for the controller.
UserDeletes ==
  /\ cr.phase = "live"
  /\ cr' = IF cr.finalizer THEN [cr EXCEPT !.phase = "deleting"] ELSE NoResource
  /\ UNCHANGED <<object, pc, local, edits>>

-----------------------------------------------------------------------------
(* Reading *)

\* What a pass begins with: the ACK runtime clears the conditions before it synchronises.
Taken ==
  IF cr.phase = "live"
  THEN [cr EXCEPT !.status.synced = "Unset", !.status.terminal = FALSE] ELSE cr

\* A pass begins with the copy ko, by the step next.
Begins(ko, next) ==
  /\ pc = "idle" /\ cr.phase # "absent"
  /\ pc' = next /\ desired' = ko
  /\ latest' = IF next = "patchError" THEN ko ELSE latest
  /\ UNCHANGED <<cr, object, edits>>

Reconcile == Begins(Taken, "read")

\* sdkFind has found the object and learned ko; the comparison leaves the copy wanted.
ReadFound(wanted, ko, next) ==
  /\ pc = "read" /\ object.status # "none"
  /\ desired' = wanted /\ latest' = ko /\ pc' = next
  /\ UNCHANGED <<cr, object, edits>>

\* Mutant: an object that is not found is an error unless it is to be created.
ReadNotFound_IsAnError ==
  /\ pc = "read" /\ object.status = "none"
  /\ pc' = IF DeleteRequested(desired) THEN "patchError"
           ELSE IF desired.finalizer THEN "create" ELSE "markManaged"
  /\ UNCHANGED <<cr, object, local, edits>>

ReadNotFound ==
  /\ pc = "read" /\ object.status = "none"
  /\ pc' = IF DeleteRequested(desired) THEN "removeFinalizer"
           ELSE IF desired.finalizer THEN "create" ELSE "markManaged"
  /\ UNCHANGED <<cr, object, local, edits>>

\* The finalizer is in place before the object is created.
MarkManaged ==
  /\ pc = "markManaged" /\ cr.phase # "absent"
  /\ cr' = [cr EXCEPT !.finalizer = TRUE]
  /\ desired' = [desired EXCEPT !.finalizer = TRUE]
  /\ pc' = "create"
  /\ UNCHANGED <<object, latest, edits>>

\* The runtime reads a created object once more, for its status.
ReadCreated(ko) ==
  /\ pc = "readCreated" /\ object.status # "none"
  /\ latest' = [latest EXCEPT !.status = ko.status]
  /\ pc' = "patchSpec"
  /\ UNCHANGED <<cr, object, desired, edits>>

-----------------------------------------------------------------------------
(* The tags: syncTags removes some and then adds others *)

\* The call by which an Update with a difference in the tags begins.
FirstOfTags(want, have) ==
  IF have.spec.tags \subseteq want.spec.tags THEN "addTags" ELSE "removeTags"

\* After the last of its calls the pass goes on with next and the copy ko.
RemoveTags(next, ko) ==
  /\ pc = "removeTags" /\ object.status # "none"
  /\ object' = [object EXCEPT !.tags = @ \ (latest.spec.tags \ desired.spec.tags)]
  /\ IF desired.spec.tags \subseteq latest.spec.tags
     THEN pc' = next /\ latest' = ko
     ELSE pc' = "addTags" /\ UNCHANGED latest
  /\ UNCHANGED <<cr, desired, edits>>

AddTags(next, ko) ==
  /\ pc = "addTags" /\ object.status # "none"
  /\ object' = [object EXCEPT !.tags = @ \union (desired.spec.tags \ latest.spec.tags)]
  /\ pc' = next /\ latest' = ko
  /\ UNCHANGED <<cr, desired, edits>>

-----------------------------------------------------------------------------
(* Leaving Spec and the status behind *)

\* After a successful Create or Update the runtime patches the fields of Spec in which the copy
\* returned differs from the one desired, whatever they have become in the meantime.
PatchSpec(from, to) ==
  /\ pc = "patchSpec" /\ cr.phase # "absent"
  /\ cr' = [cr EXCEPT
       !.spec.field = [f \in Field |-> IF to.field[f] # from.field[f] THEN to.field[f] ELSE @[f]],
       !.spec.tags  = IF to.tags # from.tags THEN to.tags ELSE @]
  /\ pc' = "patched"
  /\ UNCHANGED <<object, local, edits>>

\* The API server refuses a patch that changes a field which is immutable once set.
PatchSpecKeeping(immutable, from, to) ==
  IF \E f \in immutable : /\ to.field[f] \notin {Unset, from.field[f]}
                         /\ cr.spec.field[f] \notin {Unset, to.field[f]}
  THEN pc = "patchSpec" /\ pc' = "patchError" /\ UNCHANGED <<cr, object, local, edits>>
  ELSE PatchSpec(from, to)

PassEnds == pc' = "idle" /\ desired' = NoResource /\ latest' = NoResource

\* The runtime reports an attempt that failed as not synced, unless it failed terminally: then
\* nothing is left to do.  One that succeeded is as synced as the resource manager says.
SyncedCondition(isSynced) ==
  CASE DeleteRequested(desired) -> latest.status.synced
    [] ~DeleteRequested(desired) /\ pc = "patchError" -> "False"
    [] ~DeleteRequested(desired) /\ pc = "patchTerminal" -> "True"
    [] OTHER -> IF latest.status.synced # "Unset" THEN latest.status.synced
                ELSE IF isSynced THEN "True" ELSE "False"

PatchStatus(isSynced) ==
  /\ pc \in {"patchStatus", "patched", "patchError", "patchTerminal"}
  /\ cr' = IF cr.phase = "absent" THEN cr
           ELSE [cr EXCEPT !.status = [latest.status EXCEPT
                                         !.synced = SyncedCondition(isSynced),
                                         !.terminal = pc = "patchTerminal"]]
  /\ PassEnds
  /\ UNCHANGED <<object, edits>>

\* The finalizer is removed when the object is known to be gone; the API server then deletes
\* the resource.
RemoveFinalizer ==
  /\ pc = "removeFinalizer" /\ cr.phase = "deleting"
  /\ cr' = NoResource
  /\ PassEnds
  /\ UNCHANGED <<object, edits>>

-----------------------------------------------------------------------------
(* Failing and dying *)

\* A call that fails has no effect but the error.  onError goes on with the copy at hand.  Some
\* calls AWS may refuse for good (terminalAWSError).
CallFailsOr(refused) ==
  /\ pc \in Call
  /\ latest' = IF pc \in {"read", "markManaged", "create", "removeFinalizer"}
               THEN desired ELSE latest
  /\ pc' \in {"patchError"} \union (IF pc \in refused THEN {"patchTerminal"} ELSE {})
  /\ UNCHANGED <<cr, object, desired, edits>>

CallFails == CallFailsOr({"create", "modify"})

\* The controller dies, or the API server does not take the status; a call whose answer is
\* lost is one that took effect before a death.
Crash == pc # "idle" /\ PassEnds /\ UNCHANGED <<cr, object, edits>>

-----------------------------------------------------------------------------
(* What every kind promises *)

\* No AWS object is ever left without a custom resource that is marked as managed.
NoOrphan == object.status # "none" => cr.phase # "absent" /\ cr.finalizer

\* How many steps a pass has before it, at most.
StepsLeft ==
  [s \in Stage |->
     CASE s = "read" -> 6
       [] s \in {"markManaged", "removeTags"} -> 5
       [] s \in {"create", "addTags"} -> 4
       [] s \in {"readCreated", "modify", "delete"} -> 3
       [] s \in {"patchSpec", "removeFinalizer"} -> 2
       [] s \in {"patchStatus", "patched", "patchError", "patchTerminal"} -> 1
       [] s = "idle" -> 0]

\* A step of the controller brings the pass nearer to its end, whatever fails, and nobody else
\* moves the pass: it never goes back to a call, and it is over after six.
Advances(controller) ==
  pc # "idle" => IF controller THEN StepsLeft[pc'] < StepsLeft[pc] ELSE pc' = pc

\* Seen from outside, a pass with all its calls, failures and crashes is the life of a managed
\* resource.
Promise == INSTANCE ManagedResource
             WITH phase <- cr.phase, managed <- cr.finalizer, exists <- object.status # "none"
ImplementsPromise == Promise!Spec
=============================================================================
