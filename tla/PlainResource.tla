---------------------------- MODULE PlainResource ----------------------------
(***************************************************************************)
(* What the generator has written in the same way for the kinds whose      *)
(* fields have no treatment of their own: Certificate, EventSubscription   *)
(* and ReplicationSubnetGroup.  All their fields are compared.             *)
(*                                                                         *)
(* Field holds fields of any of these kinds; in a resource of one kind     *)
(* those of the others are never set.                                      *)
(***************************************************************************)
EXTENDS ReconcilePass

CONSTANTS
  Plain,    \* the values of a field
  Required  \* the fields that are always set

ASSUME PlainAssumption == Unset \notin Plain

Values == Plain \union {Unset}

\* What sets some fields to given values, and no others.
Filled(fields, values) ==
  {[f \in Field |-> IF f \in fields THEN v[f] ELSE Unset] :
     v \in [Field \intersect fields -> values]}

NoObject == [status |-> "none", value |-> NoSpec.field, tags |-> {}]

AWSObject(statuses) ==
  [status : statuses \union {"none"}, value : [Field -> Values], tags : SUBSET Tag]

TypeOKOf(statuses) ==
  /\ cr \in ResourceOf(Values, statuses)
  /\ object \in AWSObject(statuses)
  /\ pc \in Stage
  /\ desired \in ResourceOf(Values, statuses)
  /\ latest \in ResourceOf(Values, statuses)
  /\ edits \in 0 .. MaxEdits

PlainInit ==
  /\ cr = NoResource /\ object = NoObject
  /\ pc = "idle" /\ desired = NoResource /\ latest = NoResource
  /\ edits = 0

ChoiceOf(f) == IF f \in Required THEN Plain ELSE Values

\* A field that is immutable once set may still be removed, and set anew.
User(fields, immutable) ==
  \/ \E s \in Filled(fields, Values), t \in SUBSET Tag :
       /\ \A f \in Field \intersect fields : s[f] \in ChoiceOf(f)
       /\ UserCreates([field |-> s, tags |-> t])
  \/ \E f \in Field \intersect fields : \E v \in ChoiceOf(f) :
       (f \in immutable => Unset \in {v, cr.spec.field[f]}) /\ UserSets(f, v)
  \/ \E tags \in SUBSET Tag : UserSetsTags(tags)
  \/ UserDeletes

Becomes(i) == object' = i /\ UNCHANGED <<cr, pc, local, edits>>

\* The fields that differ, the tags aside.
Delta(want, have) == {f \in Field : want.spec.field[f] # have.spec.field[f]}

\* An answer that tells some fields, merged over ko.
Observed(fields, ko, i) ==
  [ko EXCEPT !.spec.field = [f \in Field |-> IF f \in fields THEN i.value[f] ELSE @[f]],
             !.status.object = i.status]

\* What AWS is given where Spec sets something, and has already elsewhere.
Given(fields, i) ==
  [f \in Field |-> IF f \in fields /\ desired.spec.field[f] # Unset
                   THEN desired.spec.field[f] ELSE i.value[f]]

\* The first call of an Update whose tags differ; without such a difference, what comes after.
UpdateStep(want, have, after) ==
  IF want.spec.tags # have.spec.tags THEN FirstOfTags(want, have) ELSE after

\* An Update without another difference ends with the tags and returns the desired copy.
Updated == IF Delta(desired, latest) = {} THEN desired ELSE latest

\* The runtime compares the two copies once more before it patches.
PatchPlainSpec(immutable) ==
  PatchSpecKeeping(immutable,
    IF Delta(desired, latest) = {} /\ desired.spec.tags = latest.spec.tags
    THEN latest.spec ELSE desired.spec, latest.spec)

-----------------------------------------------------------------------------
(* What the properties are about *)

\* The user has changed nothing since the pass began: Spec is what the pass has taken or, after a
\* patch of Spec, what the patch has made of it.
Unedited == cr.spec = IF pc = "patched" THEN latest.spec ELSE desired.spec

\* A pass reports success, or that nothing is left to do, on a Spec that it has seen.
Reports(isSynced) ==
  PatchStatus(isSynced) /\ cr'.phase = "live" /\ cr'.status.synced = "True" /\ Unedited

ReportsSuccess(isSynced) == Reports(isSynced) /\ ~cr'.status.terminal

\* AWS has the tags, and in these fields what Spec sets.
Has(fields) ==
  /\ object.tags = cr.spec.tags
  /\ \A f \in fields \intersect Field : cr.spec.field[f] \in {Unset, object.value[f]}
=============================================================================
