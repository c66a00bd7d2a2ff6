-------------------------- MODULE ReplicationInstance --------------------------
(***************************************************************************)
(* The reconciliation of one ReplicationInstance custom resource with one  *)
(* AWS DMS replication instance (pkg/resource/replication_instance).       *)
(*                                                                         *)
(* AWS takes a modification in two steps: the new values of some fields    *)
(* are pending for a while, during which the instance may stay available,  *)
(* and it upgrades the minor engine version by itself.  The resource       *)
(* manager reads pending values as if they were in place, and takes over   *)
(* the minor version that AWS has chosen.                                  *)
(***************************************************************************)
EXTENDS ReconcilePass

CONSTANTS
  On, Off,   \* the values of a flag
  Plain,     \* the values of the fields that are neither a version nor a flag
  TooLarge,  \* an AllocatedStorage beyond 32 bits
  Wrapped,   \* what its low 32 bits are
  Major, Minor,  \* the parts of an engine version
  Setting,   \* the fields that the user edits
  MayFail    \* whether AWS may give a modification up, or an instance fail

ASSUME InstanceAssumption ==
  /\ Setting \subseteq Field /\ Minor \subseteq Nat /\ MayFail \in BOOLEAN
  /\ Unset \notin Plain \union {On, Off} \union (Major \X Minor) \union {TooLarge, Wrapped}
  /\ Wrapped \notin Plain \union {On, Off, Unset} \union (Major \X Minor)
  /\ On # Off

-----------------------------------------------------------------------------
(* Fields and what is done with them *)

\* The fields of Spec but for Name, the references and the tags.
InstanceField ==
  {"AllocatedStorage", "AutoMinorVersionUpgrade", "AvailabilityZone", "DNSNameServers",
   "EngineVersion", "InstanceClass", "KerberosAuthenticationSettings", "KMSKeyID", "MultiAZ",
   "NetworkType", "PreferredMaintenanceWindow", "PubliclyAccessible", "ResourceIdentifier",
   "SecurityGroupIDs", "SubnetGroupID"}

ASSUME FieldAssumption == Field \subseteq InstanceField

\* Once set they cannot be set to something else.
Immutable == {"DNSNameServers", "KMSKeyID", "PubliclyAccessible", "ResourceIdentifier",
              "SubnetGroupID"}

\* newResourceDelta
Compared == InstanceField \ {"AvailabilityZone"}

\* DescribeReplicationInstances.  Security groups, subnet group and identifier stay as in Spec.
Found == InstanceField \ {"ResourceIdentifier", "SecurityGroupIDs", "SubnetGroupID"}

\* CreateReplicationInstance takes whatever is set.
CreateSent == InstanceField

\* What CreateReplicationInstance and ModifyReplicationInstance answer.
CreateAnswered == Found
ModifyAnswered == Found

\* ModifyReplicationInstance takes those of these fields that differ.
ModifySent == {"AllocatedStorage", "AutoMinorVersionUpgrade", "EngineVersion", "InstanceClass",
               "KerberosAuthenticationSettings", "MultiAZ", "NetworkType",
               "PreferredMaintenanceWindow", "SecurityGroupIDs"}

\* The fields whose new values AWS first keeps in PendingModifiedValues.
Pendable == {"AllocatedStorage", "EngineVersion", "InstanceClass", "MultiAZ", "NetworkType"}

ValueOf(f) ==
  CASE f = "EngineVersion" -> Major \X Minor
    [] f \in {"AutoMinorVersionUpgrade", "MultiAZ", "PubliclyAccessible"} -> {On, Off}
    [] OTHER -> Plain

\* What the user may write.
ChoiceOf(f) ==
  ValueOf(f) \union (IF f = "InstanceClass" THEN {} ELSE {Unset})
             \union (IF f = "AllocatedStorage" THEN {TooLarge} ELSE {})

Values == (UNION {ValueOf(f) : f \in Field}) \union {Unset, TooLarge, Wrapped}

\* The statuses; "failed" stands for the five in which only a deletion is possible
\* (incompatible-credentials, incompatible-network, maintenance, storage-full, failed) and
\* "upgrading" for the three in which nothing is.
InstanceStatus == {"creating", "available", "modifying", "upgrading", "failed", "deleting"}

NoInstance ==
  [status |-> "none", value |-> [f \in Field |-> Unset], pending |-> [f \in Field |-> Unset],
   tags |-> {}]

Instance == [status : InstanceStatus \union {"none"}, value : [Field -> Values],
             pending : [Field -> Values], tags : SUBSET Tag]

TypeOK ==
  /\ cr \in ResourceOf(Values, InstanceStatus)
  /\ object \in Instance
  /\ pc \in Stage
  /\ desired \in ResourceOf(Values, InstanceStatus)
  /\ latest \in ResourceOf(Values, InstanceStatus)
  /\ edits \in 0 .. MaxEdits

Init ==
  /\ cr = NoResource /\ object = NoInstance
  /\ pc = "idle" /\ desired = NoResource /\ latest = NoResource
  /\ edits = 0

-----------------------------------------------------------------------------
(* The user *)

\* A field that the user does not edit is left to AWS; InstanceClass is required.
InstanceSpec ==
  {[field |-> s, tags |-> t] :
     s \in {x \in [Field -> Values] : \A f \in Field :
              IF f \in Setting THEN x[f] \in ChoiceOf(f) ELSE x[f] = Unset},
     t \in SUBSET Tag}

User ==
  \/ \E spec \in InstanceSpec : UserCreates(spec)
  \/ \E f \in Setting : \E v \in ChoiceOf(f) :
       (f \in Immutable => Unset \in {v, cr.spec.field[f]}) /\ UserSets(f, v)
  \/ \E tags \in SUBSET Tag : UserSetsTags(tags)
  \/ UserDeletes

-----------------------------------------------------------------------------
(* AWS *)

HasPending(i) == \E f \in Field : i.pending[f] # Unset

\* What is in place or on its way.
Accepted(i) == [f \in Field |-> IF i.pending[f] # Unset THEN i.pending[f] ELSE i.value[f]]

Becomes(i) == object' = i /\ UNCHANGED <<cr, pc, local, edits>>

InstanceSettles ==
  /\ object.status \in {"creating", "upgrading"}
  /\ Becomes([object EXCEPT !.status = "available"])

ModificationStarts ==
  /\ object.status = "available" /\ HasPending(object)
  /\ Becomes([object EXCEPT !.status = "modifying"])

NothingPending == [f \in Field |-> Unset]

ModificationEnds ==
  /\ object.status = "modifying"
  /\ Becomes([object EXCEPT !.status = "available", !.value = Accepted(object),
                            !.pending = NothingPending])

\* AWS gives a modification up.
ModificationFails ==
  /\ MayFail /\ object.status = "modifying"
  /\ Becomes([object EXCEPT !.status = "available", !.pending = NothingPending])

\* The minor version rises in the maintenance window.
MinorUpgrade ==
  /\ object.status = "available"
  /\ {"EngineVersion", "AutoMinorVersionUpgrade"} \subseteq Field
  /\ object.value["AutoMinorVersionUpgrade"] = On /\ object.pending["EngineVersion"] = Unset
  /\ \E minor \in Minor :
       /\ minor > object.value["EngineVersion"][2]
       /\ Becomes([object EXCEPT !.status = "upgrading",
                     !.value["EngineVersion"] = <<@[1], minor>>])

InstanceFails ==
  /\ MayFail /\ object.status \in {"creating", "available", "modifying"}
  /\ Becomes([object EXCEPT !.status = "failed", !.pending = NothingPending])

InstanceIsDeleted == object.status = "deleting" /\ Becomes(NoInstance)

AWS ==
  \/ InstanceSettles \/ ModificationStarts \/ ModificationEnds \/ ModificationFails
  \/ MinorUpgrade \/ InstanceFails \/ InstanceIsDeleted

-----------------------------------------------------------------------------
(* Comparing *)

\* With automatic upgrades, the default, versions with the same major part count as equal.
RequiresEngineVersionUpdate(want, have, auto) == ~auto \/ want[1] # have[1]

\* Mutant: the version is compared as it is.
Normalized_Exact(want, have) == want

\* newResourceDelta changes its first argument: it takes over the minor version of the second.
Normalized(want, have) ==
  IF /\ "EngineVersion" \in Field
     /\ want.spec.field["EngineVersion"] # Unset /\ have.spec.field["EngineVersion"] # Unset
     /\ ~RequiresEngineVersionUpdate(want.spec.field["EngineVersion"],
                                     have.spec.field["EngineVersion"],
                                     "AutoMinorVersionUpgrade" \in Field
                                       => want.spec.field["AutoMinorVersionUpgrade"] # Off)
  THEN [want EXCEPT !.spec.field["EngineVersion"] = have.spec.field["EngineVersion"]]
  ELSE want

\* The fields that differ, the tags aside.
Delta(want, have) ==
  {f \in Field \intersect Compared :
     Normalized(want, have).spec.field[f] # have.spec.field[f]}

-----------------------------------------------------------------------------
(* Reading *)

\* Mutant: what is pending is read as not there yet.
WithPending_Ignored(spec, i) == spec

\* Pending values are merged over Spec.
WithPending(spec, i) ==
  [f \in Field |-> IF f \in Pendable /\ i.pending[f] # Unset THEN i.pending[f] ELSE spec[f]]

\* Mutant: pending values are no reason to be unsynced.
SyncedSoFar_Ignored(ko, i) == ko.status.synced

\* A manager that knows of pending values says that the resource is not synced.
SyncedSoFar(ko, i) == IF HasPending(i) THEN "False" ELSE ko.status.synced

Observed(fields, ko, i) ==
  [ko EXCEPT
     !.spec.field = WithPending([f \in Field |-> IF f \in fields THEN i.value[f] ELSE @[f]], i),
     !.status.object = i.status, !.status.synced = SyncedSoFar(ko, i)]

\* The tags are not asked for when a deletion is requested.
SdkFind(ko) ==
  [Observed(Found, ko, object) EXCEPT
     !.spec.tags = IF DeleteRequested(ko) THEN @ ELSE object.tags]

\* Mutant: whatever differs beside the tags is left for another pass.
AfterTags_TagsOnly(want, have) ==
  IF want.spec.tags = have.spec.tags /\ Delta(want, have) # {} /\ have.status.object = "available"
  THEN "modify" ELSE "patchStatus"

\* sdkUpdate: what follows the tags.
AfterTags(want, have) ==
  CASE Delta(want, have) = {} -> "patchStatus"
    [] Delta(want, have) # {} /\ have.status.object # "available" -> "patchError"
    [] OTHER -> "modify"

UpdateStep(want, have) ==
  IF want.spec.tags # have.spec.tags THEN FirstOfTags(want, have) ELSE AfterTags(want, have)

\* Mutant: a status in which AWS deletes is missing from the list.
DeleteStep_Missing(have) ==
  IF have.status.object = "available" THEN "delete" ELSE "patchError"

\* sdkDelete: it waits for the end of a deletion and of everything else that is under way.
DeleteStep(have) ==
  IF have.status.object \in {"available", "failed"} THEN "delete" ELSE "patchError"

ReadInstance ==
  LET found == SdkFind(desired) IN
    ReadFound(IF DeleteRequested(desired) THEN desired ELSE Normalized(desired, found), found,
              IF DeleteRequested(desired) THEN DeleteStep(found) ELSE UpdateStep(desired, found))

-----------------------------------------------------------------------------
(* Changing *)

\* A value that does not fit into 32 bits is an error before the call.
Representable(spec, fields) == \A f \in fields : spec[f] # TooLarge

Narrow(v) == IF v = TooLarge THEN Wrapped ELSE v

\* AWS chooses what is left unset.
SdkCreate ==
  /\ pc = "create" /\ object.status = "none"
  /\ Representable(desired.spec.field, Field)
  /\ \E given \in [Field -> Values] :
       /\ \A f \in Field : IF f \in CreateSent /\ desired.spec.field[f] # Unset
                           THEN given[f] = Narrow(desired.spec.field[f])
                           ELSE given[f] \in ValueOf(f)
       /\ LET new == [NoInstance EXCEPT !.status = "creating", !.value = given,
                                        !.tags = desired.spec.tags]
          IN object' = new /\ latest' = Observed(CreateAnswered, desired, new)
  /\ pc' = "readCreated"
  /\ UNCHANGED <<cr, desired, edits>>

ReadCreatedInstance == ReadCreated(SdkFind(latest))

\* An Update that ends with the tags returns the desired copy.
Updated == IF Delta(desired, latest) = {} THEN desired ELSE latest

RemoveInstanceTags == RemoveTags(AfterTags(desired, latest), Updated)
AddInstanceTags == AddTags(AfterTags(desired, latest), Updated)

Sent == {f \in ModifySent \intersect Delta(desired, latest) : desired.spec.field[f] # Unset}

\* What AWS makes of a modification: a value that is in place needs no change any more.
Modified(i, wanted) ==
  [i EXCEPT
     !.value   = [f \in Field |-> IF f \in Sent \ Pendable THEN wanted[f] ELSE @[f]],
     !.pending = [f \in Field |-> IF f \in Sent \intersect Pendable
                                  THEN IF wanted[f] = i.value[f] THEN Unset ELSE wanted[f]
                                  ELSE @[f]]]

ModifyReplicationInstance ==
  /\ pc = "modify" /\ object.status = "available"
  /\ Representable(desired.spec.field, Sent)
  /\ LET wanted == [f \in Field |-> Narrow(desired.spec.field[f])]
         after == Modified(object, wanted)
     IN object' = after /\ latest' = Observed(ModifyAnswered, desired, after)
  /\ pc' = "patchSpec"
  /\ UNCHANGED <<cr, desired, edits>>

\* Mutant: the deletion counts as done when AWS has accepted it.
DeleteReplicationInstance_NoWait ==
  /\ pc = "delete" /\ object.status \in {"available", "failed"}
  /\ object' = [object EXCEPT !.status = "deleting"]
  /\ latest' = [latest EXCEPT !.status.object = "deleting"]
  /\ pc' = "removeFinalizer"
  /\ UNCHANGED <<cr, desired, edits>>

\* AWS deletes an instance in these states only; the pass ends by a requeue.
DeleteReplicationInstance ==
  /\ pc = "delete" /\ object.status \in {"available", "failed"}
  /\ object' = [object EXCEPT !.status = "deleting"]
  /\ latest' = [latest EXCEPT !.status.object = "deleting"]
  /\ pc' = "patchError"
  /\ UNCHANGED <<cr, desired, edits>>

\* The patch is computed between the two copies, after another comparison of them.
PatchInstanceSpec ==
  PatchSpec(IF Delta(desired, latest) = {} /\ desired.spec.tags = latest.spec.tags
            THEN latest.spec ELSE Normalized(desired, latest).spec, latest.spec)

IsSynced(ko) == ko.status.object = "available"

Controller ==
  \/ Reconcile \/ ReadInstance \/ ReadNotFound
  \/ MarkManaged \/ SdkCreate \/ ReadCreatedInstance
  \/ RemoveInstanceTags \/ AddInstanceTags
  \/ ModifyReplicationInstance \/ DeleteReplicationInstance
  \/ PatchInstanceSpec \/ RemoveFinalizer \/ PatchStatus(IsSynced(latest))
  \/ CallFails \/ Crash

Next == User \/ AWS \/ Controller

Spec == Init /\ [][Next]_vars

-----------------------------------------------------------------------------
(* Safety *)

\* A value agrees with a Spec if it is the one asked for.  Versions agree by their major part
\* unless automatic upgrades are off.
Agrees(f, v, spec) ==
  \/ spec[f] = v
  \/ /\ f = "EngineVersion" /\ Unset \notin {v, spec[f]} /\ v[1] = spec[f][1]
     /\ "AutoMinorVersionUpgrade" \in Field => spec["AutoMinorVersionUpgrade"] # Off

\* The fields in which the instance has not accepted what a Spec asks for.
Missing(spec) ==
  {f \in ModifySent \intersect Field : spec[f] # Unset /\ ~Agrees(f, Accepted(object)[f], spec)}

\* Nothing that can be modified is modified twice: when the decision to modify is made, there is
\* a value that the instance has not accepted, or one that the user has removed.
NeverAsksTwice ==
  [][pc = "read" /\ pc' = "modify"
     => \/ Missing(desired.spec.field) # {}
        \/ \E f \in Field : desired.spec.field[f] = Unset \/ f \notin ModifySent]_vars

\* What a pass patches into Spec never replaces a value that the instance has accepted, although
\* AWS goes on reporting the old one while it is pending.  (A value that AWS has given up, or a
\* version it has raised, between the read and a modification of something else is replaced.)
KeepsAccepted ==
  [][PatchInstanceSpec
     => \A f \in Field \intersect ModifySent :
          /\ cr.spec.field[f] # Unset /\ Agrees(f, desired.spec.field[f], cr.spec.field)
          /\ Agrees(f, Accepted(object)[f], cr.spec.field)
          => Agrees(f, cr.spec.field[f], cr'.spec.field)]_vars

\* Spec is what the pass leaves: the user has changed nothing since the pass has read or patched it.
Unedited ==
  LET left == IF pc = "patched" THEN latest ELSE desired IN
    /\ cr.spec.tags = left.spec.tags
    /\ \A f \in Field : Agrees(f, left.spec.field[f], cr.spec.field)

\* The pass may have ended with the tags.  Such an Update returns the desired copy, with the status
\* that an earlier pass has stored, whatever AWS does with what is pending.
EndedWithTags == Tag # {} /\ latest = desired

\* Synced becomes True, without a terminal error.
ReportsSynced ==
  /\ PatchStatus(IsSynced(latest)) /\ cr'.phase = "live"
  /\ cr'.status.synced = "True" /\ ~cr'.status.terminal

\* Synced becomes True only if AWS has the tags and has accepted the values that the user asks
\* for, but for those it never reports.  (When a pass ends with the tags AWS may give up a pending
\* value after it was read.)
SyncedMeansAccepted ==
  [][ReportsSynced /\ Unedited
     => /\ object.tags = cr.spec.tags
        /\ Missing(cr.spec.field) \intersect Found
             \subseteq IF MayFail /\ EndedWithTags THEN Pendable ELSE {}]_vars

\* While values are pending the resource is not synced, unless the pass has ended with the tags.
SyncedMeansInPlace == [][ReportsSynced /\ ~EndedWithTags => ~HasPending(object)]_vars

\* No number reaches AWS with only its low 32 bits.
NumbersFit ==
  \A f \in Field : object.value[f] # Wrapped /\ object.pending[f] # Wrapped

\* What an instance that could be deleted when it was read can have become by the time of the call.
MayHaveBecome(status) ==
  IF status = "failed" THEN {"failed"} ELSE {"available", "modifying", "upgrading", "failed"}

\* A deletion is called for only where the instance could be deleted when it was read.  One that
\* had failed still can be.  One that was available AWS may have begun to modify or to upgrade,
\* and then it refuses the call, but never is the instance gone or its deletion under way.
DeleteFits ==
  pc = "delete" => /\ latest.status.object \in {"available", "failed"}
                   /\ object.status \in MayHaveBecome(latest.status.object)

\* Every pass takes a bounded number of steps, whatever fails (Advances).
PassesAdvance == [][Advances(Controller)]_vars

-----------------------------------------------------------------------------
(* What the documentation says and the code does not do *)

\* SecurityGroupIDs "specifies the VPC security group to be used with the replication instance":
\* the instance of a resource that is synced uses it.
SyncedMeansSecured ==
  [][ReportsSynced /\ Unedited => "SecurityGroupIDs" \notin Missing(cr.spec.field)]_vars

\* "Requeue if there are pending modified values": whichever way a pass ends, the instance of a
\* resource that becomes synced has nothing pending.
SyncedMeansNothingPending == [][ReportsSynced => ~HasPending(object)]_vars

=============================================================================
