------------------------ MODULE ReplicationSubnetGroup ------------------------
(***************************************************************************)
(* The reconciliation of one ReplicationSubnetGroup custom resource with   *)
(* one AWS DMS replication subnet group                                    *)
(* (pkg/resource/replication_subnet_group).  All calls take effect at      *)
(* once.  AWS stores the name in lower case.                               *)
(***************************************************************************)
EXTENDS PlainResource

CONSTANTS
  Mixed,  \* a name that is not in lower case
  Lower   \* the same name as AWS stores it

ASSUME NameAssumption == {Mixed, Lower} \subseteq Plain

\* The fields of Spec but for SubnetRefs and the tags.
GroupField == {"Description", "Name", "SubnetIDs"}

GroupImmutable == {"Name"}

\* DescribeReplicationSubnetGroups; SubnetIDs are taken from Status.Subnets.
GroupFound == GroupField

GroupCreateSent == GroupField

\* CreateReplicationSubnetGroup and ModifyReplicationSubnetGroup answer the subnets into the
\* status only.
GroupCreateAnswered == {"Description", "Name"}
GroupModifyAnswered == {"Description", "Name"}

GroupModifySent == GroupField

GroupTypeOK == TypeOKOf({"complete"})

-----------------------------------------------------------------------------

\* The tags are not asked for when a deletion is requested.
FindGroup(ko) ==
  [Observed(GroupFound, ko, object) EXCEPT
     !.spec.tags = IF DeleteRequested(ko) THEN @ ELSE object.tags]

\* sdkUpdate: what follows the tags.
AfterGroupTags(want, have) == IF Delta(want, have) = {} THEN "patchStatus" ELSE "modify"

ReadGroup ==
  LET found == FindGroup(desired) IN
    ReadFound(desired, found,
              IF DeleteRequested(desired) THEN "delete"
              ELSE UpdateStep(desired, found, AfterGroupTags(desired, found)))

Stored(value) ==
  [f \in Field |-> IF f = "Name" /\ value[f] = Mixed THEN Lower ELSE value[f]]

CreateReplicationSubnetGroup ==
  /\ pc = "create" /\ object.status = "none"
  /\ \E chosen \in Filled(GroupField, Plain) :
       LET i == [status |-> "complete", tags |-> desired.spec.tags,
                 value |-> Stored(Given(GroupCreateSent, [value |-> chosen]))]
       IN object' = i /\ latest' = Observed(GroupCreateAnswered, desired, i)
  /\ pc' = "readCreated"
  /\ UNCHANGED <<cr, desired, edits>>

ReadCreatedGroup == ReadCreated(FindGroup(latest))

RemoveGroupTags == RemoveTags(AfterGroupTags(desired, latest), Updated)
AddGroupTags == AddTags(AfterGroupTags(desired, latest), Updated)

\* It is given whatever is set, changed or not.
ModifyReplicationSubnetGroup ==
  /\ pc = "modify" /\ object.status = "complete"
  /\ LET i == [object EXCEPT !.value = Stored(Given(GroupModifySent, object))]
     IN object' = i /\ latest' = Observed(GroupModifyAnswered, desired, i)
  /\ pc' = "patchSpec"
  /\ UNCHANGED <<cr, desired, edits>>

\* The finalizer is removed in the same pass.
DeleteReplicationSubnetGroup ==
  /\ pc = "delete" /\ object.status = "complete"
  /\ object' = NoObject /\ pc' = "removeFinalizer"
  /\ UNCHANGED <<cr, local, edits>>

\* A group is always as synced as it can be.
GroupIsSynced == TRUE

GroupReads == ReadGroup \/ ReadNotFound \/ ReadCreatedGroup
GroupChanges ==
  \/ CreateReplicationSubnetGroup \/ RemoveGroupTags \/ AddGroupTags
  \/ ModifyReplicationSubnetGroup \/ DeleteReplicationSubnetGroup
GroupPatches == MarkManaged \/ PatchPlainSpec(GroupImmutable) \/ RemoveFinalizer

GroupController ==
  \/ Reconcile \/ GroupReads \/ GroupChanges \/ GroupPatches
  \/ PatchStatus(GroupIsSynced) \/ CallFailsOr({}) \/ Crash

GroupNext == User(GroupField, GroupImmutable) \/ GroupController

-----------------------------------------------------------------------------

\* A group is synced only if it has all that Spec sets; its name may be in lower case.
GroupConfigured == ReportsSuccess(GroupIsSynced) => Has(GroupField \ {"Name"})

\* No edit that a pass has seen is undone by what AWS answers.
GroupKeepsEdits ==
  PatchPlainSpec(GroupImmutable)
  => \A f \in Field \ GroupImmutable :
       cr.spec.field[f] # Unset /\ cr.spec.field[f] = desired.spec.field[f]
       => cr'.spec.field[f] = cr.spec.field[f]
=============================================================================
