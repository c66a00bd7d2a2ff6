-------------------------- MODULE EventSubscription --------------------------
(***************************************************************************)
(* The reconciliation of one EventSubscription custom resource with one    *)
(* AWS DMS event subscription (pkg/resource/event_subscription).  AWS      *)
(* creates, modifies and deletes a subscription in the background, and it  *)
(* loses and regains the SNS topic by itself.                              *)
(***************************************************************************)
EXTENDS PlainResource

\* The fields of Spec but for Name, SNSTopicRef and the tags.
SubscriptionField == {"Enabled", "EventCategories", "SNSTopicARN", "SourceIDs", "SourceType"}

SubscriptionImmutable == {"SourceIDs"}

\* DescribeEventSubscriptions and all the other answers.
SubscriptionFound == SubscriptionField

SubscriptionCreateSent == SubscriptionField

\* Mutant: a field is left out of the payload.
SubscriptionModifySent_NoCategories == {"Enabled", "SNSTopicARN", "SourceType"}

\* ModifyEventSubscription takes no sources.
SubscriptionModifySent == SubscriptionField \ {"SourceIDs"}

\* "blocked" stands for no-permission and topic-not-exist.
SubscriptionStatus == {"creating", "modifying", "deleting", "active", "blocked"}

SubscriptionTypeOK == TypeOKOf(SubscriptionStatus)

-----------------------------------------------------------------------------
(* AWS *)

Settled == {"active", "blocked"}

SubscriptionSettles ==
  /\ object.status \in {"creating", "modifying"}
  /\ \E s \in Settled : Becomes([object EXCEPT !.status = s])

TopicIsLost == object.status = "active" /\ Becomes([object EXCEPT !.status = "blocked"])

TopicReturns == object.status = "blocked" /\ Becomes([object EXCEPT !.status = "active"])

SubscriptionIsDeleted == object.status = "deleting" /\ Becomes(NoObject)

AWS == SubscriptionSettles \/ TopicIsLost \/ TopicReturns \/ SubscriptionIsDeleted

-----------------------------------------------------------------------------
(* The resource manager *)

\* The tags are not asked for when a deletion is requested.
FindSubscription(ko) ==
  [Observed(SubscriptionFound, ko, object) EXCEPT
     !.spec.tags = IF DeleteRequested(ko) THEN @ ELSE object.tags]

\* Mutant: a subscription that has lost its topic is not modified.
AfterSubscriptionTags_ActiveOnly(want, have) ==
  CASE Delta(want, have) = {} -> "patchStatus"
    [] Delta(want, have) # {} /\ have.status.object # "active" -> "patchError"
    [] OTHER -> "modify"

\* Mutant: the status is not looked at before the modification.
AfterSubscriptionTags_AnyStatus(want, have) ==
  IF Delta(want, have) = {} THEN "patchStatus" ELSE "modify"

\* sdkUpdate: what follows the tags.
AfterSubscriptionTags(want, have) ==
  CASE Delta(want, have) = {} -> "patchStatus"
    [] Delta(want, have) # {} /\ have.status.object \notin Settled -> "patchError"
    [] OTHER -> "modify"

\* Mutant: a deletion that is under way counts as one that is done.
DeleteStep_NoWait(have) ==
  IF have.status.object = "deleting" THEN "removeFinalizer" ELSE "delete"

\* Mutant: a subscription that has lost its topic is not deleted.
DeleteStep_ActiveOnly(have) ==
  IF have.status.object = "active" THEN "delete" ELSE "patchError"

\* sdkDelete waits for a deletion that is under way.
DeleteStep(have) == IF have.status.object = "deleting" THEN "patchError" ELSE "delete"

ReadSubscription ==
  LET found == FindSubscription(desired) IN
    ReadFound(desired, found,
              IF DeleteRequested(desired) THEN DeleteStep(found)
              ELSE UpdateStep(desired, found, AfterSubscriptionTags(desired, found)))

\* AWS chooses what is left unset.
CreateEventSubscription ==
  /\ pc = "create" /\ object.status = "none"
  /\ \E chosen \in Filled(SubscriptionField, Plain) :
       LET i == [status |-> "creating", tags |-> desired.spec.tags,
                 value |-> Given(SubscriptionCreateSent, [value |-> chosen])]
       IN object' = i /\ latest' = Observed(SubscriptionFound, desired, i)
  /\ pc' = "readCreated"
  /\ UNCHANGED <<cr, desired, edits>>

ReadCreatedSubscription == ReadCreated(FindSubscription(latest))

RemoveSubscriptionTags == RemoveTags(AfterSubscriptionTags(desired, latest), Updated)
AddSubscriptionTags == AddTags(AfterSubscriptionTags(desired, latest), Updated)

\* It is given whatever is set, changed or not.
ModifyEventSubscription ==
  /\ pc = "modify" /\ object.status \in Settled
  /\ LET i == [object EXCEPT !.status = "modifying",
                             !.value = Given(SubscriptionModifySent, object)]
     IN object' = i /\ latest' = Observed(SubscriptionFound, desired, i)
  /\ pc' = "patchSpec"
  /\ UNCHANGED <<cr, desired, edits>>

\* AWS accepts it of a subscription that it is not at work on; the pass ends by a requeue.
DeleteEventSubscription ==
  /\ pc = "delete" /\ object.status \in Settled
  /\ object' = [object EXCEPT !.status = "deleting"]
  /\ latest' = [latest EXCEPT !.status.object = "deleting"]
  /\ pc' = "patchError"
  /\ UNCHANGED <<cr, desired, edits>>

SubscriptionIsSynced(ko) == ko.status.object = "active"

SubscriptionReads == ReadSubscription \/ ReadNotFound \/ ReadCreatedSubscription
SubscriptionChanges ==
  \/ CreateEventSubscription \/ RemoveSubscriptionTags \/ AddSubscriptionTags
  \/ ModifyEventSubscription \/ DeleteEventSubscription
SubscriptionPatches == MarkManaged \/ PatchPlainSpec(SubscriptionImmutable) \/ RemoveFinalizer

SubscriptionController ==
  \/ Reconcile \/ SubscriptionReads \/ SubscriptionChanges \/ SubscriptionPatches
  \/ PatchStatus(SubscriptionIsSynced(latest)) \/ CallFailsOr({}) \/ Crash

SubscriptionNext == User(SubscriptionField, SubscriptionImmutable) \/ AWS \/ SubscriptionController

-----------------------------------------------------------------------------

\* A subscription is synced only if it has all that Spec sets; but for the sources, which a pass
\* resets to those it was created with.
SubscriptionConfigured == ReportsSuccess(SubscriptionIsSynced(latest)) => Has(SubscriptionField)

\* No edit that a pass has seen is undone by what AWS answers.
SubscriptionKeepsEdits ==
  PatchPlainSpec(SubscriptionImmutable)
  => \A f \in Field \ SubscriptionImmutable :
       cr.spec.field[f] # Unset /\ cr.spec.field[f] = desired.spec.field[f]
       => cr'.spec.field[f] = cr.spec.field[f]

\* The decision to modify still fits when the call is made.
SubscriptionModifyFits == pc = "modify" => object.status \in Settled
=============================================================================
