---------------------------- MODULE PlainKindsLive ----------------------------
(***************************************************************************)
(* What a resource of one of the plain kinds and its object come to in     *)
(* the end; queued says whether the resource is in the work queue.         *)
(***************************************************************************)
EXTENDS PlainKinds, WorkQueue

VARIABLE queued

QueuedInit == Init /\ queued = FALSE

QueuedNext ==
  /\ Next
  /\ queued' = QueuedAfter(queued, <<cr.phase, cr.spec>>' # <<cr.phase, cr.spec>>, pc, pc')

\* A pass is under way or is going to begin.  Without one AWS has refused for good what the last
\* pass asked for, and nothing has been asked for since.
Scheduled == pc # "idle" \/ queued

Of(certificate, subscription, group) ==
  /\ UNCHANGED kind
  /\ \/ kind = "Certificate" /\ certificate
     \/ kind = "EventSubscription" /\ subscription
     \/ kind = "ReplicationSubnetGroup" /\ group

\* As for a replication instance.
FairSpec ==
  /\ QueuedInit /\ [][QueuedNext]_<<kindVars, queued>>
  /\ WF_kindVars(Of(FALSE, SubscriptionSettles, FALSE))
  /\ WF_kindVars(Of(FALSE, SubscriptionIsDeleted, FALSE))
  /\ WF_kindVars(Scheduled /\ Of(CertificateController, SubscriptionController, GroupController))
  /\ SF_kindVars(Of(CertificateReads, SubscriptionReads, GroupReads))
  /\ SF_kindVars(Of(CertificateChanges, SubscriptionChanges, GroupChanges))
  /\ SF_kindVars(Of(CertificatePatches, SubscriptionPatches, GroupPatches))

\* A deletion completes, also one that began when the last pass had failed or died.
DeletionCompletes == cr.phase = "deleting" ~> cr.phase = "absent"

\* What AWS cannot change is as it is, and a name is in lower case.
Acceptable ==
  /\ kind = "EventSubscription" => cr.spec.field["SourceIDs"] \in {Unset, object.value["SourceIDs"]}
  /\ kind = "ReplicationSubnetGroup" => cr.spec.field["Name"] \notin {Mixed} \ {Lower}

Configured ==
  /\ object.tags = cr.spec.tags
  /\ kind = "EventSubscription" => Has(SubscriptionField)
  /\ kind = "ReplicationSubnetGroup" => Has(GroupField)

\* A resource that stays comes to have what is asked for; of a certificate these are the tags.
SpecConverges == <>[](cr.phase = "live" /\ Acceptable) => <>[]Configured

\* What is configured is not modified again and again.
ModificationsEnd == <>[](cr.phase = "live" => Acceptable) => <>[](pc # "modify")

\* AWS and Spec come to agree, and then nothing is modified any more.
ComesToRest == SpecConverges /\ ModificationsEnd
=============================================================================
