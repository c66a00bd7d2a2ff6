------------------------ MODULE ReplicationInstanceLive ------------------------
(***************************************************************************)
(* What a ReplicationInstance and its instance come to in the end; queued  *)
(* says whether the resource is in the work queue.                         *)
(***************************************************************************)
EXTENDS ReplicationInstance, WorkQueue

VARIABLE queued

QueuedInit == Init /\ queued = FALSE

QueuedNext ==
  /\ Next
  /\ queued' = QueuedAfter(queued, <<cr.phase, cr.spec>>' # <<cr.phase, cr.spec>>, pc, pc')

\* A pass is under way or is going to begin.  Without one AWS has refused for good what the last
\* pass asked for, and nothing has been asked for since.
Scheduled == pc # "idle" \/ queued

\* AWS brings what is under way to its end, and a modification that is repeated succeeds at last.
AWSFairness ==
  /\ WF_vars(InstanceSettles) /\ WF_vars(ModificationStarts) /\ WF_vars(InstanceIsDeleted)
  /\ SF_vars(ModificationEnds)

\* As for a replication task: failures recur but let each group of calls through in the end.
Reads == ReadInstance \/ ReadNotFound \/ ReadCreatedInstance
Changes ==
  \/ SdkCreate \/ RemoveInstanceTags \/ AddInstanceTags
  \/ ModifyReplicationInstance \/ DeleteReplicationInstance
Patches == MarkManaged \/ PatchInstanceSpec \/ RemoveFinalizer

ControllerFairness ==
  WF_vars(Scheduled /\ Controller) /\ SF_vars(Reads) /\ SF_vars(Changes) /\ SF_vars(Patches)

FairSpec ==
  /\ QueuedInit /\ [][QueuedNext]_<<vars, queued>>
  /\ AWSFairness /\ ControllerFairness

\* A deletion completes, whatever AWS was doing with the instance.
DeletionCompletes == cr.phase = "deleting" ~> cr.phase = "absent"

\* The instance of a resource that stays comes to have what is asked for, unless it fails or AWS
\* refuses it for good.
SpecConverges ==
  <>[](cr.phase = "live" /\ object.status # "failed" /\ Scheduled)
  => <>[](Missing(cr.spec.field) \intersect Found = {} /\ ~HasPending(object)
          /\ object.tags = cr.spec.tags)

\* The controller and AWS do not undo each other's work for ever: the modifications end.
ModificationsEnd == <>[](pc # "modify" \/ object.status = "failed")
\* Instance and Spec come to agree, and then nothing is modified any more.
ComesToRest == SpecConverges /\ ModificationsEnd
=============================================================================
