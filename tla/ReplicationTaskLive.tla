-------------------------- MODULE ReplicationTaskLive --------------------------
(***************************************************************************)
(* What a ReplicationTask and its task come to in the end.  The steps are  *)
(* those of ReplicationTask; queued says whether the resource is in the    *)
(* work queue, so that no pass is counted on that nothing leads to.        *)
(***************************************************************************)
EXTENDS ReplicationTask, WorkQueue

VARIABLE queued

QueuedInit == Init /\ queued = FALSE

QueuedNext ==
  /\ Next
  /\ queued' = QueuedAfter(queued, <<cr.phase, cr.spec>>' # <<cr.phase, cr.spec>>, pc, pc')

\* A pass is under way or is going to begin.  Without one AWS has refused for good what the last
\* pass asked for, and nothing has been asked for since.
Scheduled == pc # "idle" \/ queued

\* AWS brings every transient status to its end, and a start that is repeated succeeds at last.
AWSFairness ==
  /\ WF_vars(TaskSettles) /\ WF_vars(TaskIsDeleted)
  /\ SF_vars(TaskSettles /\ task'.status = "running")

\* The work queue brings the resource back and a pass goes on, if only with an error.  Failures
\* and crashes recur, but among the reads, the calls that change AWS and the patches of the
\* resource each kind gets through again and again as long as it is tried.
Reads == ReadFound \/ ReadNotFound \/ ReadCreated
Changes ==
  \/ SdkCreate \/ RemoveTags \/ AddTags \/ StopReplicationTask \/ StartReplicationTask
  \/ ModifyReplicationTask \/ DeleteReplicationTask
Patches == MarkManaged \/ PatchSpec \/ RemoveFinalizer

ControllerFairness ==
  WF_vars(Scheduled /\ Controller) /\ SF_vars(Reads) /\ SF_vars(Changes) /\ SF_vars(Patches)

FairSpec ==
  /\ QueuedInit /\ [][QueuedNext]_<<vars, queued>>
  /\ AWSFairness /\ ControllerFairness

\* A deletion completes: the task is stopped and deleted first, the resource goes last.
DeletionCompletes == cr.phase = "deleting" ~> cr.phase = "absent"

\* A start that stays requested, with tested connections and indented table mappings, keeps
\* bringing the task to "running" until a full load has finished, unless AWS refuses for good what
\* it takes.
StartTakesEffect ==
  <>[](/\ cr.phase = "live" /\ StartRequested(cr) /\ cr.spec.mapping.layout = "indented"
       /\ \A e \in Endpoint : conn[e] = "successful"
       /\ Scheduled)
  => []<>(task.status = "running" \/ task.finished)

\* A stop that stays requested takes the task out of "running" for good.
StopTakesEffect ==
  <>[](cr.phase = "live" /\ cr.spec.start = "no") => <>[](task.status # "running")

\* While the controller manages its state, the task and the resource come to agree on the table
\* mappings and the tags, unless AWS refuses them for good: either the task gets those of Spec or,
\* after a stop, Spec those of the task.
SpecConverges ==
  <>[](cr.phase = "live" /\ cr.spec.start # "unset" /\ Scheduled)
  => <>[](task.doc = cr.spec.mapping.doc /\ task.tags = cr.spec.tags)

\* The same as StartTakesEffect, in whatever layout the table mappings are written.
StartTakesEffectInAnyLayout ==
  <>[](/\ cr.phase = "live" /\ StartRequested(cr)
       /\ \A e \in Endpoint : conn[e] = "successful"
       /\ Scheduled)
  => []<>(task.status = "running" \/ task.finished)
=============================================================================
