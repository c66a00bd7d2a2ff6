----------------------------- MODULE EndpointLive -----------------------------
(***************************************************************************)
(* What an Endpoint and its endpoint come to in the end; queued says       *)
(* whether the resource is in the work queue.                              *)
(***************************************************************************)
EXTENDS Endpoint, WorkQueue

VARIABLE queued

QueuedInit == Init /\ queued = FALSE

QueuedNext ==
  /\ Next
  /\ queued' = QueuedAfter(queued, <<cr.phase, cr.spec>>' # <<cr.phase, cr.spec>>, pc, pc')

\* A pass is under way or is going to begin.  Without one AWS has refused for good what the last
\* pass asked for, and nothing has been asked for since.
Scheduled == pc # "idle" \/ queued

\* As for a replication instance.
Reads == ReadEndpoint \/ ReadNotFound \/ ReadCreatedEndpoint
Changes ==
  \/ SdkCreate \/ RemoveEndpointTags \/ AddEndpointTags \/ ModifyEndpoint \/ DeleteEndpoint
Patches == MarkManaged \/ PatchEndpointSpec \/ RemoveFinalizer

FairSpec ==
  /\ QueuedInit /\ [][QueuedNext]_<<endpointVars, queued>>
  /\ WF_endpointVars(EndpointIsDeleted /\ UNCHANGED focus)
  /\ WF_endpointVars(Scheduled /\ Controller /\ UNCHANGED focus)
  /\ SF_endpointVars(Reads /\ UNCHANGED focus)
  /\ SF_endpointVars(Changes /\ UNCHANGED focus)
  /\ SF_endpointVars(Patches /\ UNCHANGED focus)

\* A deletion completes, whatever is wrong with the references.
DeletionCompletes == cr.phase = "deleting" ~> cr.phase = "absent"

Acceptable ==
  ValidReferenceFields(cr.spec) /\ cr.spec.field["own"] # TooLarge

\* An endpoint that stays comes to have what is asked for, unless AWS refuses it for good.
SpecConverges ==
  <>[](cr.phase = "live" /\ Acceptable /\ Scheduled) /\ focus.changeable /\ ~focus.secret
  => <>[]Configured

\* An endpoint that has what is asked for is not modified again and again.
ModificationsEnd ==
  <>[](cr.phase = "live" => Acceptable) /\ focus.changeable => <>[](pc # "modify")
\* Endpoint and Spec come to agree, and then nothing is modified any more.
ComesToRest == SpecConverges /\ ModificationsEnd
=============================================================================
