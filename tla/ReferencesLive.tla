---------------------------- MODULE ReferencesLive ----------------------------
(***************************************************************************)
(* What resources that refer to each other come to in the end; queued says *)
(* which of them are in the work queues of their controllers.              *)
(***************************************************************************)
EXTENDS References, WorkQueue

VARIABLE queued

\* The finalizer, which makes a live resource a managed one, is not part of its Spec.
Generation(r) == <<valid[r], phase[r] = "absent", phase[r] = "deleting">>

\* Where a pass stands; one that reports a creation refused for good is told from the others.
StageOf(p) ==
  IF p.call = "patchStatus" /\ p.outcome = "terminal" /\ ~p.deleting THEN "patchTerminal" ELSE p.call

QueuedInit == Init /\ queued = [r \in Resource |-> FALSE]

QueuedNext ==
  /\ Next
  /\ queued' = [r \in Resource |-> QueuedAfter(queued[r], Generation(r)' # Generation(r),
                                               StageOf(pass[r]), StageOf(pass'[r]))]

\* A pass over r is under way or is going to begin.  Without one AWS has refused for good what the
\* last pass asked for, and nothing has been asked for since.
Scheduled(r) == pass[r].call # "idle" \/ queued[r]

\* AWS ends what it has begun, the controller comes back to every resource in its queue, and at
\* last calls fail no more and the controller does not die any more.
FairSpec ==
  /\ QueuedInit /\ [][QueuedNext]_<<vars, queued>>
  /\ \A r \in Resource :
       WF_vars(AWSCreates(r) \/ AWSDeletes(r)) /\ WF_vars(Scheduled(r) /\ Controller(r))
  /\ <>[][\A r \in Resource : pass'[r] # pass[r] => Answered(r)]_vars

\* The resources that can be there without any other, and those without which no other can be.
SelfContained == {S \in SUBSET Resource : \A r \in S : Range(Referents[r]) \subseteq S}
Independent == {S \in SUBSET Resource : \A r \in Resource \ S : Range(Referents[r]) \cap S = {}}

\* Resources that are all deleted disappear, in whatever order they were deleted: none waits for
\* another in a circle.
DeletionsComplete ==
  \A S \in Independent :
    <>[](\A r \in S : phase[r] \in {"deleting", "absent"}) => <>[](\A r \in S : phase[r] = "absent")

\* Resources that stay, with all that they refer to, come to exist, in whatever order they were
\* created and whatever has failed on the way, for good and edited since included; but not where
\* AWS refuses one of them for good and its Spec stays as it is.
AllBecomeReady ==
  \A S \in SelfContained :
    <>[](\A r \in S : phase[r] \in {"live", "managed"} /\ valid[r] /\ Scheduled(r))
      => <>[](\A r \in S : object[r] = "ready" /\ condition[r] = "synced")
=============================================================================
