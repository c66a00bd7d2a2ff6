--------------------------- MODULE ReplicationTask ---------------------------
(***************************************************************************)
(* The reconciliation of one ReplicationTask custom resource with one AWS  *)
(* DMS replication task (pkg/resource/replication_task).                   *)
(*                                                                         *)
(* Three parties act: the user edits and deletes the custom resource, AWS  *)
(* moves the task and its endpoint connections through their states, and   *)
(* the controller runs one pass at a time over its own copies of both.  A  *)
(* pass is split at every call that leaves the process, since the other    *)
(* parties may act between two calls and since any call may fail or be the *)
(* last before the controller dies.  pc is the call that comes next.       *)
(*                                                                         *)
(* The three Describe calls of sdkFind are one action: the controller      *)
(* changes nothing between them, and the task and its connections change   *)
(* independently of each other, so every outcome of the three calls is an  *)
(* outcome of one read.                                                    *)
(***************************************************************************)
EXTENDS ReplicationTaskHooks, Naturals

CONSTANTS
  StartChoice,   \* the values of StartReplicationTask the user picks from
  LayoutChoice,  \* the layouts in which the user writes the table mappings
  ConnChoice,    \* the outcomes of connection tests
  MaxEdits       \* bound: how often the user creates or edits the resource

ASSUME ChoicesAssumption ==
  /\ StartChoice \subseteq StartFlag /\ LayoutChoice \subseteq Layout
  /\ ConnChoice \subseteq ConnStatus
  /\ MaxEdits \in Nat

VARIABLES
  cr,       \* the custom resource, as stored by the Kubernetes API server
  task,     \* the replication task, as stored by AWS
  conn,     \* the status of the connection of each endpoint, as stored by AWS
  pc,       \* the next call of the pass
  desired,  \* the pass's copy of the custom resource
  latest,   \* what the pass has learned of the task, merged over the custom resource
  edits     \* how many edits the user has made

vars == <<cr, task, conn, pc, desired, latest, edits>>

user == <<edits>>
aws == <<task, conn>>
local == <<desired, latest>>

Task == [status : TaskStatus, finished : BOOLEAN, doc : Doc,
         settings : Setting, tags : SUBSET Tag]

Call == {"read", "markManaged", "create", "readCreated", "removeTags", "addTags",
         "stop", "start", "modify", "delete", "patchSpec", "removeFinalizer"}

\* A pass ends by leaving a status behind: after a success, an error or a refusal for good.
Leaving == {"patchStatus", "patchError", "patchTerminal"}

SomeDoc == CHOOSE d \in Doc : TRUE
SomeSetting == CHOOSE s \in Setting : TRUE

NoSpec == [start |-> "unset", mapping |-> [doc |-> SomeDoc, layout |-> "indented"],
           settings |-> SomeSetting, tags |-> {}]
NoResource == [phase |-> "absent", finalizer |-> FALSE, spec |-> NoSpec, status |-> NoStatus]
NoTask == [status |-> "none", finished |-> FALSE, doc |-> SomeDoc,
           settings |-> SomeSetting, tags |-> {}]

TypeOK ==
  /\ cr \in CustomResource
  /\ task \in Task
  /\ conn \in [Endpoint -> ConnStatus]
  /\ pc \in Call \union Leaving \union {"idle"}
  /\ desired \in CustomResource /\ latest \in CustomResource
  /\ edits \in 0 .. MaxEdits

Init ==
  /\ cr = NoResource /\ task = NoTask
  /\ conn \in [Endpoint -> ConnChoice]
  /\ pc = "idle" /\ desired = NoResource /\ latest = NoResource
  /\ edits = 0

-----------------------------------------------------------------------------
(* The user *)

UserEdits == edits < MaxEdits /\ edits' = edits + 1 /\ UNCHANGED <<aws, pc, local>>

UserCreates(start, mapping, settings, tags) ==
  /\ cr.phase = "absent"
  /\ cr' = [NoResource EXCEPT !.phase = "live",
              !.spec = [start |-> start, mapping |-> mapping, settings |-> settings, tags |-> tags]]
  /\ UserEdits

UserSetsStart(start) ==
  /\ cr.phase # "absent" /\ cr.spec.start # start
  /\ cr' = [cr EXCEPT !.spec.start = start] /\ UserEdits

UserSetsMapping(mapping) ==
  /\ cr.phase # "absent" /\ cr.spec.mapping # mapping
  /\ cr' = [cr EXCEPT !.spec.mapping = mapping] /\ UserEdits

UserSetsSettings(settings) ==
  /\ cr.phase # "absent" /\ cr.spec.settings # settings
  /\ cr' = [cr EXCEPT !.spec.settings = settings] /\ UserEdits

UserSetsTags(tags) ==
  /\ cr.phase # "absent" /\ cr.spec.tags # tags
  /\ cr' = [cr EXCEPT !.spec.tags = tags] /\ UserEdits

\* A resource without finalizers is gone at once; another one waits for the controller.
UserDeletes ==
  /\ cr.phase = "live"
  /\ cr' = IF cr.finalizer THEN [cr EXCEPT !.phase = "deleting"] ELSE NoResource
  /\ UNCHANGED <<aws, pc, local, edits>>

User ==
  \/ \E start \in StartChoice, doc \in Doc, layout \in LayoutChoice,
        settings \in Setting, tags \in SUBSET Tag :
       UserCreates(start, [doc |-> doc, layout |-> layout], settings, tags)
  \/ \E start \in StartChoice : UserSetsStart(start)
  \/ \E doc \in Doc, layout \in LayoutChoice : UserSetsMapping([doc |-> doc, layout |-> layout])
  \/ \E settings \in Setting : UserSetsSettings(settings)
  \/ \E tags \in SUBSET Tag : UserSetsTags(tags)
  \/ UserDeletes

-----------------------------------------------------------------------------
(* AWS *)

\* Where a transient status leads.  A modified task keeps what its full load has reached.
Settled(t) ==
  CASE t.status = "creating"  -> {"ready"}
    [] t.status = "starting"  -> {"running", "failed"}
    [] t.status = "stopping"  -> {"stopped"}
    [] t.status = "modifying" -> IF t.finished THEN {"stopped"} ELSE {"ready", "stopped"}
    [] OTHER -> {}

TaskSettles ==
  /\ \E s \in Settled(task) : task' = [task EXCEPT !.status = s]
  /\ UNCHANGED <<cr, conn, pc, local, user>>

TaskIsDeleted ==
  /\ task.status = "deleting" /\ task' = NoTask
  /\ UNCHANGED <<cr, conn, pc, local, user>>

\* A full load ends by itself; every running task may fail.
TaskFinishes ==
  /\ FullLoadOnly /\ task.status = "running"
  /\ task' = [task EXCEPT !.status = "stopping", !.finished = TRUE]
  /\ UNCHANGED <<cr, conn, pc, local, user>>

TaskFails ==
  /\ task.status = "running" /\ task' = [task EXCEPT !.status = "failed"]
  /\ UNCHANGED <<cr, conn, pc, local, user>>

ConnectionChanges ==
  /\ \E e \in Endpoint, c \in ConnChoice : c # conn[e] /\ conn' = [conn EXCEPT ![e] = c]
  /\ UNCHANGED <<cr, task, pc, local, user>>

AWS == TaskSettles \/ TaskIsDeleted \/ TaskFinishes \/ TaskFails \/ ConnectionChanges

-----------------------------------------------------------------------------
(* The controller: reading *)

\* The ACK runtime clears the conditions before it synchronises a resource.
Reconcile ==
  /\ pc = "idle" /\ cr.phase # "absent"
  /\ pc' = "read"
  /\ desired' = IF cr.phase = "live"
                THEN [cr EXCEPT !.status.synced = "Unset", !.status.terminal = FALSE] ELSE cr
  /\ UNCHANGED <<cr, aws, latest, user>>

\* DescribeReplicationTasks and ListTagsForResource, merged over a copy of ko.  What AWS does
\* not return (the settings) and what a deletion does not ask for (the tags) stay as in ko.
WithTask(ko) ==
  EnsureJsonIndented(
    [ko EXCEPT !.spec.mapping.doc = task.doc,
               !.spec.tags = IF DeleteRequested(ko) THEN @ ELSE task.tags,
               !.status.task = task.status, !.status.finished = task.finished])

\* DescribeConnections.  The statuses that are returned overwrite those in ko; when there is
\* none AWS answers ResourceNotFoundFault and all of them stay.
WithConnections(ko) ==
  IF \A e \in Endpoint : conn[e] = "none"
  THEN [ko EXCEPT !.status.synced = "False"]
  ELSE [ko EXCEPT !.status.conn =
          [e \in Endpoint |-> IF conn[e] = "none" THEN @[e] ELSE conn[e]]]

SdkFind(ko) == WithConnections(WithTask(ko))

\* Mutant: the pass has no way on from what is settled.
NextCall_Unsettled(decision) ==
  CASE decision = "wait" -> "patchError"
    [] decision = "returnDesired" -> "patchStatus"
    [] OTHER -> decision

\* The call a decision leads to.  A wait is an error that requeues; what is settled, or ends
\* with the tags, only leaves its status behind.
NextCall(decision) ==
  CASE decision = "wait" -> "patchError"
    [] decision \in {"settled", "returnDesired"} -> "patchStatus"
    [] OTHER -> decision

ReadFound ==
  /\ pc = "read" /\ task.status # "none"
  /\ LET found == SdkFind(desired) IN
       /\ latest' = found
       /\ pc' = NextCall(IF DeleteRequested(desired) THEN DeleteStep(found)
                                                     ELSE UpdateStep(desired, found))
  /\ UNCHANGED <<cr, aws, desired, user>>

\* Mutant: creates before the finalizer is in place.
ReadNotFound_Unmanaged ==
  /\ pc = "read" /\ task.status = "none"
  /\ pc' = IF DeleteRequested(desired) THEN "removeFinalizer" ELSE "create"
  /\ UNCHANGED <<cr, aws, local, user>>

ReadNotFound ==
  /\ pc = "read" /\ task.status = "none"
  /\ pc' = IF DeleteRequested(desired) THEN "removeFinalizer"
           ELSE IF desired.finalizer THEN "create" ELSE "markManaged"
  /\ UNCHANGED <<cr, aws, local, user>>

-----------------------------------------------------------------------------
(* The controller: creating *)

\* The finalizer is in place before the task is created.
MarkManaged ==
  /\ pc = "markManaged" /\ cr.phase # "absent"
  /\ cr' = [cr EXCEPT !.finalizer = TRUE]
  /\ desired' = [desired EXCEPT !.finalizer = TRUE]
  /\ pc' = "create"
  /\ UNCHANGED <<aws, latest, user>>

\* AWS refuses a second task of the same name.  A task to be started leaves by a requeue.
SdkCreate ==
  /\ pc = "create" /\ task.status = "none"
  /\ task' = [status |-> "creating", finished |-> FALSE, doc |-> desired.spec.mapping.doc,
              settings |-> desired.spec.settings, tags |-> desired.spec.tags]
  /\ latest' = EnsureJsonIndented(
                 [desired EXCEPT !.status.task = "creating", !.status.finished = FALSE])
  /\ pc' = IF StartRequested(desired) THEN "patchError" ELSE "readCreated"
  /\ UNCHANGED <<cr, conn, desired, user>>

\* The runtime reads a created task once more, for its status.
ReadCreated ==
  /\ pc = "readCreated" /\ task.status # "none"
  /\ latest' = [latest EXCEPT !.status = SdkFind(latest).status]
  /\ pc' = "patchSpec"
  /\ UNCHANGED <<cr, aws, desired, user>>

-----------------------------------------------------------------------------
(* The controller: updating *)

TagsSynced ==
  LET decision == AfterTags(desired, latest) IN
  /\ pc' = NextCall(decision)
  /\ latest' = IF decision = "returnDesired" THEN desired ELSE latest

RemoveTags ==
  /\ pc = "removeTags" /\ task.status # "none"
  /\ task' = [task EXCEPT !.tags = @ \ (latest.spec.tags \ desired.spec.tags)]
  /\ IF desired.spec.tags \subseteq latest.spec.tags
     THEN TagsSynced
     ELSE pc' = "addTags" /\ UNCHANGED latest
  /\ UNCHANGED <<cr, conn, desired, user>>

AddTags ==
  /\ pc = "addTags" /\ task.status # "none"
  /\ task' = [task EXCEPT !.tags = @ \union (desired.spec.tags \ latest.spec.tags)]
  /\ TagsSynced
  /\ UNCHANGED <<cr, conn, desired, user>>

\* sdkUpdate returns latest and no error; sdkDelete, which also stops, waits by a requeue.
StopReplicationTask ==
  /\ pc = "stop" /\ task.status = "running"
  /\ task' = [task EXCEPT !.status = "stopping"]
  /\ latest' = [latest EXCEPT !.status.task = "stopping"]
  /\ pc' = IF DeleteRequested(desired) THEN "patchError" ELSE "patchSpec"
  /\ UNCHANGED <<cr, conn, desired, user>>

\* AWS starts, modifies and deletes a task only in these states.
AtRest == {"ready", "stopped", "failed"}

StartReplicationTask ==
  /\ pc = "start" /\ task.status \in AtRest
  /\ task' = [task EXCEPT !.status = "starting"]
  /\ latest' = [latest EXCEPT !.status.task = "starting"]
  /\ pc' = "patchSpec"
  /\ UNCHANGED <<cr, conn, desired, user>>

\* Mutant: the answer is merged over what was read.
ModifyReplicationTask_MergesLatest ==
  /\ pc = "modify" /\ task.status \in AtRest
  /\ task' = [task EXCEPT !.status = "modifying", !.doc = desired.spec.mapping.doc,
                          !.settings = desired.spec.settings]
  /\ latest' = [latest EXCEPT !.status.task = "modifying", !.status.finished = task.finished]
  /\ pc' = IF StartRequested(desired) THEN "patchError" ELSE "patchSpec"
  /\ UNCHANGED <<cr, conn, desired, user>>

\* The answer is merged over a copy of what is desired, not of what was read.
ModifyReplicationTask ==
  /\ pc = "modify" /\ task.status \in AtRest
  /\ task' = [task EXCEPT !.status = "modifying", !.doc = desired.spec.mapping.doc,
                          !.settings = desired.spec.settings]
  /\ latest' = EnsureJsonIndented(
                 [desired EXCEPT !.status.task = "modifying", !.status.finished = task.finished])
  /\ pc' = IF StartRequested(desired) THEN "patchError" ELSE "patchSpec"
  /\ UNCHANGED <<cr, conn, desired, user>>

\* After a successful Create or Update the runtime patches the fields of Spec in which the
\* returned copy differs from the desired one, whatever they have become in the meantime.
PatchSpec ==
  /\ pc = "patchSpec" /\ cr.phase # "absent"
  /\ cr' = [cr EXCEPT !.spec =
              [start    |-> IF latest.spec.start # desired.spec.start
                            THEN latest.spec.start ELSE @.start,
               mapping  |-> IF latest.spec.mapping # desired.spec.mapping
                            THEN latest.spec.mapping ELSE @.mapping,
               settings |-> IF latest.spec.settings # desired.spec.settings
                            THEN latest.spec.settings ELSE @.settings,
               tags     |-> IF latest.spec.tags # desired.spec.tags
                            THEN latest.spec.tags ELSE @.tags]]
  /\ pc' = "patchStatus"
  /\ UNCHANGED <<aws, local, user>>

-----------------------------------------------------------------------------
(* The controller: deleting *)

\* Mutant: the deletion counts as done when AWS has accepted it.
DeleteReplicationTask_NoWait ==
  /\ pc = "delete" /\ task.status \in AtRest
  /\ task' = [task EXCEPT !.status = "deleting"]
  /\ latest' = [latest EXCEPT !.status.task = "deleting"]
  /\ pc' = "removeFinalizer"
  /\ UNCHANGED <<cr, conn, desired, user>>

DeleteReplicationTask ==
  /\ pc = "delete" /\ task.status \in AtRest
  /\ task' = [task EXCEPT !.status = "deleting"]
  /\ latest' = [latest EXCEPT !.status.task = "deleting"]
  /\ pc' = "patchError"
  /\ UNCHANGED <<cr, conn, desired, user>>

\* The finalizer is removed when the task was not found; the API server then deletes the resource.
PassEnds == pc' = "idle" /\ desired' = NoResource /\ latest' = NoResource

RemoveFinalizer ==
  /\ pc = "removeFinalizer" /\ cr.phase = "deleting"
  /\ cr' = NoResource
  /\ PassEnds
  /\ UNCHANGED <<aws, user>>

-----------------------------------------------------------------------------
(* The controller: leaving the status behind, failing, dying *)

IsSynced(ko) == ko.status.task \in SteadyStatus

\* The runtime reports a synchronisation that failed as not synced, unless it failed terminally:
\* then nothing is left to do.  One that succeeded is as synced as IsSynced says, unless the
\* resource manager has already said so itself.
SyncedCondition ==
  CASE DeleteRequested(desired) -> latest.status.synced
    [] ~DeleteRequested(desired) /\ pc = "patchError" -> "False"
    [] ~DeleteRequested(desired) /\ pc = "patchTerminal" -> "True"
    [] OTHER -> IF latest.status.synced # "Unset" THEN latest.status.synced
                ELSE IF IsSynced(latest) THEN "True" ELSE "False"

PatchStatus ==
  /\ pc \in Leaving
  /\ cr' = IF cr.phase = "absent" THEN cr
           ELSE [cr EXCEPT !.status = [latest.status EXCEPT !.synced = SyncedCondition,
                                                            !.terminal = pc = "patchTerminal"]]
  /\ PassEnds
  /\ UNCHANGED <<aws, user>>

\* A call that fails has no effect but the error.  onError goes on with the copy at hand.  What
\* AWS answers to the parameters of a call may be that it never takes them (terminalAWSError).
Refusable == {"create", "start", "modify"}

CallFails ==
  /\ pc \in Call
  /\ latest' = IF pc \in {"read", "markManaged", "create", "removeFinalizer"}
               THEN desired ELSE latest
  /\ pc' \in {"patchError"} \union (IF pc \in Refusable THEN {"patchTerminal"} ELSE {})
  /\ UNCHANGED <<cr, aws, desired, user>>

\* When DescribeConnections fails, what was read of the task is kept.
ReadConnectionsFails ==
  /\ pc = "read" /\ task.status # "none"
  /\ latest' = WithTask(desired)
  /\ pc' = "patchError"
  /\ UNCHANGED <<cr, aws, desired, user>>

\* The controller dies, or the API server does not take the status; a call whose answer is
\* lost is one that took effect before a death.
Crash == pc # "idle" /\ PassEnds /\ UNCHANGED <<cr, aws, user>>

Controller ==
  \/ Reconcile \/ ReadFound \/ ReadNotFound
  \/ MarkManaged \/ SdkCreate \/ ReadCreated
  \/ RemoveTags \/ AddTags \/ StopReplicationTask \/ StartReplicationTask \/ ModifyReplicationTask
  \/ PatchSpec \/ DeleteReplicationTask \/ RemoveFinalizer \/ PatchStatus
  \/ CallFails \/ ReadConnectionsFails \/ Crash

Next == User \/ AWS \/ Controller

Spec == Init /\ [][Next]_vars

-----------------------------------------------------------------------------
(* Safety *)

\* No AWS task is ever left without a custom resource that is marked as managed: not by a
\* failed call, not by a crash between two calls, not by a deletion that overtakes a creation.
\* (The finalizer is set before CreateReplicationTask and removed only after a NotFound.)
NoOrphan == task.status # "none" => cr.phase # "absent" /\ cr.finalizer

\* The decisions of a pass still fit the task when their call is made, although the task has
\* moved on in between.  sdkDelete reaches DeleteReplicationTask only with a task at rest.
DeleteFits == pc = "delete" => task.status \in AtRest

\* sdkUpdate reaches StartReplicationTask only with a task that is at rest, and never with a
\* full load that has finished, which a start would load again.
StartFits == pc = "start" => task.status \in AtRest /\ ~(FullLoadOnly /\ task.finished)

\* sdkUpdate does not modify a task that runs or is about to run: a task under modification is
\* neither running nor starting when the call is made.
ModifyFits == pc = "modify" => task.status \notin {"running", "starting"}

\* No call is made without a cause in what the pass has read: a running task is stopped for its
\* deletion, on request, or for other table mappings; a task is started on request, once it has the
\* document and the tags asked for; and it is modified only where it differs.  (The settings are
\* not read back, so they never differ.)
CallsAreDue ==
  /\ StartFits
  /\ pc = "stop" =>
       /\ latest.status.task = "running"
       /\ \/ DeleteRequested(desired) \/ desired.spec.start = "no"
          \/ desired.spec.start = "yes" /\ desired.spec.mapping # latest.spec.mapping
  /\ pc = "start" =>
       /\ ~DeleteRequested(desired) /\ StartRequested(desired) /\ EndpointConnectionsTested(latest)
       /\ cr.phase = "live" => /\ task.doc = desired.spec.mapping.doc
                               /\ task.tags = desired.spec.tags
  /\ pc = "modify" =>
       \/ desired.spec.mapping # latest.spec.mapping
       \/ desired.spec.tags # latest.spec.tags /\ ShouldStart(latest)

\* The condition Synced is set to True only if AWS has the table mappings and the tags that the
\* user asks for, provided the user has not edited them during the pass and AWS has not refused
\* them for good, which the condition Terminal then says.  (IsSynced looks at the task status
\* alone; the property rests on what each return of sdkUpdate implies.)
SyncedMeansApplied ==
  [][/\ PatchStatus /\ cr'.phase = "live"
     /\ cr'.status.synced = "True" /\ ~cr'.status.terminal
     /\ cr.spec.mapping.doc = desired.spec.mapping.doc /\ cr.spec.tags = desired.spec.tags
     => task.doc = cr.spec.mapping.doc /\ task.tags = cr.spec.tags]_vars

\* Unless the pass has stopped the task, what it patches into Spec is a new layout and never
\* another document or other tags: the copy an Update returns is made from the desired one.
PatchOnlyReformats ==
  [][/\ PatchSpec /\ cr.spec = desired.spec /\ latest.status.task # "stopping"
     => cr'.spec.mapping.doc = cr.spec.mapping.doc /\ cr'.spec.tags = cr.spec.tags]_vars

\* How many steps a pass has before it, at most.
StepsLeft ==
  [s \in Call \union Leaving \union {"idle"} |->
     CASE s = "read" -> 6
       [] s \in {"markManaged", "removeTags"} -> 5
       [] s \in {"create", "addTags"} -> 4
       [] s \in {"readCreated", "stop", "start", "modify", "delete"} -> 3
       [] s \in {"patchSpec", "removeFinalizer"} -> 2
       [] s \in Leaving -> 1
       [] s = "idle" -> 0]

\* A step of the controller brings the pass nearer to its end, whatever fails, and nobody else
\* moves the pass: it never goes back to a call, and it is over after six.
PassesAdvance ==
  [][pc # "idle" => IF Controller THEN StepsLeft[pc'] < StepsLeft[pc] ELSE pc' = pc]_vars

\* Seen from outside, a pass with all its calls, failures and crashes is the life of a managed
\* resource.
Promise == INSTANCE ManagedResource
             WITH phase <- cr.phase, managed <- cr.finalizer, exists <- task.status # "none"
ImplementsPromise == Promise!Spec

-----------------------------------------------------------------------------
(* What the documentation says and the code does not do *)

\* A stop "before updating" the task leaves the update to be made: the pass does not take the
\* document and the tags the user has asked for out of Spec.
StopKeepsUpdate ==
  [][PatchSpec /\ cr.spec = desired.spec
     => cr'.spec.mapping.doc = cr.spec.mapping.doc /\ cr'.spec.tags = cr.spec.tags]_vars

\* "ACK tries to keep the task running, except during required update stops": a task that is to
\* run is stopped only for another document, not for another layout of the same one.
OnlyRequiredStops ==
  pc = "stop" /\ desired.phase = "live" /\ desired.spec.start = "yes"
  => desired.spec.mapping.doc # task.doc

\* Only a task whose endpoints have successful connections when it is read is started.
StartsOnlyConnected ==
  [][ReadFound /\ pc' = "start" => \A e \in Endpoint : conn[e] = "successful"]_vars

\* A task that is not stopped is not updated: the status that was read is one of rest.
ModifiesOnlyAtRest == pc = "modify" => latest.status.task \in AtRest

\* "Start the replication task when requested or after updating it": where nothing is different
\* but the tags, which have their own calls, ModifyReplicationTask is not called before a start.
ModifiesOnlyDifferences == pc = "modify" => UpdateRequiresStop(Delta(desired, latest))

\* "spec changes still update the sync state": Synced is not True while the settings in AWS are
\* others than the user asks for.
SyncedMeansSettings ==
  [][/\ PatchStatus /\ cr'.phase = "live"
     /\ cr'.status.synced = "True" /\ ~cr'.status.terminal
     /\ cr.spec.settings = desired.spec.settings
     => task.settings = cr.spec.settings]_vars

\* Unless AWS has refused something for good, Synced is True only with a task in one of the
\* statuses that count as synced.
SyncedMeansSteady ==
  [][/\ PatchStatus /\ cr'.phase = "live"
     /\ cr'.status.synced = "True" /\ ~cr'.status.terminal
     => task.status \in SteadyStatus]_vars

=============================================================================
