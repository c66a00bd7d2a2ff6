------------------------ MODULE ReplicationTaskHooks ------------------------
(***************************************************************************)
(* The decisions of pkg/resource/replication_task: the predicates of       *)
(* hooks.go, the comparison of delta.go, and the order in which sdkUpdate  *)
(* and sdkDelete of sdk.go apply them.  They are functions of copies of    *)
(* the custom resource ("ko" in the code): what the user desires and what  *)
(* was last read from AWS.  ReplicationTask.tla is the state machine that  *)
(* runs them.                                                              *)
(***************************************************************************)
EXTENDS FiniteSets

CONSTANTS
  Doc,          \* table mapping documents, whatever their layout
  Setting,      \* values of the fields that no AWS answer returns (TaskSettings, CdcStartTime)
  Tag,          \* tags; each key has one value
  Endpoint,     \* the endpoints of the task: the source and the target
  FullLoadOnly  \* Spec.MigrationType is "full-load"

ASSUME ConstantsAssumption ==
  /\ Doc # {} /\ Setting # {}
  /\ FullLoadOnly \in BOOLEAN

-----------------------------------------------------------------------------
(* The custom resource *)

\* A JSON text keeps the layout its author gave it; the controller writes the indented one.
Layout == {"raw", "indented"}

Mapping == [doc : Doc, layout : Layout]

\* Spec.StartReplicationTask is a *bool: "unset" is nil.
StartFlag == {"unset", "yes", "no"}

ResourceSpec == [start : StartFlag, mapping : Mapping, settings : Setting, tags : SUBSET Tag]

SteadyStatus == {"failed", "ready", "running", "stopped"}

TransientStatus == {"creating", "starting", "stopping", "modifying", "deleting"}

\* "none" is a nil TaskStatus in the custom resource, and no task in AWS.
TaskStatus == SteadyStatus \union TransientStatus \union {"none"}

\* "none" is a nil status in the custom resource, and no connection in AWS.
ConnStatus == {"none", "successful", "failed"}

Status == [task : TaskStatus, finished : BOOLEAN,
           conn : [Endpoint -> ConnStatus],
           synced : {"Unset", "True", "False"}, terminal : BOOLEAN]

NoStatus == [task |-> "none", finished |-> FALSE,
             conn |-> [e \in Endpoint |-> "none"], synced |-> "Unset", terminal |-> FALSE]

\* The deletion timestamp is the phase "deleting"; a finalizer is what marks the resource managed.
CustomResource == [phase : {"absent", "live", "deleting"}, finalizer : BOOLEAN,
                   spec : ResourceSpec, status : Status]

-----------------------------------------------------------------------------
(* hooks.go *)

HasSteadyState(ko) == ko.status.task \in SteadyStatus

EndpointConnectionsTested(ko) == \A e \in Endpoint : ko.status.conn[e] = "successful"

DeleteRequested(ko) == ko.phase = "deleting"

StartRequested(ko) == ko.spec.start = "yes"

\* Mutant: other tags require a stop, too.
UpdateRequiresStop_ForTags(delta) == delta \ {"start"} # {}

UpdateRequiresStop(delta) == delta \ {"start", "tags"} # {}

\* Mutant: every stopped task counts as started.
AlreadyStarted_WhenStopped(ko) == ko.status.task \in {"running", "starting", "stopping", "stopped"}

AlreadyStarted(ko) ==
  \/ ko.status.task \in {"running", "starting"}
  \/ ko.status.task \in {"stopping", "stopped"} /\ FullLoadOnly /\ ko.status.finished

\* Mutant: a starting task counts as stopped.
AlreadyStopped_WhenStarting(ko) == ko.status.task # "running"

AlreadyStopped(ko) == ko.status.task \notin {"running", "starting"}

ShouldStart(ko) ==
  /\ ko.spec.start # "unset"
  /\ HasSteadyState(ko) /\ ~AlreadyStarted(ko)
  /\ ~DeleteRequested(ko) /\ StartRequested(ko)
  /\ EndpointConnectionsTested(ko)

\* Mutant: a requested deletion does not stop the task.
ShouldStop_NotForDeletion(ko, delta) ==
  /\ ko.spec.start # "unset"
  /\ HasSteadyState(ko) /\ ~AlreadyStopped(ko)
  /\ ko.spec.start = "no" \/ UpdateRequiresStop(delta)

ShouldStop(ko, delta) ==
  /\ ko.spec.start # "unset" \/ DeleteRequested(ko)
  /\ HasSteadyState(ko) /\ ~AlreadyStopped(ko)
  /\ \/ DeleteRequested(ko)
     \/ ko.spec.start = "no"
     \/ UpdateRequiresStop(delta)

\* Every layout of a JSON text has the same indented form.
EnsureJsonIndented(ko) == [ko EXCEPT !.spec.mapping.layout = "indented"]

-----------------------------------------------------------------------------
(* delta.go, sdk.go *)

\* Mutants: without the comparison of the tags; without the hook that stops.
Delta_IgnoresTags(desired, latest) ==
  LET compared == {f \in DOMAIN desired.spec \ {"tags"} : desired.spec[f] # latest.spec[f]}
      started  == compared \union (IF ShouldStart(latest) THEN {"start"} ELSE {})
  IN  started \union (IF ShouldStop(latest, started) THEN {"start"} ELSE {})

Delta_NeverStops(desired, latest) ==
  LET compared == {f \in DOMAIN desired.spec : desired.spec[f] # latest.spec[f]}
  IN  compared \union (IF ShouldStart(latest) THEN {"start"} ELSE {})

\* The paths at which two copies of the resource differ.  TableMappings is compared as text,
\* layout included.  The two hooks add Spec.StartReplicationTask.
Delta(desired, latest) ==
  LET compared == {f \in DOMAIN desired.spec : desired.spec[f] # latest.spec[f]}
      started  == compared \union (IF ShouldStart(latest) THEN {"start"} ELSE {})
  IN  started \union (IF ShouldStop(latest, started) THEN {"start"} ELSE {})

\* Mutant: returns after the tags although more is different (DifferentAt for DifferentExcept).
AfterTags_IgnoresTheRest(desired, latest) ==
  LET delta == Delta(desired, latest) IN
  IF      "tags" \in delta                                      THEN "returnDesired"
  ELSE IF ShouldStop(latest, delta)                             THEN "stop"
  ELSE IF delta \subseteq {"start"} /\ ShouldStart(latest)      THEN "start"
  ELSE IF UpdateRequiresStop(delta) /\ ~AlreadyStopped(latest)  THEN "wait"
  ELSE "modify"

\* What sdkUpdate does once the tags are in sync, in the order of its early returns.  A wait is
\* the requeue "resource is in %s state, cannot be updated".
AfterTags(desired, latest) ==
  LET delta == Delta(desired, latest) IN
  IF      delta \subseteq {"tags"}                              THEN "returnDesired"
  ELSE IF ShouldStop(latest, delta)                             THEN "stop"
  ELSE IF delta \subseteq {"start"} /\ ShouldStart(latest)      THEN "start"
  ELSE IF UpdateRequiresStop(delta) /\ ~AlreadyStopped(latest)  THEN "wait"
  ELSE "modify"

\* What is done first with a task that was found: the reconciler calls Update only when there
\* is a difference under Spec, and sdkUpdate begins with the tags.
UpdateStep(desired, latest) ==
  IF      Delta(desired, latest) = {}                     THEN "settled"
  ELSE IF ~(latest.spec.tags \subseteq desired.spec.tags) THEN "removeTags"
  ELSE IF latest.spec.tags # desired.spec.tags            THEN "addTags"
  ELSE AfterTags(desired, latest)

\* Mutant: deletes without stopping first ("running" is one of the deletable statuses).
DeleteStep_WithoutStop(latest) ==
  IF      latest.status.task = "deleting" THEN "wait"
  ELSE IF HasSteadyState(latest)          THEN "delete"
  ELSE "wait"

\* What sdkDelete does first with a task that was found.
DeleteStep(latest) ==
  IF      latest.status.task = "deleting" THEN "wait"
  ELSE IF ShouldStop(latest, {})          THEN "stop"
  ELSE IF HasSteadyState(latest)          THEN "delete"
  ELSE "wait"
=============================================================================
