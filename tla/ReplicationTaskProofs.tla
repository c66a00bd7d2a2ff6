----------------------- MODULE ReplicationTaskProofs -----------------------
(***************************************************************************)
(* Theorems about ReplicationTask: its types, that no task is orphaned,    *)
(* and that the controller's passes are the life of a managed resource.    *)
(***************************************************************************)
EXTENDS ReplicationTask, TLAPS

\* Why no task is orphaned.  A copy of the custom resource is older than the resource itself,
\* but what it says of the finalizer and of a deletion stays true: the controller alone removes
\* the finalizer, as the last step of a pass that saw a deletion and found no task; and it alone
\* creates the task, with the finalizer in place.
Managed ==
  /\ cr.finalizer => cr.phase # "absent"
  /\ cr.phase = "deleting" => cr.finalizer
  /\ desired.finalizer => cr.finalizer
  /\ desired.phase = "deleting" => cr.phase = "deleting"
  /\ pc = "create" => cr.finalizer
  /\ pc = "removeFinalizer" => task.status = "none" /\ desired.phase = "deleting"
  /\ pc = "delete" => desired.phase = "deleting"
  /\ task.status # "none" => cr.finalizer
  /\ task.status = "deleting" => cr.phase = "deleting"

-----------------------------------------------------------------------------
(* Types *)

\* There is a document and a setting to stand for "none": the defaults are of their types.
LEMMA DefaultsType ==
  NoResource \in CustomResource /\ NoTask \in Task
<1>1. SomeDoc \in Doc /\ SomeSetting \in Setting
  BY ConstantsAssumption DEF SomeDoc, SomeSetting
<1> QED
  BY <1>1 DEF NoResource, NoTask, NoSpec, NoStatus, CustomResource, Task, ResourceSpec, Status,
     Mapping, Layout, StartFlag, TaskStatus, SteadyStatus, TransientStatus, ConnStatus

\* Indenting the table mappings keeps a resource a resource (ensureJsonIndented).
LEMMA IndentedType ==
  ASSUME NEW ko \in CustomResource PROVE EnsureJsonIndented(ko) \in CustomResource
BY DEF EnsureJsonIndented, CustomResource, ResourceSpec, Mapping, Layout

\* A status is one of those the task can have; a resource with another task status is a resource.
LEMMA StatusType ==
  ASSUME NEW ko \in CustomResource, NEW s \in TaskStatus, NEW f \in BOOLEAN
  PROVE  /\ [ko EXCEPT !.status.task = s] \in CustomResource
         /\ [ko EXCEPT !.status.task = s, !.status.finished = f] \in CustomResource
BY DEF CustomResource, Status

\* What sdkFind makes of a resource is a resource.
LEMMA WithTaskType ==
  ASSUME NEW ko \in CustomResource, task \in Task
  PROVE  WithTask(ko) \in CustomResource
<1> DEFINE found == [ko EXCEPT !.spec.mapping.doc = task.doc,
                        !.spec.tags = IF DeleteRequested(ko) THEN @ ELSE task.tags,
                        !.status.task = task.status, !.status.finished = task.finished]
<1>1. found \in CustomResource
  BY DEF CustomResource, Task, ResourceSpec, Mapping, Status
<1> QED
  BY <1>1, IndentedType DEF WithTask

LEMMA SdkFindType ==
  ASSUME NEW ko \in CustomResource, task \in Task, conn \in [Endpoint -> ConnStatus]
  PROVE  SdkFind(ko) \in CustomResource
<1> DEFINE k == WithTask(ko)
<1>1. k \in CustomResource
  BY WithTaskType
<1> HIDE DEF k
<1>2. [e \in Endpoint |-> IF conn[e] = "none" THEN k.status.conn[e] ELSE conn[e]]
        \in [Endpoint -> ConnStatus]
  BY <1>1 DEF CustomResource, Status
<1>3. WithConnections(k) \in CustomResource
  <2>1. [k EXCEPT !.status.synced = "False"] \in CustomResource
    BY <1>1 DEF CustomResource, Status
  <2>2. [k EXCEPT !.status.conn =
           [e \in Endpoint |-> IF conn[e] = "none" THEN k.status.conn[e] ELSE conn[e]]]
          \in CustomResource
    BY <1>1, <1>2 DEF CustomResource, Status
  <2> QED
    BY <2>1, <2>2 DEF WithConnections
<1> QED
  BY <1>3 DEF SdkFind, k

\* Every decision leads to a call or to the end of the pass, and an update never to a deletion.
LEMMA UpdateStepCall ==
  ASSUME NEW d, NEW l
  PROVE  /\ NextCall(AfterTags(d, l)) \in {"patchStatus", "patchError", "stop", "start", "modify"}
         /\ NextCall(UpdateStep(d, l)) \in {"patchStatus", "patchError", "removeTags", "addTags",
                                            "stop", "start", "modify"}
<1>1. AfterTags(d, l) \in {"returnDesired", "stop", "start", "wait", "modify"}
  BY DEF AfterTags
<1>2. UpdateStep(d, l) \in {"settled", "removeTags", "addTags", "returnDesired", "stop", "start",
                            "wait", "modify"}
  BY <1>1 DEF UpdateStep
<1> QED
  BY <1>1, <1>2 DEF NextCall

LEMMA DeleteStepCall ==
  ASSUME NEW l
  PROVE  NextCall(DeleteStep(l)) \in {"patchError", "stop", "delete"}
<1>1. DeleteStep(l) \in {"wait", "stop", "delete"}
  BY DEF DeleteStep
<1> QED
  BY <1>1 DEF NextCall

\* What a user writes is of the type of Spec.
LEMMA ChosenMapping ==
  ASSUME NEW doc \in Doc, NEW layout \in LayoutChoice
  PROVE  [doc |-> doc, layout |-> layout] \in Mapping
BY ChoicesAssumption DEF Mapping

LEMMA UserType == TypeOK /\ User => TypeOK'
<1> SUFFICES ASSUME TypeOK, User PROVE TypeOK'
  OBVIOUS
<1> USE DEF TypeOK, UserEdits, aws, local
<1>edit. edits < MaxEdits /\ edits' = edits + 1 => edits' \in 0 .. MaxEdits
  BY ChoicesAssumption
<1>1. ASSUME NEW start \in StartChoice, NEW doc \in Doc, NEW layout \in LayoutChoice,
             NEW settings \in Setting, NEW tags \in SUBSET Tag,
             UserCreates(start, [doc |-> doc, layout |-> layout], settings, tags)
      PROVE  TypeOK'
  <2>1. [start |-> start, mapping |-> [doc |-> doc, layout |-> layout],
         settings |-> settings, tags |-> tags] \in ResourceSpec
    BY ChosenMapping, ChoicesAssumption DEF ResourceSpec
  <2>2. cr' \in CustomResource
    BY <1>1, <2>1, DefaultsType DEF UserCreates, CustomResource
  <2> QED
    BY <1>1, <2>2, <1>edit DEF UserCreates
<1>2. ASSUME NEW start \in StartChoice, UserSetsStart(start) PROVE TypeOK'
  <2>1. cr' \in CustomResource
    BY <1>2, ChoicesAssumption DEF UserSetsStart, CustomResource, ResourceSpec
  <2> QED
    BY <1>2, <2>1, <1>edit DEF UserSetsStart
<1>3. ASSUME NEW doc \in Doc, NEW layout \in LayoutChoice,
             UserSetsMapping([doc |-> doc, layout |-> layout])
      PROVE  TypeOK'
  <2>1. cr' \in CustomResource
    BY <1>3, ChosenMapping DEF UserSetsMapping, CustomResource, ResourceSpec
  <2> QED
    BY <1>3, <2>1, <1>edit DEF UserSetsMapping
<1>4. ASSUME NEW settings \in Setting, UserSetsSettings(settings) PROVE TypeOK'
  <2>1. cr' \in CustomResource
    BY <1>4 DEF UserSetsSettings, CustomResource, ResourceSpec
  <2> QED
    BY <1>4, <2>1, <1>edit DEF UserSetsSettings
<1>5. ASSUME NEW tags \in SUBSET Tag, UserSetsTags(tags) PROVE TypeOK'
  <2>1. cr' \in CustomResource
    BY <1>5 DEF UserSetsTags, CustomResource, ResourceSpec
  <2> QED
    BY <1>5, <2>1, <1>edit DEF UserSetsTags
<1>6. CASE UserDeletes
  <2>1. cr' \in CustomResource
    BY <1>6, DefaultsType DEF UserDeletes, CustomResource
  <2> QED
    BY <1>6, <2>1 DEF UserDeletes
<1> QED
  BY <1>1, <1>2, <1>3, <1>4, <1>5, <1>6 DEF User

LEMMA AWSType == TypeOK /\ AWS => TypeOK'
<1> SUFFICES ASSUME TypeOK, AWS PROVE TypeOK'
  OBVIOUS
<1> USE DEF TypeOK, local, user
<1>types. ASSUME NEW s \in TaskStatus, NEW f \in BOOLEAN
    PROVE /\ [task EXCEPT !.status = s] \in Task
          /\ [task EXCEPT !.status = s, !.finished = f] \in Task
  BY DEF Task
<1>statuses. /\ Settled(task) \subseteq TaskStatus
              /\ {"stopping", "failed"} \subseteq TaskStatus
  BY DEF Settled, TaskStatus, SteadyStatus, TransientStatus
<1>1. CASE TaskSettles
  BY <1>1, <1>types, <1>statuses DEF TaskSettles
<1>2. CASE TaskIsDeleted
  BY <1>2, DefaultsType DEF TaskIsDeleted
<1>3. CASE TaskFinishes
  BY <1>3, <1>types, <1>statuses DEF TaskFinishes
<1>4. CASE TaskFails
  BY <1>4, <1>types, <1>statuses DEF TaskFails
<1>5. CASE ConnectionChanges
  <2>1. conn' \in [Endpoint -> ConnStatus]
    BY <1>5, ChoicesAssumption DEF ConnectionChanges
  <2> QED
    BY <1>5, <2>1 DEF ConnectionChanges
<1> QED
  BY <1>1, <1>2, <1>3, <1>4, <1>5 DEF AWS

LEMMA ControllerType == TypeOK /\ Controller => TypeOK'
<1> SUFFICES ASSUME TypeOK, Controller PROVE TypeOK'
  OBVIOUS
<1> USE DEF TypeOK, Leaving, aws, local, user
<1>calls. /\ Call \union {"patchStatus", "patchError", "patchTerminal"}
                \subseteq Call \union Leaving \union {"idle"}
           /\ {"read", "removeFinalizer", "create", "markManaged", "readCreated", "patchSpec",
               "addTags", "removeTags", "stop", "start", "modify", "delete"} \subseteq Call
  BY DEF Call
<1>statuses. {"creating", "stopping", "starting", "modifying", "deleting"} \subseteq TaskStatus
  BY DEF TaskStatus, TransientStatus
<1>ends. ASSUME PassEnds PROVE
      /\ desired' \in CustomResource /\ latest' \in CustomResource
      /\ pc' \in Call \union Leaving \union {"idle"}
  BY <1>ends, DefaultsType DEF PassEnds
<1>settles. ASSUME NEW s \in TaskStatus PROVE [task EXCEPT !.status = s] \in Task
  BY DEF Task
<1>synced. ASSUME TagsSynced PROVE
      /\ latest' \in CustomResource
      /\ pc' \in Call \union Leaving \union {"idle"}
  BY <1>synced, <1>calls, UpdateStepCall DEF TagsSynced
<1>1. CASE Reconcile
  <2>1. desired' \in CustomResource
    BY <1>1 DEF Reconcile, CustomResource, Status
  <2> QED
    BY <1>1, <2>1, <1>calls DEF Reconcile
<1>2. CASE ReadFound
  <2>1. latest' \in CustomResource
    BY <1>2, SdkFindType DEF ReadFound
  <2>2. pc' \in Call \union {"patchStatus", "patchError"}
    BY <1>2, <1>calls, UpdateStepCall, DeleteStepCall DEF ReadFound
  <2> QED
    BY <1>2, <2>1, <2>2 DEF ReadFound
<1>3. CASE ReadNotFound
  BY <1>3, <1>calls DEF ReadNotFound
<1>4. CASE MarkManaged
  <2>1. cr' \in CustomResource /\ desired' \in CustomResource
    BY <1>4 DEF MarkManaged, CustomResource
  <2> QED
    BY <1>4, <2>1, <1>calls DEF MarkManaged
<1>5. CASE SdkCreate
  <2>1. task' \in Task
    BY <1>5, <1>statuses DEF SdkCreate, Task, CustomResource, ResourceSpec, Mapping
  <2>2. latest' \in CustomResource
    BY <1>5, <1>statuses, StatusType, IndentedType DEF SdkCreate
  <2> QED
    BY <1>5, <2>1, <2>2, <1>calls DEF SdkCreate
<1>6. CASE ReadCreated
  <2>1. latest' \in CustomResource
    BY <1>6, SdkFindType DEF ReadCreated, CustomResource
  <2> QED
    BY <1>6, <2>1, <1>calls DEF ReadCreated
<1>7. CASE RemoveTags
  <2>1. task' \in Task
    BY <1>7 DEF RemoveTags, Task
  <2>2. latest' \in CustomResource /\ pc' \in Call \union Leaving \union {"idle"}
    BY <1>7, <1>synced, <1>calls DEF RemoveTags
  <2> QED
    BY <1>7, <2>1, <2>2 DEF RemoveTags
<1>8. CASE AddTags
  <2>1. task' \in Task
    BY <1>8 DEF AddTags, Task, CustomResource, ResourceSpec
  <2> QED
    BY <1>8, <2>1, <1>synced DEF AddTags
<1>9. CASE StopReplicationTask
  BY <1>9, <1>statuses, <1>settles, StatusType, <1>calls DEF StopReplicationTask
<1>10. CASE StartReplicationTask
  BY <1>10, <1>statuses, <1>settles, StatusType, <1>calls DEF StartReplicationTask
<1>11. CASE ModifyReplicationTask
  <2>1. task' \in Task
    BY <1>11, <1>statuses DEF ModifyReplicationTask, Task, CustomResource, ResourceSpec, Mapping
  <2>2. task.finished \in BOOLEAN
    BY DEF Task
  <2>3. latest' \in CustomResource
    BY <1>11, <2>2, <1>statuses, StatusType, IndentedType DEF ModifyReplicationTask
  <2> QED
    BY <1>11, <2>1, <2>3, <1>calls DEF ModifyReplicationTask
<1>12. CASE PatchSpec
  <2>1. cr' \in CustomResource
    BY <1>12 DEF PatchSpec, CustomResource, ResourceSpec
  <2> QED
    BY <1>12, <2>1 DEF PatchSpec
<1>13. CASE DeleteReplicationTask
  BY <1>13, <1>statuses, <1>settles, StatusType, <1>calls DEF DeleteReplicationTask
<1>14. CASE RemoveFinalizer
  BY <1>14, <1>ends, DefaultsType DEF RemoveFinalizer
<1>15. CASE PatchStatus
  <2>1. SyncedCondition \in {"Unset", "True", "False"}
    <3>1. latest.status.synced \in {"Unset", "True", "False"}
      BY DEF CustomResource, Status
    <3> QED
      BY <3>1 DEF SyncedCondition
  <2>2. cr' \in CustomResource
    BY <1>15, <2>1 DEF PatchStatus, CustomResource, Status
  <2> QED
    BY <1>15, <2>2, <1>ends DEF PatchStatus
<1>16. CASE CallFails
  BY <1>16, <1>calls DEF CallFails
<1>17. CASE ReadConnectionsFails
  BY <1>17, <1>calls, WithTaskType DEF ReadConnectionsFails
<1>18. CASE Crash
  BY <1>18, <1>ends DEF Crash
<1> QED
  BY <1>1, <1>2, <1>3, <1>4, <1>5, <1>6, <1>7, <1>8, <1>9, <1>10, <1>11, <1>12, <1>13, <1>14,
     <1>15, <1>16, <1>17, <1>18 DEF Controller

\* Every variable keeps its type: the resource and its copies stay resources, the task a task,
\* and the pass always stands at one of its calls.
THEOREM TypeCorrect == Spec => []TypeOK
<1>1. Init => TypeOK
  <2> SUFFICES ASSUME Init PROVE TypeOK
    OBVIOUS
  <2>1. conn \in [Endpoint -> ConnStatus]
    BY ChoicesAssumption DEF Init
  <2> QED
    BY <2>1, DefaultsType, ChoicesAssumption DEF Init, TypeOK
<1>2. TypeOK /\ [Next]_vars => TypeOK'
  <2>1. TypeOK /\ UNCHANGED vars => TypeOK'
    BY DEF TypeOK, vars
  <2> QED
    BY <2>1, UserType, AWSType, ControllerType DEF Next
<1> QED
  BY <1>1, <1>2, PTL DEF Spec

-----------------------------------------------------------------------------
(* No orphan *)

LEMMA UserManaged == TypeOK /\ Managed /\ User => Managed'
<1> SUFFICES ASSUME TypeOK, Managed, User PROVE Managed'
  OBVIOUS
<1> USE DEF Managed, UserEdits, aws, local
<1>1. ASSUME NEW start, NEW mapping, NEW settings, NEW tags,
             UserCreates(start, mapping, settings, tags)
      PROVE  Managed'
  <2>1. cr'.phase = "live" /\ cr'.finalizer = FALSE /\ ~cr.finalizer
    BY <1>1, DefaultsType DEF UserCreates, NoResource, TypeOK, CustomResource
  <2> QED
    BY <1>1, <2>1 DEF UserCreates
<1>2. ASSUME NEW start, UserSetsStart(start) PROVE Managed'
  BY <1>2 DEF UserSetsStart, TypeOK, CustomResource
<1>3. ASSUME NEW mapping, UserSetsMapping(mapping) PROVE Managed'
  BY <1>3 DEF UserSetsMapping, TypeOK, CustomResource
<1>4. ASSUME NEW settings, UserSetsSettings(settings) PROVE Managed'
  BY <1>4 DEF UserSetsSettings, TypeOK, CustomResource
<1>5. ASSUME NEW tags, UserSetsTags(tags) PROVE Managed'
  BY <1>5 DEF UserSetsTags, TypeOK, CustomResource
<1>6. CASE UserDeletes
  <2>1. CASE cr.finalizer
    BY <1>6, <2>1 DEF UserDeletes, TypeOK, CustomResource
  <2>2. CASE ~cr.finalizer
    BY <1>6, <2>2 DEF UserDeletes, NoResource
  <2> QED
    BY <2>1, <2>2
<1> QED
  BY <1>1, <1>2, <1>3, <1>4, <1>5, <1>6 DEF User

LEMMA AWSManaged == TypeOK /\ Managed /\ AWS => Managed'
<1> SUFFICES ASSUME TypeOK, Managed, AWS PROVE Managed'
  OBVIOUS
<1> USE DEF Managed, local
<1>1. CASE TaskSettles
  <2>1. PICK s \in Settled(task) : task' = [task EXCEPT !.status = s]
    BY <1>1 DEF TaskSettles
  <2>2. task.status # "none" /\ s # "deleting"
    BY DEF Settled
  <2> QED
    BY <1>1, <2>1, <2>2 DEF TaskSettles, TypeOK, Task
<1>2. CASE TaskIsDeleted
  BY <1>2 DEF TaskIsDeleted, NoTask
<1>3. CASE TaskFinishes
  BY <1>3 DEF TaskFinishes, TypeOK, Task
<1>4. CASE TaskFails
  BY <1>4 DEF TaskFails, TypeOK, Task
<1>5. CASE ConnectionChanges
  BY <1>5 DEF ConnectionChanges
<1> QED
  BY <1>1, <1>2, <1>3, <1>4, <1>5 DEF AWS

LEMMA ControllerManaged == TypeOK /\ Managed /\ Controller => Managed'
<1> SUFFICES ASSUME TypeOK, Managed, Controller PROVE Managed'
  OBVIOUS
<1> USE DEF Managed, aws, local
\* Where nothing in charge changes, only the place of the pass matters.
<1>moves. ASSUME UNCHANGED <<cr, desired>>, task'.status = task.status,
                 pc' \notin {"create", "removeFinalizer", "delete"}
          PROVE  Managed'
  BY <1>moves
<1>ends. ASSUME PassEnds, UNCHANGED <<cr, task>> PROVE Managed'
  BY <1>ends DEF PassEnds, NoResource
<1>synced. ASSUME TagsSynced PROVE pc' \notin {"create", "removeFinalizer", "delete"}
  BY <1>synced, UpdateStepCall DEF TagsSynced
<1>1. CASE Reconcile
  BY <1>1 DEF Reconcile, TypeOK, CustomResource
<1>2. CASE ReadFound
  BY <1>2, UpdateStepCall, DeleteStepCall DEF ReadFound, DeleteRequested
<1>3. CASE ReadNotFound
  BY <1>3 DEF ReadNotFound, DeleteRequested
<1>4. CASE MarkManaged
  BY <1>4 DEF MarkManaged, TypeOK, CustomResource
<1>5. CASE SdkCreate
  BY <1>5 DEF SdkCreate
<1>6. CASE ReadCreated
  BY <1>6 DEF ReadCreated
<1>7. CASE RemoveTags
  BY <1>7, <1>moves, <1>synced DEF RemoveTags, TypeOK, Task
<1>8. CASE AddTags
  BY <1>8, <1>moves, <1>synced DEF AddTags, TypeOK, Task
<1>9. CASE StopReplicationTask
  BY <1>9 DEF StopReplicationTask, TypeOK, Task
<1>10. CASE StartReplicationTask
  BY <1>10 DEF StartReplicationTask, AtRest, TypeOK, Task
<1>11. CASE ModifyReplicationTask
  BY <1>11 DEF ModifyReplicationTask, AtRest, TypeOK, Task
<1>12. CASE PatchSpec
  BY <1>12 DEF PatchSpec, TypeOK, CustomResource
<1>13. CASE DeleteReplicationTask
  BY <1>13 DEF DeleteReplicationTask, AtRest, TypeOK, Task
<1>14. CASE RemoveFinalizer
  BY <1>14 DEF RemoveFinalizer, PassEnds, NoResource
<1>15. CASE PatchStatus
  BY <1>15 DEF PatchStatus, PassEnds, NoResource, TypeOK, CustomResource
<1>16. CASE CallFails
  BY <1>16 DEF CallFails
<1>17. CASE ReadConnectionsFails
  BY <1>17 DEF ReadConnectionsFails
<1>18. CASE Crash
  BY <1>18, <1>ends DEF Crash
<1> QED
  BY <1>1, <1>2, <1>3, <1>4, <1>5, <1>6, <1>7, <1>8, <1>9, <1>10, <1>11, <1>12, <1>13, <1>14,
     <1>15, <1>16, <1>17, <1>18 DEF Controller

\* Who is in charge: what the copies say of finalizer and deletion holds of the resource itself.
THEOREM StaysManaged == Spec => []Managed
<1>1. Init => Managed
  BY DEF Init, Managed, NoResource, NoTask
<1>2. TypeOK /\ Managed /\ [Next]_vars => Managed'
  <2>1. Managed /\ UNCHANGED vars => Managed'
    BY DEF Managed, vars
  <2> QED
    BY <2>1, UserManaged, AWSManaged, ControllerManaged DEF Next
<1> QED
  BY <1>1, <1>2, TypeCorrect, PTL DEF Spec

\* No AWS task is ever without a custom resource that is marked as managed, whatever calls fail
\* and whenever the controller dies (MarkManaged before sdkCreate, NotFound before MarkUnmanaged).
THEOREM NoTaskOrphaned == Spec => []NoOrphan
<1>1. Managed => NoOrphan
  BY DEF Managed, NoOrphan
<1> QED
  BY <1>1, StaysManaged, PTL

-----------------------------------------------------------------------------
(* The life of a managed resource *)

\* What a step of the abstract specification sees of the state.
Seen == <<cr.phase, cr.finalizer, task.status # "none">>

LEMMA UserPromise == TypeOK /\ Managed /\ User => Promise!Next \/ UNCHANGED Seen
<1> SUFFICES ASSUME TypeOK, Managed, User PROVE Promise!Next \/ UNCHANGED Seen
  OBVIOUS
<1> USE DEF Seen, UserEdits, aws, TypeOK, CustomResource
<1>1. ASSUME NEW start, NEW mapping, NEW settings, NEW tags,
             UserCreates(start, mapping, settings, tags)
      PROVE  Promise!Declare
  <2>1. cr'.phase = "live" /\ cr'.finalizer = FALSE
    BY <1>1, DefaultsType DEF UserCreates, NoResource
  <2> QED
    BY <1>1, <2>1 DEF UserCreates, Promise!Declare
<1>2. ASSUME NEW start, UserSetsStart(start) PROVE UNCHANGED Seen
  BY <1>2 DEF UserSetsStart
<1>3. ASSUME NEW mapping, UserSetsMapping(mapping) PROVE UNCHANGED Seen
  BY <1>3 DEF UserSetsMapping
<1>4. ASSUME NEW settings, UserSetsSettings(settings) PROVE UNCHANGED Seen
  BY <1>4 DEF UserSetsSettings
<1>5. ASSUME NEW tags, UserSetsTags(tags) PROVE UNCHANGED Seen
  BY <1>5 DEF UserSetsTags
<1>6. CASE UserDeletes
  <2>1. CASE cr.finalizer
    BY <1>6, <2>1 DEF UserDeletes, Promise!Next, Promise!Withdraw
  <2>2. CASE ~cr.finalizer
    BY <1>6, <2>2 DEF UserDeletes, NoResource, Promise!Next, Promise!Withdraw
  <2> QED
    BY <2>1, <2>2
<1> QED
  BY <1>1, <1>2, <1>3, <1>4, <1>5, <1>6 DEF User, Promise!Next

LEMMA AWSPromise == TypeOK /\ Managed /\ AWS => Promise!Next \/ UNCHANGED Seen
<1> SUFFICES ASSUME TypeOK, Managed, AWS PROVE Promise!Next \/ UNCHANGED Seen
  OBVIOUS
<1> USE DEF Seen, TypeOK, Task
<1>1. CASE TaskSettles
  <2>1. PICK s \in Settled(task) : task' = [task EXCEPT !.status = s]
    BY <1>1 DEF TaskSettles
  <2>2. task.status # "none" /\ s # "none"
    BY DEF Settled
  <2> QED
    BY <1>1, <2>1, <2>2 DEF TaskSettles
<1>2. CASE TaskIsDeleted
  BY <1>2 DEF TaskIsDeleted, NoTask, Managed, Promise!Next, Promise!Delete
<1>3. CASE TaskFinishes
  BY <1>3 DEF TaskFinishes
<1>4. CASE TaskFails
  BY <1>4 DEF TaskFails
<1>5. CASE ConnectionChanges
  BY <1>5 DEF ConnectionChanges
<1> QED
  BY <1>1, <1>2, <1>3, <1>4, <1>5 DEF AWS

LEMMA ControllerPromise == TypeOK /\ Managed /\ Controller => Promise!Next \/ UNCHANGED Seen
<1> SUFFICES ASSUME TypeOK, Managed, Controller PROVE Promise!Next \/ UNCHANGED Seen
  OBVIOUS
<1> USE DEF Seen, TypeOK, CustomResource, Task, aws
<1>1. CASE Reconcile \/ ReadFound \/ ReadNotFound \/ ReadCreated \/ CallFails
           \/ ReadConnectionsFails \/ Crash
  BY <1>1 DEF Reconcile, ReadFound, ReadNotFound, ReadCreated, CallFails,
              ReadConnectionsFails, Crash
<1>2. CASE MarkManaged
  BY <1>2 DEF MarkManaged, Promise!Next, Promise!Manage
<1>3. CASE SdkCreate
  BY <1>3 DEF SdkCreate, Managed, Promise!Next, Promise!Create
<1>4. CASE RemoveTags \/ AddTags
  BY <1>4 DEF RemoveTags, AddTags
<1>5. CASE StopReplicationTask \/ StartReplicationTask \/ ModifyReplicationTask
           \/ DeleteReplicationTask
  BY <1>5 DEF StopReplicationTask, StartReplicationTask, ModifyReplicationTask,
              DeleteReplicationTask, AtRest
<1>6. CASE PatchSpec \/ PatchStatus
  BY <1>6 DEF PatchSpec, PatchStatus
<1>7. CASE RemoveFinalizer
  BY <1>7 DEF RemoveFinalizer, NoResource, Managed, Promise!Next, Promise!Release
<1> QED
  BY <1>1, <1>2, <1>3, <1>4, <1>5, <1>6, <1>7 DEF Controller

\* The detailed specification implements the abstract one: finalizer first, then the task; the
\* task is deleted only on a requested deletion, and the resource goes only when the task is gone.
THEOREM LivesAsPromised == Spec => ImplementsPromise
<1>1. Init => Promise!Init
  BY DEF Init, NoResource, NoTask, Promise!Init
<1>2. TypeOK /\ Managed /\ [Next]_vars => [Promise!Next]_Seen
  <2>1. UNCHANGED vars => UNCHANGED Seen
    BY DEF vars, Seen
  <2> QED
    BY <2>1, UserPromise, AWSPromise, ControllerPromise DEF Next
<1>3. Seen = Promise!vars
  BY DEF Seen, Promise!vars
<1>4. TypeOK /\ Managed /\ [Next]_vars => [Promise!Next]_(Promise!vars)
  BY <1>2, <1>3 DEF Seen, Promise!vars
<1> QED
  BY <1>1, <1>4, TypeCorrect, StaysManaged, PTL DEF Spec, ImplementsPromise, Promise!Spec

-----------------------------------------------------------------------------
(* Calls fit the task they reach *)

\* The calls that act on what a pass has read.
Acting == {"removeTags", "addTags", "stop", "start", "modify", "delete"}

\* Why a decision still fits when its call is made.  Only the controller takes a task out of a
\* state of rest or into one of running, and it makes one call at a time; so what was read at
\* rest is unchanged, and what was read as not running does not run.
Fits ==
  /\ task.finished => FullLoadOnly /\ task.status \in {"stopping", "stopped", "modifying", "deleting"}
  /\ pc \in Acting =>
       /\ latest.phase = desired.phase /\ latest.spec.start = desired.spec.start
       /\ latest.status.task \in AtRest =>
            task.status = latest.status.task /\ task.finished = latest.status.finished
       /\ AlreadyStopped(latest) => task.status \notin {"running", "starting"}
  /\ pc = "start" => ShouldStart(latest)
  /\ pc = "modify" => AlreadyStopped(latest)
  /\ pc = "delete" => latest.status.task \in AtRest

\* sdkUpdate starts only what should start and modifies only what does not run: without a
\* difference that requires a stop, the path that is left of the delta is one of the two hooks.
LEMMA AfterTagsFits ==
  ASSUME NEW d, NEW l, l.spec.start = d.spec.start
  PROVE  /\ AfterTags(d, l) = "start" => ShouldStart(l)
         /\ AfterTags(d, l) = "modify" => AlreadyStopped(l)
         /\ AfterTags(d, l) # "delete"
<1> DEFINE compared == {f \in DOMAIN d.spec : d.spec[f] # l.spec[f]}
           started == compared \union (IF ShouldStart(l) THEN {"start"} ELSE {})
           delta == started \union (IF ShouldStop(l, started) THEN {"start"} ELSE {})
<1>1. Delta(d, l) = delta
  BY DEF Delta
<1>2. "start" \notin compared
  OBVIOUS
<1>3. ShouldStart(l) => AlreadyStopped(l)
  BY DEF ShouldStart, AlreadyStarted, AlreadyStopped
<1>4. ShouldStop(l, started) => ShouldStop(l, delta)
  BY DEF ShouldStop, UpdateRequiresStop
<1> HIDE DEF compared
<1>5. AfterTags(d, l) = "start" => ShouldStart(l)
  BY DEF AfterTags
<1>6. AfterTags(d, l) = "modify" => AlreadyStopped(l)
  <2> SUFFICES ASSUME AfterTags(d, l) = "modify" PROVE AlreadyStopped(l)
    OBVIOUS
  <2>1. ~(delta \subseteq {"tags"}) /\ ~ShouldStop(l, delta)
    BY <1>1 DEF AfterTags
  <2>2. ~UpdateRequiresStop(delta) \/ AlreadyStopped(l)
    BY <1>1 DEF AfterTags
  <2>3. CASE ~UpdateRequiresStop(delta)
    <3>1. "start" \in delta
      BY <2>1, <2>3 DEF UpdateRequiresStop
    <3>2. ShouldStart(l)
      BY <1>2, <1>4, <2>1, <3>1
    <3> QED
      BY <1>3, <3>2
  <2> QED
    BY <2>2, <2>3
<1>7. AfterTags(d, l) # "delete"
  BY DEF AfterTags
<1> QED
  BY <1>5, <1>6, <1>7

\* The same of the first decision of an update.
LEMMA UpdateStepFits ==
  ASSUME NEW d, NEW l, l.spec.start = d.spec.start
  PROVE  /\ NextCall(UpdateStep(d, l)) = "start" => ShouldStart(l)
         /\ NextCall(UpdateStep(d, l)) = "modify" => AlreadyStopped(l)
         /\ NextCall(UpdateStep(d, l)) # "delete"
<1>1. UpdateStep(d, l) \in {"settled", "removeTags", "addTags"}
        \/ UpdateStep(d, l) = AfterTags(d, l)
  BY DEF UpdateStep
<1> QED
  BY <1>1, AfterTagsFits DEF NextCall

\* sdkDelete reaches its call only with a task at rest: a running one is stopped instead.
LEMMA DeleteStepFits ==
  ASSUME NEW l, DeleteRequested(l)
  PROVE  /\ NextCall(DeleteStep(l)) = "delete" => l.status.task \in AtRest
         /\ NextCall(DeleteStep(l)) \notin {"start", "modify"}
<1>1. DeleteStep(l) = "delete" => HasSteadyState(l) /\ ~ShouldStop(l, {})
  BY DEF DeleteStep
<1>2. HasSteadyState(l) /\ ~ShouldStop(l, {}) => l.status.task \in AtRest
  BY DEF HasSteadyState, ShouldStop, AlreadyStopped, SteadyStatus, AtRest
<1>3. DeleteStep(l) \in {"wait", "stop", "delete"}
  BY DEF DeleteStep
<1> QED
  BY <1>1, <1>2, <1>3 DEF NextCall

\* What sdkFind leaves of the resource, and what it takes over from the task.
LEMMA SdkFindReads ==
  ASSUME NEW ko \in CustomResource, task \in Task, conn \in [Endpoint -> ConnStatus]
  PROVE  /\ SdkFind(ko).phase = ko.phase
         /\ SdkFind(ko).spec.start = ko.spec.start
         /\ SdkFind(ko).status.task = task.status
         /\ SdkFind(ko).status.finished = task.finished
<1> DEFINE k == WithTask(ko)
<1>1. k.phase = ko.phase /\ k.spec.start = ko.spec.start
      /\ k.status.task = task.status /\ k.status.finished = task.finished
  BY DEF WithTask, EnsureJsonIndented, CustomResource, ResourceSpec, Mapping, Status, Task
<1>2. k \in CustomResource
  BY WithTaskType
<1> HIDE DEF k
<1>3. /\ WithConnections(k).phase = k.phase
      /\ WithConnections(k).spec.start = k.spec.start
      /\ WithConnections(k).status.task = k.status.task
      /\ WithConnections(k).status.finished = k.status.finished
  BY <1>2 DEF WithConnections, CustomResource, Status
<1> QED
  BY <1>1, <1>3 DEF SdkFind, k

\* Neither the user nor AWS undoes what a decision rests on.
LEMMA OthersFit == TypeOK /\ Fits /\ (User \/ AWS) => Fits'
<1> SUFFICES ASSUME TypeOK, Fits, User \/ AWS PROVE Fits'
  OBVIOUS
<1>1. CASE User
  <2>1. UNCHANGED <<task, pc, desired, latest>>
    BY <1>1 DEF User, UserCreates, UserSetsStart, UserSetsMapping, UserSetsSettings, UserSetsTags,
       UserDeletes, UserEdits, aws, local
  <2> QED
    BY <2>1 DEF Fits, ShouldStart, AlreadyStopped
<1>2. CASE AWS
  <2>1. UNCHANGED <<pc, desired, latest>>
    BY <1>2 DEF AWS, TaskSettles, TaskIsDeleted, TaskFinishes, TaskFails, ConnectionChanges, local
  <2>2. CASE TaskSettles
    <3>1. PICK s \in Settled(task) : task' = [task EXCEPT !.status = s]
      BY <2>2 DEF TaskSettles
    <3>2. task.status \notin AtRest
      BY DEF Settled, AtRest
    <3>3. /\ s \in {"running", "failed"} => task.status = "starting"
          /\ s \in {"running", "failed", "ready", "stopped"}
          /\ s = "ready" => ~task.finished \/ task.status = "creating"
      BY DEF Settled
    <3>4. task'.status = s /\ task'.finished = task.finished
      BY <3>1 DEF TypeOK, Task
    <3>5. task'.finished => FullLoadOnly
                    /\ task'.status \in {"stopping", "stopped", "modifying", "deleting"}
      BY <3>3, <3>4 DEF Fits
    <3> QED
      BY <2>1, <3>2, <3>3, <3>4, <3>5 DEF Fits, AlreadyStopped, ShouldStart
  <2>3. CASE TaskIsDeleted
    <3>1. task.status = "deleting" /\ task'.status = "none" /\ task'.finished = FALSE
      BY <2>3 DEF TaskIsDeleted, NoTask
    <3> QED
      BY <2>1, <3>1 DEF Fits, AtRest, AlreadyStopped, ShouldStart
  <2>4. CASE TaskFinishes \/ TaskFails
    <3>1. /\ task.status = "running" /\ task'.status \in {"stopping", "failed"}
          /\ task'.finished => (task'.status = "stopping" /\ FullLoadOnly) \/ task.finished
      BY <2>4 DEF TaskFinishes, TaskFails, TypeOK, Task
    <3> QED
      BY <2>1, <3>1 DEF Fits, AtRest, AlreadyStopped, ShouldStart
  <2>5. CASE ConnectionChanges
    BY <2>1, <2>5 DEF ConnectionChanges, Fits, ShouldStart, AlreadyStopped
  <2> QED
    BY <1>2, <2>2, <2>3, <2>4, <2>5 DEF AWS
<1> QED
  BY <1>1, <1>2

LEMMA ControllerFits == TypeOK /\ Managed /\ Fits /\ Controller => Fits'
<1> SUFFICES ASSUME TypeOK, Managed, Fits, Controller PROVE Fits'
  OBVIOUS
<1> USE DEF aws, local
\* Outside the acting calls only the task has to be as it was.
<1>leaves. ASSUME pc' \notin Acting,
                  task'.finished => FullLoadOnly
                    /\ task'.status \in {"stopping", "stopped", "modifying", "deleting"}
           PROVE  Fits'
  BY <1>leaves DEF Fits, Acting
<1>same. ASSUME pc' \notin Acting, UNCHANGED task PROVE Fits'
  BY <1>same, <1>leaves DEF Fits
<1>1. CASE Reconcile \/ ReadNotFound \/ MarkManaged \/ ReadCreated \/ PatchSpec \/ RemoveFinalizer
           \/ PatchStatus \/ CallFails \/ ReadConnectionsFails \/ Crash
  BY <1>1, <1>same DEF Reconcile, ReadNotFound, MarkManaged, ReadCreated, PatchSpec,
     RemoveFinalizer, PatchStatus, CallFails, ReadConnectionsFails, Crash, PassEnds, Acting
<1>2. CASE ReadFound
  <2> DEFINE found == SdkFind(desired)
  <2>1. latest' = found /\ UNCHANGED <<desired, task>>
    BY <1>2 DEF ReadFound
  <2>2. /\ found.phase = desired.phase /\ found.spec.start = desired.spec.start
        /\ found.status.task = task.status /\ found.status.finished = task.finished
    BY SdkFindReads DEF TypeOK
  <2> HIDE DEF found
  <2>3. AlreadyStopped(found) => task.status \notin {"running", "starting"}
    BY <2>2 DEF AlreadyStopped
  <2>4. /\ pc' = "start" => ShouldStart(found)
        /\ pc' = "modify" => AlreadyStopped(found)
        /\ pc' = "delete" => found.status.task \in AtRest
    <3>1. CASE DeleteRequested(desired)
      <4>1. DeleteRequested(found)
        BY <2>2, <3>1 DEF DeleteRequested
      <4> QED
        BY <1>2, <3>1, <4>1, DeleteStepFits DEF ReadFound, found
    <3>2. CASE ~DeleteRequested(desired)
      BY <1>2, <2>2, <3>2, UpdateStepFits DEF ReadFound, found
    <3> QED
      BY <3>1, <3>2
  <2>5. ShouldStart(latest)' = ShouldStart(found) /\ AlreadyStopped(latest)' = AlreadyStopped(found)
    BY <2>1 DEF ShouldStart, AlreadyStopped, HasSteadyState, AlreadyStarted, DeleteRequested,
       StartRequested, EndpointConnectionsTested
  <2> QED
    BY <2>1, <2>2, <2>3, <2>4, <2>5 DEF Fits
<1>3. CASE SdkCreate
  BY <1>3, <1>leaves DEF SdkCreate, Acting
<1>4. CASE RemoveTags \/ AddTags
  <2>1. /\ UNCHANGED desired
        /\ task'.status = task.status /\ task'.finished = task.finished
    BY <1>4 DEF RemoveTags, AddTags, TypeOK, Task
  <2>2. /\ latest.phase = desired.phase /\ latest.spec.start = desired.spec.start
        /\ latest.status.task \in AtRest =>
             task.status = latest.status.task /\ task.finished = latest.status.finished
        /\ AlreadyStopped(latest) => task.status \notin {"running", "starting"}
    BY <1>4 DEF Fits, Acting, RemoveTags, AddTags
  <2>3. CASE pc' = "addTags" /\ UNCHANGED latest
    BY <2>1, <2>2, <2>3 DEF Fits, AlreadyStopped
  <2>4. CASE TagsSynced
    <3>1. pc' \in Acting => UNCHANGED latest
      BY <2>4, UpdateStepCall DEF TagsSynced, NextCall, Acting
    <3>2. /\ pc' = "start" => ShouldStart(latest)
          /\ pc' = "modify" => AlreadyStopped(latest)
          /\ pc' # "delete"
      BY <2>2, <2>4, AfterTagsFits DEF TagsSynced, NextCall
    <3>3. UNCHANGED latest =>
            ShouldStart(latest)' = ShouldStart(latest)
            /\ AlreadyStopped(latest)' = AlreadyStopped(latest)
      BY DEF ShouldStart, AlreadyStopped, HasSteadyState, AlreadyStarted, DeleteRequested,
         StartRequested, EndpointConnectionsTested
    <3> QED
      BY <2>1, <2>2, <3>1, <3>2, <3>3 DEF Fits, Acting
  <2> QED
    BY <1>4, <2>3, <2>4 DEF RemoveTags, AddTags
<1>5. CASE StopReplicationTask
  <2>1. task'.status = "stopping" /\ task'.finished = task.finished /\ pc' \notin Acting
    BY <1>5 DEF StopReplicationTask, Acting, TypeOK, Task
  <2> QED
    BY <2>1, <1>leaves DEF Fits
<1>6. CASE StartReplicationTask
  \* A finished task is at rest only when stopped, and a stopped one only starts unfinished.
  <2>1. task.status = latest.status.task /\ task.finished = latest.status.finished
    BY <1>6 DEF StartReplicationTask, Fits, Acting, ShouldStart, HasSteadyState, AlreadyStarted,
       SteadyStatus, AtRest
  <2>2. ~(FullLoadOnly /\ task.finished)
    BY <1>6, <2>1 DEF StartReplicationTask, Fits, ShouldStart, AlreadyStarted, AtRest
  <2>3. task'.finished = task.finished /\ pc' \notin Acting
    BY <1>6 DEF StartReplicationTask, Acting, TypeOK, Task
  <2> QED
    BY <2>2, <2>3, <1>leaves DEF Fits
<1>7. CASE ModifyReplicationTask
  <2>1. task'.status = "modifying" /\ task'.finished = task.finished /\ pc' \notin Acting
    BY <1>7 DEF ModifyReplicationTask, Acting, TypeOK, Task
  <2> QED
    BY <2>1, <1>leaves DEF Fits
<1>8. CASE DeleteReplicationTask
  <2>1. task'.status = "deleting" /\ task'.finished = task.finished /\ pc' \notin Acting
    BY <1>8 DEF DeleteReplicationTask, Acting, TypeOK, Task
  <2> QED
    BY <2>1, <1>leaves DEF Fits
<1> QED
  BY <1>1, <1>2, <1>3, <1>4, <1>5, <1>6, <1>7, <1>8 DEF Controller

\* A decision fits whatever happens before its call.
LEMMA StaysFit == Spec => []Fits
<1>1. Init => Fits
  BY DEF Init, Fits, NoTask, Acting
<1>2. TypeOK /\ Managed /\ Fits /\ [Next]_vars => Fits'
  <2>1. Fits /\ UNCHANGED vars => Fits'
    BY DEF Fits, vars, ShouldStart, AlreadyStopped, HasSteadyState, AlreadyStarted,
       DeleteRequested, StartRequested, EndpointConnectionsTested
  <2> QED
    BY <2>1, OthersFit, ControllerFits DEF Next
<1> QED
  BY <1>1, <1>2, TypeCorrect, StaysManaged, PTL DEF Spec

\* When a call is made the task is in a state the call fits: it is deleted only at rest, started
\* only at rest and never after a finished full load, and never modified while it runs or is
\* about to run (the order of the early returns in sdkUpdate and sdkDelete).
THEOREM CallsFit == Spec => [](DeleteFits /\ StartFits /\ ModifyFits)
<1>1. Fits => DeleteFits
  BY DEF Fits, DeleteFits, Acting
<1>2. Fits => StartFits
  BY DEF Fits, StartFits, Acting, ShouldStart, HasSteadyState, AlreadyStarted, SteadyStatus, AtRest
<1>3. Fits => ModifyFits
  BY DEF Fits, ModifyFits, Acting
<1> QED
  BY <1>1, <1>2, <1>3, StaysFit, PTL

\* A task is deleted only at rest: sdkDelete stops it first, and it is not started in between.
THEOREM DeletesAtRest == Spec => []DeleteFits
  BY CallsFit, PTL

\* A task is never modified while it runs or is about to run: sdkUpdate stops it first.
THEOREM ModifiesAtRest == Spec => []ModifyFits
  BY CallsFit, PTL

-----------------------------------------------------------------------------
(* What Synced and the patch of Spec mean *)

\* AWS has the document and the tags of the pass's copy, as long as no deletion is requested.
Applied ==
  \/ cr.phase = "deleting"
  \/ /\ task.status # "none"
     /\ task.doc = desired.spec.mapping.doc /\ task.tags = desired.spec.tags

AsDesired(ko) ==
  ko.spec.mapping.doc = desired.spec.mapping.doc /\ ko.spec.tags = desired.spec.tags

\* The steps at which a pass rests on what it has read or written.
Informed == {"removeTags", "addTags", "stop", "start", "readCreated", "patchSpec", "patchStatus"}

\* How far a pass has brought the task to what is desired.  What was read of the document and the
\* tags stays true, since only the pass changes them; each return of sdkUpdate then leaves either
\* a task that has both or a status that does not count as synced.
Agrees ==
  /\ pc # "idle" => DeleteRequested(desired) \/ desired.status.synced = "Unset"
  /\ pc \in Informed /\ ~DeleteRequested(desired) => latest.status.synced # "True"
  /\ pc \in {"removeTags", "addTags"} =>
       /\ ~DeleteRequested(desired)
       /\ \/ cr.phase = "deleting"
          \/ /\ task.status # "none" /\ task.doc = latest.spec.mapping.doc
             /\ task.tags = IF pc = "removeTags" THEN latest.spec.tags
                            ELSE latest.spec.tags \intersect desired.spec.tags
  /\ pc = "start" => AsDesired(latest)
  /\ pc = "readCreated" => Applied /\ AsDesired(latest)
  /\ pc = "patchSpec" =>
       /\ latest.status.task # "stopping" => AsDesired(latest)
       /\ latest.status.task \in SteadyStatus => Applied
  /\ pc = "patchStatus" /\ latest.status.task \in SteadyStatus => Applied

\* newResourceDelta misses no difference in the table mappings or the tags.
LEMMA DeltaFinds ==
  ASSUME NEW d \in CustomResource, NEW l \in CustomResource
  PROVE  /\ "mapping" \notin Delta(d, l) => d.spec.mapping = l.spec.mapping
         /\ "tags" \notin Delta(d, l) => d.spec.tags = l.spec.tags
<1>1. {"mapping", "tags"} \subseteq DOMAIN d.spec
  BY DEF CustomResource, ResourceSpec
<1>2. {f \in DOMAIN d.spec : d.spec[f] # l.spec[f]} \subseteq Delta(d, l)
  BY DEF Delta
<1> QED
  BY <1>1, <1>2

\* sdkUpdate returns after the tags only if nothing else is different, and starts only a task
\* that differs in nothing.
LEMMA AfterTagsAgrees ==
  ASSUME NEW d \in CustomResource, NEW l \in CustomResource
  PROVE  /\ AfterTags(d, l) = "returnDesired" => d.spec.mapping = l.spec.mapping
         /\ AfterTags(d, l) = "start" => d.spec.mapping = l.spec.mapping /\ d.spec.tags = l.spec.tags
         /\ AfterTags(d, l) \in {"returnDesired", "stop", "start", "wait", "modify"}
<1>1. /\ AfterTags(d, l) = "returnDesired" => Delta(d, l) \subseteq {"tags"}
      /\ AfterTags(d, l) = "start" => Delta(d, l) \subseteq {"start"}
      /\ AfterTags(d, l) \in {"returnDesired", "stop", "start", "wait", "modify"}
  BY DEF AfterTags
<1> QED
  BY <1>1, DeltaFinds

\* What sdkFind takes over from the task into a copy that is not being deleted.
LEMMA SdkFindLearns ==
  ASSUME NEW ko \in CustomResource, task \in Task, conn \in [Endpoint -> ConnStatus]
  PROVE  /\ SdkFind(ko).spec.mapping.doc = task.doc
         /\ ~DeleteRequested(ko) => SdkFind(ko).spec.tags = task.tags
         /\ SdkFind(ko).status.synced \in {ko.status.synced, "False"}
<1> DEFINE k == WithTask(ko)
<1>1. /\ k.spec.mapping.doc = task.doc
      /\ ~DeleteRequested(ko) => k.spec.tags = task.tags
      /\ k.status.synced = ko.status.synced
  BY DEF WithTask, EnsureJsonIndented, CustomResource, ResourceSpec, Mapping, Status, Task
<1>2. k \in CustomResource
  BY WithTaskType
<1> HIDE DEF k
<1>3. /\ WithConnections(k).spec = k.spec
      /\ WithConnections(k).status.synced \in {k.status.synced, "False"}
  BY <1>2 DEF WithConnections, CustomResource, Status
<1> QED
  BY <1>1, <1>3 DEF SdkFind, k

\* The user's and AWS's steps leave the document and the tags of the task alone, and a task goes
\* only when the deletion of its resource has been requested.
LEMMA OthersLeave ==
  ASSUME TypeOK, Managed, User \/ AWS
  PROVE  /\ UNCHANGED <<pc, desired, latest>>
         /\ cr.phase = "deleting" => cr'.phase = "deleting"
         /\ \/ cr'.phase = "deleting"
            \/ task'.doc = task.doc /\ task'.tags = task.tags
               /\ (task.status # "none" => task'.status # "none")
         /\ Applied => Applied'
<1> SUFFICES /\ UNCHANGED <<pc, desired, latest>>
             /\ cr.phase = "deleting" => cr'.phase = "deleting"
             /\ \/ cr'.phase = "deleting"
                \/ task'.doc = task.doc /\ task'.tags = task.tags
                   /\ (task.status # "none" => task'.status # "none")
  BY DEF Applied
<1>1. CASE User
  <2>1. UNCHANGED <<task, pc, desired, latest>>
    BY <1>1 DEF User, UserCreates, UserSetsStart, UserSetsMapping, UserSetsSettings,
       UserSetsTags, UserDeletes, UserEdits, aws, local
  <2>2. cr.phase = "deleting" => cr'.phase = "deleting"
    BY <1>1 DEF User, UserCreates, UserSetsStart, UserSetsMapping, UserSetsSettings,
       UserSetsTags, UserDeletes, TypeOK, CustomResource
  <2> QED
    BY <2>1, <2>2
<1>2. CASE AWS
  <2>1. UNCHANGED <<cr, pc, desired, latest>>
    BY <1>2 DEF AWS, TaskSettles, TaskIsDeleted, TaskFinishes, TaskFails, ConnectionChanges, local
  <2>2. CASE TaskSettles
    <3>1. PICK s \in Settled(task) : task' = [task EXCEPT !.status = s]
      BY <2>2 DEF TaskSettles
    <3>2. s # "none"
      BY DEF Settled
    <3> QED
      BY <2>1, <3>1, <3>2 DEF TypeOK, Task
  <2>3. CASE TaskIsDeleted
    BY <2>1, <2>3 DEF TaskIsDeleted, Managed
  <2>4. CASE TaskFinishes \/ TaskFails
    BY <2>1, <2>4 DEF TaskFinishes, TaskFails, TypeOK, Task
  <2>5. CASE ConnectionChanges
    BY <2>1, <2>5 DEF ConnectionChanges
  <2> QED
    BY <1>2, <2>2, <2>3, <2>4, <2>5 DEF AWS
<1> QED
  BY <1>1, <1>2

\* So what a pass has read stays true.
LEMMA OthersAgree == TypeOK /\ Managed /\ Agrees /\ (User \/ AWS) => Agrees'
BY OthersLeave DEF Agrees, AsDesired, DeleteRequested

LEMMA ControllerAgrees == TypeOK /\ Managed /\ Agrees /\ Controller => Agrees'
<1> SUFFICES ASSUME TypeOK, Managed, Agrees, Controller PROVE Agrees'
  OBVIOUS
<1> USE DEF aws, local, DeleteRequested
\* Before the pass has read and after it has failed only its copy matters.
<1>leaves. ASSUME pc' \in {"idle", "read", "markManaged", "create", "removeFinalizer", "delete",
                           "modify", "patchError", "patchTerminal"},
                  pc' # "idle" => desired'.phase = "deleting" \/ desired'.status.synced = "Unset"
           PROVE  Agrees'
  BY <1>leaves DEF Agrees, Informed
<1>copy. pc # "idle" => desired.phase = "deleting" \/ desired.status.synced = "Unset"
  BY DEF Agrees
<1>1. CASE Reconcile
  <2>1. desired'.phase = "deleting" \/ desired'.status.synced = "Unset"
    BY <1>1 DEF Reconcile, TypeOK, CustomResource, Status
  <2> QED
    BY <1>1, <2>1, <1>leaves DEF Reconcile
<1>2. CASE ReadNotFound \/ DeleteReplicationTask \/ CallFails \/ ReadConnectionsFails
  BY <1>2, <1>copy, <1>leaves DEF ReadNotFound, DeleteReplicationTask, CallFails, Call,
     Refusable, ReadConnectionsFails
<1>3. CASE MarkManaged
  <2>1. desired'.phase = desired.phase /\ desired'.status = desired.status
    BY <1>3 DEF MarkManaged, TypeOK, CustomResource
  <2> QED
    BY <1>3, <2>1, <1>copy, <1>leaves DEF MarkManaged
<1>4. CASE RemoveFinalizer \/ PatchStatus \/ Crash
  BY <1>4, <1>leaves DEF RemoveFinalizer, PatchStatus, Crash, PassEnds
<1>5. CASE ReadFound
  <2> DEFINE found == SdkFind(desired)
  <2>1. latest' = found /\ UNCHANGED <<cr, desired, task>> /\ pc = "read" /\ task.status # "none"
    BY <1>5 DEF ReadFound
  <2>2. found \in CustomResource
    BY SdkFindType DEF TypeOK
  <2>3. /\ found.spec.mapping.doc = task.doc
        /\ ~DeleteRequested(desired) => found.spec.tags = task.tags
        /\ found.status.synced \in {desired.status.synced, "False"}
    BY SdkFindLearns DEF TypeOK
  <2>4. CASE DeleteRequested(desired)
    <3>1. pc' \in {"patchError", "stop", "delete"}
      BY <1>5, <2>4, DeleteStepCall DEF ReadFound
    <3> QED
      BY <2>1, <2>4, <3>1 DEF Agrees, Informed
  <2>5. CASE ~DeleteRequested(desired)
    <3>1. pc' = NextCall(UpdateStep(desired, found))
      BY <1>5, <2>5 DEF ReadFound
    <3> HIDE DEF found
    <3>2. latest'.status.synced # "True" /\ desired'.status.synced = "Unset"
      BY <2>1, <2>3, <2>5, <1>copy
    <3>3. /\ UpdateStep(desired, found) \in {"settled", "returnDesired"}
               => found.spec.mapping = desired.spec.mapping /\ found.spec.tags = desired.spec.tags
          /\ UpdateStep(desired, found) = "start"
               => found.spec.mapping = desired.spec.mapping /\ found.spec.tags = desired.spec.tags
          /\ UpdateStep(desired, found) = "addTags" => found.spec.tags \subseteq desired.spec.tags
          /\ UpdateStep(desired, found) \in {"settled", "returnDesired", "removeTags", "addTags",
                                             "stop", "start", "wait", "modify"}
      BY <2>2, DeltaFinds, AfterTagsAgrees DEF UpdateStep, TypeOK
    <3>4. CASE pc' = "patchStatus"
      <4>1. UpdateStep(desired, found) \in {"settled", "returnDesired"}
        BY <3>1, <3>3, <3>4 DEF NextCall
      <4>2. Applied'
        BY <2>1, <2>3, <2>5, <3>3, <4>1 DEF Applied
      <4> QED
        BY <3>2, <3>4, <4>2 DEF Agrees
    <3>5. CASE pc' = "start"
      <4>1. UpdateStep(desired, found) = "start"
        BY <3>1, <3>3, <3>5 DEF NextCall
      <4> QED
        BY <2>1, <3>2, <3>3, <3>5, <4>1 DEF Agrees, AsDesired
    <3>6. CASE pc' \in {"removeTags", "addTags"}
      <4>1. pc' = "addTags" => found.spec.tags \subseteq desired.spec.tags
        BY <3>1, <3>3 DEF NextCall
      <4>2. pc' = "addTags" => task.tags = found.spec.tags \intersect desired.spec.tags
        BY <2>3, <2>5, <4>1
      <4> QED
        BY <2>1, <2>3, <2>5, <3>2, <3>6, <4>2 DEF Agrees
    <3>7. CASE pc' \in {"stop", "modify", "patchError"}
      BY <3>2, <3>7 DEF Agrees, Informed
    <3> QED
      BY <3>1, <3>4, <3>5, <3>6, <3>7, UpdateStepCall
  <2> QED
    BY <2>4, <2>5
<1>6. CASE SdkCreate
  <2>1. UNCHANGED <<cr, desired>> /\ pc = "create" /\ pc' \in {"patchError", "readCreated"}
    BY <1>6 DEF SdkCreate
  <2>2. Applied'
    BY <1>6 DEF SdkCreate, Applied
  <2>3. /\ latest'.spec.mapping.doc = desired.spec.mapping.doc
        /\ latest'.spec.tags = desired.spec.tags
        /\ latest'.status.synced = desired.status.synced
    BY <1>6 DEF SdkCreate, EnsureJsonIndented, TypeOK, CustomResource, ResourceSpec, Mapping,
       Status
  <2> QED
    BY <2>1, <2>2, <2>3, <1>copy DEF Agrees, AsDesired, Informed
<1>7. CASE ReadCreated
  <2>1. /\ UNCHANGED <<cr, task, desired>> /\ pc = "readCreated" /\ pc' = "patchSpec"
        /\ latest' = [latest EXCEPT !.status = SdkFind(latest).status]
    BY <1>7 DEF ReadCreated
  <2>2. /\ latest'.spec = latest.spec
        /\ latest'.status.synced \in {latest.status.synced, "False"}
    BY <2>1, SdkFindLearns DEF TypeOK, CustomResource
  <2>3. Applied /\ AsDesired(latest)
    BY <2>1 DEF Agrees
  <2>4. Applied' /\ AsDesired(latest)'
    BY <2>1, <2>2, <2>3 DEF Applied, AsDesired
  <2>5. ~DeleteRequested(desired) => latest'.status.synced # "True"
    BY <2>1, <2>2 DEF Agrees, Informed
  <2> QED
    BY <2>1, <2>4, <2>5, <1>copy DEF Agrees
<1>8. CASE RemoveTags \/ AddTags
  <2>1. /\ UNCHANGED <<cr, desired>> /\ pc \in {"removeTags", "addTags"}
        /\ ~DeleteRequested(desired)
        /\ desired.status.synced = "Unset" /\ latest.status.synced # "True"
        /\ task'.status = task.status /\ task'.doc = task.doc
    BY <1>8 DEF RemoveTags, AddTags, Agrees, Informed, TypeOK, Task
  <2>2. CASE RemoveTags /\ pc' = "addTags" /\ UNCHANGED latest
    <3>1. task'.tags = task.tags \ (latest.spec.tags \ desired.spec.tags) /\ pc = "removeTags"
      BY <2>2 DEF RemoveTags, TypeOK, Task
    <3>2. \/ cr.phase = "deleting"
          \/ task.status # "none" /\ task.doc = latest.spec.mapping.doc
             /\ task.tags = latest.spec.tags
      BY <3>1 DEF Agrees
    <3>3. task.tags = latest.spec.tags => task'.tags = latest.spec.tags \intersect desired.spec.tags
      BY <3>1
    <3> QED
      BY <2>1, <2>2, <3>2, <3>3 DEF Agrees
  <2>3. CASE TagsSynced
    <3>1. \/ cr.phase = "deleting"
          \/ /\ task'.status # "none" /\ task'.doc = latest.spec.mapping.doc
             /\ task'.tags = desired.spec.tags
      <4>1. CASE RemoveTags /\ desired.spec.tags \subseteq latest.spec.tags
        <5>1. task'.tags = task.tags \ (latest.spec.tags \ desired.spec.tags) /\ pc = "removeTags"
          BY <4>1 DEF RemoveTags, TypeOK, Task
        <5> QED
          BY <2>1, <4>1, <5>1 DEF Agrees
      <4>2. CASE AddTags
        <5>1. task'.tags = task.tags \union (desired.spec.tags \ latest.spec.tags) /\ pc = "addTags"
          BY <4>2 DEF AddTags, TypeOK, Task
        <5> QED
          BY <2>1, <5>1 DEF Agrees
      <4>3. RemoveTags => desired.spec.tags \subseteq latest.spec.tags
        BY <2>3, UpdateStepCall DEF RemoveTags, TagsSynced
      <4> QED
        BY <1>8, <4>1, <4>2, <4>3
    <3> DEFINE decision == AfterTags(desired, latest)
    <3>2. pc' = NextCall(decision) /\ latest' = IF decision = "returnDesired" THEN desired ELSE latest
      BY <2>3 DEF TagsSynced
    <3>3. /\ decision = "returnDesired" => desired.spec.mapping = latest.spec.mapping
          /\ decision = "start" => desired.spec.mapping = latest.spec.mapping
                                   /\ desired.spec.tags = latest.spec.tags
          /\ decision \in {"returnDesired", "stop", "start", "wait", "modify"}
      BY AfterTagsAgrees DEF TypeOK
    <3> HIDE DEF decision
    <3>4. CASE decision = "returnDesired"
      <4>1. Applied' /\ pc' = "patchStatus" /\ latest' = desired
        BY <2>1, <3>1, <3>2, <3>3, <3>4 DEF Applied, NextCall
      <4> QED
        BY <2>1, <4>1 DEF Agrees
    <3>5. CASE decision = "start"
      BY <2>1, <3>2, <3>3, <3>5 DEF Agrees, AsDesired, NextCall
    <3>6. CASE decision \in {"stop", "wait", "modify"}
      BY <2>1, <3>2, <3>6 DEF Agrees, Informed, NextCall
    <3> QED
      BY <3>3, <3>4, <3>5, <3>6
  <2> QED
    BY <1>8, <2>2, <2>3 DEF RemoveTags, AddTags
<1>9. CASE StopReplicationTask
  <2>1. /\ pc = "stop" /\ pc' \in {"patchError", "patchSpec"} /\ UNCHANGED desired
        /\ latest'.status.task = "stopping" /\ latest'.status.synced = latest.status.synced
    BY <1>9 DEF StopReplicationTask, TypeOK, CustomResource, Status
  <2> QED
    BY <2>1, <1>copy DEF Agrees, Informed, SteadyStatus
<1>10. CASE StartReplicationTask
  <2>1. /\ pc = "start" /\ pc' = "patchSpec" /\ UNCHANGED desired
        /\ latest'.status.task = "starting" /\ latest'.status.synced = latest.status.synced
        /\ latest'.spec = latest.spec
    BY <1>10 DEF StartReplicationTask, TypeOK, CustomResource, Status
  <2> QED
    BY <2>1, <1>copy DEF Agrees, AsDesired, Informed, SteadyStatus
<1>11. CASE ModifyReplicationTask
  <2>1. /\ pc = "modify" /\ pc' \in {"patchError", "patchSpec"} /\ UNCHANGED desired
        /\ latest'.status.task = "modifying" /\ latest'.status.synced = desired.status.synced
        /\ latest'.spec.mapping.doc = desired.spec.mapping.doc
        /\ latest'.spec.tags = desired.spec.tags
    BY <1>11 DEF ModifyReplicationTask, EnsureJsonIndented, TypeOK, CustomResource, ResourceSpec,
       Mapping, Status
  <2> QED
    BY <2>1, <1>copy DEF Agrees, AsDesired, Informed, SteadyStatus
<1>12. CASE PatchSpec
  <2>1. /\ pc = "patchSpec" /\ pc' = "patchStatus" /\ UNCHANGED <<task, desired, latest>>
        /\ cr'.phase = cr.phase
    BY <1>12 DEF PatchSpec, TypeOK, CustomResource
  <2>2. Applied => Applied'
    BY <2>1 DEF Applied
  <2> QED
    BY <2>1, <2>2, <1>copy DEF Agrees, Informed
<1> QED
  BY <1>1, <1>2, <1>3, <1>4, <1>5, <1>6, <1>7, <1>8, <1>9, <1>10, <1>11, <1>12 DEF Controller

LEMMA StaysAgreed == Spec => []Agrees
<1>1. Init => Agrees
  BY DEF Init, Agrees, Informed
<1>2. TypeOK /\ Managed /\ Agrees /\ [Next]_vars => Agrees'
  <2>1. Agrees /\ UNCHANGED vars => Agrees'
    BY DEF Agrees, vars, Applied, AsDesired, DeleteRequested
  <2> QED
    BY <2>1, OthersAgree, ControllerAgrees DEF Next
<1> QED
  BY <1>1, <1>2, TypeCorrect, StaysManaged, PTL DEF Spec

\* Synced is set to True only if AWS has the table mappings and the tags that the user asks for,
\* unless the user has edited them during the pass or AWS has refused them for good: although
\* IsSynced looks at the task status alone, a pass that ends with a status that counts as synced
\* has seen or made them so.
THEOREM SyncedIsApplied == Spec => SyncedMeansApplied
<1> DEFINE Step ==
      /\ PatchStatus /\ cr'.phase = "live"
      /\ cr'.status.synced = "True" /\ ~cr'.status.terminal
      /\ cr.spec.mapping.doc = desired.spec.mapping.doc /\ cr.spec.tags = desired.spec.tags
      => task.doc = cr.spec.mapping.doc /\ task.tags = cr.spec.tags
<1>1. TypeOK /\ Managed /\ Agrees => [Step]_vars
  <2> SUFFICES ASSUME TypeOK, Managed, Agrees, PatchStatus,
                      cr'.phase = "live", cr'.status.synced = "True", ~cr'.status.terminal,
                      cr.spec.mapping.doc = desired.spec.mapping.doc, cr.spec.tags = desired.spec.tags
               PROVE  task.doc = cr.spec.mapping.doc /\ task.tags = cr.spec.tags
    OBVIOUS
  <2>1. cr.phase = "live" /\ SyncedCondition = "True" /\ pc # "patchTerminal"
    <3>1. cr.phase # "absent"
      BY DEF PatchStatus
    <3>2. cr' = [cr EXCEPT !.status = [latest.status EXCEPT !.synced = SyncedCondition,
                                                            !.terminal = pc = "patchTerminal"]]
      BY <3>1 DEF PatchStatus
    <3> QED
      BY <3>2 DEF TypeOK, CustomResource, Status
  <2>2. ~DeleteRequested(desired)
    BY <2>1 DEF Managed, DeleteRequested
  <2>3. pc = "patchStatus"
    BY <2>1, <2>2 DEF PatchStatus, SyncedCondition, Leaving
  <2>4. latest.status.task \in SteadyStatus
    BY <2>1, <2>2, <2>3 DEF SyncedCondition, Agrees, Informed, IsSynced
  <2> QED
    BY <2>1, <2>3, <2>4 DEF Agrees, Applied
<1> QED
  BY <1>1, TypeCorrect, StaysManaged, StaysAgreed, PTL DEF SyncedMeansApplied

\* Unless the pass has stopped the task, the patch of Spec changes neither the document nor the
\* tags that the user has asked for: the copies that sdkCreate and sdkUpdate return are made
\* from the desired one, and a start is made only where there is no difference.
THEOREM PatchIsLayout == Spec => PatchOnlyReformats
<1> DEFINE Step ==
      /\ PatchSpec /\ cr.spec = desired.spec /\ latest.status.task # "stopping"
      => cr'.spec.mapping.doc = cr.spec.mapping.doc /\ cr'.spec.tags = cr.spec.tags
<1>1. TypeOK /\ Agrees => [Step]_vars
  <2> SUFFICES ASSUME TypeOK, Agrees, PatchSpec, cr.spec = desired.spec,
                      latest.status.task # "stopping"
               PROVE  cr'.spec.mapping.doc = cr.spec.mapping.doc /\ cr'.spec.tags = cr.spec.tags
    OBVIOUS
  <2>1. AsDesired(latest)
    BY DEF PatchSpec, Agrees
  <2>2. /\ cr'.spec.mapping = IF latest.spec.mapping # desired.spec.mapping
                              THEN latest.spec.mapping ELSE cr.spec.mapping
        /\ cr'.spec.tags = IF latest.spec.tags # desired.spec.tags
                           THEN latest.spec.tags ELSE cr.spec.tags
    BY DEF PatchSpec, TypeOK, CustomResource
  <2> QED
    BY <2>1, <2>2 DEF AsDesired
<1> QED
  BY <1>1, TypeCorrect, StaysAgreed, PTL DEF PatchOnlyReformats

-----------------------------------------------------------------------------
(* Calls have a cause *)

\* Why a task is stopped, and why it is modified.
StopIsDue(d, l) ==
  /\ l.status.task = "running"
  /\ \/ DeleteRequested(d) \/ d.spec.start = "no"
     \/ d.spec.start = "yes" /\ d.spec.mapping # l.spec.mapping

ModifyIsDue(d, l) ==
  \/ d.spec.mapping # l.spec.mapping
  \/ d.spec.tags # l.spec.tags /\ ShouldStart(l)

\* While the tags are changed the copies differ in them, so that no start follows; and a start
\* that is decided on finds the task as it was read.
Due ==
  /\ pc \in {"removeTags", "addTags"} => /\ latest.spec.settings = desired.spec.settings
                                        /\ latest.spec.tags # desired.spec.tags
  /\ pc = "stop" => StopIsDue(desired, latest)
  /\ pc = "start" => Applied
  /\ pc = "modify" => ModifyIsDue(desired, latest)

\* The two hooks apart, copies that agree on what is not read back differ in the table mappings or
\* in the tags; and a stop is requested or required.
LEMMA AfterTagsDue ==
  ASSUME NEW d \in CustomResource, NEW l \in CustomResource, ~DeleteRequested(l),
         l.spec.start = d.spec.start, l.spec.settings = d.spec.settings
  PROVE  /\ AfterTags(d, l) = "stop" => StopIsDue(d, l)
         /\ AfterTags(d, l) = "modify" => ModifyIsDue(d, l)
<1> DEFINE compared == {f \in DOMAIN d.spec : d.spec[f] # l.spec[f]}
           started == compared \union (IF ShouldStart(l) THEN {"start"} ELSE {})
           delta == started \union (IF ShouldStop(l, started) THEN {"start"} ELSE {})
<1>1. Delta(d, l) = delta
  BY DEF Delta
<1>2. /\ compared \subseteq {"mapping", "tags"}
      /\ "mapping" \in compared => d.spec.mapping # l.spec.mapping
      /\ "tags" \in compared => d.spec.tags # l.spec.tags
  <2>1. DOMAIN d.spec = {"start", "mapping", "settings", "tags"}
    BY DEF CustomResource, ResourceSpec
  <2> QED
    BY <2>1
<1> HIDE DEF compared
<1>3. UpdateRequiresStop(delta) => d.spec.mapping # l.spec.mapping
  BY <1>2 DEF UpdateRequiresStop
<1>4. ShouldStop(l, started) => ShouldStop(l, delta)
  BY DEF ShouldStop, UpdateRequiresStop
<1>5. ShouldStop(l, delta) => StopIsDue(d, l)
  <2> SUFFICES ASSUME ShouldStop(l, delta) PROVE StopIsDue(d, l)
    OBVIOUS
  <2>1. l.status.task = "running"
    BY DEF ShouldStop, HasSteadyState, SteadyStatus, AlreadyStopped
  <2>2. d.spec.start \in {"yes", "no"}
    BY DEF ShouldStop, CustomResource, ResourceSpec, StartFlag
  <2>3. d.spec.start = "no" \/ UpdateRequiresStop(delta)
    BY DEF ShouldStop
  <2> QED
    BY <1>3, <2>1, <2>2, <2>3 DEF StopIsDue
<1>6. AfterTags(d, l) = "stop" => ShouldStop(l, delta)
  BY <1>1 DEF AfterTags
<1>7. ASSUME AfterTags(d, l) = "modify" PROVE ModifyIsDue(d, l)
  <2>1. /\ ~(delta \subseteq {"tags"}) /\ ~ShouldStop(l, delta)
        /\ ~(delta \subseteq {"start"} /\ ShouldStart(l))
    BY <1>1, <1>7 DEF AfterTags
  <2>2. CASE "mapping" \in compared
    BY <1>2, <2>2 DEF ModifyIsDue
  <2>3. CASE "mapping" \notin compared
    <3>1. ShouldStart(l)
      BY <1>2, <1>4, <2>1, <2>3
    <3>2. "tags" \in compared
      BY <1>2, <1>4, <2>1, <2>3, <3>1
    <3> QED
      BY <1>2, <3>1, <3>2 DEF ModifyIsDue
  <2> QED
    BY <2>2, <2>3
<1> QED
  BY <1>5, <1>6, <1>7

\* sdkFind does not read the settings back.
LEMMA SdkFindKeepsSettings ==
  ASSUME NEW ko \in CustomResource, task \in Task, conn \in [Endpoint -> ConnStatus]
  PROVE  SdkFind(ko).spec.settings = ko.spec.settings
<1> DEFINE k == WithTask(ko)
<1>1. k.spec.settings = ko.spec.settings
  BY DEF WithTask, EnsureJsonIndented, CustomResource, ResourceSpec
<1>2. k \in CustomResource
  BY WithTaskType
<1> HIDE DEF k
<1>3. WithConnections(k).spec = k.spec
  BY <1>2 DEF WithConnections, CustomResource, Status
<1> QED
  BY <1>1, <1>3 DEF SdkFind, k

\* A pass decides on its calls with the copies at hand and makes no other call.
LEMMA ControllerDue == TypeOK /\ Agrees /\ Fits /\ Due /\ Controller => Due'
<1> SUFFICES ASSUME TypeOK, Agrees, Fits, Due, Controller PROVE Due'
  OBVIOUS
<1> USE DEF aws, local
<1>leaves. ASSUME pc' \notin {"removeTags", "addTags", "stop", "start", "modify"} PROVE Due'
  BY <1>leaves DEF Due
<1>1. CASE Reconcile \/ ReadNotFound \/ MarkManaged \/ SdkCreate \/ ReadCreated
           \/ StopReplicationTask \/ StartReplicationTask \/ ModifyReplicationTask \/ PatchSpec
           \/ DeleteReplicationTask \/ RemoveFinalizer \/ PatchStatus
           \/ CallFails \/ ReadConnectionsFails \/ Crash
  BY <1>1, <1>leaves DEF Reconcile, ReadNotFound, MarkManaged, SdkCreate, ReadCreated,
     StopReplicationTask, StartReplicationTask, ModifyReplicationTask, PatchSpec,
     DeleteReplicationTask, RemoveFinalizer, PatchStatus, CallFails, ReadConnectionsFails, Crash,
     PassEnds
<1>2. CASE ReadFound
  <2> DEFINE found == SdkFind(desired)
  <2>1. latest' = found /\ UNCHANGED <<cr, desired, task>> /\ task.status # "none"
    BY <1>2 DEF ReadFound
  <2>2. /\ found \in CustomResource
        /\ found.phase = desired.phase /\ found.spec.start = desired.spec.start
        /\ found.spec.settings = desired.spec.settings
        /\ found.spec.mapping.doc = task.doc
        /\ ~DeleteRequested(desired) => found.spec.tags = task.tags
    BY SdkFindType, SdkFindReads, SdkFindLearns, SdkFindKeepsSettings DEF TypeOK
  <2>3. CASE DeleteRequested(desired)
    <3>1. pc' \in {"patchError", "stop", "delete"} /\ (pc' = "stop" => ShouldStop(found, {}))
      BY <1>2, <2>3 DEF ReadFound, DeleteStep, NextCall
    <3> HIDE DEF found
    <3>2. ShouldStop(found, {}) => StopIsDue(desired, found)
      BY <2>3 DEF ShouldStop, HasSteadyState, SteadyStatus, AlreadyStopped, StopIsDue
    <3>3. StopIsDue(desired, found) => StopIsDue(desired, latest)'
      BY <2>1 DEF StopIsDue, DeleteRequested
    <3> QED
      BY <3>1, <3>2, <3>3 DEF Due
  <2>4. CASE ~DeleteRequested(desired)
    <3>1. pc' = NextCall(UpdateStep(desired, found))
      BY <1>2, <2>4 DEF ReadFound
    <3> HIDE DEF found
    <3>2. /\ AfterTags(desired, found) = "stop" => StopIsDue(desired, found)
          /\ AfterTags(desired, found) = "modify" => ModifyIsDue(desired, found)
          /\ AfterTags(desired, found) = "start" => /\ desired.spec.mapping = found.spec.mapping
                                                    /\ desired.spec.tags = found.spec.tags
          /\ AfterTags(desired, found) \in {"returnDesired", "stop", "start", "wait", "modify"}
      BY <2>2, <2>4, AfterTagsDue, AfterTagsAgrees DEF TypeOK, DeleteRequested
    <3>3. \/ pc' \in {"removeTags", "addTags"} /\ found.spec.tags # desired.spec.tags
          \/ pc' = "patchStatus"
          \/ pc' = NextCall(AfterTags(desired, found))
      BY <3>1 DEF UpdateStep, NextCall
    <3>4. CASE pc' \in {"removeTags", "addTags"} /\ found.spec.tags # desired.spec.tags
      BY <2>1, <2>2, <3>4 DEF Due
    <3>5. CASE pc' = NextCall(AfterTags(desired, found))
      <4>1. /\ pc' = "stop" => StopIsDue(desired, found)
            /\ pc' = "modify" => ModifyIsDue(desired, found)
            /\ pc' = "start" => /\ desired.spec.mapping = found.spec.mapping
                                /\ desired.spec.tags = found.spec.tags
            /\ pc' \notin {"removeTags", "addTags"}
        BY <3>2, <3>5 DEF NextCall
      <4>2. pc' = "start" => Applied'
        BY <2>1, <2>2, <2>4, <4>1 DEF Applied
      <4>3. /\ StopIsDue(desired, found) => StopIsDue(desired, latest)'
            /\ ModifyIsDue(desired, found) => ModifyIsDue(desired, latest)'
        BY <2>1 DEF StopIsDue, ModifyIsDue, ShouldStart, HasSteadyState, AlreadyStarted,
           DeleteRequested, StartRequested, EndpointConnectionsTested
      <4> QED
        BY <4>1, <4>2, <4>3 DEF Due
    <3> QED
      BY <3>3, <3>4, <3>5, <1>leaves
  <2> QED
    BY <2>3, <2>4
<1>3. CASE RemoveTags \/ AddTags
  <2>1. /\ UNCHANGED desired /\ ~DeleteRequested(desired)
        /\ latest.spec.settings = desired.spec.settings /\ latest.spec.tags # desired.spec.tags
        /\ latest.phase = desired.phase /\ latest.spec.start = desired.spec.start
    BY <1>3 DEF RemoveTags, AddTags, Due, Agrees, Fits, Acting
  <2>2. CASE pc' = "addTags" /\ UNCHANGED latest
    BY <2>1, <2>2 DEF Due
  <2>3. CASE TagsSynced
    <3>1. /\ AfterTags(desired, latest) = "stop" => StopIsDue(desired, latest)
          /\ AfterTags(desired, latest) = "modify" => ModifyIsDue(desired, latest)
          /\ AfterTags(desired, latest) \in {"returnDesired", "stop", "wait", "modify"}
      BY <2>1, AfterTagsDue, AfterTagsAgrees DEF TypeOK, DeleteRequested
    <3>2. /\ pc' = NextCall(AfterTags(desired, latest))
          /\ pc' \in {"stop", "modify"} => UNCHANGED latest
      BY <2>3, <3>1 DEF TagsSynced, NextCall
    <3>3. /\ pc' = "stop" => StopIsDue(desired, latest)
          /\ pc' = "modify" => ModifyIsDue(desired, latest)
          /\ pc' \notin {"removeTags", "addTags", "start"}
      BY <3>1, <3>2 DEF NextCall
    <3>4. UNCHANGED latest => /\ StopIsDue(desired, latest) => StopIsDue(desired, latest)'
                              /\ ModifyIsDue(desired, latest) => ModifyIsDue(desired, latest)'
      BY <2>1 DEF StopIsDue, ModifyIsDue, ShouldStart, HasSteadyState, AlreadyStarted,
         DeleteRequested, StartRequested, EndpointConnectionsTested
    <3> QED
      BY <3>2, <3>3, <3>4 DEF Due
  <2> QED
    BY <1>3, <2>2, <2>3 DEF RemoveTags, AddTags
<1> QED
  BY <1>1, <1>2, <1>3 DEF Controller

\* A task is not stopped, started or modified without a cause: the early returns of sdkUpdate and
\* the hooks in newResourceDelta leave a call only what was asked for, or differs, and a start
\* waits until the task has the document and the tags.
THEOREM CallsHaveCause == Spec => []CallsAreDue
<1>1. Init => Due
  BY DEF Init, Due
<1>2. TypeOK /\ Managed /\ Agrees /\ Fits /\ Due /\ [Next]_vars => Due'
  <2>1. ASSUME Due, UNCHANGED <<pc, desired, latest>>, Applied => Applied' PROVE Due'
    BY <2>1 DEF Due, StopIsDue, ModifyIsDue, ShouldStart, HasSteadyState, AlreadyStarted,
       DeleteRequested, StartRequested, EndpointConnectionsTested
  <2>2. UNCHANGED vars => UNCHANGED <<pc, desired, latest>> /\ (Applied => Applied')
    BY DEF vars, Applied
  <2> QED
    BY <2>1, <2>2, OthersLeave, ControllerDue DEF Next
<1>3. Fits /\ Due /\ StartFits => CallsAreDue
  <2> SUFFICES ASSUME Fits, Due, StartFits PROVE CallsAreDue
    OBVIOUS
  <2>1. pc = "stop" => StopIsDue(desired, latest)
    BY DEF Due
  <2>2. pc = "start" => /\ ShouldStart(latest) /\ Applied
                        /\ latest.phase = desired.phase /\ latest.spec.start = desired.spec.start
    BY DEF Due, Fits, Acting
  <2>3. pc = "modify" => ModifyIsDue(desired, latest)
    BY DEF Due
  <2> QED
    BY <2>1, <2>2, <2>3 DEF CallsAreDue, StopIsDue, ModifyIsDue, ShouldStart, DeleteRequested,
       StartRequested, Applied
<1> QED
  BY <1>1, <1>2, <1>3, TypeCorrect, StaysManaged, StaysAgreed, StaysFit, CallsFit, PTL DEF Spec

-----------------------------------------------------------------------------
(* Every pass comes to its end *)

\* The step brings the pass nearer to its end.
Forward == StepsLeft[pc'] < StepsLeft[pc]

\* How far the end is, stage by stage.
LEMMA Distances ==
  /\ StepsLeft["read"] = 6 /\ StepsLeft["markManaged"] = 5 /\ StepsLeft["removeTags"] = 5
  /\ StepsLeft["create"] = 4 /\ StepsLeft["addTags"] = 4
  /\ StepsLeft["readCreated"] = 3
  /\ StepsLeft["stop"] = 3 /\ StepsLeft["start"] = 3 /\ StepsLeft["modify"] = 3
  /\ StepsLeft["delete"] = 3
  /\ StepsLeft["patchSpec"] = 2 /\ StepsLeft["removeFinalizer"] = 2
  /\ StepsLeft["patchStatus"] = 1 /\ StepsLeft["patchError"] = 1 /\ StepsLeft["patchTerminal"] = 1
  /\ StepsLeft["idle"] = 0
BY DEF StepsLeft, Call, Leaving

\* What a read leads to is never another read, and after the tags one call is left at most.
LEMMA DecisionsAdvance ==
  ASSUME NEW d, NEW l
  PROVE  /\ StepsLeft[NextCall(AfterTags(d, l))] \in {1, 3}
         /\ StepsLeft[NextCall(UpdateStep(d, l))] \in {1, 3, 4, 5}
         /\ StepsLeft[NextCall(DeleteStep(l))] \in {1, 3}
<1>1. StepsLeft[NextCall(AfterTags(d, l))] \in {1, 3}
  BY UpdateStepCall, Distances
<1>2. StepsLeft[NextCall(UpdateStep(d, l))] \in {1, 3, 4, 5}
  BY UpdateStepCall, Distances
<1>3. StepsLeft[NextCall(DeleteStep(l))] \in {1, 3}
  BY DeleteStepCall, Distances
<1> QED
  BY <1>1, <1>2, <1>3

\* The user and AWS leave the pass where it is.
LEMMA OthersLeavePass == User \/ AWS => pc' = pc
<1>1. User => pc' = pc
  BY DEF User, UserCreates, UserSetsStart, UserSetsMapping, UserSetsSettings, UserSetsTags,
     UserDeletes, UserEdits
<1>2. AWS => pc' = pc
  BY DEF AWS, TaskSettles, TaskIsDeleted, TaskFinishes, TaskFails, ConnectionChanges
<1> QED
  BY <1>1, <1>2

\* Whatever the pass does next, fails in or dies in, it does not come back to.
LEMMA ControllerAdvances == TypeOK /\ pc # "idle" /\ Controller => Forward
<1> SUFFICES ASSUME TypeOK, pc # "idle", Controller PROVE Forward
  OBVIOUS
<1>1. CASE ReadFound
  <2>1. /\ pc = "read"
        /\ \/ pc' = NextCall(DeleteStep(SdkFind(desired)))
           \/ pc' = NextCall(UpdateStep(desired, SdkFind(desired)))
    BY <1>1 DEF ReadFound
  <2>2. StepsLeft[pc'] \in {1, 3, 4, 5}
    BY <2>1, DecisionsAdvance
  <2> QED
    BY <2>1, <2>2, Distances DEF Forward
<1>2. CASE RemoveTags \/ AddTags
  <2>1. \/ pc = "removeTags" /\ pc' = "addTags"
        \/ pc \in {"removeTags", "addTags"} /\ pc' = NextCall(AfterTags(desired, latest))
    BY <1>2 DEF RemoveTags, AddTags, TagsSynced
  <2>2. CASE pc = "removeTags" /\ pc' = "addTags"
    BY <2>2, Distances DEF Forward
  <2>3. CASE pc \in {"removeTags", "addTags"} /\ pc' = NextCall(AfterTags(desired, latest))
    <3>1. StepsLeft[pc'] \in {1, 3}
      BY <2>3, DecisionsAdvance
    <3> QED
      BY <2>3, <3>1, Distances DEF Forward
  <2> QED
    BY <2>1, <2>2, <2>3
<1>3. CASE ReadNotFound \/ MarkManaged
  <2>1. \/ pc = "read" /\ pc' \in {"removeFinalizer", "create", "markManaged"}
        \/ pc = "markManaged" /\ pc' = "create"
    BY <1>3 DEF ReadNotFound, MarkManaged
  <2> QED
    BY <2>1, Distances DEF Forward
<1>4. CASE SdkCreate \/ ReadCreated
  <2>1. \/ pc = "create" /\ pc' \in {"patchError", "readCreated"}
        \/ pc = "readCreated" /\ pc' = "patchSpec"
    BY <1>4 DEF SdkCreate, ReadCreated
  <2> QED
    BY <2>1, Distances DEF Forward
<1>5. CASE StopReplicationTask \/ StartReplicationTask \/ ModifyReplicationTask
           \/ DeleteReplicationTask
  <2>1. pc \in {"stop", "start", "modify", "delete"} /\ pc' \in {"patchError", "patchSpec"}
    BY <1>5 DEF StopReplicationTask, StartReplicationTask, ModifyReplicationTask,
       DeleteReplicationTask
  <2> QED
    BY <2>1, Distances DEF Forward
<1>6. CASE PatchSpec \/ RemoveFinalizer \/ PatchStatus
  <2>1. \/ pc = "patchSpec" /\ pc' = "patchStatus"
        \/ pc \in {"removeFinalizer", "patchStatus", "patchError", "patchTerminal"} /\ pc' = "idle"
    BY <1>6 DEF PatchSpec, RemoveFinalizer, PatchStatus, PassEnds, Leaving
  <2> QED
    BY <2>1, Distances DEF Forward
<1>7. CASE CallFails \/ ReadConnectionsFails \/ Crash
  <2>1. \A s \in Call : StepsLeft[s] \in 2 .. 6
    BY Distances DEF Call
  <2>2. CASE pc \in Call /\ pc' \in {"patchError", "patchTerminal"}
    BY <2>1, <2>2, Distances DEF Forward
  <2>3. CASE pc' = "idle"
    <3>1. pc \in Call \/ pc \in {"patchStatus", "patchError", "patchTerminal"}
      BY DEF TypeOK, Leaving
    <3> QED
      BY <2>1, <2>3, <3>1, Distances DEF Forward
  <2> QED
    BY <1>7, <2>2, <2>3 DEF CallFails, ReadConnectionsFails, Crash, PassEnds, Call
<1> QED
  BY <1>1, <1>2, <1>3, <1>4, <1>5, <1>6, <1>7 DEF Controller, Reconcile

\* A pass over a task never goes back and is over after six steps, whatever fails: the half of the
\* liveness properties that needs no fairness.
THEOREM PassesEnd == Spec => PassesAdvance
<1>1. TypeOK /\ [Next]_vars
      => [pc # "idle" => IF Controller THEN StepsLeft[pc'] < StepsLeft[pc] ELSE pc' = pc]_vars
  BY OthersLeavePass, ControllerAdvances DEF Next, Forward
<1> QED
  BY <1>1, TypeCorrect, PTL DEF Spec, PassesAdvance
=============================================================================
