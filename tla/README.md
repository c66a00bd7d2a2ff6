# A formal model of the ACK controller for AWS DMS

The controller keeps AWS Database Migration Service (DMS) objects in the state that Kubernetes
custom resources describe. This directory holds TLA+ models of its own logic, TLC configurations
that check them on small instances, and TLAPS proofs that hold for every instance.

- `tlc -config task_safety.cfg MCReplicationTask` checks a run (`PROJECT.json` lists them all),
- `tlapm ReplicationTaskProofs.tla` checks the proofs of a module.

## 1. The system

The repository is a set of *resource managers*, one package per kind of resource under
`src/pkg/resource`. Most of it is generated from `generator.yaml` and the hooks in
`templates/hooks`. The loop that calls the managers is the ACK runtime, a library that is not in
the repository; it is modelled from the way the managers are called and marked external.

One **pass** of the loop takes a custom resource, resolves its references, adds the default
tags and calls `ReadOne`. If AWS has no such object, the runtime stores the finalizer and
calls `Create`; if it has one and `newResourceDelta` finds a difference under Spec, it calls
`Update`; if the resource is being deleted it calls `Delete`, and removes the finalizer once
the object is known to be gone. After a successful Create or Update it patches the fields of Spec
in which the returned copy differs from the desired one. At the end, and after an error, it
patches the status. The resource then goes back into the queue, at once or later, unless AWS has
refused a call for good (`ackerr.Terminal`): such a resource waits for its next generation.

### Inventory

| Component | State | Operations | What is hard | What makes it correct |
|---|---|---|---|---|
| **ReplicationTask** (`replication_task/{sdk,hooks,delta,manager,descriptor}.go`) | Spec and Status of the resource; the task in AWS and the connections of its endpoints; within a pass, the copies `desired` and `latest` | sdkFind, sdkCreate, sdkUpdate (tags, stop, start, modify), sdkDelete (stop, delete), newResourceDelta, IsSynced | a start, a stop and an update each take several passes; AWS moves the task by itself; any call fails or is the last of a process; what a pass returns is patched into Spec | no orphaned task; every call fits the task it reaches; Synced is honest; requests take effect; the user's edits survive |
| **ReplicationInstance** | PendingModifiedValues beside Spec; InstanceStatus | as above, without start and stop; updates only when available | changes that AWS has accepted and not made; engine versions that AWS upgrades; waits by lists of statuses | pending changes are neither repeated nor lost; the instance converges; a deletion ends |
| **Endpoint** | some 280 settings; secrets and references among them | create, read, modify, delete | each field appears in up to seven hand-maintained or generated lists; secrets cannot be read back; references are resolved to values and cleared again | a patch leaves the user's Spec a valid one; Synced means configured; modifications end |
| **EventSubscription** | SubscriptionStatus | create, read, modify, delete | updates only in three statuses; AWS loses and regains its topic | as for the instance |
| **Certificate** | - | import, read, tags, delete | no modification: a Terminal error after the tags were changed | a refused edit does not cost the tags |
| **ReplicationSubnetGroup** | subnets | create, read, modify, delete | the deletion is not awaited; AWS lowers the case of names | no orphan although nobody looks |
| **Finalizers** (`descriptor.go` of each kind) | finalizer, deletion timestamp | MarkManaged, MarkUnmanaged | crashes on either side of Create and Delete | an AWS object exists only while a managed resource answers for it |
| **Tags** (`pkg/util/tags.go`, `tags.go`, `EnsureTags`, `mirrorAWSTags`, `FilterSystemTags`) | lists of keys and values | ComputeTagsDelta, conversions | duplicates, nil values, tags of AWS's own, controller tags | applying the delta yields what is desired; foreign tags are neither removed nor written into Spec |
| **References** (`references.go`) | ARNs of other resources | resolve, validate, clear | a referent that is edited or deleted after the look; waiting for one another | no use of a resource that never was synced; deletions end in any order |
| **Conditions** (`updateConditions`, `IsSynced`) | Synced, Terminal, Recoverable | onError, onSuccess | conditions of an earlier pass | a condition speaks of the pass that sets it |
| **Manager factories** (`manager_factory.go`) | a map from account/region/role to managers, an RWMutex | ManagerFor | two critical sections, several workers | no race on the map; few managers; every call returns |
| Late initialisation | none: no kind has such a field | LateInitialize | - | - |
| Process, registry (`cmd/controller/main.go`, `registry.go`) | none after the start | - | - | - |
| API types, CRDs, Helm chart, kustomize files | declarations | - | - | - |
| End-to-end tests (`test/e2e`) | - | create, update, delete of each kind | need AWS | one user, no failures |

The kinds interact through references (a task needs an instance and two endpoints, an instance a
subnet group, an endpoint a certificate), and through the conditions by which one waits for
another. Passes over different resources share the managers of a kind and nothing else; passes
over one resource do not overlap, because the work queue hands a key to one worker at a time.
What does run concurrently is the user, AWS and the pass, and the passes over resources that refer
to each other.

## 2. The modules

| Module | Models |
|---|---|
| `ManagedResource` | abstract: the life of an AWS object behind a finalizer; every kind implements it |
| `ReplicationTaskHooks` | the task's decisions: `hooks.go`, `newResourceDelta`, the early returns of sdkUpdate and sdkDelete, as operators on copies of the resource |
| `ReplicationTask` | user, AWS and the passes of the controller over one task |
| `WorkQueue` | which resources are in the controller's queue: what may be counted on to be reconciled again |
| `ReplicationTaskLive`, `ReplicationInstanceLive`, `EndpointLive`, `PlainKindsLive`, `ReferencesLive` | the modules of those names with the queue as a history variable: fairness and liveness properties |
| `ReplicationTaskProofs` | theorems about the two |
| `ReconcilePass` | what a pass has in common for the other five kinds: runtime, finalizer, tags as a set, patches, failures, crashes |
| `ReplicationInstance` | pending values, engine versions, waits by status; EXTENDS `ReconcilePass` |
| `EndpointFields` | which field of which group of settings is sent, answered, compared, secret, a number, required, immutable |
| `ReferenceFields` | which field of which kind stands for which field of which referent |
| `Endpoint` | the pass over an endpoint, for each treatment that a field gets; EXTENDS `ReconcilePass` and the two tables |
| `EndpointHooks` | `compareExtraArchivedLogDestIDs`, the one comparison by hand |
| `PlainResource` | what the three small kinds have in common |
| `Certificate`, `EventSubscription`, `ReplicationSubnetGroup` | one each; EXTEND `PlainResource` |
| `PlainKinds` | composes the three: the kind is chosen at the start of a behaviour; EXTENDS them |
| `Tags` | lists of tags through a pass: conversions, mirror, delta, the two calls, filter, patch |
| `References` | several resources, their conditions and their passes |
| `ManagerFactory`, `ManagerFactoryProofs` | the cache of resource managers, and theorems about it |
| `ReconcilePassProofs` | lemmas about the steps that the five kinds share |
| `ReplicationInstanceProofs`, `EndpointProofs`, `PlainKindsProofs` | theorems about an instance, an endpoint, and the three small kinds |
| `ListsProofs`, `ReferencesProofs` | theorems about lists of tags and of log destinations, and about resources that refer to each other |
| `MC*` | instances for TLC |

### ReplicationTask: how state and actions correspond to the code

| TLA+ | Code |
|---|---|
| `cr` | the resource in the API server: Spec, the Status fields that decisions read, finalizer, deletion timestamp (`phase`) |
| `task`, `conn` | what DescribeReplicationTasks, ListTagsForResource and DescribeConnections answer |
| `desired`, `latest` | the two copies a pass works with |
| `pc` | the call a pass makes next; between calls the code only computes |
| `ReadFound`, `ReadNotFound` | sdkFind, then all computation up to the next call: the delta, `UpdateStep`, `DeleteStep` |
| `MarkManaged`, `SdkCreate`, `ReadCreated` | the finalizer, sdkCreate, the runtime's second read |
| `RemoveTags`, `AddTags` | the two calls of syncTags; the last one goes on with `AfterTags`, the rest of sdkUpdate |
| `StopReplicationTask`, `StartReplicationTask`, `ModifyReplicationTask` | the calls of sdkUpdate and sdkDelete with what they return |
| `PatchSpec`, `PatchStatus` | the runtime's patches: Spec only after a success, the status always |
| `DeleteReplicationTask`, `RemoveFinalizer` | sdkDelete; MarkUnmanaged once the task is not found |
| `CallFails`, `ReadConnectionsFails` | an error of a call that had no effect, through onError: one that may pass (`patchError`) or, of the calls in `Refusable`, one that AWS will always give (`patchTerminal`, terminalAWSError) |
| `Crash` | the death of the process, or a status patch that the API server refuses. A call that took effect and whose answer was lost is the call followed by `Crash`, or by `CallFails` of the call after it |

Abstractions:

- Documents (`TableMappings`) are model values with a layout, "raw" or "indented", since
  comparison is by text and `ensureJsonIndented` changes the layout. Settings stand for the
  fields that no answer of AWS to a read returns.
- A tag is a key with one value; two tags never share a key. Lists of tags, with values that
  change, are the subject of `Tags`.
- `FullLoadOnly` (the migration type) is a constant: an edit of it is an update like one of the
  document.
- The three calls of sdkFind are one action. The controller changes nothing between them, and
  the task and the connections change independently of each other, so each outcome of the three
  calls is one of a single read. The failure of the last one is an action of its own, since it
  alone leaves something behind.
- AWS accepts a start, a modification and a deletion of a task at rest, a stop of one that runs,
  and refuses them (`CallFails`) otherwise; a call that is refused for now and one that never arrived look
  the same to the code. What may be refused for good is a creation, a start or a modification, whose
  parameters AWS may reject (InvalidParameterValue, InvalidParameterCombination): the pass then
  sets Terminal, and with it Synced=True.
- References are resolved (`References` is about how). Not modelled: conditions other than Synced and Terminal, whether a
  start starts or resumes, CDC positions (as the settings), failure messages, adoption, and
  resources of which the controller is told not to touch them.

### The other kinds: `ReconcilePass`

A pass is split as in the task, at every call; `pc` is the next one. `cr`, `desired`, `latest` are
as above, `object` is what AWS has. A module of a kind supplies the AWS side and the steps that
differ: its read with the decision after it (`ReadInstance`, `ReadEndpoint`, `ReadCertificate`, ...,
by `UpdateStep`, `AfterTags` and `DeleteStep`), the creation, the modification and the deletion. What is
shared is a step with parameters: `RemoveTags(next, ko)` and `AddTags(next, ko)` go on with the
call `next`; `ReadFound` and `ReadCreated` take what has been learned; `PatchSpec(from, to)`
patches the difference of two copies over whatever Spec has become, and `PatchSpecKeeping`
adds that the API server refuses to change a field which is immutable once set; `PatchStatus`
takes the kind's `IsSynced`. `CallFailsOr(refused)` names the calls that AWS may refuse for good
(`terminalAWSError`), which ends a pass in a Terminal condition.

- **ReplicationInstance**: `Found`, `Compared`, `ModifySent`, `Pendable`, ... are the fields that a
  function handles, for every field of Spec; a behaviour is about the few that `Field` holds.
  AWS keeps a new value of a `Pendable` field in `pending` first, may be "available" meanwhile,
  may give it up (`MayFail`) and raises the minor engine version by itself. `Normalized` is the
  comparison's change of its own argument. A version is a pair of numbers.
- **Endpoint**: `EndpointFields` has, per group of settings (`Redis`, `Oracle`, ...), the fields and
  those left out by each of the functions. A behaviour is about one field, `focus`, of which only the
  treatment is kept, a record of booleans: thirteen differ. Three slots hold the field's own value,
  the reference that may stand for it, and another field that changes independently. A resource named
  `v` has the ARN `v`, so that resolving is taking over the name.
- **Certificate, EventSubscription, ReplicationSubnetGroup**: fields without a treatment of their own. `Field` has
  fields of all three; in a resource of one kind those of the others are never set (`Filled`).
  A group's name has a value `Mixed` that AWS turns into `Lower`; a subscription loses and regains its
  topic; for a certificate nothing but the tags can be changed.

### Tags, References, ManagerFactory

- **Tags** works on lists, where the other modules have sets. `convertToOrderedACKTags`, `fromACKTags`,
  `EnsureTags`, `mirrorAWSTags`, `FilterSystemTags`, `equalStrings`, `addedOrUpdated` and `removed` are the
  functions of those names; the pass around them is `Reconcile`, `ReadOne`, `RemoveTags`, `AddTags`,
  `PatchSpec`. Keys are the user's, AWS's or the controller's; the last two need not be disjoint of
  the first.
- **References** has a record `pass[r]` per resource, so that passes over different resources
  interleave. Of a resource it keeps the conditions, of an AWS object whether it is there; AWS
  refuses to create without what it takes, and to delete what is in use. `ResolveReference` is one
  read of a referent.
- **ManagerFactory** is one worker's ManagerFor, step by step. `Announce` is a writer that waits
  for the readers and keeps later ones out, as Go's RWMutex does; without it three workers can hold
  the lock among themselves for ever.

## 3. What is checked

### Runs that pass

| Run | States | Shows |
|---|---|---|
| `task_safety` | 4.6 million | `NoOrphan`: no task without a finalizer to answer for it, whatever fails or dies; `DeleteFits`, `ModifyFits`: a decision made on an earlier read still fits when its call is made; `CallsAreDue`: so does a start (`StartFits`), and no task is stopped, started or modified without a cause; `SyncedMeansApplied`: Synced=True without Terminal implies that AWS has the document and the tags asked for; `PatchOnlyReformats`: what a pass writes into Spec is a layout (except after a stop, see below); `ImplementsPromise`: refinement of `ManagedResource`; `TypeOK` |
| `task_live` | 166 695 | although calls fail and processes die again and again, a requested deletion completes and a requested stop takes effect; so does a start, and Spec and task come to agree (which a stop may bring about by taking the edit back, see below), unless AWS refuses them for good |
| `factory` | 99 540 | three workers: no race on the map; at most one manager per worker for a combination; every call returns |
| `instance_safety` | 2.2 million | `SyncedMeansAccepted`: Synced becomes True only if AWS has the tags and has accepted what Spec asks for (a pass that ended with the tags excepts what AWS gives up meanwhile); `NeverAsksTwice`: a pending value is not asked for again; refinement of `ManagedResource` |
| `instance_live` | 93 277 | `KeepsAccepted`: no patch takes back a value that AWS has accepted; `SyncedMeansInPlace`: Synced waits for pending values, unless the pass ended with the tags (see below); a deletion completes; `ComesToRest`: instance and Spec agree in the end, unless AWS refuses for good, and modifications stop, while AWS upgrades versions by itself |
| `endpoint_safety` | 773 507 | for each treatment of a field, `PatchKeepsSpec`: a patch neither makes Spec invalid nor refused, nor drops a top-level reference or an edit; `SyncedMeansConfigured`; refinement of `ManagedResource` |
| `endpoint_live` | 266 616 | a deletion completes with whatever references; `ComesToRest`, unless AWS refuses for good |
| `kinds` | 271 413 | certificate, subscription, subnet group: `ModifyFits`: a subscription is modified only when AWS is not at work on it, though the status was read before the tags were changed; `TagsDespiteRefusal`; `WritesWhatHolds`: conditions and Spec patches are true; refinement; deletion completes; `ComesToRest` |
| `tags` | 193 440 | `ComparisonsAgree`: ComputeTagsDelta ends without reading through nil and finds something exactly where delta.go does; `SyncApplies`: the two calls bring about the user's tags; `TagsStayApart`: AWS's tags are never touched and only the user's reach Spec |
| `references` | 270 272 | a task, its instance, the instance's subnet group: `ResolvesInTime`, `SyncedMeansResolved`; resources deleted in any order disappear; resources that stay become ready, whatever has failed before (`AllBecomeReady`), unless AWS refuses one for good and nobody edits it |

Not listed in the runs, though TLC finds them to hold in the same configurations: `NoOrphan` of the
other kinds, which is proved and follows from `ImplementsPromise`; the type invariants of the other
modules; `NumbersFit` of the instance and the endpoint (no number is cut to 32 bits) and `DeleteFits` of the
instance; `DifferenceIsOfElements` of `EndpointHooks` (in `endpoint_missed.cfg`); `PassesAdvance` of the five kinds' modules and
`NobodyIsStuck` of the factory. All of these are proved.

### Runs that find a disagreement

Each checks a statement of a comment and finds what the code does instead. `PROJECT.json` quotes
the statements.

| Run | What happens |
|---|---|
| `task_lost_edit` | A running task is to be updated. sdkUpdate stops it first and returns `latest` without an error, so the runtime patches Spec back to what AWS has: the edit is gone |
| `endpoint_missed` | Of lists of the same length only one inclusion is tested: after [1, 1] an edit to [1, 2] is no difference and never applied |

### Further disagreements

The modules state these too, each as a property of the name given, which TLC refutes when it is put into a
configuration of the module (`task_safety.cfg` and so on; state predicates as INVARIANT, the others as PROPERTY):

| Property | What happens |
|---|---|
| `ReplicationTask.OnlyRequiredStops` | a running task is stopped because TableMappings is written in another layout |
| `ReplicationTaskLive.StartTakesEffectInAnyLayout` (in `task_live.cfg`, with both layouts) | a start is requested and TableMappings is not indented: each pass modifies and requeues before the indented text reaches Spec; the task is never started |
| `ReplicationTask.StartsOnlyConnected` | a task is started on connection tests that AWS no longer has |
| `ReplicationTask.ModifiesOnlyDifferences` | an edit of the tags is made while a start is due: after the tags the pass calls ModifyReplicationTask although nothing else differs, and the start waits for another pass |
| `ReplicationTask.ModifiesOnlyAtRest` | ModifyReplicationTask is called for a task that is neither running nor at rest (AWS refuses) |
| `ReplicationTask.SyncedMeansSettings` | Synced stays True while AWS has other TaskSettings than Spec |
| `ReplicationTask.SyncedMeansSteady`, `ReplicationInstance.SyncedMeansNothingPending` (with a tag and `MaxEdits = 3`) | an update of the tags alone reports the status of an earlier pass, and Synced=True with it |
| `ReplicationInstance.SyncedMeansSecured` (`Field` with SecurityGroupIDs) | an edit of the security groups is never applied: no answer is read into the field |
| `Endpoint.SyncedMeansPassword`, `Endpoint.KeepsSecrets` | an edit of a password is no difference; a secret inside a group of settings is patched out of Spec |
| `Endpoint.KeepsReference` | a reference inside a group is replaced by the value it stands for |
| `EndpointHooks.DuplicatesDoNotMatter` | lists that differ only in duplicates count as different |
| `PlainKinds.NameIsKept` | a subnet group with capital letters in its name is patched with the lowered name, which the API server refuses, in every pass |
| `ManagerFactory.OneManagerPerId` | two workers that miss together make two managers of one combination |

Observations that no property states: a value that AWS gives up between a pass's read and its
modification of *another* field is patched out of Spec. An edit of an endpoint's KMSKeyID is patched
back, one of KMSKeyRef modifies in every pass without effect, and a field removed from Spec is not
sent and comes back. ResolveReferences is documented to return a copy and changes its
argument. A certificate imported with KMSKeyID unset is Terminal for ever if the process dies
before the default key reaches Spec; CertificatePem and CertificateWallet are not compared with
AWS at all. A subscription whose SourceIDs were removed and set anew is modified in every pass.
A tag of the user's under a key of the controller's own is lost when a stop patches the tags.
A referent whose deletion has been requested still counts as usable.

### Mutants

An operator named `<definition>_<Change>` with a comment that says so stands before the definition it
varies and is used by nothing. It is the code with a plausible mistake in it; put in place of the
definition it makes the property that `PROJECT.json` names fail, which shows that the property can
tell. A property that is a conjunction (`PatchKeepsSpec`, `ComesToRest`, `WritesWhatHolds`) has one
mutant, and its parts have names of their own.

### Bounds

- `MaxEdits = 2`: the user creates the resource and edits any one field, or deletes it and creates
  it anew, or edits nothing, at any moment of any pass. A property about one edit needs no more; the
  task's safety run with three edits, no tags and one setting (3.2 million states) was explored too and shows
  nothing else. The invariants of section 4
  that the instance's and the endpoint's theorems rest on were explored with three edits (and, without
  tags, the endpoint's with four; up to 4.5 million states), and with their properties: two edits had hidden
  that an edit of the tags which follows one of a field lets a pass report Synced while AWS gives the field up,
  hence the exception in `SyncedMeansAccepted`. `References` has three, one for each resource. Deletions are not bounded. The bound
  is the only reason why a state may have no successor (no resource, no edit left), hence
  `CHECK_DEADLOCK FALSE`.
- Two documents, one tag (present or not), one endpoint, two settings in the safety run where they matter
  and one elsewhere. The decisions compare values for equality only, and ask for *all* endpoints,
  so a second endpoint adds no new kind of step; the proofs have no such bounds.
- `task_live` has one layout (the other is the subject of `StartTakesEffectInAnyLayout`), and only
  connections that stay tested, since a start needs them.
- `FullLoadOnly = TRUE` gives both a task that ends by itself and one that does not get there;
  with `FALSE` the behaviours are a subset of those. The proofs cover both.
- The instance runs take three, and two, of the fifteen fields: a number that may be pending, and may be
  too large; the version, which may be pending too and which AWS raises by itself; and the flag that governs
  that, which is changed at once. Two minor versions suffice for one upgrade and its undoing.
- The endpoint runs have all treatments that occur, two values and one of another field.
- `tags` has lists of up to two tags with two keys of the user's, of which one is also
  the controller's, one of AWS's, and three values besides nil: enough for a key twice, for a value
  that is empty in one list and nil in the other, and for a tag that both sides change.
- `references` has a chain of three; deletion in every order and creation in every order.
- `kinds` takes of each kind two fields that differ in treatment. Its properties and the invariant `Knows` of
  section 4 were explored with three edits as well (1.03 million states). A report on a Spec that the pass has seen
  (`Unedited`) is one on what the pass has taken or, after a patch of Spec, on what the patch has made of it.
- `ManagerFactory` needs no bound: by `FewManagers` the counters are bounded by the workers.

### Fairness

A pass is counted on only where the runtime schedules one. `queued` says whether the resource is in
the work queue (`WorkQueue`): a new generation puts it there, a pass takes it out, and the end of a
pass puts it back, be it a success (the resync), a wait, a failure or the death of the process (which
lists all resources when it starts again). The exception is a pass that AWS has refused for good: the runtime does
not requeue `ackerr.Terminal`, and drops updates that leave the generation as it was, its own patch of
the status among them. Then nothing is assumed until Spec is edited or the deletion requested, or until somebody
happens to restart the controller, which is possible and never assumed. `Scheduled` is a pass
under way or a resource in the queue; the fairness of the controller is weak fairness of
`Scheduled /\ Controller`.

Properties that say that something asked for comes about except such refusals in their antecedent: it asks
that the resource is `Scheduled` from some time on, which is so unless the last thing asked for was refused.
These are `StartTakesEffect` and `SpecConverges` of the task, `SpecConverges` of the instance and the endpoint, and
`AllBecomeReady`; without the exception TLC refutes `AllBecomeReady` by a creation that is refused, and left so. A
deletion (`DeletionCompletes`, `DeletionsComplete`), a stop (`StopTakesEffect`) and the end of modifications
need no exception: a deletion is a new generation and no call of it is refused for good, and the calls that are
refused for good modify nothing.

`FairSpec` of `ReplicationTaskLive` assumes of AWS that transient statuses end (weak fairness of
`TaskSettles` and `TaskIsDeleted`) and that a start repeated for ever succeeds at some time. Of
the controller the weak fairness alone allows every call to fail for ever. So three groups of
calls get strong fairness: the reads, the calls that change AWS, and the patches of the resource.
Each group is tried again after an error that is requeued, and failures that recur but
do not last let each through in the end. Fairness is stated per group and not per call, which
asks less: a group may succeed by another of its calls. The user is under no obligation. The
instance, the endpoint and the three small kinds have the same three groups; of an instance
a modification that is repeated for ever ends well at some time.

With several resources, groups per resource would say little, since a pass of one is undone by a
failure of another's. `ReferencesLive` therefore assumes that failures and crashes stop at last, and
otherwise weak fairness of every resource's controller, while it is `Scheduled`, and of AWS.

`FairSpec` of `ManagerFactory` has weak fairness of every step of a goroutine and strong fairness of
the reader's acquisition and of the writer's announcement, because Go's RWMutex lets neither
readers nor writers starve.

## 4. What is proved

All theorems hold for every value of the constants that satisfies the named assumptions
(`ConstantsAssumption`, `ChoicesAssumption`, `WorkerAssumption`, `EditsAssumption`, `InstanceAssumption`,
`FieldAssumption`, `EndpointAssumption`, `PlainAssumption`, `NameAssumption`,
`TagsAssumption`, `LandscapeAssumption`): any number of documents, fields, values,
tags, endpoints, edits, resources, workers. The assumptions say that numbers are numbers, that the fields are fields of the kind, and that values with
a meaning of their own (`Unset`, `Wrapped`, `On`, `Off`, `Empty`, `Nil`) are different from the others; that no key
of the user or of the flag --resource-tags begins with "aws:", and the flag lists finitely many; and that resources
refer to resources of the kinds that the references of their own kind are to. Life cycle and finalizer of the
kinds other than the task need no assumption about the constants at all.

### The task: `ReplicationTaskProofs`

1. `TypeCorrect`: `Spec => []TypeOK`, by a lemma for each operator that builds a copy of the
   resource (`WithTask`, `WithConnections`, `SdkFind`, ...) and one step per action.
2. `StaysManaged`: `Spec => []Managed`. `NoOrphan` is not inductive: it says nothing of a pass
   that is about to create a task or to remove the finalizer. `Managed` adds what the pass
   relies on: once past `markManaged` the resource carries the finalizer, a deletion that has been
   requested stays so, and when the pass is at `removeFinalizer` there is no task. It is preserved
   because only a pass creates tasks and only one pass runs at a time.
3. `NoTaskOrphaned`: `Spec => []NoOrphan`, from `Managed`.
4. `LivesAsPromised`: `Spec => ImplementsPromise`. Every action is a step of `ManagedResource` or
   a stutter, given `TypeOK` and `Managed`.
5. `CallsFit`: `Spec => [](DeleteFits /\ StartFits /\ ModifyFits)`, and `ModifiesAtRest` for the last alone.
   The invariant `Fits` (`StaysFit`) relates the
   copy a pass decided on to the task as it is now: a task seen at rest is still as it was seen,
   because AWS moves only tasks in transient statuses and running ones, and only the pass
   starts, modifies and deletes; a task that was seen not to be running or starting is neither; and a
   full load that has finished is stopping, stopped, modifying or deleting. The lemmas
   `UpdateStepFits`, `AfterTagsFits` and `DeleteStepFits` say what the early returns of sdkUpdate
   and sdkDelete guarantee of the copy they decided on.
6. `SyncedIsApplied` (`Spec => SyncedMeansApplied`) and `PatchIsLayout` (`Spec => PatchOnlyReformats`)
   from the invariant `Agrees`: how far, at each call, the pass has brought the task's document and tags to
   what is desired. What was read stays true because only the pass changes them; each return of sdkUpdate
   then leaves either a task that has both or a copy whose status does not count as synced; a call that is refused for good leaves
   neither, but a status that says Terminal. The second half is the
   point: IsSynced looks at the status alone, so it is right only as long as no return combines a
   steady status with something undone.
7. `CallsHaveCause` (`Spec => []CallsAreDue`): a task is stopped only when it was seen running and is to be deleted,
   to stop, or to be updated; started only on request, with tested connections and with the document and the tags of
   Spec in place; modified only for a difference. `Due` says so of the two copies at each of the calls, and is inductive
   with `Fits` and `Agrees`, which say that what the copies have is still what AWS has. Between the read and the call
   lie the hooks in newResourceDelta, three early returns and the two calls for the tags; `AfterTagsDue` goes through
   the returns. One half of the disjunction in `CallsAreDue` is the disagreement `ModifiesOnlyDifferences`.
8. `PassesEnd` (`Spec => PassesAdvance`), see below.

### The life of the other kinds: `ReconcilePassProofs`

`ReconcilePassProofs` holds the argument that all five kinds share. `Invariant` is `Shaped` (the
records have the fields that the proof reads; no more of the type is needed) and `Managed`, the
same strengthening of `NoOrphan` as for the task. `Lives` says that a step is one of the abstract
`ManagedResource` or a stutter. There is one lemma for each step that `ReconcilePass` defines
(`MarkManagedLives`, `ReadFoundLives`, `PatchSpecLives`, ...), of the form "the step preserves `Invariant`
and `Lives`", and four for the steps that a kind has to supply: `CreationLives`, `ModificationLives`,
`DeletionBegins` and `DeletionEnds` state what such a step must keep to. Most steps are instances of
`QuietStep`: they change nothing of phase, finalizer and existence, and do not lead to a call that
`Managed` watches over.

`ReplicationInstanceProofs`, `EndpointProofs` and `PlainKindsProofs` show that each kind keeps to that, one case per
action: `UpdateStepCall`, `DeleteStepCall` and `NextCalls` say that no early return leads to a deletion that was not
requested. What follows in each is `StaysManaged` (`[]Invariant`), `No...Orphaned` or `NothingOrphaned` (`[]NoOrphan`)
and `LivesAsPromised` (the refinement of `ManagedResource`). These need of the records only that they have the fields
that are read.

### Every pass comes to its end

`PassesEnd` (`Spec => PassesAdvance`) is a theorem of the task and of each of the other five kinds: a step of the
controller, be it a call, a failure or a death, makes `StepsLeft` of the stage smaller, and neither the user nor AWS moves
a pass. So a pass never goes back to a call that it has made: it reads, creates, modifies, stops, starts and deletes
at most once, and is over after six steps. This is the half of the liveness properties that needs
no fairness; the other half, that steps are taken and that passes in the end achieve something, is left to TLC. The
lemmas about the shared steps (`ReadingAdvances`, `TagsAdvance`, `PatchesAdvance`, `FailuresAdvance`, ...) are in
`ReconcilePassProofs`; each kind adds which stages its early returns lead to.

### What the instance's passes know: `ReplicationInstanceProofs`

`Typed` is `TypeOK` with what the steps need besides: which fields may be pending, no value that was cut to 32 bits.
`TypeCorrect` and `NumbersAlwaysFit` follow. `Knows` relates the two copies to the instance at each call:

- `Remembers`: before the modification, `latest` has what AWS has accepted, but for a minor version that AWS may have
  raised and a pending value that AWS may have given up (`Near`);
- `TagsFollow`: the tags are as far as the calls that change them;
- `Answered`: after the modification, the answer has what was asked for;
- `InPlace`, `NothingMissing`: what holds of the instance when the status that will be patched is not "Synced=False".

It has to say of every value what AWS may do to it by itself, which is why the actions of AWS (`AWSKeeps`,
`NearStays`) take as much of the proof as those of the controller. From it:

- `SyncedIsAccepted`, `SyncedIsInPlace`: what Synced=True means (`SyncedMeansAccepted`, `SyncedMeansInPlace`). `NearAgrees` joins
  the upgrades of AWS with the comparison's tolerance for them: a version that is near the one a pass has left
  agrees with Spec, since Spec allows upgrades whenever the instance has the flag.
- `PatchKeepsAccepted`: a patch of Spec takes back nothing that AWS has accepted (`KeepsAccepted`).
- `AsksOnce`: a pending value is not asked for again (`NeverAsksTwice`); `SdkFindReads` and
  `DifferenceDisagrees` say what the merged copy and the comparison of a pass come to.
- `DeletionsFit` (`[]DeleteFits`): when DeleteReplicationInstance is called the instance could be deleted when it was
  read, and only AWS has moved it since. One that had failed still can be deleted; one that was available may have failed too, or
  AWS has begun to modify or upgrade it, refuses the call, and the next pass asks again. It is never gone or being
  deleted already.

### What the endpoint's passes know: `EndpointProofs`

A pass over an endpoint rebuilds Spec from the answer field by field. What makes it right is a fact about the tables
and not about a step: a field that can be changed and is no secret must be sent by the creation and the modification,
copied from both answers, read and compared. `GroupsEverywhere` and `TopLevelEverywhere` prove that for
all of the 280 fields of `EndpointFields`; `FocusTreatment` and `ImmutableTreatment` say it of the one that a
behaviour is about. Then, as for the instance:

- `Typed`, with `TypeCorrect` and `NumbersAlwaysFit`;
- `Knows`: a required field is set (`Demanded`); the desired copy has the value that its reference stands for
  (`Resolved`); the endpoint has what the copies ask for, as far as the calls have come (`InPlace`, `Has`,
  `TagsFollow`); an answer has what was asked for and keeps a reference outside the groups alone (`Answered`);
- `SyncedIsConfigured` (`SyncedMeansConfigured`): Synced=True means that the endpoint has what Spec asks for;
- `PatchKeeps` (`PatchKeepsSpec`): a patch leaves Spec valid, changes no immutable field, and drops no
  edit that the pass has seen and no reference outside the groups.

### What the passes of the small kinds know: `PlainKindsProofs`

The three kinds differ in what their calls send and answer, and the same lemmas serve all of them with these sets
of fields as parameters: `Learned` and `FindsIn` are what an answer and a read leave in a copy, `Asked` what a
creation or a modification does. `TypeCorrect` (`Spec => []TypeOK`) is the conjunction of the kinds' invariants. `Knows`
then has the parts of the endpoint's: after a read that has found the object or a call that has created it, and
unless the resource is being deleted, the object exists, its tags are as far as the calls that change them
(`TagsFollow`), and it has the values that the copies have (`InPlace`); the answer has confirmed what is set and may
change (`Answered`); a subscription that was settled when it was read still is (`StaysSettled`). From it:

- `TagsAreKept` (`TagsDespiteRefusal`): a certificate whose edit is refused for good has the tags asked for with it;
- `WrittenHolds` (`WritesWhatHolds`): Synced=True means that AWS has what Spec sets, and no answer undoes an edit;
- `ModificationsFit` (`[]ModifyFits`): a subscription is modified only while AWS is not at work on it.

`Reported` says of which fields Synced can be honest: not of the secrets of a certificate, which no answer has, nor
of the case of a group's name. `Answered` excepts the immutable fields, since AWS may have others there.

### Lists: `ListsProofs`

The first part is about the operators alone, for lists of any length. That a key of a list occurs somewhere first
and somewhere last (`Occurs`), and that keys can be put in an order (`Orders`, from `Sorted`), needs
finite sets of numbers to have a greatest element and a rank function; both come from facts about finite sets, without
an induction. On these rest `Converts` (a list stands for a map), `Listed` (a map that is made a list and read back is the
same map) and `Subtracts` (what `addedOrUpdated` and `removed` return, in terms of the maps).

`Invariant` says what a pass knows of the tags. `Ensured`: the list it works on repeats no key, has a value in every
tag, and has the controller's own tags. `Mirrored`: of AWS's tags it has exactly those read, with
their values. `Current`: the tags of others on the object are those read, after the first call those of them that
are asked for; AWS may change its own at any time. Without `Ensured` the subtraction could read through nil; without
`Mirrored` it would remove AWS's tags. From it:

- `BothAgree` (`[]ComparisonsAgree`), `AppliesTags` (`SyncApplies`), `KeepsApart` (`TagsStayApart`);
- `ComparesElements` (`[]DifferenceIsOfElements` of `EndpointHooks`): lists of log destinations without duplicates have as
  many elements as they are long, so a difference is found exactly when the elements differ.

### Resources that refer to each other: `ReferencesProofs`

A condition and a pass are older than the object they speak of, and still true: only the pass over a resource
creates its object, deletes it and removes the finalizer. `Sound(r)` says that for one resource: `Managed` (what exists
and what the pass does fit the phase), `Honest` (what is, or will be, reported as synced is ready, or the
resource is being deleted) and `Checked` (a pass that reads has resolved all references, and they are valid). `Beside`
says that a step of one resource leaves the others alone; so `Invariant`, which is `Sound` for all, needs one case per
step (`StepKeeps`) and holds for any number of resources, whatever they refer to. From it:

- `ReferentsAreThere` (`ResolvesInTime`): a reference is resolved only when the referent's object is there, unless
  its deletion has been requested;
- `ReportsAreChecked` (`SyncedMeansResolved`): nothing is reported as synced with a reference unresolved or ambiguous.

### The factory: `ManagerFactoryProofs`

`TypeCorrect`; `MapIsSafe` (`Spec => []NoMapRace`) from the invariant
`Locked`, which says which steps hold the mutex in which mode (a writer that has announced itself
holds nothing yet); and `ManagersAreFew`
(`Spec => []FewManagers`) from `Paid`: the managers made for a combination and the workers that
have missed and not yet made one are together no more than the workers, since nobody misses any
more after the first store.

`CallsGoOn` (`Spec => []NobodyIsStuck`) is the part of `CallsReturn` that needs no fairness: as long as one worker is inside
ManagerFor, some worker's next step is possible. By `Owned` whoever the mutex counts as
a reader or as the writer is at a step from which the code goes on to the release, so whoever waits waits for a call
that does not.

### Only model-checked

- All liveness properties: they need fairness and ENABLED, beyond the prover's reach. What is proved of
  them is `PassesEnd` and `CallsGoOn`. Every safety property
  of the passing runs is a theorem.
- The disagreements are counterexamples and need no proof.

## 5. What is not modelled

- The generated deep copies (`zz_generated.deepcopy.go`, a third of the code) copy and decide
  nothing. Nor do the registry, the accessors of `resource.go`, the flags of the process, manifests and charts.
- Late initialisation is dead code in every kind. Adoption copies a name out of an annotation.
- ACK.Recoverable and the messages of conditions: nothing depends on them.
- References into other namespaces and to resources of other controllers (S3, KMS, IAM, ...) are in
  `ReferenceFields` as data; their controllers are not in the repository.
- The payloads' contents beyond "sent or not": a pointer copied to a pointer.
- A user who writes a tag whose key begins with "aws:". AWS refuses the call, in every pass.
- The ACK runtime is modelled only as far as the passes need it: the requeue, the finalizer, the
  patches, the conditions. That it hands a key to one worker at a time is assumed.
- What AWS does is modelled from how the code uses it: statuses, refusals, values that it
  chooses itself. Its errors are "fails", "refused for good" or "not found".
