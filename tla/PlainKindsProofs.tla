-------------------------- MODULE PlainKindsProofs --------------------------
(***************************************************************************)
(* The passes over a certificate, an event subscription and a replication  *)
(* subnet group: they are the life of a managed resource, and what they    *)
(* write into the resource holds; for any fields, values, tags and number  *)
(* of edits.                                                               *)
(***************************************************************************)
EXTENDS PlainKinds, ReconcilePassProofs

(* The life of a managed resource *)

\* Whatever the user does keeps to the life.
LEMMA UserLives ==
  ASSUME Invariant, NEW fields, NEW immutable, User(fields, immutable)
  PROVE  Invariant' /\ Lives
<1>1. CASE \E spec : UserCreates(spec)
  BY <1>1, UserCreatesLives
<1>2. CASE \E f, v : UserSets(f, v)
  BY <1>2, UserSetsLives
<1>3. CASE \E tags : UserSetsTags(tags)
  BY <1>3, UserSetsTagsLives
<1>4. CASE UserDeletes
  BY <1>4, UserDeletesLives
<1> QED
  BY <1>1, <1>2, <1>3, <1>4 DEF User

\* What the runtime does in the same way for all kinds.
Runtime ==
  \/ Reconcile \/ ReadNotFound \/ MarkManaged \/ RemoveFinalizer \/ CallFailsOr({}) \/ Crash
  \/ \E ko : ReadCreated(ko)
  \/ \E immutable : PatchPlainSpec(immutable)
  \/ \E isSynced : PatchStatus(isSynced)

\* It keeps to the life.
LEMMA RuntimeLives ==
  ASSUME Invariant, Runtime PROVE Invariant' /\ Lives
<1>1. CASE \E ko : ReadCreated(ko)
  BY <1>1, ReadCreatedLives
<1>2. CASE \E immutable : PatchPlainSpec(immutable)
  <2>1. PICK immutable, from, to : PatchSpecKeeping(immutable, from, to)
    BY <1>2 DEF PatchPlainSpec
  <2> QED
    BY <2>1, PatchSpecKeepingLives
<1>3. CASE \E isSynced : PatchStatus(isSynced)
  BY <1>3, PatchStatusLives
<1>4. CASE CallFailsOr({})
  BY <1>4, CallFailsLives
<1> QED
  BY <1>1, <1>2, <1>3, <1>4, ReconcileLives, ReadNotFoundLives, MarkManagedLives,
     RemoveFinalizerLives, CrashLives
  DEF Runtime

\* An update leads to no call that is watched; a deletion of a subscription leads to the call or
\* to another pass.
LEMMA NextCalls ==
  ASSUME NEW want, NEW have
  PROVE  /\ AfterCertificateTags(want, have) \notin Watched
         /\ AfterSubscriptionTags(want, have) \notin Watched
         /\ AfterGroupTags(want, have) \notin Watched
         /\ \A after : after \notin Watched => UpdateStep(want, have, after) \notin Watched
         /\ DeleteStep(have) \in {"delete", "patchError"}
BY DEF AfterCertificateTags, AfterSubscriptionTags, AfterGroupTags, UpdateStep, FirstOfTags,
       DeleteStep, Watched

\* What a read has found leads to a deletion only if one is requested.
LEMMA FoundLives ==
  ASSUME Invariant, NEW found, NEW next, ReadFound(desired, found, next),
         next \in Watched => next = "delete" /\ DeleteRequested(desired)
  PROVE  Invariant' /\ Lives
<1>1. {"phase", "finalizer"} \subseteq DOMAIN desired
  BY DEF Invariant, Shaped
<1> QED
  BY <1>1, ReadFoundLives DEF DeleteRequested

\* Whatever a pass over a certificate does keeps to the life.
LEMMA CertificateLives == Invariant /\ CertificateController => Invariant' /\ Lives
<1> SUFFICES ASSUME Invariant, CertificateController PROVE Invariant' /\ Lives
  OBVIOUS
<1>1. CASE ReadCertificate
  <2>1. \A have : CustomSdkUpdate(desired, have) \notin Watched
    BY NextCalls DEF CustomSdkUpdate
  <2> QED
    BY <1>1, <2>1, FoundLives DEF ReadCertificate
<1>2. CASE ImportCertificate
  <2>1. PICK value : object' = [status |-> "present", tags |-> desired.spec.tags, value |-> value]
    BY <1>2 DEF ImportCertificate
  <2>2. "status" \in DOMAIN object' /\ object'.status = "present"
    BY <2>1
  <2> QED
    BY <1>2, <2>2, CreationLives DEF ImportCertificate, Watched
<1>3. CASE DeleteCertificate
  BY <1>3, DeletionEnds DEF DeleteCertificate, NoObject, local
<1>4. CASE RemoveCertificateTags \/ AddCertificateTags
  BY <1>4, NextCalls, RemoveTagsLives, AddTagsLives DEF RemoveCertificateTags, AddCertificateTags
<1> QED
  BY <1>1, <1>2, <1>3, <1>4, RuntimeLives
  DEF CertificateController, CertificateReads, CertificateChanges, CertificatePatches,
      ReadImported, Runtime

\* Whatever a pass over a subscription does keeps to the life.
LEMMA SubscriptionLives == Invariant /\ SubscriptionController => Invariant' /\ Lives
<1> SUFFICES ASSUME Invariant, SubscriptionController PROVE Invariant' /\ Lives
  OBVIOUS
<1>1. CASE ReadSubscription
  BY <1>1, NextCalls, FoundLives DEF ReadSubscription, Watched
<1>2. CASE CreateEventSubscription
  <2>1. PICK value : object' = [status |-> "creating", tags |-> desired.spec.tags, value |-> value]
    BY <1>2 DEF CreateEventSubscription
  <2>2. "status" \in DOMAIN object' /\ object'.status = "creating"
    BY <2>1
  <2> QED
    BY <1>2, <2>2, CreationLives DEF CreateEventSubscription, Watched
<1>3. CASE ModifyEventSubscription
  <2>1. /\ "status" \in DOMAIN object' /\ object'.status = "modifying"
        /\ object.status \notin {"none", "deleting"}
    BY <1>3 DEF ModifyEventSubscription, Settled, Invariant, Shaped
  <2> QED
    BY <1>3, <2>1, ModificationLives DEF ModifyEventSubscription, Watched
<1>4. CASE DeleteEventSubscription
  <2>1. "status" \in DOMAIN object' /\ object'.status = "deleting"
    BY <1>4 DEF DeleteEventSubscription, Invariant, Shaped
  <2> QED
    BY <1>4, <2>1, DeletionBegins DEF DeleteEventSubscription, Settled, Watched
<1>5. CASE RemoveSubscriptionTags \/ AddSubscriptionTags
  BY <1>5, NextCalls, RemoveTagsLives, AddTagsLives DEF RemoveSubscriptionTags, AddSubscriptionTags
<1> QED
  BY <1>1, <1>2, <1>3, <1>4, <1>5, RuntimeLives
  DEF SubscriptionController, SubscriptionReads, SubscriptionChanges, SubscriptionPatches,
      ReadCreatedSubscription, Runtime

\* What AWS does to a subscription by itself, but for the end of a deletion, begins and ends in
\* other statuses.
LEMMA AWSLives == Invariant /\ AWS => Invariant' /\ Lives
<1> SUFFICES ASSUME Invariant, AWS PROVE Invariant' /\ Lives
  OBVIOUS
<1>1. CASE SubscriptionIsDeleted
  BY <1>1, DeletionEnds DEF SubscriptionIsDeleted, Becomes, NoObject, local
<1>2. CASE SubscriptionSettles \/ TopicIsLost \/ TopicReturns
  <2>1. PICK s \in Settled : object' = [object EXCEPT !.status = s]
    BY <1>2 DEF SubscriptionSettles, TopicIsLost, TopicReturns, Becomes, Settled
  <2>2. /\ object.status \notin {"none", "deleting"} /\ UNCHANGED <<cr, pc, local>>
    BY <1>2 DEF SubscriptionSettles, TopicIsLost, TopicReturns, Becomes
  <2>3. LifeUnchanged /\ UNCHANGED <<desired, pc>>
    BY <2>1, <2>2 DEF Settled, Invariant, Shaped, LifeUnchanged, local
  <2> QED
    BY <2>3, OutsideStep
<1> QED
  BY <1>1, <1>2 DEF AWS

\* Whatever a pass over a subnet group does keeps to the life.
LEMMA GroupLives == Invariant /\ GroupController => Invariant' /\ Lives
<1> SUFFICES ASSUME Invariant, GroupController PROVE Invariant' /\ Lives
  OBVIOUS
<1>1. CASE ReadGroup
  BY <1>1, NextCalls, FoundLives DEF ReadGroup, Watched
<1>2. CASE CreateReplicationSubnetGroup
  <2>1. PICK value : object' = [status |-> "complete", tags |-> desired.spec.tags, value |-> value]
    BY <1>2 DEF CreateReplicationSubnetGroup
  <2>2. "status" \in DOMAIN object' /\ object'.status = "complete"
    BY <2>1
  <2> QED
    BY <1>2, <2>2, CreationLives DEF CreateReplicationSubnetGroup, Watched
<1>3. CASE ModifyReplicationSubnetGroup
  <2>1. "status" \in DOMAIN object' /\ object'.status = "complete"
    BY <1>3 DEF ModifyReplicationSubnetGroup, Invariant, Shaped
  <2> QED
    BY <1>3, <2>1, ModificationLives DEF ModifyReplicationSubnetGroup, Watched
<1>4. CASE DeleteReplicationSubnetGroup
  BY <1>4, DeletionEnds DEF DeleteReplicationSubnetGroup, NoObject, local
<1>5. CASE RemoveGroupTags \/ AddGroupTags
  BY <1>5, NextCalls, RemoveTagsLives, AddTagsLives DEF RemoveGroupTags, AddGroupTags
<1> QED
  BY <1>1, <1>2, <1>3, <1>4, <1>5, RuntimeLives
  DEF GroupController, GroupReads, GroupChanges, GroupPatches, ReadCreatedGroup, Runtime

\* Every step preserves the invariant and keeps to the life.
LEMMA StepLives == Invariant /\ [Next]_kindVars => Invariant' /\ Lives
<1>1. Invariant /\ UNCHANGED kindVars => Invariant' /\ Lives
  BY DEF kindVars, vars, Invariant, Shaped, Managed, Lives
<1> QED
  BY <1>1, UserLives, AWSLives, CertificateLives, SubscriptionLives, GroupLives
  DEF Next, CertificateNext, SubscriptionNext, GroupNext

\* Where the pass stands, what it knows and what exists agree on whether the resource is managed.
THEOREM StaysManaged == Spec => []Invariant
<1>1. Init => Invariant
  BY DEF Init, PlainInit, NoResource, NoObject, Invariant, Shaped, Managed, Phase
<1>2. Invariant /\ [Next]_kindVars => Invariant'
  BY StepLives
<1> QED
  BY <1>1, <1>2, PTL DEF Spec

\* No certificate, subscription or subnet group exists without a custom resource that carries the
\* finalizer.
THEOREM NothingOrphaned == Spec => []NoOrphan
BY StaysManaged, ManagedIsNoOrphan, PTL

\* The reconciliation of each of the three kinds implements the life of a managed resource.
THEOREM LivesAsPromised == Spec => ImplementsPromise
<1>1. Init => Promise!Init
  BY DEF Init, PlainInit, NoResource, NoObject, Promise!Init
<1>2. Invariant /\ [Next]_kindVars => [Promise!Next]_(Promise!vars)
  BY StepLives, LivesIsPromised
<1> QED
  BY <1>1, <1>2, StaysManaged, PTL DEF Spec, ImplementsPromise, Promise!Spec

-----------------------------------------------------------------------------
(* Types *)

\* A copy with other fields, tags or status is a copy.
LEMMA CopyParts ==
  ASSUME NEW statuses, NEW ko \in ResourceOf(Values, statuses),
         NEW field \in [Field -> Values], NEW tags \in SUBSET Tag,
         NEW status \in [object : statuses \union {"unset"}, synced : Synced, terminal : BOOLEAN]
  PROVE  /\ [ko EXCEPT !.spec.field = field] \in ResourceOf(Values, statuses)
         /\ [ko EXCEPT !.spec.tags = tags] \in ResourceOf(Values, statuses)
         /\ [ko EXCEPT !.spec.field = field, !.spec.tags = tags] \in ResourceOf(Values, statuses)
         /\ [ko EXCEPT !.status = status] \in ResourceOf(Values, statuses)
         /\ [ko EXCEPT !.finalizer = TRUE] \in ResourceOf(Values, statuses)
BY DEF ResourceOf

\* Nothing is set in what does not exist.
LEMMA NothingType ==
  ASSUME NEW statuses
  PROVE  NoResource \in ResourceOf(Values, statuses) /\ NoObject \in AWSObject(statuses)
<1>1. /\ NoSpec \in [field : [Field -> Values], tags : SUBSET Tag]
      /\ NoSpec.field \in [Field -> Values]
  BY DEF NoSpec, Values
<1> QED
  BY <1>1 DEF NoResource, NoObject, NoStatus, ResourceOf, AWSObject, Phase, Synced

\* What AWS has been given, or chooses, are values.
LEMMA GivenType ==
  ASSUME NEW statuses, desired \in ResourceOf(Values, statuses), NEW fields, NEW i,
         i.value \in [Field -> Values]
  PROVE  /\ Given(fields, i) \in [Field -> Values]
         /\ \A f \in Field \intersect fields :
              desired.spec.field[f] \in {Unset, Given(fields, i)[f]}
<1>1. desired.spec.field \in [Field -> Values]
  BY DEF ResourceOf
<1> QED
  BY <1>1 DEF Given

\* What sets some fields sets them to values.
LEMMA FilledType ==
  ASSUME NEW fields, NEW values \in SUBSET Values, NEW v \in Filled(fields, values)
  PROVE  v \in [Field -> Values]
BY DEF Filled, Values

\* What is learned from an answer: the values of the fields that it tells, the status.
Learned(statuses, fields, ko, i, seen) ==
  /\ seen \in ResourceOf(Values, statuses) /\ seen.phase = ko.phase
  /\ \A f \in Field : seen.spec.field[f] = IF f \in fields THEN i.value[f] ELSE ko.spec.field[f]
  /\ seen.spec.tags = ko.spec.tags /\ seen.status.object = i.status

\* An answer leaves a copy that has learned it.
LEMMA ObservedCopy ==
  ASSUME NEW statuses, NEW fields, NEW ko \in ResourceOf(Values, statuses),
         NEW i \in AWSObject(statuses), i.status # "none"
  PROVE  Learned(statuses, fields, ko, i, Observed(fields, ko, i))
<1>1. PICK field : field = [f \in Field |-> IF f \in fields THEN i.value[f] ELSE ko.spec.field[f]]
  OBVIOUS
<1>2. field \in [Field -> Values]
  BY <1>1 DEF ResourceOf, AWSObject
<1>3. PICK seen : seen = [ko EXCEPT !.spec.field = field, !.status.object = i.status]
  OBVIOUS
<1>4. Observed(fields, ko, i) = seen
  BY <1>1, <1>3 DEF Observed
<1>5. /\ seen \in ResourceOf(Values, statuses) /\ seen.phase = ko.phase
      /\ seen.spec.field = field
      /\ seen.spec.tags = ko.spec.tags /\ seen.status.object = i.status
  BY <1>2, <1>3 DEF ResourceOf, AWSObject
<1> QED
  BY <1>1, <1>4, <1>5 DEF Learned

\* What a read finds: the tags, too, unless a deletion is requested.
FindsIn(statuses, fields, ko, found) ==
  /\ found \in ResourceOf(Values, statuses)
  /\ \A f \in Field \intersect fields : found.spec.field[f] = object.value[f]
  /\ ~DeleteRequested(ko) => found.spec.tags = object.tags
  /\ found.status.object = object.status

\* A read leaves a copy that has found the object.
LEMMA FoundCopy ==
  ASSUME NEW statuses, NEW fields, NEW ko \in ResourceOf(Values, statuses),
         object \in AWSObject(statuses), object.status # "none", NEW tags \in SUBSET Tag,
         ~DeleteRequested(ko) => tags = object.tags
  PROVE  FindsIn(statuses, fields, ko, [Observed(fields, ko, object) EXCEPT !.spec.tags = tags])
<1>1. PICK seen : seen = Observed(fields, ko, object)
  OBVIOUS
<1>2. Learned(statuses, fields, ko, object, seen)
  BY <1>1, ObservedCopy
<1>3. PICK found : found = [seen EXCEPT !.spec.tags = tags]
  OBVIOUS
<1>4. /\ found \in ResourceOf(Values, statuses) /\ found.spec.field = seen.spec.field
      /\ found.spec.tags = tags /\ found.status = seen.status
  BY <1>2, <1>3 DEF Learned, ResourceOf
<1>5. FindsIn(statuses, fields, ko, found)
  BY <1>2, <1>4 DEF Learned, FindsIn
<1> QED
  BY <1>1, <1>3, <1>5

\* So do the reads of the three kinds.
LEMMA Finds ==
  ASSUME NEW statuses, NEW ko \in ResourceOf(Values, statuses),
         object \in AWSObject(statuses), object.status # "none"
  PROVE  /\ FindsIn(statuses, CertificateFound, ko, FindCertificate(ko))
         /\ FindsIn(statuses, SubscriptionFound, ko, FindSubscription(ko))
         /\ FindsIn(statuses, GroupFound, ko, FindGroup(ko))
<1>1. object.tags \in SUBSET Tag
  BY DEF AWSObject
<1>2. ASSUME NEW fields
      PROVE  FindsIn(statuses, fields, ko,
               [Observed(fields, ko, object) EXCEPT
                  !.spec.tags = IF DeleteRequested(ko) THEN @ ELSE object.tags])
  <2>1. PICK tags : tags = IF DeleteRequested(ko)
                           THEN Observed(fields, ko, object).spec.tags ELSE object.tags
    OBVIOUS
  <2>2. tags \in SUBSET Tag
    <3>1. Learned(statuses, fields, ko, object, Observed(fields, ko, object))
      BY ObservedCopy
    <3> QED
      BY <1>1, <2>1, <3>1 DEF Learned, ResourceOf
  <2>3. FindsIn(statuses, fields, ko, [Observed(fields, ko, object) EXCEPT !.spec.tags = tags])
    BY <2>1, <2>2, FoundCopy
  <2> QED
    BY <2>1, <2>3
<1>3. FindsIn(statuses, CertificateFound, ko, FindCertificate(ko))
  BY <1>1, FoundCopy DEF FindCertificate
<1> QED
  BY <1>2, <1>3 DEF FindSubscription, FindGroup

\* What a pass takes.
LEMMA TakenType ==
  ASSUME NEW statuses, cr \in ResourceOf(Values, statuses)
  PROVE  /\ Taken \in ResourceOf(Values, statuses)
         /\ Taken.spec = cr.spec /\ Taken.phase = cr.phase
BY DEF Taken, ResourceOf, Synced

\* The user keeps to the types.
LEMMA UserTyped ==
  ASSUME NEW statuses, TypeOKOf(statuses), NEW fields, NEW immutable, User(fields, immutable)
  PROVE  TypeOKOf(statuses)'
<1> USE EditsAssumption DEF TypeOKOf
<1>1. CASE UserDeletes
  <2>1. cr' \in ResourceOf(Values, statuses)
    BY <1>1, NothingType DEF UserDeletes, ResourceOf, Phase
  <2> QED
    BY <1>1, <2>1 DEF UserDeletes, local
<1>2. ASSUME UserEdits, cr' \in ResourceOf(Values, statuses)
      PROVE  TypeOKOf(statuses)'
  BY <1>2 DEF UserEdits, local
<1>3. CASE \E s \in Filled(fields, Values), t \in SUBSET Tag :
             UserCreates([field |-> s, tags |-> t])
  <2>1. PICK s \in Filled(fields, Values), t \in SUBSET Tag : UserCreates([field |-> s, tags |-> t])
    BY <1>3
  <2>2. s \in [Field -> Values]
    BY FilledType
  <2>3. cr' \in ResourceOf(Values, statuses)
    BY <2>1, <2>2, NothingType DEF UserCreates, ResourceOf, Phase
  <2> QED
    BY <1>2, <2>1, <2>3 DEF UserCreates
<1>4. CASE \E f \in Field : \E v \in ChoiceOf(f) : UserSets(f, v)
  <2>0. PICK f \in Field : \E v \in ChoiceOf(f) : UserSets(f, v)
    BY <1>4
  <2>1. PICK v \in ChoiceOf(f) : UserSets(f, v)
    BY <2>0
  <2>2. v \in Values
    BY DEF ChoiceOf, Values
  <2>3. cr' \in ResourceOf(Values, statuses)
    BY <2>1, <2>2 DEF UserSets, ResourceOf
  <2> QED
    BY <1>2, <2>1, <2>3 DEF UserSets
<1>5. CASE \E tags \in SUBSET Tag : UserSetsTags(tags)
  <2>1. PICK tags \in SUBSET Tag : UserSetsTags(tags)
    BY <1>5
  <2>2. cr' \in ResourceOf(Values, statuses)
    BY <2>1, CopyParts DEF UserSetsTags, ResourceOf
  <2> QED
    BY <1>2, <2>1, <2>2 DEF UserSetsTags
<1> QED
  BY <1>1, <1>3, <1>4, <1>5 DEF User

\* The stages that steps lead to.
LEMMA Stages ==
  /\ {"idle", "read", "markManaged", "create", "readCreated", "removeTags", "addTags", "modify",
      "delete", "patchSpec", "removeFinalizer", "patchStatus", "patched", "patchError",
      "patchTerminal"} \subseteq Stage
  /\ \A want, have : /\ AfterCertificateTags(want, have) \in Stage
                     /\ AfterSubscriptionTags(want, have) \in Stage
                     /\ AfterGroupTags(want, have) \in Stage
                     /\ DeleteStep(have) \in Stage
                     /\ FirstOfTags(want, have) \in Stage
                     /\ \A after \in Stage : UpdateStep(want, have, after) \in Stage
<1>1. {"idle", "read", "markManaged", "create", "readCreated", "removeTags", "addTags", "modify",
       "delete", "patchSpec", "removeFinalizer", "patchStatus", "patched", "patchError",
       "patchTerminal"} \subseteq Stage
  BY DEF Stage, Call
<1> QED
  BY <1>1 DEF AfterCertificateTags, AfterSubscriptionTags, AfterGroupTags, DeleteStep, FirstOfTags,
              UpdateStep

\* What a patch makes of Spec, unless the API server refuses it: the fields and the tags in which
\* the copies differ become those of latest.
LEMMA Patched ==
  ASSUME NEW statuses, TypeOKOf(statuses), NEW immutable, PatchPlainSpec(immutable)
  PROVE  /\ pc = "patchSpec" /\ UNCHANGED <<object, local, edits>>
         /\ cr' \in ResourceOf(Values, statuses) /\ cr'.phase = cr.phase
         /\ \/ pc' = "patchError" /\ cr' = cr
            \/ /\ pc' = "patched"
               /\ cr'.spec.tags = IF latest.spec.tags # desired.spec.tags
                                  THEN latest.spec.tags ELSE cr.spec.tags
               /\ \A f \in Field :
                    cr'.spec.field[f] = IF latest.spec.field[f] # desired.spec.field[f]
                                        THEN latest.spec.field[f] ELSE cr.spec.field[f]
<1> DEFINE same == Delta(desired, latest) = {} /\ desired.spec.tags = latest.spec.tags
<1>1. PICK from : /\ PatchSpecKeeping(immutable, from, latest.spec)
                  /\ from = IF same THEN latest.spec ELSE desired.spec
  BY DEF PatchPlainSpec
<1>2. /\ from.tags = desired.spec.tags
      /\ \A f \in Field : from.field[f] = desired.spec.field[f]
  BY <1>1 DEF Delta
<1>3. CASE PatchSpec(from, latest.spec)
  <2>1. PICK field, tags :
          /\ field = [f \in Field |-> IF latest.spec.field[f] # from.field[f]
                                      THEN latest.spec.field[f] ELSE cr.spec.field[f]]
          /\ tags = IF latest.spec.tags # from.tags THEN latest.spec.tags ELSE cr.spec.tags
    OBVIOUS
  <2>2. cr' = [cr EXCEPT !.spec.field = field, !.spec.tags = tags]
    BY <1>3, <2>1 DEF PatchSpec
  <2>3. field \in [Field -> Values] /\ tags \in SUBSET Tag
    BY <2>1 DEF TypeOKOf, ResourceOf
  <2>4. /\ cr' \in ResourceOf(Values, statuses) /\ cr'.phase = cr.phase
        /\ cr'.spec.field = field /\ cr'.spec.tags = tags
    BY <2>2, <2>3 DEF TypeOKOf, ResourceOf
  <2>5. pc = "patchSpec" /\ pc' = "patched" /\ UNCHANGED <<object, local, edits>>
    BY <1>3 DEF PatchSpec
  <2>6. cr'.spec.tags = IF latest.spec.tags # desired.spec.tags
                        THEN latest.spec.tags ELSE cr.spec.tags
    BY <1>2, <2>1, <2>4
  <2>7. \A f \in Field :
          cr'.spec.field[f] = IF latest.spec.field[f] # desired.spec.field[f]
                              THEN latest.spec.field[f] ELSE cr.spec.field[f]
    <3>1. TAKE f \in Field
    <3>2. cr'.spec.field[f] = IF latest.spec.field[f] # from.field[f]
                              THEN latest.spec.field[f] ELSE cr.spec.field[f]
      BY <2>1, <2>4
    <3>3. from.field[f] = desired.spec.field[f]
      BY <1>2
    <3> QED
      BY <3>2, <3>3
  <2> QED
    BY <2>4, <2>5, <2>6, <2>7
<1>4. CASE pc = "patchSpec" /\ pc' = "patchError" /\ UNCHANGED <<cr, object, local, edits>>
  BY <1>4 DEF TypeOKOf
<1> QED
  BY <1>1, <1>3, <1>4 DEF PatchSpecKeeping

\* The status after a pass.
LEMMA StatusPatched ==
  ASSUME NEW statuses, TypeOKOf(statuses), NEW isSynced, PatchStatus(isSynced)
  PROVE  /\ cr' \in ResourceOf(Values, statuses) /\ cr'.phase = cr.phase /\ cr'.spec = cr.spec
         /\ cr.phase # "absent" => /\ cr'.status.synced = SyncedCondition(isSynced)
                                   /\ cr'.status.terminal <=> pc = "patchTerminal"
<1>1. CASE cr.phase = "absent"
  BY <1>1 DEF PatchStatus, TypeOKOf
<1>2. CASE cr.phase # "absent"
  <2>1. PICK synced, terminal : /\ synced = SyncedCondition(isSynced)
                                /\ terminal = (pc = "patchTerminal")
    OBVIOUS
  <2>2. synced \in Synced /\ terminal \in BOOLEAN
    BY <2>1 DEF SyncedCondition, TypeOKOf, ResourceOf, Synced
  <2>3. cr' = [cr EXCEPT !.status = [latest.status EXCEPT !.synced = synced,
                                                          !.terminal = terminal]]
    BY <1>2, <2>1 DEF PatchStatus
  <2>4. /\ cr' \in ResourceOf(Values, statuses) /\ cr'.phase = cr.phase /\ cr'.spec = cr.spec
        /\ cr'.status.synced = synced /\ cr'.status.terminal = terminal
    BY <2>2, <2>3 DEF TypeOKOf, ResourceOf
  <2> QED
    BY <2>1, <2>4
<1> QED
  BY <1>1, <1>2

\* What the runtime does keeps to the types.
LEMMA RuntimeTyped ==
  ASSUME NEW statuses, TypeOKOf(statuses),
         \/ Reconcile \/ ReadNotFound \/ MarkManaged \/ RemoveFinalizer \/ CallFailsOr({}) \/ Crash
         \/ \E ko \in ResourceOf(Values, statuses) : ReadCreated(ko)
         \/ \E immutable : PatchPlainSpec(immutable)
         \/ \E isSynced : PatchStatus(isSynced)
  PROVE  TypeOKOf(statuses)'
<1> USE DEF TypeOKOf, local
<1>1. CASE Reconcile
  BY <1>1, TakenType, Stages DEF Reconcile, Begins
<1>2. CASE ReadNotFound
  BY <1>2, Stages DEF ReadNotFound
<1>3. CASE MarkManaged
  BY <1>3, Stages DEF MarkManaged, ResourceOf
<1>4. CASE RemoveFinalizer \/ Crash
  BY <1>4, NothingType, Stages DEF RemoveFinalizer, Crash, PassEnds
<1>5. CASE CallFailsOr({})
  BY <1>5, Stages DEF CallFailsOr
<1>6. CASE \E ko \in ResourceOf(Values, statuses) : ReadCreated(ko)
  <2>1. PICK ko \in ResourceOf(Values, statuses) : ReadCreated(ko)
    BY <1>6
  <2>2. latest' \in ResourceOf(Values, statuses)
    BY <2>1 DEF ReadCreated, ResourceOf
  <2> QED
    BY <2>1, <2>2, Stages DEF ReadCreated
<1>7. CASE \E immutable : PatchPlainSpec(immutable)
  BY <1>7, Patched, Stages
<1>8. CASE \E isSynced : PatchStatus(isSynced)
  BY <1>8, StatusPatched, NothingType, Stages DEF PatchStatus, PassEnds
<1> QED
  BY <1>1, <1>2, <1>3, <1>4, <1>5, <1>6, <1>7, <1>8

\* So do the steps that a kind supplies.
LEMMA StepsTyped ==
  ASSUME NEW statuses, TypeOKOf(statuses), NEW ko \in ResourceOf(Values, statuses),
         NEW next \in Stage,
         RemoveTags(next, ko) \/ AddTags(next, ko) \/ ReadFound(desired, ko, next)
  PROVE  TypeOKOf(statuses)'
<1> USE DEF TypeOKOf
<1>1. CASE RemoveTags(next, ko)
  <2>1. object' \in AWSObject(statuses)
    BY <1>1 DEF RemoveTags, AWSObject
  <2> QED
    BY <1>1, <2>1, Stages DEF RemoveTags
<1>2. CASE AddTags(next, ko)
  <2>1. object' \in AWSObject(statuses)
    BY <1>2 DEF AddTags, AWSObject, ResourceOf
  <2> QED
    BY <1>2, <2>1 DEF AddTags
<1>3. CASE ReadFound(desired, ko, next)
  BY <1>3 DEF ReadFound
<1> QED
  BY <1>1, <1>2, <1>3

\* A creation or a modification leaves an object and what its answer tells of it.
LEMMA AnswerTyped ==
  ASSUME NEW statuses, TypeOKOf(statuses), NEW fields,
         object' \in AWSObject(statuses), object'.status # "none",
         latest' = Observed(fields, desired, object'), pc' \in {"readCreated", "patchSpec"},
         UNCHANGED <<cr, desired, edits>>
  PROVE  TypeOKOf(statuses)' /\ Learned(statuses, fields, desired, object', latest')
<1>1. Learned(statuses, fields, desired, object', latest')
  BY ObservedCopy DEF TypeOKOf
<1> QED
  BY <1>1, Stages DEF TypeOKOf, Learned

\* An object that is gone keeps to the types, too.
LEMMA DeletedTyped ==
  ASSUME NEW statuses, TypeOKOf(statuses), object' = NoObject, pc' \in Stage,
         UNCHANGED <<cr, local, edits>>
  PROVE  TypeOKOf(statuses)'
BY NothingType DEF TypeOKOf, local

\* What an answer to a creation or a modification has to do with what was asked for: of what the
\* kind sends, the object has what is set.
Asked(statuses, sent, told) ==
  /\ object' \in AWSObject(statuses) /\ object'.status # "none"
  /\ object'.tags = IF pc = "create" THEN desired.spec.tags ELSE object.tags
  /\ \A f \in Field \intersect sent : desired.spec.field[f] \in {Unset, object'.value[f]}
  /\ Learned(statuses, told, desired, object', latest')
  /\ UNCHANGED <<cr, desired, edits>>

\* An import asks for what Spec sets.
LEMMA ImportAsks ==
  ASSUME TypeOKOf({"present"}), ImportCertificate
  PROVE  TypeOKOf({"present"})' /\ Asked({"present"}, ImportSent, ImportAnswered)
<1>1. PICK default \in Filled({"KMSKeyID"}, Plain) :
        /\ object' = [status |-> "present", tags |-> desired.spec.tags,
                      value |-> Given(ImportSent, [value |-> default])]
        /\ latest' = Observed(ImportAnswered, desired, object')
  BY DEF ImportCertificate
<1>2. PICK value : value = Given(ImportSent, [value |-> default])
  OBVIOUS
<1>3. /\ value \in [Field -> Values]
      /\ \A f \in Field \intersect ImportSent : desired.spec.field[f] \in {Unset, value[f]}
  BY <1>2, FilledType, GivenType DEF TypeOKOf, Values
<1>4. /\ object' \in AWSObject({"present"}) /\ object'.status # "none"
      /\ object'.tags = desired.spec.tags /\ object'.value = value
  BY <1>1, <1>2, <1>3 DEF TypeOKOf, ResourceOf, AWSObject
<1> QED
  BY <1>1, <1>3, <1>4, AnswerTyped DEF ImportCertificate, Asked

\* So do the creation and the modification of a subscription, but for the sources.
LEMMA SubscriptionAsks ==
  ASSUME TypeOKOf(SubscriptionStatus), CreateEventSubscription \/ ModifyEventSubscription
  PROVE  /\ TypeOKOf(SubscriptionStatus)'
         /\ Asked(SubscriptionStatus, SubscriptionModifySent, SubscriptionFound)
<1>1. CASE CreateEventSubscription
  <2>1. PICK chosen \in Filled(SubscriptionField, Plain) :
          /\ object' = [status |-> "creating", tags |-> desired.spec.tags,
                        value |-> Given(SubscriptionCreateSent, [value |-> chosen])]
          /\ latest' = Observed(SubscriptionFound, desired, object')
    BY <1>1 DEF CreateEventSubscription
  <2>2. PICK value : value = Given(SubscriptionCreateSent, [value |-> chosen])
    OBVIOUS
  <2>3. /\ value \in [Field -> Values]
        /\ \A f \in Field \intersect SubscriptionModifySent :
             desired.spec.field[f] \in {Unset, value[f]}
    BY <2>2, FilledType, GivenType
    DEF TypeOKOf, Values, SubscriptionCreateSent, SubscriptionModifySent
  <2>4. /\ object' \in AWSObject(SubscriptionStatus) /\ object'.status # "none"
        /\ object'.tags = desired.spec.tags /\ object'.value = value
    BY <2>1, <2>2, <2>3 DEF TypeOKOf, ResourceOf, AWSObject, SubscriptionStatus
  <2> QED
    BY <1>1, <2>1, <2>3, <2>4, AnswerTyped DEF CreateEventSubscription, Asked
<1>2. CASE ModifyEventSubscription
  <2>1. PICK value : value = Given(SubscriptionModifySent, object)
    OBVIOUS
  <2>2. /\ object' = [object EXCEPT !.status = "modifying", !.value = value]
        /\ latest' = Observed(SubscriptionFound, desired, object')
    BY <1>2, <2>1 DEF ModifyEventSubscription
  <2>3. /\ value \in [Field -> Values]
        /\ \A f \in Field \intersect SubscriptionModifySent :
             desired.spec.field[f] \in {Unset, value[f]}
    BY <2>1, GivenType DEF TypeOKOf, AWSObject
  <2>4. /\ object' \in AWSObject(SubscriptionStatus) /\ object'.status # "none"
        /\ object'.tags = object.tags /\ object'.value = value
    BY <2>2, <2>3 DEF TypeOKOf, AWSObject, SubscriptionStatus
  <2> QED
    BY <1>2, <2>2, <2>3, <2>4, AnswerTyped DEF ModifyEventSubscription, Asked
<1> QED
  BY <1>1, <1>2

\* AWS stores the name in another case and all else as it is.
LEMMA StoredType ==
  ASSUME NEW value \in [Field -> Values]
  PROVE  /\ Stored(value) \in [Field -> Values]
         /\ \A f \in Field \ {"Name"} : Stored(value)[f] = value[f]
BY NameAssumption DEF Stored, Values

\* So do those of a group, but for its name.
LEMMA GroupAsks ==
  ASSUME TypeOKOf({"complete"}),
         CreateReplicationSubnetGroup \/ ModifyReplicationSubnetGroup
  PROVE  /\ TypeOKOf({"complete"})'
         /\ Asked({"complete"}, GroupModifySent \ {"Name"}, {"Description", "Name"})
<1>1. CASE CreateReplicationSubnetGroup
  <2>1. PICK chosen \in Filled(GroupField, Plain) :
          /\ object' = [status |-> "complete", tags |-> desired.spec.tags,
                        value |-> Stored(Given(GroupCreateSent, [value |-> chosen]))]
          /\ latest' = Observed({"Description", "Name"}, desired, object')
    BY <1>1 DEF CreateReplicationSubnetGroup, GroupCreateAnswered
  <2>2. PICK given, value :
          given = Given(GroupCreateSent, [value |-> chosen]) /\ value = Stored(given)
    OBVIOUS
  <2>3. /\ given \in [Field -> Values]
        /\ \A f \in Field \intersect GroupModifySent : desired.spec.field[f] \in {Unset, given[f]}
    BY <2>2, FilledType, GivenType DEF TypeOKOf, Values, GroupCreateSent, GroupModifySent
  <2>4. /\ value \in [Field -> Values]
        /\ \A f \in Field \intersect (GroupModifySent \ {"Name"}) :
             desired.spec.field[f] \in {Unset, value[f]}
    BY <2>2, <2>3, StoredType
  <2>5. /\ object' \in AWSObject({"complete"}) /\ object'.status # "none"
        /\ object'.tags = desired.spec.tags /\ object'.value = value
    BY <2>1, <2>2, <2>4 DEF TypeOKOf, ResourceOf, AWSObject
  <2> QED
    BY <1>1, <2>1, <2>4, <2>5, AnswerTyped DEF CreateReplicationSubnetGroup, Asked
<1>2. CASE ModifyReplicationSubnetGroup
  <2>1. PICK given, value : given = Given(GroupModifySent, object) /\ value = Stored(given)
    OBVIOUS
  <2>2. /\ object' = [object EXCEPT !.value = value] /\ object.status = "complete"
        /\ latest' = Observed({"Description", "Name"}, desired, object')
    BY <1>2, <2>1 DEF ModifyReplicationSubnetGroup, GroupModifyAnswered
  <2>3. /\ given \in [Field -> Values]
        /\ \A f \in Field \intersect GroupModifySent : desired.spec.field[f] \in {Unset, given[f]}
    BY <2>1, GivenType DEF TypeOKOf, AWSObject
  <2>4. /\ value \in [Field -> Values]
        /\ \A f \in Field \intersect (GroupModifySent \ {"Name"}) :
             desired.spec.field[f] \in {Unset, value[f]}
    BY <2>1, <2>3, StoredType
  <2>5. /\ object' \in AWSObject({"complete"}) /\ object'.status # "none"
        /\ object'.tags = object.tags /\ object'.value = value
    BY <2>2, <2>4 DEF TypeOKOf, AWSObject
  <2> QED
    BY <1>2, <2>2, <2>4, <2>5, AnswerTyped DEF ModifyReplicationSubnetGroup, Asked
<1> QED
  BY <1>1, <1>2

\* Every step over a certificate keeps to the types.
LEMMA CertificateTyped ==
  ASSUME TypeOKOf({"present"}), CertificateNext
  PROVE  TypeOKOf({"present"})'
<1>1. CASE ReadCertificate
  <2>1. object.status # "none" /\ desired \in ResourceOf(Values, {"present"})
        /\ object \in AWSObject({"present"})
    BY <1>1 DEF ReadCertificate, ReadFound, TypeOKOf
  <2>2. FindCertificate(desired) \in ResourceOf(Values, {"present"})
    BY <2>1, Finds DEF FindsIn
  <2>3. \A have : CustomSdkUpdate(desired, have) \in Stage
    BY Stages DEF CustomSdkUpdate
  <2> QED
    BY <1>1, <2>2, <2>3, Stages, StepsTyped DEF ReadCertificate
<1>2. CASE ReadImported
  <2>1. latest \in ResourceOf(Values, {"present"}) /\ object \in AWSObject({"present"})
        /\ object.status # "none"
    BY <1>2 DEF ReadImported, ReadCreated, TypeOKOf
  <2>2. FindCertificate(latest) \in ResourceOf(Values, {"present"})
    BY <2>1, Finds DEF FindsIn
  <2> QED
    BY <1>2, <2>2, RuntimeTyped DEF ReadImported
<1>3. CASE RemoveCertificateTags \/ AddCertificateTags
  <2>1. Updated \in ResourceOf(Values, {"present"})
    BY DEF Updated, TypeOKOf
  <2> QED
    BY <1>3, <2>1, Stages, StepsTyped DEF RemoveCertificateTags, AddCertificateTags
<1>4. CASE DeleteCertificate
  BY <1>4, DeletedTyped, Stages DEF DeleteCertificate
<1> QED
  BY <1>1, <1>2, <1>3, <1>4, ImportAsks, RuntimeTyped, UserTyped
  DEF CertificateNext, CertificateController, CertificateReads, CertificateChanges,
      CertificatePatches

\* What AWS does by itself keeps to the types.
LEMMA AWSTyped ==
  ASSUME TypeOKOf(SubscriptionStatus), AWS
  PROVE  TypeOKOf(SubscriptionStatus)'
<1> USE DEF TypeOKOf, Becomes, local
<1>1. CASE SubscriptionIsDeleted
  BY <1>1, NothingType DEF SubscriptionIsDeleted
<1>2. CASE SubscriptionSettles \/ TopicIsLost \/ TopicReturns
  <2>1. PICK s \in Settled : Becomes([object EXCEPT !.status = s])
    BY <1>2 DEF SubscriptionSettles, TopicIsLost, TopicReturns, Settled
  <2>2. object' \in AWSObject(SubscriptionStatus)
    BY <2>1 DEF AWSObject, Settled, SubscriptionStatus
  <2> QED
    BY <2>1, <2>2
<1> QED
  BY <1>1, <1>2 DEF AWS

\* Every step over a subscription keeps to the types.
LEMMA SubscriptionTyped ==
  ASSUME TypeOKOf(SubscriptionStatus), SubscriptionNext
  PROVE  TypeOKOf(SubscriptionStatus)'
<1>1. CASE ReadSubscription
  <2>1. /\ object.status # "none" /\ desired \in ResourceOf(Values, SubscriptionStatus)
        /\ object \in AWSObject(SubscriptionStatus)
    BY <1>1 DEF ReadSubscription, ReadFound, TypeOKOf
  <2>2. FindSubscription(desired) \in ResourceOf(Values, SubscriptionStatus)
    BY <2>1, Finds DEF FindsIn
  <2> QED
    BY <1>1, <2>2, Stages, StepsTyped DEF ReadSubscription
<1>2. CASE ReadCreatedSubscription
  <2>1. /\ latest \in ResourceOf(Values, SubscriptionStatus)
        /\ object \in AWSObject(SubscriptionStatus) /\ object.status # "none"
    BY <1>2 DEF ReadCreatedSubscription, ReadCreated, TypeOKOf
  <2>2. FindSubscription(latest) \in ResourceOf(Values, SubscriptionStatus)
    BY <2>1, Finds DEF FindsIn
  <2> QED
    BY <1>2, <2>2, RuntimeTyped DEF ReadCreatedSubscription
<1>3. CASE RemoveSubscriptionTags \/ AddSubscriptionTags
  <2>1. Updated \in ResourceOf(Values, SubscriptionStatus)
    BY DEF Updated, TypeOKOf
  <2> QED
    BY <1>3, <2>1, Stages, StepsTyped DEF RemoveSubscriptionTags, AddSubscriptionTags
<1>4. CASE DeleteEventSubscription
  <2>1. /\ object' \in AWSObject(SubscriptionStatus)
        /\ latest' \in ResourceOf(Values, SubscriptionStatus)
    BY <1>4
    DEF DeleteEventSubscription, TypeOKOf, AWSObject, ResourceOf, SubscriptionStatus
  <2> QED
    BY <1>4, <2>1, Stages DEF DeleteEventSubscription, TypeOKOf
<1> QED
  BY <1>1, <1>2, <1>3, <1>4, SubscriptionAsks, RuntimeTyped, UserTyped, AWSTyped
  DEF SubscriptionNext, SubscriptionController, SubscriptionReads, SubscriptionChanges,
      SubscriptionPatches

\* Every step over a subnet group keeps to the types.
LEMMA GroupTyped ==
  ASSUME TypeOKOf({"complete"}), GroupNext
  PROVE  TypeOKOf({"complete"})'
<1>1. CASE ReadGroup
  <2>1. object.status # "none" /\ desired \in ResourceOf(Values, {"complete"})
        /\ object \in AWSObject({"complete"})
    BY <1>1 DEF ReadGroup, ReadFound, TypeOKOf
  <2>2. FindGroup(desired) \in ResourceOf(Values, {"complete"})
    BY <2>1, Finds DEF FindsIn
  <2> QED
    BY <1>1, <2>2, Stages, StepsTyped DEF ReadGroup
<1>2. CASE ReadCreatedGroup
  <2>1. latest \in ResourceOf(Values, {"complete"}) /\ object \in AWSObject({"complete"})
        /\ object.status # "none"
    BY <1>2 DEF ReadCreatedGroup, ReadCreated, TypeOKOf
  <2>2. FindGroup(latest) \in ResourceOf(Values, {"complete"})
    BY <2>1, Finds DEF FindsIn
  <2> QED
    BY <1>2, <2>2, RuntimeTyped DEF ReadCreatedGroup
<1>3. CASE RemoveGroupTags \/ AddGroupTags
  <2>1. Updated \in ResourceOf(Values, {"complete"})
    BY DEF Updated, TypeOKOf
  <2> QED
    BY <1>3, <2>1, Stages, StepsTyped DEF RemoveGroupTags, AddGroupTags
<1>4. CASE DeleteReplicationSubnetGroup
  BY <1>4, DeletedTyped, Stages DEF DeleteReplicationSubnetGroup
<1> QED
  BY <1>1, <1>2, <1>3, <1>4, GroupAsks, RuntimeTyped, UserTyped
  DEF GroupNext, GroupController, GroupReads, GroupChanges, GroupPatches

\* The statuses of a kind's object.
StatusesOf(k) ==
  CASE k = "Certificate" -> {"present"}
    [] k = "EventSubscription" -> SubscriptionStatus
    [] OTHER -> {"complete"}

Typed == kind \in Kind /\ TypeOKOf(StatusesOf(kind))

\* That is the type invariant of the specification.
LEMMA TypedIsTypeOK == Typed <=> TypeOK
BY DEF Typed, TypeOK, Kind, StatusesOf, CertificateTypeOK, SubscriptionTypeOK, GroupTypeOK

\* Every step keeps to the types.
LEMMA StepTyped == Typed /\ [Next]_kindVars => Typed'
<1> SUFFICES ASSUME Typed, [Next]_kindVars PROVE Typed'
  OBVIOUS
<1>1. CASE UNCHANGED kindVars
  BY <1>1 DEF kindVars, vars, Typed, TypeOKOf
<1>2. CASE Next
  <2>1. kind' = kind
    BY <1>2 DEF Next
  <2>2. TypeOKOf(StatusesOf(kind))'
    <3>1. CASE kind = "Certificate"
      BY <1>2, <2>1, <3>1, CertificateTyped DEF Next, Typed, StatusesOf
    <3>2. CASE kind = "EventSubscription"
      BY <1>2, <2>1, <3>2, SubscriptionTyped DEF Next, Typed, StatusesOf
    <3>3. CASE kind = "ReplicationSubnetGroup"
      BY <1>2, <2>1, <3>3, GroupTyped DEF Next, Typed, StatusesOf
    <3> QED
      BY <3>1, <3>2, <3>3 DEF Typed, Kind
  <2> QED
    BY <2>1, <2>2 DEF Typed
<1> QED
  BY <1>1, <1>2

\* So all is typed, always.
LEMMA StaysTyped == Spec => []Typed
<1>1. Init => Typed
  BY NothingType, Stages, EditsAssumption DEF Init, PlainInit, Typed, TypeOKOf
<1> QED
  BY <1>1, StepTyped, PTL DEF Spec

\* The copies, the objects and the resource are well-formed, whatever the kind.
THEOREM TypeCorrect == Spec => []TypeOK
BY StaysTyped, TypedIsTypeOK, PTL

-----------------------------------------------------------------------------
(* What a pass knows *)

\* The stages after a read that has found the object, or a call that has created it.
Informed == {"removeTags", "addTags", "modify", "readCreated", "patchSpec", "patched",
             "patchStatus", "patchTerminal"}

ImmutableFields ==
  CASE kind = "Certificate" -> CertificateImmutable
    [] kind = "EventSubscription" -> SubscriptionImmutable
    [] OTHER -> GroupImmutable

\* The fields whose values a pass reports on.
Reported ==
  CASE kind = "Certificate" -> {"KMSKeyID"}
    [] kind = "EventSubscription" -> SubscriptionField
    [] OTHER -> GroupField \ {"Name"}

\* The tags of the object are those last read, less and more what the calls since have taken and
\* given.
TagsFollow ==
  object.tags =
    CASE pc \in {"removeTags", "readCreated", "patchSpec", "patched"} -> latest.spec.tags
      [] pc = "addTags" -> latest.spec.tags \intersect desired.spec.tags
      [] OTHER -> desired.spec.tags

\* The object exists, with the tags and the values that the pass believes in.
InPlace ==
  /\ object.status # "none"
  /\ TagsFollow
  /\ \A f \in Field \intersect Reported :
       /\ latest.spec.field[f] \in {Unset, object.value[f]}
       /\ pc = "patchStatus" => desired.spec.field[f] \in {Unset, object.value[f]}

\* What is set, and may change, the answers have confirmed.
Answered ==
  \A f \in Field \ ImmutableFields : desired.spec.field[f] \in {Unset, latest.spec.field[f]}

\* A subscription that was settled when it was read stays so until it is modified.
StaysSettled ==
  /\ /\ pc \in {"removeTags", "addTags"} /\ latest.status.object \in Settled
     => object.status \in Settled
  /\ pc = "modify" => object.status \in Settled

\* AWS has what a pass that has seen the object, or made it, knows of it, unless the resource is
\* being deleted.
Knows ==
  /\ pc \in Informed => cr.phase = "deleting" \/ InPlace
  /\ pc \in {"readCreated", "patchSpec"} => Answered
  /\ kind = "EventSubscription" => StaysSettled

\* A step that leaves the object, the copies and the stage alone, and undoes no deletion.
LEMMA KnowsKept ==
  ASSUME Knows, UNCHANGED <<object, local, pc, kind>>,
         cr.phase = "deleting" => cr'.phase = "deleting" \/ pc \notin Informed
  PROVE  Knows'
BY DEF Knows, InPlace, TagsFollow, Reported, Answered, ImmutableFields, StaysSettled, local

\* A step that ends in no stage that is informed.
LEMMA KnowsNothing ==
  ASSUME pc' \notin Informed PROVE Knows'
BY DEF Knows, Informed, StaysSettled

\* The user touches nothing that a pass knows.
LEMMA UserKnows ==
  ASSUME Invariant, Knows, NEW fields, NEW immutable, User(fields, immutable), UNCHANGED kind
  PROVE  Knows'
<1>1. UNCHANGED <<object, local, pc, kind>>
  BY DEF User, UserCreates, UserSets, UserSetsTags, UserDeletes, UserEdits
<1>2. cr.phase = "deleting" => cr'.phase = "deleting"
  BY DEF User, UserCreates, UserSets, UserSetsTags, UserDeletes, Invariant, Shaped
<1> QED
  BY <1>1, <1>2, KnowsKept

\* What the runtime does and a kind has no part in.
LEMMA RuntimeKnows ==
  ASSUME NEW statuses, TypeOKOf(statuses), Invariant, Knows, UNCHANGED kind,
         \/ Reconcile \/ ReadNotFound \/ MarkManaged \/ RemoveFinalizer \/ CallFailsOr({}) \/ Crash
         \/ \E ko : ReadCreated(ko)
         \/ \E immutable : PatchPlainSpec(immutable)
         \/ \E isSynced : PatchStatus(isSynced)
  PROVE  Knows'
<1>1. CASE Reconcile \/ ReadNotFound \/ MarkManaged \/ RemoveFinalizer \/ CallFailsOr({}) \/ Crash
  <2>1. pc' \notin Informed
    BY <1>1 DEF Reconcile, Begins, ReadNotFound, MarkManaged, RemoveFinalizer, CallFailsOr, Crash,
                PassEnds, Informed
  <2> QED
    BY <2>1, KnowsNothing
<1>2. CASE \E ko : ReadCreated(ko)
  <2>1. PICK ko : ReadCreated(ko)
    BY <1>2
  <2>2. /\ pc = "readCreated" /\ pc' = "patchSpec" /\ latest'.spec = latest.spec
        /\ UNCHANGED <<cr, object, desired, kind>>
    BY <2>1 DEF ReadCreated, TypeOKOf, ResourceOf
  <2> QED
    BY <2>2 DEF Knows, Informed, InPlace, TagsFollow, Reported, Answered, ImmutableFields,
                StaysSettled
<1>3. CASE \E immutable : PatchPlainSpec(immutable)
  <2>1. /\ pc = "patchSpec" /\ pc' \in {"patched", "patchError"} /\ cr'.phase = cr.phase
        /\ UNCHANGED <<object, local, kind>>
    BY <1>3, Patched
  <2> QED
    BY <2>1 DEF Knows, Informed, InPlace, TagsFollow, Reported, StaysSettled, local
<1>4. CASE \E isSynced : PatchStatus(isSynced)
  <2>1. pc' \notin Informed
    BY <1>4 DEF PatchStatus, PassEnds, Informed
  <2> QED
    BY <2>1, KnowsNothing
<1> QED
  BY <1>1, <1>2, <1>3, <1>4

\* A read that finds the object, for a resource that stays, knows it; next is what the kind makes
\* of it.
LEMMA ReadKnows ==
  ASSUME NEW statuses, TypeOKOf(statuses), NEW fields, NEW found, NEW next,
         FindsIn(statuses, fields, desired, found), Reported \subseteq fields,
         ReadFound(desired, found, next), UNCHANGED kind,
         DeleteRequested(desired) => next \notin Informed,
         ~DeleteRequested(desired) => next \notin {"readCreated", "patchSpec", "patched"},
         next = "removeTags" \/ next = "addTags" \/ desired.spec.tags = found.spec.tags
         \/ next \notin Informed,
         next = "addTags" => found.spec.tags \subseteq desired.spec.tags,
         next = "patchStatus" => Delta(desired, found) = {},
         kind = "EventSubscription" /\ next = "modify" => found.status.object \in Settled
  PROVE  Knows'
<1>1. CASE DeleteRequested(desired)
  BY <1>1, KnowsNothing DEF ReadFound
<1>2. CASE ~DeleteRequested(desired)
  <2>1. /\ pc' = next /\ desired' = desired /\ latest' = found /\ UNCHANGED <<cr, object>>
        /\ object.status # "none"
    BY DEF ReadFound
  <2>2. /\ found.spec.tags = object.tags /\ found.status.object = object.status
        /\ \A f \in Field \intersect fields : found.spec.field[f] = object.value[f]
    BY <1>2 DEF FindsIn
  <2>3. next \in Informed => InPlace'
    <3>1. next \in Informed => TagsFollow'
      BY <1>2, <2>1, <2>2 DEF TagsFollow, Informed
    <3>2. \A f \in Field \intersect Reported :
            /\ found.spec.field[f] = object.value[f]
            /\ next = "patchStatus" => desired.spec.field[f] = object.value[f]
      BY <2>2 DEF Delta
    <3> QED
      BY <2>1, <3>1, <3>2 DEF InPlace, Reported
  <2>4. kind = "EventSubscription" => StaysSettled'
    BY <2>1, <2>2 DEF StaysSettled
  <2> QED
    BY <1>2, <2>1, <2>3, <2>4 DEF Knows
<1> QED
  BY <1>1, <1>2

\* The calls that change the tags bring them to those desired.
LEMMA TagsKnow ==
  ASSUME NEW statuses, TypeOKOf(statuses), Knows, UNCHANGED kind, NEW next,
         RemoveTags(next, Updated) \/ AddTags(next, Updated),
         next \in {"modify", "patchStatus", "patchTerminal", "patchError"},
         next = "patchStatus" => Delta(desired, latest) = {},
         kind = "EventSubscription" /\ next = "modify" => latest.status.object \in Settled
  PROVE  Knows'
<1>1. /\ pc \in {"removeTags", "addTags"} /\ object.status # "none"
      /\ UNCHANGED <<cr, desired, kind>>
  BY DEF RemoveTags, AddTags
<1>2. /\ object' = [object EXCEPT !.tags = object'.tags]
      /\ object'.status = object.status /\ object'.value = object.value
  BY DEF RemoveTags, AddTags, TypeOKOf, AWSObject
<1>3. \/ pc = "removeTags" /\ pc' = "addTags" /\ latest' = latest
      \/ pc' = next /\ latest' = Updated
  BY DEF RemoveTags, AddTags
<1>4. InPlace => TagsFollow'
  <2>1. CASE RemoveTags(next, Updated)
    BY <2>1, <1>1 DEF InPlace, TagsFollow, RemoveTags, TypeOKOf, AWSObject
  <2>2. CASE AddTags(next, Updated)
    BY <2>2, <1>1 DEF InPlace, TagsFollow, AddTags, TypeOKOf, AWSObject
  <2> QED
    BY <2>1, <2>2
<1>5. \A f \in Field : /\ latest'.spec.field[f] \in {latest.spec.field[f]}
                       /\ pc' = "patchStatus" => desired.spec.field[f] = latest.spec.field[f]
  BY <1>3 DEF Updated, Delta
<1>6. InPlace => InPlace'
  BY <1>1, <1>2, <1>4, <1>5 DEF InPlace, Reported
<1>7. kind = "EventSubscription" => StaysSettled'
  BY <1>1, <1>2, <1>3 DEF Knows, StaysSettled
<1> QED
  BY <1>1, <1>3, <1>6, <1>7 DEF Knows, Informed

\* A creation or a modification tells what AWS has.
LEMMA AnswerKnows ==
  ASSUME NEW statuses, TypeOKOf(statuses), Knows, UNCHANGED kind, NEW sent, NEW told,
         Asked(statuses, sent, told), pc \in {"create", "modify"},
         pc' \in {"readCreated", "patchSpec"},
         Field \intersect Reported \subseteq sent \union told,
         (Field \ ImmutableFields) \intersect told \subseteq sent
  PROVE  Knows'
<1>1. /\ UNCHANGED <<cr, desired>> /\ object'.status # "none"
      /\ latest'.spec.tags = desired.spec.tags
      /\ \A f \in Field \intersect sent : desired.spec.field[f] \in {Unset, object'.value[f]}
      /\ \A f \in Field : latest'.spec.field[f] = IF f \in told THEN object'.value[f]
                                                  ELSE desired.spec.field[f]
  BY DEF Asked, Learned
<1>2. cr.phase = "deleting" \/ object'.tags = desired.spec.tags
  BY DEF Asked, Knows, Informed, InPlace, TagsFollow
<1>3. object'.tags = desired.spec.tags => InPlace'
  <2>1. \A f \in Field \intersect Reported : latest'.spec.field[f] \in {Unset, object'.value[f]}
    BY <1>1
  <2> QED
    BY <1>1, <2>1 DEF InPlace, TagsFollow, Reported
<1>4. Answered'
  <2>1. \A f \in Field \ ImmutableFields : desired.spec.field[f] \in {Unset, latest'.spec.field[f]}
    BY <1>1
  <2> QED
    BY <1>1, <2>1 DEF Answered, ImmutableFields
<1>5. StaysSettled'
  BY DEF StaysSettled
<1> QED
  BY <1>1, <1>2, <1>3, <1>4, <1>5 DEF Knows

\* What an update begins with.
LEMMA UpdateBegins ==
  ASSUME NEW want, NEW have, NEW after,
         after \in {"modify", "patchStatus", "patchTerminal", "patchError"}
  PROVE  /\ UpdateStep(want, have, after) \in {"removeTags", "addTags", after}
         /\ \/ UpdateStep(want, have, after) \in {"removeTags", "addTags"}
            \/ want.spec.tags = have.spec.tags
         /\ UpdateStep(want, have, after) = "addTags" => have.spec.tags \subseteq want.spec.tags
BY DEF UpdateStep, FirstOfTags

\* Every step over a certificate keeps what a pass knows true.
LEMMA CertificateKnows ==
  ASSUME kind = "Certificate", UNCHANGED kind, TypeOKOf({"present"}), Invariant, Knows,
         CertificateNext
  PROVE  Knows'
<1>1. \A want, have :
        /\ AfterCertificateTags(want, have) \in {"patchStatus", "patchTerminal"}
        /\ AfterCertificateTags(want, have) = "patchStatus" => Delta(want, have) = {}
  BY DEF AfterCertificateTags
<1>2. CASE ReadCertificate
  <2>1. PICK found, next :
          /\ found = FindCertificate(desired)
          /\ next = IF DeleteRequested(desired) THEN "delete" ELSE CustomSdkUpdate(desired, found)
    OBVIOUS
  <2>2. ReadFound(desired, found, next)
    BY <1>2, <2>1 DEF ReadCertificate
  <2>3. FindsIn({"present"}, CertificateFound, desired, found)
    BY <2>1, <2>2, Finds DEF ReadFound, TypeOKOf
  <2>4. /\ DeleteRequested(desired) => next \notin Informed
        /\ ~DeleteRequested(desired) => next \notin {"readCreated", "patchSpec", "patched"}
        /\ \/ next = "removeTags" \/ next = "addTags" \/ desired.spec.tags = found.spec.tags
           \/ next \notin Informed
        /\ next = "addTags" => found.spec.tags \subseteq desired.spec.tags
        /\ next = "patchStatus" => Delta(desired, found) = {}
    BY <1>1, <2>1, UpdateBegins DEF CustomSdkUpdate, Informed
  <2> QED
    BY <2>2, <2>3, <2>4, ReadKnows DEF Reported, CertificateFound
<1>3. CASE RemoveCertificateTags \/ AddCertificateTags
  BY <1>1, <1>3, TagsKnow DEF RemoveCertificateTags, AddCertificateTags
<1>4. CASE ImportCertificate
  <2>1. Asked({"present"}, ImportSent, ImportAnswered) /\ pc = "create" /\ pc' = "readCreated"
    BY <1>4, ImportAsks DEF ImportCertificate
  <2> QED
    BY <2>1, AnswerKnows DEF Reported, ImportSent, ImportAnswered, CertificateField
<1>5. CASE DeleteCertificate
  BY <1>5, KnowsNothing DEF DeleteCertificate, Informed
<1> QED
  BY <1>2, <1>3, <1>4, <1>5, RuntimeKnows, UserKnows
  DEF CertificateNext, CertificateController, CertificateReads, CertificateChanges,
      CertificatePatches, ReadImported

\* What AWS does by itself does, too.
LEMMA AWSKnows ==
  ASSUME UNCHANGED kind, TypeOKOf(SubscriptionStatus), Invariant, Knows, AWS
  PROVE  Knows'
<1>1. UNCHANGED <<cr, local, pc, kind>>
  BY DEF AWS, SubscriptionSettles, TopicIsLost, TopicReturns, SubscriptionIsDeleted, Becomes
<1>2. CASE SubscriptionIsDeleted
  <2>1. cr.phase = "deleting" /\ object.status \notin Settled
    BY <1>2 DEF SubscriptionIsDeleted, Invariant, Managed, Settled
  <2> QED
    BY <1>1, <2>1 DEF Knows, StaysSettled, Answered, ImmutableFields, local
<1>3. CASE SubscriptionSettles \/ TopicIsLost \/ TopicReturns
  <2>1. PICK s \in Settled : object' = [object EXCEPT !.status = s]
    BY <1>3 DEF SubscriptionSettles, TopicIsLost, TopicReturns, Becomes, Settled
  <2>2. /\ object'.status \in Settled /\ object'.status # "none"
        /\ object'.tags = object.tags /\ object'.value = object.value
    BY <2>1 DEF TypeOKOf, AWSObject, Settled
  <2> QED
    BY <1>1, <2>2 DEF Knows, InPlace, TagsFollow, Reported, StaysSettled, Answered,
                      ImmutableFields, local
<1> QED
  BY <1>2, <1>3 DEF AWS

\* So does every step over a subscription.
LEMMA SubscriptionKnows ==
  ASSUME kind = "EventSubscription", UNCHANGED kind, TypeOKOf(SubscriptionStatus), Invariant,
         Knows, SubscriptionNext
  PROVE  Knows'
<1>1. \A want, have :
        /\ AfterSubscriptionTags(want, have) \in {"modify", "patchStatus", "patchError"}
        /\ AfterSubscriptionTags(want, have) = "patchStatus" => Delta(want, have) = {}
        /\ AfterSubscriptionTags(want, have) = "modify" => have.status.object \in Settled
  BY DEF AfterSubscriptionTags
<1>2. CASE ReadSubscription
  <2>1. PICK found, next :
          /\ found = FindSubscription(desired)
          /\ next = IF DeleteRequested(desired) THEN DeleteStep(found)
                    ELSE UpdateStep(desired, found, AfterSubscriptionTags(desired, found))
    OBVIOUS
  <2>2. ReadFound(desired, found, next)
    BY <1>2, <2>1 DEF ReadSubscription
  <2>3. FindsIn(SubscriptionStatus, SubscriptionFound, desired, found)
    BY <2>1, <2>2, Finds DEF ReadFound, TypeOKOf
  <2>4. /\ DeleteRequested(desired) => next \notin Informed
        /\ ~DeleteRequested(desired) => next \notin {"readCreated", "patchSpec", "patched"}
        /\ \/ next = "removeTags" \/ next = "addTags" \/ desired.spec.tags = found.spec.tags
           \/ next \notin Informed
        /\ next = "addTags" => found.spec.tags \subseteq desired.spec.tags
        /\ next = "patchStatus" => Delta(desired, found) = {}
        /\ next = "modify" => found.status.object \in Settled
    BY <1>1, <2>1, UpdateBegins, NextCalls DEF Informed
  <2> QED
    BY <2>2, <2>3, <2>4, ReadKnows DEF Reported, SubscriptionFound
<1>3. CASE RemoveSubscriptionTags \/ AddSubscriptionTags
  BY <1>1, <1>3, TagsKnow DEF RemoveSubscriptionTags, AddSubscriptionTags
<1>4. CASE CreateEventSubscription \/ ModifyEventSubscription
  <2>1. /\ Asked(SubscriptionStatus, SubscriptionModifySent, SubscriptionFound)
        /\ pc \in {"create", "modify"} /\ pc' \in {"readCreated", "patchSpec"}
    BY <1>4, SubscriptionAsks DEF CreateEventSubscription, ModifyEventSubscription
  <2> QED
    BY <2>1, AnswerKnows
    DEF Reported, ImmutableFields, SubscriptionFound, SubscriptionModifySent,
        SubscriptionImmutable
<1>5. CASE DeleteEventSubscription
  BY <1>5, KnowsNothing DEF DeleteEventSubscription, Informed
<1> QED
  BY <1>2, <1>3, <1>4, <1>5, RuntimeKnows, UserKnows, AWSKnows
  DEF SubscriptionNext, SubscriptionController, SubscriptionReads, SubscriptionChanges,
      SubscriptionPatches, ReadCreatedSubscription

\* So does every step over a subnet group.
LEMMA GroupKnows ==
  ASSUME kind = "ReplicationSubnetGroup", UNCHANGED kind, TypeOKOf({"complete"}), Invariant,
         Knows, GroupNext
  PROVE  Knows'
<1>1. \A want, have :
        /\ AfterGroupTags(want, have) \in {"modify", "patchStatus"}
        /\ AfterGroupTags(want, have) = "patchStatus" => Delta(want, have) = {}
  BY DEF AfterGroupTags
<1>2. CASE ReadGroup
  <2>1. PICK found, next :
          /\ found = FindGroup(desired)
          /\ next = IF DeleteRequested(desired) THEN "delete"
                    ELSE UpdateStep(desired, found, AfterGroupTags(desired, found))
    OBVIOUS
  <2>2. ReadFound(desired, found, next)
    BY <1>2, <2>1 DEF ReadGroup
  <2>3. FindsIn({"complete"}, GroupFound, desired, found)
    BY <2>1, <2>2, Finds DEF ReadFound, TypeOKOf
  <2>4. /\ DeleteRequested(desired) => next \notin Informed
        /\ ~DeleteRequested(desired) => next \notin {"readCreated", "patchSpec", "patched"}
        /\ \/ next = "removeTags" \/ next = "addTags" \/ desired.spec.tags = found.spec.tags
           \/ next \notin Informed
        /\ next = "addTags" => found.spec.tags \subseteq desired.spec.tags
        /\ next = "patchStatus" => Delta(desired, found) = {}
    BY <1>1, <2>1, UpdateBegins DEF Informed
  <2> QED
    BY <2>2, <2>3, <2>4, ReadKnows DEF Reported, GroupFound
<1>3. CASE RemoveGroupTags \/ AddGroupTags
  BY <1>1, <1>3, TagsKnow DEF RemoveGroupTags, AddGroupTags
<1>4. CASE CreateReplicationSubnetGroup \/ ModifyReplicationSubnetGroup
  <2>1. /\ Asked({"complete"}, GroupModifySent \ {"Name"}, {"Description", "Name"})
        /\ pc \in {"create", "modify"} /\ pc' \in {"readCreated", "patchSpec"}
    BY <1>4, GroupAsks DEF CreateReplicationSubnetGroup, ModifyReplicationSubnetGroup
  <2> QED
    BY <2>1, AnswerKnows DEF Reported, ImmutableFields, GroupModifySent, GroupField, GroupImmutable
<1>5. CASE DeleteReplicationSubnetGroup
  BY <1>5, KnowsNothing DEF DeleteReplicationSubnetGroup, Informed
<1> QED
  BY <1>2, <1>3, <1>4, <1>5, RuntimeKnows, UserKnows
  DEF GroupNext, GroupController, GroupReads, GroupChanges, GroupPatches, ReadCreatedGroup

\* So does every step.
LEMMA StepKnows == Typed /\ Invariant /\ Knows /\ [Next]_kindVars => Knows'
<1> SUFFICES ASSUME Typed, Invariant, Knows, [Next]_kindVars PROVE Knows'
  OBVIOUS
<1>1. CASE UNCHANGED kindVars
  BY <1>1, KnowsKept DEF kindVars, vars, local
<1>2. CASE Next
  <2>1. CASE kind = "Certificate"
    BY <1>2, <2>1, CertificateKnows DEF Next, Typed, StatusesOf
  <2>2. CASE kind = "EventSubscription"
    BY <1>2, <2>2, SubscriptionKnows DEF Next, Typed, StatusesOf
  <2>3. CASE kind = "ReplicationSubnetGroup"
    BY <1>2, <2>3, GroupKnows DEF Next, Typed, StatusesOf
  <2> QED
    BY <2>1, <2>2, <2>3 DEF Typed, Kind
<1> QED
  BY <1>1, <1>2

\* What a pass knows is always true.
LEMMA StaysKnown == Spec => [](Typed /\ Invariant /\ Knows)
<1>1. Init => Knows
  BY DEF Init, PlainInit, Knows, Informed, StaysSettled
<1> QED
  BY <1>1, StepKnows, StaysTyped, StaysManaged, PTL DEF Spec

\* A pass that reports on a Spec that it has seen has the tags that Spec asks for in place and,
\* unless something was refused, the values.
LEMMA ReportHolds ==
  ASSUME NEW statuses, TypeOKOf(statuses), Invariant, Knows, NEW isSynced, Reports(isSynced)
  PROVE  /\ object.tags = cr.spec.tags
         /\ ~cr'.status.terminal =>
              \A f \in Field \intersect Reported : cr.spec.field[f] \in {Unset, object.value[f]}
<1>1. /\ pc \in {"patchStatus", "patched", "patchError", "patchTerminal"}
      /\ cr'.phase = cr.phase /\ cr.phase = "live"
      /\ SyncedCondition(isSynced) = "True"
      /\ cr'.status.terminal <=> pc = "patchTerminal"
  BY StatusPatched DEF Reports, PatchStatus
<1>2. ~DeleteRequested(desired)
  BY <1>1 DEF Invariant, Managed, DeleteRequested
<1>3. pc # "patchError"
  BY <1>1, <1>2 DEF SyncedCondition
<1>4. InPlace
  BY <1>1, <1>3 DEF Knows, Informed
<1>5. cr.spec = IF pc = "patched" THEN latest.spec ELSE desired.spec
  BY DEF Reports, Unedited
<1> QED
  BY <1>1, <1>3, <1>4, <1>5 DEF InPlace, TagsFollow

\* A patch of Spec undoes nothing that is set, may change, and has been seen.
LEMMA PatchHolds ==
  ASSUME NEW statuses, TypeOKOf(statuses), Knows, PatchPlainSpec(ImmutableFields)
  PROVE  \A f \in Field \ ImmutableFields :
           cr.spec.field[f] # Unset /\ cr.spec.field[f] = desired.spec.field[f]
           => cr'.spec.field[f] = cr.spec.field[f]
<1>1. Answered
  BY Patched DEF Knows
<1> SUFFICES ASSUME NEW f \in Field \ ImmutableFields, cr.spec.field[f] # Unset,
                    cr.spec.field[f] = desired.spec.field[f]
             PROVE  cr'.spec.field[f] = cr.spec.field[f]
  OBVIOUS
<1>2. latest.spec.field[f] = desired.spec.field[f]
  BY <1>1 DEF Answered
<1> QED
  BY <1>2, Patched

\* A certificate whose edit is refused for good still gets the tags that were asked for with it.
THEOREM TagsAreKept == Spec => TagsDespiteRefusal
<1>1. Typed /\ Invariant /\ Knows => (kind = "Certificate" => CertificateTagged)
  BY ReportHolds DEF Typed, CertificateTagged, Has
<1> QED
  BY <1>1, StaysKnown, PTL DEF TagsDespiteRefusal

\* Synced becomes True, without a terminal error, only over an object that has what Spec sets; and
\* no answer of AWS undoes an edit that the pass has seen.
THEOREM WrittenHolds == Spec => WritesWhatHolds
<1>1. ASSUME Typed, Invariant, Knows
      PROVE  /\ kind = "Certificate" => CertificateConfigured
             /\ kind = "EventSubscription" => SubscriptionConfigured
             /\ kind = "ReplicationSubnetGroup" => GroupConfigured
  <2>1. ASSUME NEW isSynced, ReportsSuccess(isSynced)
        PROVE  Has(Reported)
    BY <1>1, <2>1, ReportHolds DEF Typed, ReportsSuccess, Has
  <2> QED
    BY <2>1 DEF CertificateConfigured, SubscriptionConfigured, GroupConfigured, Reported
<1>2. ASSUME Typed, Invariant, Knows
      PROVE  /\ kind = "EventSubscription" => SubscriptionKeepsEdits
             /\ kind = "ReplicationSubnetGroup" => GroupKeepsEdits
  BY <1>2, PatchHolds DEF Typed, ImmutableFields, SubscriptionKeepsEdits, GroupKeepsEdits
<1> QED
  BY <1>1, <1>2, StaysKnown, PTL DEF WritesWhatHolds, SyncedMeansConfigured, KeepsEdits

\* A subscription that is to be modified is one that AWS is not at work on: what was read before
\* the tags were changed still holds after.
THEOREM ModificationsFit == Spec => []ModifyFits
<1>1. Knows => ModifyFits
  BY DEF Knows, StaysSettled, ModifyFits, SubscriptionModifyFits
<1> QED
  BY <1>1, StaysKnown, PTL

-----------------------------------------------------------------------------
(* Every pass comes to its end *)

\* The user and AWS leave the pass where it is.
LEMMA OthersLeavePass ==
  /\ \A fields, immutable : User(fields, immutable) => pc' = pc
  /\ AWS => pc' = pc
<1>1. \A fields, immutable : User(fields, immutable) => pc' = pc
  BY DEF User, UserCreates, UserSets, UserSetsTags, UserDeletes, UserEdits
<1>2. AWS => pc' = pc
  BY DEF AWS, SubscriptionSettles, TopicIsLost, TopicReturns, SubscriptionIsDeleted, Becomes
<1> QED
  BY <1>1, <1>2

\* What a read leads to is never another read, and the tags are followed by what comes after them.
LEMMA NextStages ==
  ASSUME NEW want, NEW have
  PROVE  /\ AfterCertificateTags(want, have) \in AfterTheTags
         /\ AfterSubscriptionTags(want, have) \in AfterTheTags
         /\ AfterGroupTags(want, have) \in AfterTheTags
         /\ \A after \in AfterTheTags : UpdateStep(want, have, after) \in Stage \ {"read"}
         /\ {DeleteStep(have), "delete"} \subseteq Stage \ {"read"}
BY DEF AfterCertificateTags, AfterSubscriptionTags, AfterGroupTags, UpdateStep, FirstOfTags,
       DeleteStep, AfterTheTags, Stage, Call

\* The steps that the three kinds share lead a pass on.
LEMMA RuntimeAdvances == pc \in Stage /\ pc # "idle" /\ Runtime => Forward
<1>1. CASE \E immutable : PatchPlainSpec(immutable)
  BY <1>1, PatchesAdvance DEF PatchPlainSpec
<1> QED
  BY <1>1, ReadingAdvances, ManagingAdvances, PatchesAdvance, FailuresAdvance
  DEF Runtime, Reconcile, Begins

\* So do the steps of a certificate, which end with a tag or a terminal error.
LEMMA CertificateAdvances == pc \in Stage /\ pc # "idle" /\ CertificateController => Forward
<1> SUFFICES ASSUME pc \in Stage, pc # "idle", CertificateController PROVE Forward
  OBVIOUS
<1>1. CASE ReadCertificate
  BY <1>1, NextStages, ReadingAdvances DEF ReadCertificate, CustomSdkUpdate
<1>2. CASE ImportCertificate \/ DeleteCertificate
  BY <1>2, ChangesAdvance DEF ImportCertificate, DeleteCertificate
<1>3. CASE RemoveCertificateTags \/ AddCertificateTags
  BY <1>3, NextStages, TagsAdvance DEF RemoveCertificateTags, AddCertificateTags
<1>4. CASE ReadImported
  BY <1>4, ReadingAdvances DEF ReadImported
<1> QED
  BY <1>1, <1>2, <1>3, <1>4, RuntimeAdvances
  DEF CertificateController, CertificateReads, CertificateChanges, CertificatePatches, Runtime

\* So do those of a subscription.
LEMMA SubscriptionAdvances == pc \in Stage /\ pc # "idle" /\ SubscriptionController => Forward
<1> SUFFICES ASSUME pc \in Stage, pc # "idle", SubscriptionController PROVE Forward
  OBVIOUS
<1>1. CASE ReadSubscription
  BY <1>1, NextStages, ReadingAdvances DEF ReadSubscription
<1>2. CASE CreateEventSubscription \/ ModifyEventSubscription \/ DeleteEventSubscription
  BY <1>2, ChangesAdvance
  DEF CreateEventSubscription, ModifyEventSubscription, DeleteEventSubscription
<1>3. CASE RemoveSubscriptionTags \/ AddSubscriptionTags
  BY <1>3, NextStages, TagsAdvance DEF RemoveSubscriptionTags, AddSubscriptionTags
<1>4. CASE ReadCreatedSubscription
  BY <1>4, ReadingAdvances DEF ReadCreatedSubscription
<1> QED
  BY <1>1, <1>2, <1>3, <1>4, RuntimeAdvances
  DEF SubscriptionController, SubscriptionReads, SubscriptionChanges, SubscriptionPatches, Runtime

\* So do those of a subnet group.
LEMMA GroupAdvances == pc \in Stage /\ pc # "idle" /\ GroupController => Forward
<1> SUFFICES ASSUME pc \in Stage, pc # "idle", GroupController PROVE Forward
  OBVIOUS
<1>1. CASE ReadGroup
  BY <1>1, NextStages, ReadingAdvances DEF ReadGroup
<1>2. CASE CreateReplicationSubnetGroup \/ ModifyReplicationSubnetGroup
           \/ DeleteReplicationSubnetGroup
  BY <1>2, ChangesAdvance
  DEF CreateReplicationSubnetGroup, ModifyReplicationSubnetGroup, DeleteReplicationSubnetGroup
<1>3. CASE RemoveGroupTags \/ AddGroupTags
  BY <1>3, NextStages, TagsAdvance DEF RemoveGroupTags, AddGroupTags
<1>4. CASE ReadCreatedGroup
  BY <1>4, ReadingAdvances DEF ReadCreatedGroup
<1> QED
  BY <1>1, <1>2, <1>3, <1>4, RuntimeAdvances
  DEF GroupController, GroupReads, GroupChanges, GroupPatches, Runtime

\* A pass over a resource of these kinds never goes back and is over after six steps, whatever
\* fails: the half of DeletionCompletes and of ComesToRest that needs no fairness.
THEOREM PassesEnd == Spec => PassesAdvance
<1>1. TypeOK => pc \in Stage
  BY DEF TypeOK, Kind, CertificateTypeOK, SubscriptionTypeOK, GroupTypeOK, TypeOKOf
<1>2. TypeOK /\ [Next]_kindVars
      => [/\ kind = "Certificate" => Advances(CertificateController)
          /\ kind = "EventSubscription" => Advances(SubscriptionController)
          /\ kind = "ReplicationSubnetGroup" => Advances(GroupController)]_kindVars
  BY <1>1, OthersLeavePass, CertificateAdvances, SubscriptionAdvances, GroupAdvances
  DEF Next, CertificateNext, SubscriptionNext, GroupNext, Advances, Forward
<1> QED
  BY <1>1, <1>2, TypeCorrect, PTL DEF Spec, PassesAdvance
=============================================================================
