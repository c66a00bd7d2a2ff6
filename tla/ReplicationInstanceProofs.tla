--------------------- MODULE ReplicationInstanceProofs ---------------------
(***************************************************************************)
(* The passes over a replication instance are the life of a managed        *)
(* resource, whatever AWS does in between: for any fields, values, tags    *)
(* and number of edits.                                                    *)
(***************************************************************************)
EXTENDS ReplicationInstance, ReconcilePassProofs

\* Whatever the user does keeps to the life.
LEMMA UserLives == Invariant /\ User => Invariant' /\ Lives
<1> SUFFICES ASSUME Invariant, User PROVE Invariant' /\ Lives
  OBVIOUS
<1>1. CASE \E spec \in InstanceSpec : UserCreates(spec)
  BY <1>1, UserCreatesLives
<1>2. CASE \E f \in Setting : \E v \in ChoiceOf(f) : UserSets(f, v)
  BY <1>2, UserSetsLives
<1>3. CASE \E tags \in SUBSET Tag : UserSetsTags(tags)
  BY <1>3, UserSetsTagsLives
<1>4. CASE UserDeletes
  BY <1>4, UserDeletesLives
<1> QED
  BY <1>1, <1>2, <1>3, <1>4 DEF User

\* What AWS does by itself, but for the end of a deletion, begins and ends in other statuses.
LEMMA AWSLives == Invariant /\ AWS => Invariant' /\ Lives
<1> SUFFICES ASSUME Invariant, AWS PROVE Invariant' /\ Lives
  OBVIOUS
<1>other. ASSUME UNCHANGED <<cr, pc, local>>, object.status # "none",
                 "status" \in DOMAIN object', object'.status \notin {"none", "deleting"}
          PROVE  Invariant' /\ Lives
  <2>1. LifeUnchanged /\ UNCHANGED <<desired, pc>>
    BY <1>other DEF Invariant, Shaped, LifeUnchanged, local
  <2> QED
    BY <2>1, OutsideStep
<1> USE DEF Becomes
<1>1. CASE InstanceSettles
  BY <1>1, <1>other DEF InstanceSettles, Invariant, Shaped
<1>2. CASE ModificationStarts
  BY <1>2, <1>other DEF ModificationStarts, Invariant, Shaped
<1>3. CASE ModificationEnds
  BY <1>3, <1>other DEF ModificationEnds, Invariant, Shaped
<1>4. CASE ModificationFails
  BY <1>4, <1>other DEF ModificationFails, Invariant, Shaped
<1>5. CASE MinorUpgrade
  <2>1. PICK minor \in Minor :
          object' = [object EXCEPT !.status = "upgrading",
                                   !.value["EngineVersion"] = <<@[1], minor>>]
    BY <1>5 DEF MinorUpgrade
  <2>2. "status" \in DOMAIN object' /\ object'.status = "upgrading"
    BY <2>1 DEF Invariant, Shaped
  <2> QED
    BY <1>5, <2>2, <1>other DEF MinorUpgrade
<1>6. CASE InstanceFails
  BY <1>6, <1>other DEF InstanceFails, Invariant, Shaped
<1>7. CASE InstanceIsDeleted
  BY <1>7, DeletionEnds DEF InstanceIsDeleted, NoInstance, local
<1> QED
  BY <1>1, <1>2, <1>3, <1>4, <1>5, <1>6, <1>7 DEF AWS

\* The comparison changes the copy in nothing that its life is about.
LEMMA NormalizedCopy ==
  ASSUME Invariant, NEW have
  PROVE  /\ {"phase", "finalizer"} \subseteq DOMAIN Normalized(desired, have)
         /\ Normalized(desired, have).phase = desired.phase
         /\ Normalized(desired, have).finalizer = desired.finalizer
BY DEF Invariant, Shaped, Normalized

\* An update leads to no call that is watched.
LEMMA UpdateStepCall ==
  ASSUME NEW want, NEW have
  PROVE  AfterTags(want, have) \notin Watched /\ UpdateStep(want, have) \notin Watched
BY DEF AfterTags, UpdateStep, FirstOfTags, Watched

\* A deletion leads to the call or to another pass.
LEMMA DeleteStepCall ==
  ASSUME NEW have PROVE DeleteStep(have) \in {"delete", "patchError"}
BY DEF DeleteStep

\* Whatever a pass does keeps to the life.
LEMMA ControllerLives == Invariant /\ Controller => Invariant' /\ Lives
<1> SUFFICES ASSUME Invariant, Controller PROVE Invariant' /\ Lives
  OBVIOUS
<1>1. CASE ReadInstance
  <2> DEFINE found == SdkFind(desired)
  <2> HIDE DEF found
  <2>1. ReadFound(IF DeleteRequested(desired) THEN desired ELSE Normalized(desired, found), found,
              IF DeleteRequested(desired) THEN DeleteStep(found) ELSE UpdateStep(desired, found))
    BY <1>1 DEF ReadInstance, found
  <2>2. CASE DeleteRequested(desired)
    <3>1. ReadFound(desired, found, DeleteStep(found))
      BY <2>1, <2>2
    <3>2. DeleteStep(found) \in Watched
            => DeleteStep(found) = "delete" /\ desired.phase = "deleting"
      BY <2>2, DeleteStepCall DEF DeleteRequested, Watched
    <3>3. {"phase", "finalizer"} \subseteq DOMAIN desired
      BY DEF Invariant, Shaped
    <3> QED
      BY <3>1, <3>2, <3>3, ReadFoundLives
  <2>3. CASE ~DeleteRequested(desired)
    <3>1. ReadFound(Normalized(desired, found), found, UpdateStep(desired, found))
      BY <2>1, <2>3
    <3> QED
      BY <3>1, NormalizedCopy, UpdateStepCall, ReadFoundLives
  <2> QED
    BY <2>2, <2>3
<1>2. CASE SdkCreate
  <2>1. PICK given \in [Field -> Values] :
          object' = [NoInstance EXCEPT !.status = "creating", !.value = given,
                                       !.tags = desired.spec.tags]
    BY <1>2 DEF SdkCreate
  <2>2. "status" \in DOMAIN object' /\ object'.status = "creating"
    BY <2>1 DEF NoInstance
  <2> QED
    BY <1>2, <2>2, CreationLives DEF SdkCreate, Watched
<1>3. CASE ModifyReplicationInstance
  <2>1. PICK wanted : object' = Modified(object, wanted)
    BY <1>3 DEF ModifyReplicationInstance
  <2>2. "status" \in DOMAIN object' /\ object'.status = object.status
    BY <2>1 DEF Modified, Invariant, Shaped
  <2> QED
    BY <1>3, <2>2, ModificationLives DEF ModifyReplicationInstance, Watched
<1>4. CASE DeleteReplicationInstance
  <2>1. "status" \in DOMAIN object' /\ object'.status = "deleting"
    BY <1>4 DEF DeleteReplicationInstance, Invariant, Shaped
  <2> QED
    BY <1>4, <2>1, DeletionBegins DEF DeleteReplicationInstance, Watched
<1>5. CASE ReadCreatedInstance
  BY <1>5, ReadCreatedLives DEF ReadCreatedInstance
<1>6. CASE RemoveInstanceTags \/ AddInstanceTags
  BY <1>6, UpdateStepCall, RemoveTagsLives, AddTagsLives DEF RemoveInstanceTags, AddInstanceTags
<1>7. CASE PatchInstanceSpec
  BY <1>7, PatchSpecLives DEF PatchInstanceSpec
<1>8. CASE PatchStatus(IsSynced(latest))
  BY <1>8, PatchStatusLives
<1>9. CASE CallFails
  BY <1>9, CallFailsLives DEF CallFails
<1> QED
  BY <1>1, <1>2, <1>3, <1>4, <1>5, <1>6, <1>7, <1>8, <1>9, ReconcileLives, ReadNotFoundLives,
     MarkManagedLives, RemoveFinalizerLives, CrashLives DEF Controller

\* Every step preserves the invariant and keeps to the life.
LEMMA StepLives == Invariant /\ [Next]_vars => Invariant' /\ Lives
<1>1. Invariant /\ UNCHANGED vars => Invariant' /\ Lives
  BY DEF vars, Invariant, Shaped, Managed, Lives
<1> QED
  BY <1>1, UserLives, AWSLives, ControllerLives DEF Next

\* Where the pass stands, what it knows and what exists agree on whether the instance is managed.
THEOREM StaysManaged == Spec => []Invariant
<1>1. Init => Invariant
  BY DEF Init, NoResource, NoInstance, Invariant, Shaped, Managed, Phase
<1>2. Invariant /\ [Next]_vars => Invariant'
  BY StepLives
<1> QED
  BY <1>1, <1>2, PTL DEF Spec

\* No instance exists without a custom resource that carries the finalizer.
THEOREM NoInstanceOrphaned == Spec => []NoOrphan
BY StaysManaged, ManagedIsNoOrphan, PTL

\* The reconciliation of a replication instance implements the life of a managed resource.
THEOREM LivesAsPromised == Spec => ImplementsPromise
<1>1. Init => Promise!Init
  BY DEF Init, NoResource, NoInstance, Promise!Init
<1>2. Invariant /\ [Next]_vars => [Promise!Next]_(Promise!vars)
  BY StepLives, LivesIsPromised
<1> QED
  BY <1>1, <1>2, StaysManaged, PTL DEF Spec, ImplementsPromise, Promise!Spec

-----------------------------------------------------------------------------
(* Types *)

\* The copies of a resource whose fields have values of their own types.
Copy ==
  {ko \in ResourceOf(Values, InstanceStatus) :
     \A f \in Field : ko.spec.field[f] \in ChoiceOf(f) \union {Unset}}

\* The instances whose fields have values, and in which only some fields are pending.
Existing ==
  {i \in Instance :
     \A f \in Field :
       /\ i.value[f] \in ValueOf(f) \union {Unset}
       /\ i.status # "none" => i.value[f] \in ValueOf(f)
       /\ i.status = "none" => i.value[f] = Unset /\ i.pending[f] = Unset
       /\ i.pending[f] \in ValueOf(f) \union {Unset}
       /\ i.pending[f] # Unset => f \in Pendable}

\* Why the types are kept: each field has values of its own, wherever they come from.
Typed ==
  /\ cr \in Copy /\ desired \in Copy /\ latest \in Copy
  /\ object \in Existing
  /\ pc \in Stage /\ edits \in 0 .. MaxEdits

\* What a field can be set to, and what AWS can answer for it.
LEMMA FieldValues ==
  ASSUME NEW f \in Field
  PROVE  /\ ValueOf(f) \subseteq ChoiceOf(f) /\ ChoiceOf(f) \subseteq Values
         /\ Unset \in Values /\ Unset \notin ValueOf(f)
         /\ ChoiceOf(f) \subseteq ValueOf(f) \union {Unset, TooLarge}
<1>1. ValueOf(f) \subseteq Values /\ {Unset, TooLarge} \subseteq Values
  BY DEF Values
<1>2. /\ ValueOf(f) \subseteq ChoiceOf(f)
      /\ ChoiceOf(f) \subseteq ValueOf(f) \union {Unset, TooLarge}
  BY DEF ChoiceOf
<1>3. Unset \notin ValueOf(f)
  BY InstanceAssumption DEF ValueOf
<1> QED
  BY <1>1, <1>2, <1>3

\* Nothing is set in what does not exist.
LEMMA NothingType == NoResource \in Copy /\ NoInstance \in Existing
<1>1. /\ NoResource \in ResourceOf(Values, InstanceStatus) /\ NoInstance \in Instance
      /\ NoResource.spec.field = [f \in Field |-> Unset]
  BY DEF NoResource, NoSpec, NoStatus, ResourceOf, Phase, Synced, NoInstance, Instance, Values
<1> QED
  BY <1>1 DEF Copy, Existing, NoInstance

\* A copy with other fields, tags or status is a copy.
LEMMA FieldsType ==
  ASSUME NEW ko \in Copy, NEW field \in [Field -> Values],
         \A f \in Field : field[f] \in ChoiceOf(f) \union {Unset}
  PROVE  /\ [ko EXCEPT !.spec.field = field] \in Copy
         /\ [ko EXCEPT !.spec.field = field].spec.field = field
BY DEF Copy, ResourceOf

LEMMA TagsType ==
  ASSUME NEW ko \in Copy, NEW tags \in SUBSET Tag PROVE [ko EXCEPT !.spec.tags = tags] \in Copy
BY DEF Copy, ResourceOf

LEMMA StatusType ==
  ASSUME NEW ko \in Copy, NEW ok \in Copy
  PROVE  [ko EXCEPT !.status = ok.status] \in Copy
BY DEF Copy, ResourceOf

LEMMA ObjectType ==
  ASSUME NEW ko \in Copy, NEW s \in InstanceStatus \union {"unset"}
  PROVE  [ko EXCEPT !.status.object = s] \in Copy
BY DEF Copy, ResourceOf

\* What a read or an answer leaves of a copy is a copy.
LEMMA ObservedType ==
  ASSUME NEW fields, NEW ko \in Copy, NEW i \in Existing, i.status # "none"
  PROVE  Observed(fields, ko, i) \in Copy
<1> DEFINE field == WithPending([f \in Field |-> IF f \in fields THEN i.value[f]
                                                 ELSE ko.spec.field[f]], i)
<1>1. \A f \in Field : field[f] \in ChoiceOf(f) \union {Unset}
  BY FieldValues DEF WithPending, Existing, Copy
<1>2. field \in [Field -> Values]
  BY <1>1, FieldValues DEF WithPending
<1>3. SyncedSoFar(ko, i) \in Synced
  BY DEF SyncedSoFar, Synced, Copy, ResourceOf
<1>4. i.status \in InstanceStatus
  BY DEF Existing, Instance
<1> HIDE DEF field
<1>5. [ko EXCEPT !.spec.field = field, !.status.object = i.status,
                 !.status.synced = SyncedSoFar(ko, i)] \in Copy
  BY <1>1, <1>2, <1>3, <1>4 DEF Copy, ResourceOf
<1> QED
  BY <1>5 DEF Observed, field

LEMMA SdkFindType ==
  ASSUME Typed, NEW ko \in Copy, object.status # "none"
  PROVE  SdkFind(ko) \in Copy
<1>1. Observed(Found, ko, object) \in Copy
  BY ObservedType DEF Typed
<1>2. object.tags \in SUBSET Tag /\ ko.spec.tags \in SUBSET Tag
  BY DEF Typed, Existing, Instance, Copy, ResourceOf
<1>3. Observed(Found, ko, object).spec.tags = ko.spec.tags
  BY DEF Observed, Copy, ResourceOf
<1> QED
  BY <1>1, <1>2, <1>3, TagsType DEF SdkFind

\* The comparison leaves a version where there was one.
LEMMA NormalizedType ==
  ASSUME NEW want \in Copy, NEW have \in Copy PROVE Normalized(want, have) \in Copy
<1>1. CASE Normalized(want, have) = want
  BY <1>1
<1>2. CASE /\ "EngineVersion" \in Field
           /\ Normalized(want, have)
                = [want EXCEPT !.spec.field["EngineVersion"] = have.spec.field["EngineVersion"]]
  BY <1>2 DEF Copy, ResourceOf
<1> QED
  BY <1>1, <1>2 DEF Normalized

LEMMA UserTyped == Typed /\ User => Typed'
<1> SUFFICES ASSUME Typed, User PROVE Typed'
  OBVIOUS
<1> USE DEF Typed, UserEdits, local
<1>edit. edits < MaxEdits /\ edits' = edits + 1 => edits' \in 0 .. MaxEdits
  BY EditsAssumption
<1>1. ASSUME NEW spec \in InstanceSpec, UserCreates(spec) PROVE Typed'
  <2>1. /\ spec.field \in [Field -> Values] /\ spec.tags \in SUBSET Tag
        /\ spec = [field |-> spec.field, tags |-> spec.tags]
        /\ \A f \in Field : spec.field[f] \in ChoiceOf(f) \union {Unset}
    BY DEF InstanceSpec
  <2>2. cr' = [phase |-> "live", finalizer |-> FALSE, spec |-> spec, status |-> NoStatus]
    BY <1>1 DEF UserCreates, NoResource
  <2>3. NoStatus = NoResource.status
    BY DEF NoResource
  <2>4. cr' \in Copy
    BY <2>1, <2>2, <2>3, NothingType DEF Copy, ResourceOf, Phase
  <2> QED
    BY <1>1, <2>4, <1>edit DEF UserCreates
<1>2. ASSUME NEW f \in Setting, NEW v \in ChoiceOf(f), UserSets(f, v) PROVE Typed'
  <2>1. f \in Field /\ v \in Values
    BY InstanceAssumption, FieldValues
  <2>2. cr' = [cr EXCEPT !.spec.field = [cr.spec.field EXCEPT ![f] = v]]
    BY <1>2, <2>1 DEF UserSets, Copy, ResourceOf
  <2>3. /\ [cr.spec.field EXCEPT ![f] = v] \in [Field -> Values]
        /\ \A g \in Field : [cr.spec.field EXCEPT ![f] = v][g] \in ChoiceOf(g) \union {Unset}
    BY <2>1 DEF Copy, ResourceOf
  <2>4. cr' \in Copy
    BY <2>2, <2>3, FieldsType
  <2> QED
    BY <1>2, <2>4, <1>edit DEF UserSets
<1>3. ASSUME NEW tags \in SUBSET Tag, UserSetsTags(tags) PROVE Typed'
  BY <1>3, TagsType, <1>edit DEF UserSetsTags
<1>4. CASE UserDeletes
  <2>1. cr' \in Copy
    BY <1>4, NothingType DEF UserDeletes, Copy, ResourceOf, Phase
  <2> QED
    BY <1>4, <2>1 DEF UserDeletes
<1> QED
  BY <1>1, <1>2, <1>3, <1>4 DEF User

\* An instance with another status is an instance.
LEMMA InstanceStatusType ==
  ASSUME NEW i \in Existing, i.status # "none", NEW s \in InstanceStatus
  PROVE  /\ [i EXCEPT !.status = s] \in Existing
         /\ [i EXCEPT !.status = s, !.pending = NothingPending] \in Existing
         /\ [i EXCEPT !.status = s, !.value = Accepted(i), !.pending = NothingPending] \in Existing
<1>1. /\ NothingPending \in [Field -> Values]
      /\ \A f \in Field : NothingPending[f] = Unset
  BY DEF NothingPending, Values
<1>2. \A f \in Field : Accepted(i)[f] \in ValueOf(f)
  BY DEF Accepted, Existing
<1>3. Accepted(i) \in [Field -> Values]
  BY <1>2, FieldValues DEF Accepted
<1>4. /\ i \in Instance /\ i.status \in InstanceStatus /\ s # "none"
      /\ \A f \in Field : /\ i.value[f] \in ValueOf(f)
                          /\ i.pending[f] \in ValueOf(f) \union {Unset}
                          /\ i.pending[f] # Unset => f \in Pendable
  BY DEF Existing, Instance, InstanceStatus
<1>5. [i EXCEPT !.status = s] \in Existing
  BY <1>4 DEF Existing, Instance
<1>6. [i EXCEPT !.status = s, !.pending = NothingPending] \in Existing
  BY <1>1, <1>4 DEF Existing, Instance
<1>7. ASSUME NEW value \in [Field -> Values], \A f \in Field : value[f] \in ValueOf(f)
      PROVE  [i EXCEPT !.status = s, !.value = value, !.pending = NothingPending] \in Existing
  BY <1>1, <1>4, <1>7 DEF Existing, Instance
<1> QED
  BY <1>2, <1>3, <1>5, <1>6, <1>7

LEMMA AWSTyped == Typed /\ AWS => Typed'
<1> SUFFICES ASSUME Typed, AWS PROVE Typed'
  OBVIOUS
<1> USE DEF Typed, Becomes, local
<1>statuses. {"available", "modifying", "upgrading", "failed"} \subseteq InstanceStatus
  BY DEF InstanceStatus
<1>1. CASE InstanceSettles
  BY <1>1, <1>statuses, InstanceStatusType DEF InstanceSettles
<1>2. CASE ModificationStarts
  BY <1>2, <1>statuses, InstanceStatusType DEF ModificationStarts
<1>3. CASE ModificationEnds
  BY <1>3, <1>statuses, InstanceStatusType DEF ModificationEnds
<1>4. CASE ModificationFails
  BY <1>4, <1>statuses, InstanceStatusType DEF ModificationFails
<1>5. CASE MinorUpgrade
  <2>1. PICK minor \in Minor :
          object' = [object EXCEPT !.status = "upgrading",
                                   !.value["EngineVersion"] = <<@[1], minor>>]
    BY <1>5 DEF MinorUpgrade
  <2>2. "EngineVersion" \in Field /\ object.status # "none"
    BY <1>5 DEF MinorUpgrade
  <2>3. ValueOf("EngineVersion") = Major \X Minor
    BY DEF ValueOf
  <2>4. object.value["EngineVersion"] \in Major \X Minor
    BY <2>2, <2>3 DEF Existing
  <2> DEFINE v == <<object.value["EngineVersion"][1], minor>>
  <2>5. v \in ValueOf("EngineVersion") /\ v \in Values
    BY <2>2, <2>3, <2>4, FieldValues
  <2>6. object' = [object EXCEPT !.status = "upgrading",
                                 !.value = [object.value EXCEPT !["EngineVersion"] = v]]
    BY <2>1, <2>2 DEF Existing, Instance
  <2> HIDE DEF v
  <2>7. object' \in Existing
    BY <2>2, <2>5, <2>6, <1>statuses DEF Existing, Instance
  <2> QED
    BY <1>5, <2>7 DEF MinorUpgrade
<1>6. CASE InstanceFails
  BY <1>6, <1>statuses, InstanceStatusType DEF InstanceFails
<1>7. CASE InstanceIsDeleted
  BY <1>7, NothingType DEF InstanceIsDeleted
<1> QED
  BY <1>1, <1>2, <1>3, <1>4, <1>5, <1>6, <1>7 DEF AWS

\* What AWS makes of a modification is an instance: what is sent fits.
LEMMA ModifiedType ==
  ASSUME Typed, object.status # "none", Representable(desired.spec.field, Sent),
         NEW wanted, wanted = [f \in Field |-> Narrow(desired.spec.field[f])]
  PROVE  /\ Modified(object, wanted) \in Existing
         /\ \A f \in Sent : wanted[f] = desired.spec.field[f]
<1>1. Sent \subseteq Field
  BY DEF Sent, Delta
<1>2. \A f \in Sent : desired.spec.field[f] \notin {TooLarge, Unset}
  BY DEF Sent, Representable
<1>3. \A f \in Sent : wanted[f] = desired.spec.field[f]
  BY <1>1, <1>2 DEF Narrow
<1>4. \A f \in Sent : wanted[f] \in ValueOf(f)
  BY <1>1, <1>2, <1>3, FieldValues DEF Typed, Copy
<1> HIDE DEF Sent
<1> DEFINE value == [f \in Field |-> IF f \in Sent \ Pendable THEN wanted[f] ELSE object.value[f]]
           pending == [f \in Field |-> IF f \in Sent \intersect Pendable
                                       THEN IF wanted[f] = object.value[f] THEN Unset ELSE wanted[f]
                                       ELSE object.pending[f]]
<1>5. \A f \in Field : /\ value[f] \in ValueOf(f)
                       /\ pending[f] \in ValueOf(f) \union {Unset}
                       /\ pending[f] # Unset => f \in Pendable
  BY <1>4 DEF Typed, Existing
<1>6. value \in [Field -> Values] /\ pending \in [Field -> Values]
  BY <1>5, FieldValues
<1>7. Modified(object, wanted) = [object EXCEPT !.value = value, !.pending = pending]
  BY DEF Modified, Typed, Existing, Instance
<1> HIDE DEF value, pending
<1>8. Modified(object, wanted) \in Existing
  BY <1>5, <1>6, <1>7 DEF Typed, Existing, Instance
<1> QED
  BY <1>3, <1>8

\* What is created is an instance: everything that is set fits.
LEMMA CreatedType ==
  ASSUME Typed, Representable(desired.spec.field, Field), NEW given \in [Field -> Values],
         \A f \in Field : IF f \in CreateSent /\ desired.spec.field[f] # Unset
                          THEN given[f] = Narrow(desired.spec.field[f]) ELSE given[f] \in ValueOf(f),
         NEW new, new = [NoInstance EXCEPT !.status = "creating", !.value = given,
                                           !.tags = desired.spec.tags]
  PROVE  /\ new \in Existing /\ new.status = "creating" /\ new.value = given
         /\ new.tags = desired.spec.tags /\ \A f \in Field : new.pending[f] = Unset
         /\ \A f \in Field : desired.spec.field[f] # Unset => given[f] = desired.spec.field[f]
<1>1. \A f \in Field : f \in CreateSent
  BY FieldAssumption DEF CreateSent
<1>2. \A f \in Field : desired.spec.field[f] # Unset => given[f] = desired.spec.field[f]
  BY <1>1 DEF Representable, Narrow
<1>3. \A f \in Field : given[f] \in ValueOf(f)
  BY <1>1, <1>2, FieldValues DEF Typed, Copy, Representable
<1>4. /\ new.status = "creating" /\ new.value = given /\ new.tags = desired.spec.tags
      /\ new.pending = [f \in Field |-> Unset]
      /\ new = [status |-> "creating", value |-> given, pending |-> [f \in Field |-> Unset],
                tags |-> desired.spec.tags]
  BY DEF NoInstance
<1>5. desired.spec.tags \in SUBSET Tag
  BY DEF Typed, Copy, ResourceOf
<1>6. new \in Instance
  BY <1>4, <1>5 DEF Instance, InstanceStatus, Values
<1>7. new \in Existing
  BY <1>3, <1>4, <1>6 DEF Existing
<1> QED
  BY <1>2, <1>4, <1>7

LEMMA ControllerTyped == Typed /\ Controller => Typed'
<1> SUFFICES ASSUME Typed, Controller PROVE Typed'
  OBVIOUS
<1> USE DEF Typed, local
<1>stages. /\ Call \union {"idle", "patchStatus", "patched", "patchError", "patchTerminal"} = Stage
           /\ {"read", "markManaged", "create", "readCreated", "removeTags", "addTags", "modify",
               "delete", "patchSpec", "removeFinalizer"} = Call
  BY DEF Stage, Call
<1>ends. ASSUME PassEnds PROVE desired' \in Copy /\ latest' \in Copy /\ pc' \in Stage
  BY <1>ends, <1>stages, NothingType DEF PassEnds
<1>steps. ASSUME NEW want, NEW have PROVE AfterTags(want, have) \in Stage /\ UpdateStep(want, have) \in Stage
  BY <1>stages DEF AfterTags, UpdateStep, FirstOfTags
<1>statuses. "deleting" \in InstanceStatus
  BY DEF InstanceStatus
<1>1. CASE Reconcile
  <2>1. Taken \in Copy
    <3>1. cr.status \in [object : InstanceStatus \union {"unset"}, synced : Synced,
                         terminal : BOOLEAN]
      BY DEF Copy, ResourceOf
    <3>2. [cr.status EXCEPT !.synced = "Unset", !.terminal = FALSE]
            \in [object : InstanceStatus \union {"unset"}, synced : Synced, terminal : BOOLEAN]
      BY <3>1 DEF Synced
    <3>3. [cr EXCEPT !.status.synced = "Unset", !.status.terminal = FALSE] \in Copy
      BY <3>2 DEF Copy, ResourceOf
    <3> QED
      BY <3>3 DEF Taken
  <2> QED
    BY <1>1, <2>1, <1>stages DEF Reconcile, Begins
<1>2. CASE ReadInstance
  <2> DEFINE found == SdkFind(desired)
  <2>1. found \in Copy
    BY <1>2, SdkFindType DEF ReadInstance, ReadFound
  <2>2. Normalized(desired, found) \in Copy
    BY <2>1, NormalizedType
  <2> HIDE DEF found
  <2>3. /\ UNCHANGED <<cr, object, edits>> /\ latest' = found
        /\ desired' \in {desired, Normalized(desired, found)}
        /\ pc' \in {DeleteStep(found), UpdateStep(desired, found)}
    BY <1>2 DEF ReadInstance, ReadFound, found
  <2>4. pc' \in Stage
    BY <2>3, <1>steps, <1>stages, DeleteStepCall
  <2> QED
    BY <2>1, <2>2, <2>3, <2>4
<1>3. CASE ReadNotFound
  BY <1>3, <1>stages DEF ReadNotFound
<1>4. CASE MarkManaged
  <2>1. cr' \in Copy /\ desired' \in Copy
    BY <1>4 DEF MarkManaged, Copy, ResourceOf
  <2> QED
    BY <1>4, <2>1, <1>stages DEF MarkManaged
<1>5. CASE SdkCreate
  <2>1. PICK given \in [Field -> Values] :
          /\ \A f \in Field : IF f \in CreateSent /\ desired.spec.field[f] # Unset
                              THEN given[f] = Narrow(desired.spec.field[f])
                              ELSE given[f] \in ValueOf(f)
          /\ object' = [NoInstance EXCEPT !.status = "creating", !.value = given,
                                          !.tags = desired.spec.tags]
          /\ latest' = Observed(CreateAnswered, desired,
                                [NoInstance EXCEPT !.status = "creating", !.value = given,
                                                   !.tags = desired.spec.tags])
    BY <1>5 DEF SdkCreate
  <2> DEFINE new == [NoInstance EXCEPT !.status = "creating", !.value = given,
                                       !.tags = desired.spec.tags]
  <2>2. new \in Existing /\ new.status = "creating"
    BY <1>5, <2>1, CreatedType DEF SdkCreate
  <2>3. object' = new /\ latest' = Observed(CreateAnswered, desired, new)
    BY <2>1
  <2> HIDE DEF new
  <2>4. latest' \in Copy
    BY <2>2, <2>3, ObservedType
  <2> QED
    BY <1>5, <2>2, <2>3, <2>4, <1>stages DEF SdkCreate
<1>6. CASE ReadCreatedInstance
  <2>1. SdkFind(latest) \in Copy
    BY <1>6, SdkFindType DEF ReadCreatedInstance, ReadCreated
  <2> QED
    BY <1>6, <2>1, StatusType, <1>stages DEF ReadCreatedInstance, ReadCreated
<1>7. CASE RemoveInstanceTags \/ AddInstanceTags
  <2>1. Updated \in Copy
    BY DEF Updated
  <2>2. object' \in Existing
    <3>1. desired.spec.tags \in SUBSET Tag /\ latest.spec.tags \in SUBSET Tag
      BY DEF Copy, ResourceOf
    <3>2. \E tags \in SUBSET Tag : object' = [object EXCEPT !.tags = tags]
      BY <1>7, <3>1 DEF RemoveInstanceTags, RemoveTags, AddInstanceTags, AddTags, Existing, Instance
    <3> QED
      BY <3>2 DEF Existing, Instance
  <2>3. pc' \in Stage
    BY <1>7, <1>steps, <1>stages DEF RemoveInstanceTags, RemoveTags, AddInstanceTags, AddTags
  <2> QED
    BY <1>7, <2>1, <2>2, <2>3 DEF RemoveInstanceTags, RemoveTags, AddInstanceTags, AddTags
<1>8. CASE ModifyReplicationInstance
  <2> DEFINE wanted == [f \in Field |-> Narrow(desired.spec.field[f])]
             after == Modified(object, wanted)
  <2>1. after \in Existing
    BY <1>8, ModifiedType DEF ModifyReplicationInstance
  <2>2. after.status # "none"
    BY <1>8 DEF ModifyReplicationInstance, Modified, Existing, Instance
  <2>3. /\ object' = after /\ latest' = Observed(ModifyAnswered, desired, after)
        /\ pc' = "patchSpec" /\ UNCHANGED <<cr, desired, edits>>
    BY <1>8 DEF ModifyReplicationInstance
  <2> HIDE DEF after
  <2>4. latest' \in Copy
    BY <2>1, <2>2, <2>3, ObservedType
  <2> QED
    BY <2>1, <2>3, <2>4, <1>stages
<1>9. CASE DeleteReplicationInstance
  <2>1. object' \in Existing
    BY <1>9, <1>statuses, InstanceStatusType DEF DeleteReplicationInstance
  <2>2. latest' \in Copy
    BY <1>9, <1>statuses, ObjectType DEF DeleteReplicationInstance
  <2> QED
    BY <1>9, <2>1, <2>2, <1>stages DEF DeleteReplicationInstance
<1>10. CASE PatchInstanceSpec
  <2>1. PICK from : PatchSpec(from, latest.spec)
    BY <1>10 DEF PatchInstanceSpec
  <2> DEFINE field == [f \in Field |-> IF latest.spec.field[f] # from.field[f]
                                       THEN latest.spec.field[f] ELSE cr.spec.field[f]]
             tags == IF latest.spec.tags # from.tags THEN latest.spec.tags ELSE cr.spec.tags
  <2>2. /\ field \in [Field -> Values] /\ tags \in SUBSET Tag
        /\ \A f \in Field : field[f] \in ChoiceOf(f) \union {Unset}
    BY DEF Copy, ResourceOf
  <2>3. cr' = [cr EXCEPT !.spec.field = field, !.spec.tags = tags]
    BY <2>1 DEF PatchSpec
  <2> HIDE DEF field, tags
  <2>4. cr' \in Copy
    BY <2>2, <2>3 DEF Copy, ResourceOf
  <2> QED
    BY <2>1, <2>4, <1>stages DEF PatchSpec
<1>11. CASE RemoveFinalizer
  BY <1>11, <1>ends, NothingType DEF RemoveFinalizer
<1>12. CASE PatchStatus(IsSynced(latest))
  <2>1. SyncedCondition(IsSynced(latest)) \in Synced
    <3>1. latest.status.synced \in Synced
      BY DEF Copy, ResourceOf
    <3> QED
      BY <3>1 DEF SyncedCondition, Synced
  <2>2. cr' \in Copy
    <3>1. CASE cr.phase = "absent"
      BY <1>12, <3>1 DEF PatchStatus
    <3>2. CASE cr.phase # "absent"
      <4>1. PICK terminal \in BOOLEAN :
              cr' = [cr EXCEPT !.status = [latest.status EXCEPT
                       !.synced = SyncedCondition(IsSynced(latest)), !.terminal = terminal]]
        BY <1>12, <3>2 DEF PatchStatus
      <4> DEFINE status == [latest.status EXCEPT !.synced = SyncedCondition(IsSynced(latest)),
                                                 !.terminal = terminal]
      <4>2. status \in [object : InstanceStatus \union {"unset"}, synced : Synced,
                        terminal : BOOLEAN]
        BY <2>1 DEF Copy, ResourceOf
      <4> HIDE DEF status
      <4>3. [cr EXCEPT !.status = status] \in Copy
        BY <4>2 DEF Copy, ResourceOf
      <4> QED
        BY <4>1, <4>3 DEF status
    <3> QED
      BY <3>1, <3>2
  <2> QED
    BY <1>12, <2>2, <1>ends DEF PatchStatus
<1>13. CASE CallFails
  BY <1>13, <1>stages DEF CallFails, CallFailsOr
<1>14. CASE Crash
  BY <1>14, <1>ends DEF Crash
<1> QED
  BY <1>1, <1>2, <1>3, <1>4, <1>5, <1>6, <1>7, <1>8, <1>9, <1>10, <1>11, <1>12, <1>13, <1>14
     DEF Controller

\* Each field of the resource, of its copies and of the instance has a value of its own type, and
\* only what AWS may keep pending is pending.
LEMMA StaysTyped == Spec => []Typed
<1>1. Init => Typed
  BY NothingType, EditsAssumption DEF Init, Typed, Stage
<1>2. Typed /\ [Next]_vars => Typed'
  <2>1. Typed /\ UNCHANGED vars => Typed'
    BY DEF Typed, vars
  <2> QED
    BY <2>1, UserTyped, AWSTyped, ControllerTyped DEF Next
<1> QED
  BY <1>1, <1>2, PTL DEF Spec

\* Every variable keeps its type.
THEOREM TypeCorrect == Spec => []TypeOK
<1>1. Typed => TypeOK
  BY DEF Typed, TypeOK, Copy, Existing
<1> QED
  BY <1>1, StaysTyped, PTL

-----------------------------------------------------------------------------
(* Nothing is asked for twice *)

\* What sdkFind learns is what the instance has accepted, for the fields that AWS reports; the
\* others, and what is not asked for, stay as they were.
LEMMA ObservedReads ==
  ASSUME NEW ko \in Copy, NEW i \in Existing
  PROVE  /\ \A f \in Field \intersect Found :
              Observed(Found, ko, i).spec.field[f] = Accepted(i)[f]
         /\ \A f \in Field \ Found : Observed(Found, ko, i).spec.field[f] = ko.spec.field[f]
         /\ Observed(Found, ko, i).spec.tags = ko.spec.tags
         /\ Observed(Found, ko, i).status.object = i.status
         /\ Observed(Found, ko, i).status.synced = SyncedSoFar(ko, i)
         /\ Observed(Found, ko, i).phase = ko.phase
         /\ {"spec", "status", "phase"} \subseteq DOMAIN Observed(Found, ko, i)
         /\ {"field", "tags"} \subseteq DOMAIN Observed(Found, ko, i).spec
<1> DEFINE field == WithPending([f \in Field |-> IF f \in Found THEN i.value[f]
                                                 ELSE ko.spec.field[f]], i)
<1>1. /\ \A f \in Field \intersect Found : field[f] = Accepted(i)[f]
      /\ \A f \in Field \ Found : field[f] = ko.spec.field[f]
  <2>1. Pendable \subseteq Found
    BY DEF Pendable, Found, InstanceField
  <2> QED
    BY <2>1 DEF WithPending, Accepted, Existing
<1>2. Observed(Found, ko, i) = [ko EXCEPT !.spec.field = field, !.status.object = i.status,
                                          !.status.synced = SyncedSoFar(ko, i)]
  BY DEF Observed
<1> HIDE DEF field
<1>3. ASSUME NEW o, NEW s, NEW y,
             o = [ko EXCEPT !.spec.field = field, !.status.object = s, !.status.synced = y]
      PROVE  /\ o.spec.field = field /\ o.spec.tags = ko.spec.tags /\ o.phase = ko.phase
             /\ o.status.object = s /\ o.status.synced = y
             /\ {"spec", "status", "phase"} \subseteq DOMAIN o
             /\ {"field", "tags"} \subseteq DOMAIN o.spec
  BY <1>3 DEF Copy, ResourceOf
<1>4. PICK o : o = Observed(Found, ko, i)
  OBVIOUS
<1>5. /\ o.spec.field = field /\ o.spec.tags = ko.spec.tags /\ o.phase = ko.phase
      /\ o.status.object = i.status /\ o.status.synced = SyncedSoFar(ko, i)
      /\ {"spec", "status", "phase"} \subseteq DOMAIN o
      /\ {"field", "tags"} \subseteq DOMAIN o.spec
  <2>1. o = [ko EXCEPT !.spec.field = field, !.status.object = i.status,
                       !.status.synced = SyncedSoFar(ko, i)]
    BY <1>2, <1>4
  <2> QED
    BY ONLY <1>3, <2>1
<1> QED
  BY <1>1, <1>4, <1>5

LEMMA SdkFindReads ==
  ASSUME NEW ko \in Copy, object \in Existing
  PROVE  /\ \A f \in Field \intersect Found : SdkFind(ko).spec.field[f] = Accepted(object)[f]
         /\ \A f \in Field \ Found : SdkFind(ko).spec.field[f] = ko.spec.field[f]
         /\ ~DeleteRequested(ko) => SdkFind(ko).spec.tags = object.tags
         /\ SdkFind(ko).status.object = object.status
         /\ SdkFind(ko).status.synced = SyncedSoFar(ko, object)
         /\ SdkFind(ko).phase = ko.phase
<1>1. ASSUME NEW k, NEW tags, {"spec", "status", "phase"} \subseteq DOMAIN k,
             {"field", "tags"} \subseteq DOMAIN k.spec
      PROVE  LET r == [k EXCEPT !.spec.tags = tags] IN
             /\ r.spec.field = k.spec.field /\ r.spec.tags = tags
             /\ r.status = k.status /\ r.phase = k.phase
  BY <1>1
<1>2. PICK k : k = Observed(Found, ko, object)
  OBVIOUS
<1>3. SdkFind(ko) = [k EXCEPT !.spec.tags = IF DeleteRequested(ko) THEN k.spec.tags ELSE object.tags]
  BY <1>2 DEF SdkFind
<1>4. /\ {"spec", "status", "phase"} \subseteq DOMAIN k /\ {"field", "tags"} \subseteq DOMAIN k.spec
      /\ \A f \in Field \intersect Found : k.spec.field[f] = Accepted(object)[f]
      /\ \A f \in Field \ Found : k.spec.field[f] = ko.spec.field[f]
      /\ k.status.object = object.status /\ k.status.synced = SyncedSoFar(ko, object)
      /\ k.phase = ko.phase
  BY <1>2, ObservedReads
<1> QED
  BY <1>1, <1>3, <1>4

\* Where the comparison finds a difference in a value that is asked for, the other copy does not
\* agree with it.
LEMMA DifferenceDisagrees ==
  ASSUME NEW want \in Copy, NEW have \in Copy, NEW f \in Delta(want, have)
  PROVE  want.spec.field[f] # Unset => ~Agrees(f, have.spec.field[f], want.spec.field)
<1> SUFFICES ASSUME want.spec.field[f] # Unset, Agrees(f, have.spec.field[f], want.spec.field)
             PROVE  FALSE
  OBVIOUS
<1>1. f \in Field /\ Normalized(want, have).spec.field[f] # have.spec.field[f]
  BY DEF Delta
<1>2. CASE want.spec.field[f] = have.spec.field[f]
  BY <1>1, <1>2 DEF Normalized, Copy, ResourceOf
<1>3. CASE /\ f = "EngineVersion" /\ Unset \notin {have.spec.field[f], want.spec.field[f]}
           /\ have.spec.field[f][1] = want.spec.field[f][1]
           /\ "AutoMinorVersionUpgrade" \in Field => want.spec.field["AutoMinorVersionUpgrade"] # Off
  <2>1. Normalized(want, have)
          = [want EXCEPT !.spec.field["EngineVersion"] = have.spec.field["EngineVersion"]]
    BY <1>1, <1>3 DEF Normalized, RequiresEngineVersionUpdate
  <2> QED
    BY <1>1, <1>3, <2>1 DEF Copy, ResourceOf
<1> QED
  BY <1>2, <1>3 DEF Agrees

\* The decision to modify comes from a value that the instance has not accepted, although AWS goes
\* on reporting the old one while it is pending: a modification is not asked for again.  Only a
\* value that the user has removed, or a field that cannot be modified, is an exception.
THEOREM AsksOnce == Spec => NeverAsksTwice
<1> DEFINE Step == pc = "read" /\ pc' = "modify"
                   => \/ Missing(desired.spec.field) # {}
                      \/ \E f \in Field : desired.spec.field[f] = Unset \/ f \notin ModifySent
<1>1. Typed /\ [Next]_vars => [Step]_vars
  <2> SUFFICES ASSUME Typed, Next, pc = "read", pc' = "modify",
                      \A f \in Field : desired.spec.field[f] # Unset /\ f \in ModifySent
               PROVE  Missing(desired.spec.field) # {}
    BY DEF vars
  <2>1. ReadInstance
    <3>1. ~User /\ ~AWS
      BY DEF User, UserCreates, UserSets, UserSetsTags, UserDeletes, UserEdits, AWS, Becomes,
         InstanceSettles, ModificationStarts, ModificationEnds, ModificationFails, MinorUpgrade,
         InstanceFails, InstanceIsDeleted
    <3> QED
      BY <3>1 DEF Next, Controller, Reconcile, Begins, ReadNotFound, MarkManaged, SdkCreate,
         ReadCreatedInstance, ReadCreated, RemoveInstanceTags, RemoveTags, AddInstanceTags, AddTags,
         ModifyReplicationInstance, DeleteReplicationInstance, PatchInstanceSpec, PatchSpec,
         RemoveFinalizer, PatchStatus, PassEnds, CallFails, CallFailsOr, Crash
  <2> DEFINE found == SdkFind(desired)
  <2>2. found \in Copy
    BY <2>1, SdkFindType DEF ReadInstance, ReadFound, Typed
  <2>3. pc' = DeleteStep(found) \/ pc' = UpdateStep(desired, found)
    BY <2>1 DEF ReadInstance, ReadFound
  <2>4. Delta(desired, found) # {}
    BY <2>3, DeleteStepCall DEF UpdateStep, AfterTags, FirstOfTags
  <2>5. PICK f \in Delta(desired, found) : TRUE
    BY <2>4
  <2>6. f \in Field /\ ~Agrees(f, found.spec.field[f], desired.spec.field)
    BY <2>2, <2>5, DifferenceDisagrees DEF Delta, Typed
  <2>7. found.spec.field[f] # desired.spec.field[f]
    BY <2>6 DEF Agrees
  <2>8. found.spec.field[f] = Accepted(object)[f]
    BY <2>6, <2>7, SdkFindReads DEF Typed
  <2> HIDE DEF found
  <2>9. f \in Missing(desired.spec.field)
    BY <2>6, <2>8 DEF Missing
  <2> QED
    BY <2>9
<1> QED
  BY <1>1, StaysTyped, PTL DEF Spec, NeverAsksTwice
-----------------------------------------------------------------------------
(* What a pass knows of the instance *)

\* The value v of a field is accepted still: AWS has at most raised the minor version by itself.
Near(i, f, v) ==
  \/ Accepted(i)[f] = v
  \/ /\ f = "EngineVersion" /\ v # Unset /\ Accepted(i)[f][1] = v[1]
     /\ "AutoMinorVersionUpgrade" \in Field => i.value["AutoMinorVersionUpgrade"] = On

\* The stages at which a pass has found or created the instance and goes on.
Informed == {"removeTags", "addTags", "modify", "readCreated", "patchSpec", "patched",
             "patchStatus"}

\* Before a modification: the copies are those that a read and its comparison have left, and the
\* instance has kept what was read but for what AWS gives up.
Remembers ==
  /\ Normalized(desired, latest) = desired
  /\ \A f \in Field : object.pending[f] \in {Unset, latest.spec.field[f]}
  /\ \A f \in Field \intersect Found :
       Near(object, f, latest.spec.field[f]) \/ (MayFail /\ f \in Pendable)

\* How far the tags are.
TagsFollow ==
  /\ pc = "removeTags" => object.tags = latest.spec.tags
  /\ pc = "addTags" => object.tags = latest.spec.tags \intersect desired.spec.tags
  /\ pc = "modify" => object.tags = desired.spec.tags

\* After a creation or a modification: a value that was asked for is in the answer, unless AWS
\* had given it up before.
Answered ==
  /\ \A f \in Field \ Found : latest.spec.field[f] = desired.spec.field[f]
  /\ \A f \in Field \intersect Found \intersect ModifySent :
       \/ desired.spec.field[f] \in {Unset, latest.spec.field[f]}
       \/ object.pending[f] = Unset /\ Near(object, f, latest.spec.field[f])
  /\ /\ "AutoMinorVersionUpgrade" \in Field
     /\ desired.spec.field["AutoMinorVersionUpgrade"] = Off
     => object.value["AutoMinorVersionUpgrade"] = Off

\* An answer without pending values.
InPlace ==
  /\ ~HasPending(object) /\ object.tags = latest.spec.tags
  /\ \A f \in Field \intersect Found : Near(object, f, latest.spec.field[f])

\* Nothing was left to do.
NothingMissing ==
  /\ object.tags = desired.spec.tags
  /\ \A f \in Field \intersect Found \intersect ModifySent :
       Near(object, f, desired.spec.field[f]) \/ (MayFail /\ f \in Pendable /\ EndedWithTags)
  /\ ~HasPending(object) \/ EndedWithTags

Knows ==
  /\ pc \in Informed => object.status # "none" \/ cr.phase = "deleting"
  /\ pc \in {"removeTags", "addTags"} => Tag # {}
  /\ object.status # "none" =>
       /\ pc \in {"removeTags", "addTags", "modify"} => Remembers
       /\ TagsFollow
       /\ pc \in {"readCreated", "patchSpec"} => Answered
       /\ pc \in {"readCreated", "patchSpec", "patched"} /\ latest.status.synced # "False" => InPlace
       /\ pc = "patchStatus" /\ latest.status.synced # "False" => NothingMissing

-----------------------------------------------------------------------------
(* What a pass knows stays true *)

\* The values and what is pending are what they were.
SameValues(i, j) == j.value = i.value /\ j.pending = i.pending

LEMMA NearSame ==
  ASSUME NEW i, NEW j, SameValues(i, j)
  PROVE  /\ \A f \in Field : Accepted(j)[f] = Accepted(i)[f]
         /\ \A f \in Field : \A v : Near(j, f, v) <=> Near(i, f, v)
         /\ HasPending(j) <=> HasPending(i)
<1>1. Accepted(j) = Accepted(i)
  BY DEF Accepted, SameValues
<1> QED
  BY <1>1 DEF Near, HasPending, SameValues

\* What AWS may do with an instance while it exists: it gives up what is pending, and it raises the
\* minor version if it may.
Keeps(i, j) ==
  /\ j.tags = i.tags
  /\ \A f \in Field : j.pending[f] \in {Unset, i.pending[f]}
  /\ \A f \in Field :
       \/ Accepted(j)[f] = Accepted(i)[f]
       \/ MayFail /\ i.pending[f] # Unset
       \/ /\ f = "EngineVersion" /\ Accepted(i)[f] # Unset
          /\ Accepted(j)[f][1] = Accepted(i)[f][1]
          /\ "AutoMinorVersionUpgrade" \in Field => i.value["AutoMinorVersionUpgrade"] = On
  /\ "AutoMinorVersionUpgrade" \in Field
     => j.value["AutoMinorVersionUpgrade"] = i.value["AutoMinorVersionUpgrade"]

LEMMA AWSKeeps ==
  ASSUME Typed, AWS, object'.status # "none"
  PROVE  Keeps(object, object') /\ object.status # "none"
<1> USE DEF Becomes
<1>auto. "AutoMinorVersionUpgrade" \in Field
         => /\ object.pending["AutoMinorVersionUpgrade"] = Unset
            /\ Accepted(object)["AutoMinorVersionUpgrade"]
                 = object.value["AutoMinorVersionUpgrade"]
  BY DEF Typed, Existing, Pendable, Accepted
<1>shape. {"status", "value", "pending", "tags"} \subseteq DOMAIN object
  BY DEF Typed, Existing, Instance
<1>1. CASE InstanceSettles \/ ModificationStarts
  <2>1. /\ object'.tags = object.tags /\ SameValues(object, object')
        /\ object.status # "none"
    BY <1>1, <1>shape DEF InstanceSettles, ModificationStarts, SameValues
  <2> QED
    BY <2>1, NearSame DEF Keeps, SameValues
<1>2. CASE ModificationEnds
  <2>1. /\ object'.tags = object.tags /\ object'.value = Accepted(object)
        /\ object'.pending = NothingPending /\ object.status # "none"
    BY <1>2, <1>shape DEF ModificationEnds
  <2> QED
    BY <2>1, <1>auto DEF Keeps, Accepted, NothingPending
<1>3. CASE ModificationFails \/ InstanceFails
  <2>1. /\ object'.tags = object.tags /\ object'.value = object.value
        /\ object'.pending = NothingPending /\ object.status # "none" /\ MayFail
    BY <1>3, <1>shape DEF ModificationFails, InstanceFails
  <2> QED
    BY <2>1, <1>auto DEF Keeps, Accepted, NothingPending
<1>4. CASE MinorUpgrade
  <2>1. PICK minor \in Minor :
          object' = [object EXCEPT !.status = "upgrading",
                                   !.value["EngineVersion"] = <<@[1], minor>>]
    BY <1>4 DEF MinorUpgrade
  <2>2. /\ "EngineVersion" \in Field /\ "AutoMinorVersionUpgrade" \in Field
        /\ object.status # "none" /\ object.pending["EngineVersion"] = Unset
        /\ object.value["AutoMinorVersionUpgrade"] = On
    BY <1>4 DEF MinorUpgrade
  <2> DEFINE v == <<object.value["EngineVersion"][1], minor>>
  <2>3. v[1] = object.value["EngineVersion"][1]
    OBVIOUS
  <2>4. object' = [object EXCEPT !.status = "upgrading",
                                 !.value = [object.value EXCEPT !["EngineVersion"] = v]]
    BY <2>1, <2>2 DEF Typed, Existing, Instance
  <2> HIDE DEF v
  <2>5. /\ object'.tags = object.tags /\ object'.pending = object.pending
        /\ object'.value = [object.value EXCEPT !["EngineVersion"] = v]
    BY <2>4, <1>shape
  <2>6. object.value \in [Field -> Values]
    BY DEF Typed, Existing, Instance
  <2>7. /\ object'.value["EngineVersion"] = v
        /\ \A f \in Field \ {"EngineVersion"} : object'.value[f] = object.value[f]
    BY <2>2, <2>5, <2>6
  <2>8. object.value["EngineVersion"] # Unset
    BY <2>2, FieldValues DEF Typed, Existing
  <2> QED
    BY <2>2, <2>3, <2>5, <2>7, <2>8 DEF Keeps, Accepted
<1>5. CASE InstanceIsDeleted
  BY <1>5 DEF InstanceIsDeleted, NoInstance
<1> QED
  BY <1>1, <1>2, <1>3, <1>4, <1>5 DEF AWS

\* A value stays near, unless AWS gives it up while it is pending.
LEMMA NearStays ==
  ASSUME NEW i \in Existing, NEW j, Keeps(i, j), NEW f \in Field, NEW v, Near(i, f, v)
  PROVE  /\ Near(j, f, v) \/ (MayFail /\ f \in Pendable)
         /\ i.pending[f] = Unset => Near(j, f, v)
<1>1. i.pending[f] # Unset => f \in Pendable
  BY DEF Existing
<1> QED
  BY <1>1 DEF Keeps, Near

\* A stage at which the pass is not informed asks for nothing.
LEMMA UninformedKnows == ASSUME pc' \notin Informed PROVE Knows'
BY DEF Informed, Knows, TagsFollow

\* What the user does leaves the pass alone, and a deletion stays one.
LEMMA UserKnows == Typed /\ Knows /\ User => Knows'
<1> SUFFICES ASSUME Typed, Knows, User PROVE Knows'
  OBVIOUS
<1>1. UNCHANGED <<object, pc, desired, latest>>
  BY DEF User, UserCreates, UserSets, UserSetsTags, UserDeletes, UserEdits, local
<1>2. cr.phase = "deleting" => cr'.phase = "deleting"
  BY DEF User, UserCreates, UserSets, UserSetsTags, UserDeletes, Typed, Copy, ResourceOf
<1> QED
  BY <1>1, <1>2 DEF Knows, Remembers, TagsFollow, Answered, InPlace, NothingMissing, EndedWithTags

\* What AWS does by itself leaves what the pass knows true.
LEMMA AWSKnows == Typed /\ Invariant /\ Knows /\ AWS => Knows'
<1> SUFFICES ASSUME Typed, Invariant, Knows, AWS PROVE Knows'
  OBVIOUS
<1>1. UNCHANGED <<cr, pc, desired, latest>>
  BY DEF AWS, InstanceSettles, ModificationStarts, ModificationEnds, ModificationFails,
     MinorUpgrade, InstanceFails, InstanceIsDeleted, Becomes, local
<1>2. CASE object'.status = "none"
  <2>1. object.status = "none" \/ object.status = "deleting"
    BY <1>2 DEF AWS, InstanceSettles, ModificationStarts, ModificationEnds, ModificationFails,
       MinorUpgrade, InstanceFails, InstanceIsDeleted, Becomes, Typed, Existing, Instance
  <2> QED
    BY <1>1, <1>2, <2>1 DEF Knows, Invariant, Managed
<1>3. CASE object'.status # "none"
  <2>1. Keeps(object, object') /\ object.status # "none"
    BY <1>3, AWSKeeps
  <2>2. \A f \in Field : \A v : Near(object, f, v) =>
          /\ Near(object', f, v) \/ (MayFail /\ f \in Pendable)
          /\ object.pending[f] = Unset => Near(object', f, v)
    BY <2>1, NearStays DEF Typed
  <2>3. /\ object'.tags = object.tags
        /\ \A f \in Field : object'.pending[f] \in {Unset, object.pending[f]}
    BY <2>1 DEF Keeps
  <2>4. ~HasPending(object) =>
          /\ ~HasPending(object')
          /\ \A f \in Field : \A v : Near(object, f, v) => Near(object', f, v)
    BY <2>2, <2>3 DEF HasPending
  <2>5. Remembers => Remembers'
    BY <1>1, <2>2, <2>3 DEF Remembers
  <2>6. Answered => Answered'
    BY <1>1, <2>1, <2>2, <2>3 DEF Answered, Keeps
  <2>7. InPlace => InPlace'
    BY <1>1, <2>3, <2>4 DEF InPlace
  <2>8. NothingMissing => NothingMissing'
    <3> SUFFICES ASSUME NothingMissing PROVE NothingMissing'
      OBVIOUS
    <3>1. EndedWithTags' <=> EndedWithTags
      BY <1>1 DEF EndedWithTags
    <3>2. CASE ~HasPending(object)
      BY <1>1, <2>3, <2>4, <3>1, <3>2 DEF NothingMissing
    <3>3. CASE EndedWithTags
      BY <1>1, <2>2, <2>3, <3>1, <3>3 DEF NothingMissing
    <3> QED
      BY <3>2, <3>3 DEF NothingMissing
  <2>9. TagsFollow => TagsFollow'
    BY <1>1, <2>3 DEF TagsFollow
  <2> QED
    BY <1>1, <1>3, <2>1, <2>5, <2>6, <2>7, <2>8, <2>9 DEF Knows
<1> QED
  BY <1>2, <1>3

\* What the comparison leaves of a copy.
LEMMA NormalizedKeeps ==
  ASSUME NEW want \in Copy, NEW have \in Copy
  PROVE  /\ Normalized(Normalized(want, have), have) = Normalized(want, have)
         /\ Normalized(want, have).spec.tags = want.spec.tags
         /\ Delta(want, have) = {} =>
              \A f \in Field \intersect Compared :
                Normalized(want, have).spec.field[f] = have.spec.field[f]
<1>1. Delta(want, have) = {} =>
        \A f \in Field \intersect Compared :
          Normalized(want, have).spec.field[f] = have.spec.field[f]
  BY DEF Delta
<1>2. CASE Normalized(want, have) = want
  BY <1>1, <1>2
<1>3. CASE Normalized(want, have)
             = [want EXCEPT !.spec.field["EngineVersion"] = have.spec.field["EngineVersion"]]
  <2>1. PICK ko : ko = Normalized(want, have)
    OBVIOUS
  <2>2. /\ ko \in Copy /\ ko.spec.tags = want.spec.tags
        /\ "EngineVersion" \in Field =>
             ko.spec.field["EngineVersion"] = have.spec.field["EngineVersion"]
    <3>1. ko \in Copy
      BY <2>1, NormalizedType
    <3>2. want.spec.field \in [Field -> Values]
      BY DEF Copy, ResourceOf
    <3>3. ASSUME NEW v PROVE /\ [want EXCEPT !.spec.field["EngineVersion"] = v].spec.tags
                                  = want.spec.tags
                             /\ [want EXCEPT !.spec.field["EngineVersion"] = v].spec.field
                                  = [want.spec.field EXCEPT !["EngineVersion"] = v]
      BY DEF Copy, ResourceOf
    <3>4. /\ ko.spec.tags = want.spec.tags
          /\ ko.spec.field
               = [want.spec.field EXCEPT !["EngineVersion"] = have.spec.field["EngineVersion"]]
      BY <1>3, <2>1, <3>3
    <3> QED
      BY <3>1, <3>2, <3>4
  <2>3. "EngineVersion" \in Field =>
          [ko EXCEPT !.spec.field["EngineVersion"] = have.spec.field["EngineVersion"]] = ko
    <3>1. /\ [ko EXCEPT !.spec = ko.spec] = ko
          /\ [ko.spec EXCEPT !.field = ko.spec.field] = ko.spec
      BY <2>2 DEF Copy, ResourceOf
    <3>2. ko.spec.field \in [Field -> Values]
      BY <2>2 DEF Copy, ResourceOf
    <3>3. ASSUME "EngineVersion" \in Field
          PROVE  [ko.spec.field EXCEPT !["EngineVersion"] = have.spec.field["EngineVersion"]]
                   = ko.spec.field
      BY <2>2, <3>2, <3>3
    <3> QED
      BY <3>1, <3>3
  <2>4. Normalized(ko, have) = ko
    BY <2>3 DEF Normalized
  <2> QED
    BY <1>1, <2>1, <2>2, <2>4
<1> QED
  BY <1>2, <1>3 DEF Normalized

\* A read informs the pass.
LEMMA ReadKnows == Typed /\ Typed' /\ Knows /\ ReadInstance => Knows'
<1> SUFFICES ASSUME Typed, Typed', Knows, ReadInstance PROVE Knows'
  OBVIOUS
<1> DEFINE found == SdkFind(desired)
<1>1. /\ object.status # "none" /\ UNCHANGED <<cr, object>> /\ latest' = found
      /\ desired' = IF DeleteRequested(desired) THEN desired ELSE Normalized(desired, found)
      /\ pc' = IF DeleteRequested(desired) THEN DeleteStep(found) ELSE UpdateStep(desired, found)
  BY DEF ReadInstance, ReadFound
<1>2. found \in Copy
  BY <1>1, SdkFindType DEF Typed
<1>3. CASE DeleteRequested(desired)
  BY <1>1, <1>3, DeleteStepCall, UninformedKnows DEF Informed
<1>4. CASE ~DeleteRequested(desired)
  <2>1. /\ \A f \in Field \intersect Found : found.spec.field[f] = Accepted(object)[f]
        /\ found.spec.tags = object.tags
        /\ found.status.synced = SyncedSoFar(desired, object)
    BY <1>4, SdkFindReads DEF Typed
  <2> HIDE DEF found
  <2>2. /\ Normalized(desired', latest') = desired' /\ desired'.spec.tags = desired.spec.tags
        /\ Delta(desired, found) = {} =>
             \A f \in Field \intersect Compared : desired'.spec.field[f] = found.spec.field[f]
    BY <1>1, <1>2, <1>4, NormalizedKeeps DEF Typed
  <2>3. \A f \in Field : object.pending[f] \in {Unset, found.spec.field[f]}
    <3>1. Pendable \subseteq Found
      BY DEF Pendable, Found, InstanceField
    <3> QED
      BY <2>1, <3>1 DEF Typed, Existing, Accepted
  <2>4. \A f \in Field \intersect Found : Near(object, f, found.spec.field[f])
    BY <2>1 DEF Near
  <2>5. Remembers'
    BY <1>1, <2>2, <2>3, <2>4 DEF Remembers
  <2>6. CASE desired.spec.tags # found.spec.tags
    <3>1. pc' = IF found.spec.tags \subseteq desired.spec.tags THEN "addTags" ELSE "removeTags"
      BY <1>1, <1>4, <2>6 DEF UpdateStep, FirstOfTags
    <3>2. Tag # {}
      <4>1. desired.spec.tags \subseteq Tag
        BY DEF Typed, Copy, ResourceOf
      <4>2. found.spec.tags \subseteq Tag
        BY <1>2 DEF Copy, ResourceOf
      <4> QED
        BY <2>6, <4>1, <4>2
    <3>3. TagsFollow'
      BY <1>1, <2>1, <2>2, <3>1 DEF TagsFollow
    <3> QED
      BY <1>1, <2>5, <3>1, <3>2, <3>3 DEF Knows, Informed
  <2>7. CASE desired.spec.tags = found.spec.tags
    <3>1. /\ pc' = AfterTags(desired, found) /\ pc' \in {"patchStatus", "patchError", "modify"}
          /\ pc' = "patchStatus" => Delta(desired, found) = {}
      BY <1>1, <1>4, <2>7 DEF UpdateStep, AfterTags
    <3>2. TagsFollow'
      BY <1>1, <2>1, <2>2, <2>7, <3>1 DEF TagsFollow
    <3>3. ASSUME pc' = "patchStatus", latest'.status.synced # "False" PROVE NothingMissing'
      <4>1. ~HasPending(object)
        BY <1>1, <2>1, <3>3 DEF SyncedSoFar
      <4>2. \A f \in Field \intersect Found \intersect ModifySent :
              Near(object, f, desired'.spec.field[f])
        <5>1. ModifySent \subseteq Compared
          BY DEF ModifySent, Compared, InstanceField
        <5> QED
          BY <2>2, <2>4, <3>1, <3>3, <5>1
      <4> QED
        BY <1>1, <2>1, <2>2, <2>7, <4>1, <4>2 DEF NothingMissing
    <3> QED
      BY <1>1, <2>5, <3>1, <3>2, <3>3 DEF Knows, Informed
  <2> QED
    BY <2>6, <2>7
<1> QED
  BY <1>3, <1>4

\* A creation is answered with what was asked for.
LEMMA CreateKnows == Typed /\ SdkCreate => Knows'
<1> SUFFICES ASSUME Typed, SdkCreate PROVE Knows'
  OBVIOUS
<1>1. PICK given \in [Field -> Values] :
        /\ \A f \in Field : IF f \in CreateSent /\ desired.spec.field[f] # Unset
                            THEN given[f] = Narrow(desired.spec.field[f])
                            ELSE given[f] \in ValueOf(f)
        /\ object' = [NoInstance EXCEPT !.status = "creating", !.value = given,
                                        !.tags = desired.spec.tags]
        /\ latest' = Observed(CreateAnswered, desired,
                              [NoInstance EXCEPT !.status = "creating", !.value = given,
                                                 !.tags = desired.spec.tags])
  BY DEF SdkCreate
<1> DEFINE new == [NoInstance EXCEPT !.status = "creating", !.value = given,
                                     !.tags = desired.spec.tags]
<1>2. /\ new \in Existing /\ new.status = "creating" /\ new.value = given
      /\ new.tags = desired.spec.tags /\ \A f \in Field : new.pending[f] = Unset
      /\ \A f \in Field : desired.spec.field[f] # Unset => given[f] = desired.spec.field[f]
  BY <1>1, CreatedType DEF SdkCreate
<1>3. object' = new /\ latest' = Observed(Found, desired, new) /\ pc' = "readCreated"
      /\ desired' = desired
  BY <1>1 DEF SdkCreate, CreateAnswered
<1> HIDE DEF new
<1>4. /\ \A f \in Field \intersect Found : latest'.spec.field[f] = Accepted(new)[f]
      /\ \A f \in Field \ Found : latest'.spec.field[f] = desired.spec.field[f]
      /\ latest'.spec.tags = desired.spec.tags
  BY <1>2, <1>3, ObservedReads DEF Typed
<1>5. \A f \in Field : Accepted(new)[f] = given[f]
  BY <1>2 DEF Accepted
<1>6. Answered'
  <2>1. Off # Unset
    BY InstanceAssumption
  <2> QED
    BY <1>2, <1>3, <1>4, <1>5, <2>1 DEF Answered
<1>7. InPlace'
  BY <1>2, <1>3, <1>4 DEF InPlace, HasPending, Near
<1> QED
  BY <1>2, <1>3, <1>6, <1>7 DEF Knows, TagsFollow

\* The read after a creation takes the status only.
LEMMA ReadCreatedKnows == Typed /\ Knows /\ ReadCreatedInstance => Knows'
<1> SUFFICES ASSUME Typed, Knows, ReadCreatedInstance PROVE Knows'
  OBVIOUS
<1>1. /\ pc = "readCreated" /\ object.status # "none" /\ pc' = "patchSpec"
      /\ latest' = [latest EXCEPT !.status = SdkFind(latest).status]
      /\ UNCHANGED <<cr, object, desired>>
  BY DEF ReadCreatedInstance, ReadCreated
<1>2. latest'.spec = latest.spec /\ latest'.status = SdkFind(latest).status
  BY <1>1 DEF Typed, Copy, ResourceOf
<1>3. latest'.status.synced # "False" => latest.status.synced # "False"
  BY <1>2, SdkFindReads DEF Typed, SyncedSoFar
<1>4. Answered'
  BY <1>1, <1>2 DEF Knows, Answered
<1>5. latest'.status.synced # "False" => InPlace'
  BY <1>1, <1>2, <1>3 DEF Knows, InPlace
<1> QED
  BY <1>1, <1>4, <1>5 DEF Knows, TagsFollow

\* The instance with other tags.
LEMMA TagsOnly ==
  ASSUME Typed, NEW tags, object' = [object EXCEPT !.tags = tags]
  PROVE  /\ object'.tags = tags /\ SameValues(object, object')
         /\ object'.status = object.status
BY DEF Typed, Existing, Instance, SameValues

\* While the tags are brought up to date the pass remembers the rest.
LEMMA TagsRemember ==
  ASSUME Remembers, SameValues(object, object'), UNCHANGED <<desired, latest>>
  PROVE  Remembers'
BY NearSame DEF Remembers, SameValues

\* The last call for the tags.
LEMMA TagsDoneKnows ==
  ASSUME Typed, Knows, pc \in {"removeTags", "addTags"}, object.status # "none",
         object' = [object EXCEPT !.tags = desired.spec.tags],
         pc' = AfterTags(desired, latest), latest' = Updated, UNCHANGED <<cr, desired>>
  PROVE  Knows'
<1>1. Tag # {} /\ Remembers
  BY DEF Knows
<1>2. /\ object'.tags = desired.spec.tags /\ SameValues(object, object')
      /\ object'.status = object.status
  BY TagsOnly
<1>3. CASE Delta(desired, latest) = {}
  <2>1. latest' = desired /\ pc' = "patchStatus"
    BY <1>3 DEF Updated, AfterTags
  <2>2. EndedWithTags'
    BY <1>1, <2>1 DEF EndedWithTags
  <2>3. ASSUME NEW f \in Field \intersect Found \intersect ModifySent
        PROVE  Near(object', f, desired.spec.field[f]) \/ (MayFail /\ f \in Pendable)
    <3>1. f \in Compared
      BY DEF ModifySent, Compared, InstanceField
    <3>2. desired.spec.field[f] = latest.spec.field[f]
      BY <1>1, <1>3, <3>1 DEF Delta, Remembers
    <3>3. Near(object, f, latest.spec.field[f]) \/ (MayFail /\ f \in Pendable)
      BY <1>1 DEF Remembers
    <3> QED
      BY <1>2, <3>2, <3>3, NearSame
  <2>4. NothingMissing'
    BY <1>2, <2>2, <2>3 DEF NothingMissing
  <2> QED
    BY <1>2, <2>1, <2>4 DEF Knows, TagsFollow
<1>4. CASE Delta(desired, latest) # {}
  <2>1. latest' = latest /\ pc' \in {"patchError", "modify"}
    BY <1>4 DEF Updated, AfterTags
  <2>2. Remembers'
    BY <1>1, <1>2, <2>1, TagsRemember
  <2> QED
    BY <1>2, <2>1, <2>2 DEF Knows, TagsFollow, Informed
<1> QED
  BY <1>3, <1>4

\* The calls for the tags.
LEMMA TagsKnow == Typed /\ Knows /\ (RemoveInstanceTags \/ AddInstanceTags) => Knows'
<1> SUFFICES ASSUME Typed, Knows, RemoveInstanceTags \/ AddInstanceTags PROVE Knows'
  OBVIOUS
<1>1. CASE RemoveInstanceTags
  <2>1. /\ pc = "removeTags" /\ object.status # "none" /\ UNCHANGED <<cr, desired>>
        /\ object' = [object EXCEPT !.tags = object.tags \ (latest.spec.tags \ desired.spec.tags)]
        /\ IF desired.spec.tags \subseteq latest.spec.tags
           THEN pc' = AfterTags(desired, latest) /\ latest' = Updated
           ELSE pc' = "addTags" /\ UNCHANGED latest
    BY <1>1 DEF RemoveInstanceTags, RemoveTags
  <2>2. object.tags = latest.spec.tags /\ Remembers /\ Tag # {}
    BY <2>1 DEF Knows, TagsFollow
  <2>3. object.tags \ (latest.spec.tags \ desired.spec.tags)
          = latest.spec.tags \intersect desired.spec.tags
    BY <2>2
  <2>4. CASE desired.spec.tags \subseteq latest.spec.tags
    <3>1. latest.spec.tags \intersect desired.spec.tags = desired.spec.tags
      BY <2>4
    <3> QED
      BY <2>1, <2>3, <2>4, <3>1, TagsDoneKnows
  <2>5. CASE ~(desired.spec.tags \subseteq latest.spec.tags)
    <3>1. /\ object'.tags = latest.spec.tags \intersect desired.spec.tags
          /\ SameValues(object, object') /\ object'.status = object.status
      BY <2>1, <2>3, TagsOnly
    <3>2. Remembers'
      BY <2>1, <2>2, <2>5, <3>1, TagsRemember
    <3> QED
      BY <2>1, <2>2, <2>5, <3>1, <3>2 DEF Knows, TagsFollow
  <2> QED
    BY <2>4, <2>5
<1>2. CASE AddInstanceTags
  <2>1. /\ pc = "addTags" /\ object.status # "none" /\ UNCHANGED <<cr, desired>>
        /\ object' = [object EXCEPT !.tags = object.tags
                                             \union (desired.spec.tags \ latest.spec.tags)]
        /\ pc' = AfterTags(desired, latest) /\ latest' = Updated
    BY <1>2 DEF AddInstanceTags, AddTags
  <2>2. object.tags = latest.spec.tags \intersect desired.spec.tags
    BY <2>1 DEF Knows, TagsFollow
  <2>3. object.tags \union (desired.spec.tags \ latest.spec.tags) = desired.spec.tags
    BY <2>2
  <2> QED
    BY <2>1, <2>3, TagsDoneKnows
<1> QED
  BY <1>1, <1>2

\* A modification is answered with what was asked for, unless AWS had given it up since the read.
LEMMA ModifyKnows == Typed /\ Knows /\ ModifyReplicationInstance => Knows'
<1> SUFFICES ASSUME Typed, Knows, ModifyReplicationInstance PROVE Knows'
  OBVIOUS
<1> DEFINE wanted == [f \in Field |-> Narrow(desired.spec.field[f])]
           after == Modified(object, wanted)
<1>1. /\ pc = "modify" /\ object.status = "available" /\ pc' = "patchSpec"
      /\ object' = after /\ latest' = Observed(Found, desired, after)
      /\ UNCHANGED <<cr, desired>> /\ Representable(desired.spec.field, Sent)
  BY DEF ModifyReplicationInstance, ModifyAnswered
<1>2. Remembers /\ object.tags = desired.spec.tags
  BY <1>1 DEF Knows, TagsFollow
<1>3. after \in Existing /\ \A f \in Sent : wanted[f] = desired.spec.field[f]
  BY <1>1, ModifiedType
<1>4. /\ after.tags = object.tags /\ after.status = object.status
      /\ \A f \in Field :
           /\ after.value[f] = IF f \in Sent \ Pendable THEN wanted[f] ELSE object.value[f]
           /\ after.pending[f] = IF f \in Sent \intersect Pendable
                                 THEN IF wanted[f] = object.value[f] THEN Unset ELSE wanted[f]
                                 ELSE object.pending[f]
  BY DEF Modified, Typed, Existing, Instance
<1> HIDE DEF wanted, after
<1>5. /\ \A f \in Field \intersect Found : latest'.spec.field[f] = Accepted(after)[f]
      /\ \A f \in Field \ Found : latest'.spec.field[f] = desired.spec.field[f]
      /\ latest'.spec.tags = desired.spec.tags
      /\ latest'.status.synced = SyncedSoFar(desired, after)
  BY <1>1, <1>3, ObservedReads DEF Typed
<1>6. ASSUME NEW f \in Field \intersect ModifySent, f \notin Sent, desired.spec.field[f] # Unset
      PROVE  desired.spec.field[f] = latest.spec.field[f]
  <2>1. f \in Compared
    BY DEF ModifySent, Compared, InstanceField
  <2>2. f \notin Delta(desired, latest)
    BY <1>6 DEF Sent
  <2> QED
    BY <1>2, <2>1, <2>2 DEF Delta, Remembers
<1>7. ASSUME NEW f \in Field \intersect Found \intersect ModifySent,
             desired.spec.field[f] \notin {Unset, latest'.spec.field[f]}
      PROVE  after.pending[f] = Unset /\ Near(after, f, latest'.spec.field[f])
  <2>1. Near(after, f, latest'.spec.field[f])
    BY <1>5 DEF Near
  <2>2. f \notin Sent
    <3>1. ASSUME f \in Sent PROVE Accepted(after)[f] = desired.spec.field[f]
      <4>1. f \notin Pendable => after.pending[f] = Unset
        BY <1>3 DEF Existing
      <4> QED
        BY <1>3, <1>4, <1>7, <3>1, <4>1 DEF Accepted
    <3> QED
      BY <1>5, <1>7, <3>1
  <2>3. after.pending[f] \in {Unset, desired.spec.field[f]}
    BY <1>2, <1>4, <1>6, <1>7, <2>2 DEF Remembers
  <2> QED
    BY <1>5, <1>7, <2>1, <2>3 DEF Accepted
<1>8. ASSUME "AutoMinorVersionUpgrade" \in Field,
             desired.spec.field["AutoMinorVersionUpgrade"] = Off
      PROVE  after.value["AutoMinorVersionUpgrade"] = Off
  <2> DEFINE f == "AutoMinorVersionUpgrade"
  <2>1. f \in Found /\ f \in ModifySent /\ f \notin Pendable /\ Off # Unset
    BY InstanceAssumption DEF Found, InstanceField, ModifySent, Pendable
  <2>2. CASE f \in Sent
    BY <1>3, <1>4, <1>8, <2>1, <2>2
  <2>3. CASE f \notin Sent
    <3>1. latest.spec.field[f] = Off
      BY <1>6, <1>8, <2>1, <2>3
    <3>2. Near(object, f, latest.spec.field[f])
      BY <1>2, <1>8, <2>1 DEF Remembers
    <3>3. object.pending[f] = Unset
      BY <1>8, <2>1 DEF Typed, Existing
    <3>4. object.value[f] = Off
      BY <1>8, <3>1, <3>2, <3>3 DEF Near, Accepted
    <3> QED
      BY <1>4, <1>8, <2>3, <3>4
  <2> QED
    BY <2>2, <2>3
<1>9. Answered'
  BY <1>1, <1>5, <1>7, <1>8 DEF Answered
<1>10. latest'.status.synced # "False" => InPlace'
  BY <1>1, <1>2, <1>4, <1>5 DEF InPlace, SyncedSoFar, Near
<1> QED
  BY <1>1, <1>4, <1>9, <1>10 DEF Knows, TagsFollow

\* A patch of Spec leaves the copies and the instance as they are.
LEMMA PatchKnows == Knows /\ PatchInstanceSpec => Knows'
<1> SUFFICES ASSUME Knows, PatchInstanceSpec PROVE Knows'
  OBVIOUS
<1>1. /\ pc = "patchSpec" /\ pc' = "patched" /\ UNCHANGED <<object, desired, latest>>
      /\ cr'.phase = cr.phase
  BY DEF PatchInstanceSpec, PatchSpec, local
<1>2. InPlace => InPlace'
  BY <1>1 DEF InPlace
<1> QED
  BY <1>1, <1>2 DEF Knows, TagsFollow, Informed

\* Every step of a pass keeps what the pass knows.
LEMMA ControllerKnows == Typed /\ Typed' /\ Knows /\ Controller => Knows'
<1> SUFFICES ASSUME Typed, Typed', Knows, Controller PROVE Knows'
  OBVIOUS
<1>1. CASE \/ Reconcile \/ ReadNotFound \/ MarkManaged \/ DeleteReplicationInstance
           \/ RemoveFinalizer \/ PatchStatus(IsSynced(latest)) \/ CallFails \/ Crash
  <2>1. pc' \notin Informed
    BY <1>1 DEF Reconcile, Begins, ReadNotFound, MarkManaged, DeleteReplicationInstance,
       RemoveFinalizer, PatchStatus, PassEnds, CallFails, CallFailsOr, Crash, Informed
  <2> QED
    BY <2>1, UninformedKnows
<1> QED
  BY <1>1, ReadKnows, CreateKnows, ReadCreatedKnows, TagsKnow, ModifyKnows, PatchKnows
     DEF Controller

\* What a pass has read or been answered stays true, but for what AWS may do by itself: while the
\* pass goes on nobody else changes the instance.
THEOREM KnowsTheInstance == Spec => []Knows
<1>1. Init => Knows
  BY DEF Init, Knows, Informed, TagsFollow
<1>2. Typed /\ Typed' /\ Invariant /\ Knows /\ [Next]_vars => Knows'
  <2>1. Knows /\ UNCHANGED vars => Knows'
    BY DEF vars, Knows, Remembers, TagsFollow, Answered, InPlace, NothingMissing, EndedWithTags
  <2> QED
    BY <2>1, UserKnows, AWSKnows, ControllerKnows DEF Next
<1> QED
  BY <1>1, <1>2, StaysTyped, StaysManaged, PTL DEF Spec

-----------------------------------------------------------------------------
(* What Synced means *)

\* Synced becomes True only after a pass that knows of nothing pending.
LEMMA SyncedKnows ==
  ASSUME Typed, Invariant, Knows, ReportsSynced
  PROVE  /\ object.status # "none"
         /\ \/ pc = "patched" /\ InPlace
            \/ pc = "patchStatus" /\ NothingMissing
<1>1. cr.phase = "live"
  BY DEF ReportsSynced, PatchStatus, Typed, Copy, ResourceOf
<1>2. ~DeleteRequested(desired)
  BY <1>1 DEF Invariant, Managed, DeleteRequested
<1>3. PICK terminal \in {pc = "patchTerminal"} :
        cr' = [cr EXCEPT !.status = [latest.status EXCEPT
                 !.synced = SyncedCondition(IsSynced(latest)), !.terminal = terminal]]
  BY <1>1 DEF ReportsSynced, PatchStatus
<1>4. /\ cr'.status.synced = SyncedCondition(IsSynced(latest))
      /\ cr'.status.terminal = terminal
  BY <1>3 DEF Typed, Copy, ResourceOf
<1>5. /\ pc \in {"patchStatus", "patched", "patchError"}
      /\ SyncedCondition(IsSynced(latest)) = "True"
  BY <1>3, <1>4 DEF ReportsSynced, PatchStatus
<1>6. pc # "patchError" /\ latest.status.synced # "False"
  BY <1>2, <1>5 DEF SyncedCondition
<1>7. pc \in {"patchStatus", "patched"}
  BY <1>5, <1>6
<1>8. object.status # "none"
  BY <1>1, <1>7 DEF Knows, Informed
<1> QED
  BY <1>6, <1>7, <1>8 DEF Knows

\* Synced stays other than True while values are pending, unless the pass has ended with the tags.
THEOREM SyncedIsInPlace == Spec => SyncedMeansInPlace
<1>1. Typed /\ Invariant /\ Knows /\ [Next]_vars
        => [ReportsSynced /\ ~EndedWithTags => ~HasPending(object)]_vars
  BY SyncedKnows DEF InPlace, NothingMissing
<1> QED
  BY <1>1, StaysTyped, StaysManaged, KnowsTheInstance, PTL DEF Spec, SyncedMeansInPlace

\* Where Spec is what the pass has left, a value that is near the one left agrees with Spec.
LEMMA NearAgrees ==
  ASSUME Typed, object.status # "none", NEW spec, NEW left,
         \A f \in Field : Agrees(f, left[f], spec), NEW f \in Field,
         Near(object, f, left[f]),
         "AutoMinorVersionUpgrade" \in Field
           => Near(object, "AutoMinorVersionUpgrade", left["AutoMinorVersionUpgrade"])
  PROVE  Agrees(f, Accepted(object)[f], spec) \/ spec[f] = Unset
<1>1. CASE Accepted(object)[f] = left[f]
  BY <1>1
<1>2. CASE /\ f = "EngineVersion" /\ left[f] # Unset /\ Accepted(object)[f][1] = left[f][1]
           /\ "AutoMinorVersionUpgrade" \in Field
                => object.value["AutoMinorVersionUpgrade"] = On
  <2>1. Accepted(object)[f] # Unset
    BY FieldValues DEF Typed, Existing, Accepted
  <2>2. left[f][1] = spec[f][1]
    BY DEF Agrees
  <2>3. "AutoMinorVersionUpgrade" \in Field => spec["AutoMinorVersionUpgrade"] # Off
    <3> SUFFICES ASSUME "AutoMinorVersionUpgrade" \in Field
                 PROVE  spec["AutoMinorVersionUpgrade"] = On
      BY InstanceAssumption
    <3>1. spec["AutoMinorVersionUpgrade"] = left["AutoMinorVersionUpgrade"]
      BY DEF Agrees
    <3>2. object.pending["AutoMinorVersionUpgrade"] = Unset
      BY DEF Typed, Existing, Pendable
    <3> QED
      BY <1>2, <3>1, <3>2 DEF Near, Accepted
  <2> QED
    BY <1>2, <2>1, <2>2, <2>3 DEF Agrees
<1> QED
  BY <1>1, <1>2 DEF Near

\* Synced becomes True only if AWS has the tags and has accepted every value that is asked for and
\* that AWS reports.
THEOREM SyncedIsAccepted == Spec => SyncedMeansAccepted
<1> DEFINE Goal == /\ object.tags = cr.spec.tags
                   /\ Missing(cr.spec.field) \intersect Found
                        \subseteq IF MayFail /\ EndedWithTags THEN Pendable ELSE {}
<1>1. Typed /\ Invariant /\ Knows /\ [Next]_vars => [ReportsSynced /\ Unedited => Goal]_vars
  <2> SUFFICES ASSUME Typed, Invariant, Knows, ReportsSynced, Unedited PROVE Goal
    BY DEF vars
  <2> DEFINE left == IF pc = "patched" THEN latest ELSE desired
  <2>1. /\ cr.spec.tags = left.spec.tags
        /\ \A f \in Field : Agrees(f, left.spec.field[f], cr.spec.field)
    BY DEF Unedited
  <2>2. object.status # "none" /\ object.tags = left.spec.tags
    BY SyncedKnows DEF InPlace, NothingMissing
  <2>3. \A f \in Field \intersect Found \intersect ModifySent :
          Near(object, f, left.spec.field[f]) \/ (MayFail /\ EndedWithTags /\ f \in Pendable)
    BY SyncedKnows DEF InPlace, NothingMissing
  <2> HIDE DEF left
  <2>4. "AutoMinorVersionUpgrade" \in Field
          => Near(object, "AutoMinorVersionUpgrade", left.spec.field["AutoMinorVersionUpgrade"])
    BY <2>3 DEF Found, InstanceField, ModifySent, Pendable
  <2>5. ASSUME NEW f \in Missing(cr.spec.field) \intersect Found
        PROVE  MayFail /\ EndedWithTags /\ f \in Pendable
    <3>1. /\ f \in Field \intersect Found \intersect ModifySent /\ cr.spec.field[f] # Unset
          /\ ~Agrees(f, Accepted(object)[f], cr.spec.field)
      BY DEF Missing
    <3>2. ~Near(object, f, left.spec.field[f])
      BY <2>1, <2>2, <2>4, <3>1, NearAgrees
    <3> QED
      BY <2>3, <3>1, <3>2
  <2> QED
    BY <2>1, <2>2, <2>5
<1> QED
  BY <1>1, StaysTyped, StaysManaged, KnowsTheInstance, PTL DEF Spec, SyncedMeansAccepted

-----------------------------------------------------------------------------
(* What a patch of Spec replaces *)

\* What the pass would patch where the answer is a value that Spec agrees with.
LEMMA PatchKeepsVersion ==
  ASSUME Typed, Answered, object.status # "none", "EngineVersion" \in Field,
         NEW from, from = Normalized(desired, latest).spec.field,
         NEW spec \in [Field -> Values], NEW after,
         after = [f \in Field |-> IF latest.spec.field[f] # from[f] THEN latest.spec.field[f]
                                  ELSE spec[f]],
         latest.spec.field["EngineVersion"] # from["EngineVersion"],
         spec["EngineVersion"] # Unset,
         Agrees("EngineVersion", desired.spec.field["EngineVersion"], spec),
         Agrees("EngineVersion", Accepted(object)["EngineVersion"], spec)
  PROVE  Agrees("EngineVersion", spec["EngineVersion"], after)
<1> DEFINE auto == "AutoMinorVersionUpgrade"
           want == desired.spec.field["EngineVersion"]
           have == latest.spec.field["EngineVersion"]
           accepted == Accepted(object)["EngineVersion"]
           mine == spec["EngineVersion"]
<1>1. after["EngineVersion"] = have
  OBVIOUS
<1>2. want # Unset /\ mine[1] = want[1]
  BY DEF Agrees
<1>3. want # have
  BY DEF Normalized, Typed, Copy, ResourceOf
<1>4. Near(object, "EngineVersion", have)
  BY <1>2, <1>3 DEF Answered, Found, InstanceField, ModifySent
<1>5. accepted # Unset
  BY FieldValues DEF Typed, Existing, Accepted
<1>6. have # Unset /\ accepted[1] = have[1] /\ mine[1] = accepted[1]
  BY <1>4, <1>5 DEF Near, Agrees
<1>7. auto \in Field /\ desired.spec.field[auto] = Off
  BY <1>2, <1>3, <1>6 DEF Normalized, RequiresEngineVersionUpdate, Typed, Copy, ResourceOf
<1>8. object.value[auto] = Off /\ On # Off
  BY <1>7, InstanceAssumption DEF Answered
<1>9. accepted = have
  BY <1>4, <1>7, <1>8 DEF Near
<1>10. from[auto] = Off
  BY <1>7 DEF Normalized, Typed, Copy, ResourceOf
<1>11. CASE mine = have
  BY <1>1, <1>11 DEF Agrees
<1>12. CASE mine # have
  <2>1. spec[auto] # Off
    BY <1>7, <1>9, <1>12 DEF Agrees
  <2>2. after[auto] # Off
    BY <1>7, <1>10, <2>1
  <2> QED
    BY <1>1, <1>2, <1>6, <2>2 DEF Agrees
<1> QED
  BY <1>11, <1>12

\* What a pass patches into Spec never replaces a value that the instance has accepted.
THEOREM PatchKeepsAccepted == Spec => KeepsAccepted
<1> DEFINE Goal == \A f \in Field \intersect ModifySent :
                     /\ cr.spec.field[f] # Unset /\ Agrees(f, desired.spec.field[f], cr.spec.field)
                     /\ Agrees(f, Accepted(object)[f], cr.spec.field)
                     => Agrees(f, cr.spec.field[f], cr'.spec.field)
<1>1. Typed /\ Knows /\ [Next]_vars => [PatchInstanceSpec => Goal]_vars
  <2> SUFFICES ASSUME Typed, Knows, PatchInstanceSpec, NEW f \in Field \intersect ModifySent,
                      cr.spec.field[f] # Unset,
                      Agrees(f, desired.spec.field[f], cr.spec.field),
                      Agrees(f, Accepted(object)[f], cr.spec.field)
               PROVE  Agrees(f, cr.spec.field[f], cr'.spec.field)
    BY DEF vars
  <2>1. PICK from : /\ PatchSpec(from, latest.spec)
                    /\ from \in {latest.spec, Normalized(desired, latest).spec}
    BY DEF PatchInstanceSpec
  <2> DEFINE after == [g \in Field |-> IF latest.spec.field[g] # from.field[g]
                                       THEN latest.spec.field[g] ELSE cr.spec.field[g]]
  <2>2. cr'.spec.field = after
    <3>1. ASSUME NEW field, NEW tags
          PROVE  [cr EXCEPT !.spec.field = field, !.spec.tags = tags].spec.field = field
      BY DEF Typed, Copy, ResourceOf
    <3> QED
      BY <2>1, <3>1 DEF PatchSpec
  <2>3. CASE latest.spec.field[f] = from.field[f]
    BY <2>2, <2>3 DEF Agrees
  <2>4. CASE latest.spec.field[f] # from.field[f]
    <3>1. from.field = Normalized(desired, latest).spec.field
      BY <2>1, <2>4
    <3>2. object.status # "none"
      BY <2>4 DEF Knows, Typed, Existing, Instance, Accepted, Agrees
    <3>3. Answered
      BY <3>2 DEF Knows, PatchInstanceSpec, PatchSpec
    <3>4. CASE f = "EngineVersion"
      <4>1. cr.spec.field \in [Field -> Values]
        BY DEF Typed, Copy, ResourceOf
      <4> QED
        BY <2>2, <2>4, <3>1, <3>2, <3>3, <3>4, <4>1, PatchKeepsVersion
    <3>5. CASE f # "EngineVersion"
      <4>1. from.field[f] = desired.spec.field[f]
        BY <3>1, <3>5 DEF Normalized, Typed, Copy, ResourceOf
      <4>2. /\ cr.spec.field[f] = desired.spec.field[f]
            /\ cr.spec.field[f] = Accepted(object)[f]
        BY <3>5 DEF Agrees
      <4>3. f \in Found
        BY <2>4, <3>3, <4>1 DEF Answered
      <4>4. Near(object, f, latest.spec.field[f])
        BY <2>4, <3>3, <4>1, <4>2, <4>3 DEF Answered
      <4> QED
        BY <2>4, <3>5, <4>1, <4>2, <4>4 DEF Near
    <3> QED
      BY <3>4, <3>5
  <2> QED
    BY <2>3, <2>4
<1> QED
  BY <1>1, StaysTyped, KnowsTheInstance, PTL DEF Spec, KeepsAccepted

-----------------------------------------------------------------------------
(* Numbers and deletions *)

\* Neither a creation nor a modification takes only the low 32 bits of a number to AWS: one that
\* does not fit is an error before the call.
THEOREM NumbersAlwaysFit == Spec => []NumbersFit
<1>1. Typed => NumbersFit
  <2> SUFFICES ASSUME Typed, NEW f \in Field
               PROVE  object.value[f] # Wrapped /\ object.pending[f] # Wrapped
    BY DEF NumbersFit
  <2>1. {object.value[f], object.pending[f]} \subseteq ValueOf(f) \union {Unset}
    BY DEF Typed, Existing
  <2>2. Wrapped \notin ValueOf(f) \union {Unset}
    BY InstanceAssumption DEF ValueOf
  <2> QED
    BY <2>1, <2>2
<1> QED
  BY <1>1, StaysTyped, PTL

\* DeleteReplicationInstance is called only where the instance could be deleted when it was read.
\* That need not last until the call: AWS may have begun a modification or an upgrade of an available
\* instance, and nothing else can have come between but a failure.
THEOREM DeletionsFit == Spec => []DeleteFits
<1>1. Init => DeleteFits
  BY DEF Init, DeleteFits
<1>2. Typed /\ DeleteFits /\ [Next]_vars => DeleteFits'
  <2> SUFFICES ASSUME Typed, DeleteFits, [Next]_vars PROVE DeleteFits'
    OBVIOUS
  <2>1. CASE UNCHANGED vars
    BY <2>1 DEF vars, DeleteFits
  <2>2. CASE User
    BY <2>2 DEF User, UserCreates, UserSets, UserSetsTags, UserDeletes, UserEdits, local, DeleteFits
  <2>3. CASE AWS
    <3>1. pc' = pc /\ latest' = latest
      BY <2>3 DEF AWS, InstanceSettles, ModificationStarts, ModificationEnds, ModificationFails,
         MinorUpgrade, InstanceFails, InstanceIsDeleted, Becomes, local
    <3>2. /\ object.status = "failed" => object'.status = "failed"
          /\ object.status \in {"available", "failed", "modifying", "upgrading"}
               => object'.status \in {"available", "failed", "modifying", "upgrading"}
      <4>1. "status" \in DOMAIN object
        BY DEF Typed, Existing, Instance
      <4>2. CASE MinorUpgrade
        <5>1. PICK minor : object' = [object EXCEPT !.status = "upgrading",
                                        !.value["EngineVersion"] = <<@[1], minor>>]
          BY <4>2 DEF MinorUpgrade, Becomes
        <5>2. object.status = "available"
          BY <4>2 DEF MinorUpgrade
        <5> QED
          BY <4>1, <5>1, <5>2
      <4>3. CASE InstanceSettles \/ InstanceIsDeleted
        BY <4>1, <4>3 DEF InstanceSettles, InstanceIsDeleted, Becomes
      <4>4. CASE ModificationStarts \/ ModificationEnds
        BY <4>1, <4>4 DEF ModificationStarts, ModificationEnds, Becomes
      <4>5. CASE ModificationFails \/ InstanceFails
        BY <4>1, <4>5 DEF ModificationFails, InstanceFails, Becomes
      <4> QED
        BY <2>3, <4>2, <4>3, <4>4, <4>5 DEF AWS
    <3> QED
      BY <3>1, <3>2 DEF DeleteFits, MayHaveBecome
  <2>4. CASE ReadInstance
    <3> DEFINE found == SdkFind(desired)
    <3>1. found.status.object = object.status
      BY SdkFindReads DEF Typed
    <3> HIDE DEF found
    <3>2. /\ pc' \in {DeleteStep(found), UpdateStep(desired, found)}
          /\ object' = object /\ latest' = found
      BY <2>4 DEF ReadInstance, ReadFound, found
    <3>3. pc' = "delete" => DeleteStep(found) = "delete"
      BY <3>2, UpdateStepCall DEF Watched
    <3> QED
      BY <3>1, <3>2, <3>3 DEF DeleteFits, MayHaveBecome, DeleteStep
  <2>5. CASE Controller /\ ~ReadInstance
    <3>1. pc' # "delete"
      BY <2>5, UpdateStepCall DEF Controller, Reconcile, Begins, ReadNotFound, MarkManaged,
         SdkCreate, ReadCreatedInstance, ReadCreated, RemoveInstanceTags, RemoveTags,
         AddInstanceTags, AddTags, ModifyReplicationInstance, DeleteReplicationInstance,
         PatchInstanceSpec, PatchSpec, RemoveFinalizer, PatchStatus, PassEnds, CallFails,
         CallFailsOr, Crash, Watched
    <3> QED
      BY <3>1 DEF DeleteFits
  <2> QED
    BY <2>1, <2>2, <2>3, <2>4, <2>5 DEF Next
<1> QED
  BY <1>1, <1>2, StaysTyped, PTL DEF Spec

-----------------------------------------------------------------------------
(* Every pass comes to its end *)

\* The user and AWS leave the pass where it is.
LEMMA OthersLeavePass == User \/ AWS => pc' = pc
<1>1. User => pc' = pc
  BY DEF User, UserCreates, UserSets, UserSetsTags, UserDeletes, UserEdits
<1>2. AWS => pc' = pc
  BY DEF AWS, InstanceSettles, ModificationStarts, ModificationEnds, ModificationFails,
         MinorUpgrade, InstanceFails, InstanceIsDeleted, Becomes
<1> QED
  BY <1>1, <1>2

\* Whatever the pass does next, fails in or dies in, it does not come back to.
LEMMA ControllerAdvances == pc \in Stage /\ pc # "idle" /\ Controller => Forward
<1> SUFFICES ASSUME pc \in Stage, pc # "idle", Controller PROVE Forward
  OBVIOUS
<1>1. CASE ReadInstance
  <2>1. PICK have : \E wanted : ReadFound(wanted, have, IF DeleteRequested(desired)
                      THEN DeleteStep(have) ELSE UpdateStep(desired, have))
    BY <1>1 DEF ReadInstance
  <2>2. /\ UpdateStep(desired, have) \in Stage \ {"read"}
        /\ DeleteStep(have) \in Stage \ {"read"}
    BY DEF UpdateStep, FirstOfTags, AfterTags, DeleteStep, Stage, Call
  <2> QED
    BY <2>1, <2>2, ReadingAdvances
<1>2. CASE SdkCreate \/ ModifyReplicationInstance \/ DeleteReplicationInstance
  BY <1>2, ChangesAdvance DEF SdkCreate, ModifyReplicationInstance, DeleteReplicationInstance
<1>3. CASE RemoveInstanceTags \/ AddInstanceTags
  <2>1. AfterTags(desired, latest) \in AfterTheTags
    BY DEF AfterTags, AfterTheTags
  <2> QED
    BY <1>3, <2>1, TagsAdvance DEF RemoveInstanceTags, AddInstanceTags
<1>4. CASE ReadNotFound \/ ReadCreatedInstance \/ MarkManaged
  BY <1>4, ReadingAdvances, ManagingAdvances DEF ReadCreatedInstance
<1>5. CASE PatchInstanceSpec \/ RemoveFinalizer \/ PatchStatus(IsSynced(latest))
  BY <1>5, PatchesAdvance DEF PatchInstanceSpec
<1>6. CASE CallFails \/ Crash
  BY <1>6, FailuresAdvance DEF CallFails
<1> QED
  BY <1>1, <1>2, <1>3, <1>4, <1>5, <1>6 DEF Controller, Reconcile, Begins

\* A pass over an instance never goes back and is over after six steps, whatever fails: the half of
\* DeletionCompletes and of ComesToRest that needs no fairness.
THEOREM PassesEnd == Spec => PassesAdvance
<1>1. TypeOK /\ [Next]_vars => [Advances(Controller)]_vars
  BY OthersLeavePass, ControllerAdvances DEF TypeOK, Next, Advances, Forward
<1> QED
  BY <1>1, TypeCorrect, PTL DEF Spec, PassesAdvance
=============================================================================
