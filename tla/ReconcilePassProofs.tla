------------------------ MODULE ReconcilePassProofs ------------------------
(***************************************************************************)
(* Why the passes over a resource are the life of a managed resource, for  *)
(* every kind at once: what the steps of ReconcilePass preserve, and what  *)
(* the other steps of a kind have to keep to.  The proofs of a kind say    *)
(* that they do.                                                           *)
(***************************************************************************)
EXTENDS ReconcilePass, TLAPS

\* What the proofs ask of the types: the fields that they speak of are there.
Shaped ==
  /\ {"phase", "finalizer"} \subseteq DOMAIN cr
  /\ {"phase", "finalizer"} \subseteq DOMAIN desired
  /\ "status" \in DOMAIN object

\* A copy of the custom resource is older than the resource itself, but what it says of the
\* finalizer and of a deletion stays true: the controller alone removes the finalizer, as the
\* last step of a pass that saw a deletion and found no object; and it alone creates the object,
\* with the finalizer in place.
Managed ==
  /\ cr.phase \in Phase /\ cr.finalizer \in BOOLEAN /\ desired.finalizer \in BOOLEAN
  /\ cr.finalizer => cr.phase # "absent"
  /\ cr.phase = "deleting" => cr.finalizer
  /\ desired.finalizer => cr.finalizer
  /\ desired.phase = "deleting" => cr.phase = "deleting"
  /\ pc = "create" => cr.finalizer
  /\ pc = "removeFinalizer" => object.status = "none" /\ desired.phase = "deleting"
  /\ pc = "delete" => desired.phase = "deleting"
  /\ object.status # "none" => cr.finalizer
  /\ object.status = "deleting" => cr.phase = "deleting"

Invariant == Shaped /\ Managed

\* A step of the abstract life, or a stutter.
Lives == [Promise!Next]_<<cr.phase, cr.finalizer, object.status # "none">>

\* The finalizer, the deletion and the existence of the object are what they were.
LifeUnchanged ==
  /\ {"phase", "finalizer"} \subseteq DOMAIN cr'
  /\ cr'.phase = cr.phase /\ cr'.finalizer = cr.finalizer
  /\ "status" \in DOMAIN object'
  /\ (object'.status = "none") <=> (object.status = "none")
  /\ object'.status = "deleting" => object.status = "deleting"

\* The copy is the one it was, as far as it matters, or none.
CopyKept ==
  /\ {"phase", "finalizer"} \subseteq DOMAIN desired'
  /\ \/ desired'.phase = desired.phase /\ desired'.finalizer = desired.finalizer
     \/ desired'.phase = "absent" /\ desired'.finalizer = FALSE

\* The calls that the proofs watch over.
Watched == {"create", "removeFinalizer", "delete"}

-----------------------------------------------------------------------------
(* What a step has to keep to *)

\* A step that leaves alone what the life is about stutters.
LEMMA Stutters ==
  ASSUME LifeUnchanged PROVE Lives
BY DEF Lives, LifeUnchanged

\* It preserves the invariant, too, when it leads to no call that is watched.
LEMMA QuietStep ==
  ASSUME Invariant, LifeUnchanged, CopyKept, pc' \notin Watched
  PROVE  Invariant' /\ Lives
<1>1. Shaped'
  BY DEF Shaped, LifeUnchanged, CopyKept
<1>2. Managed'
  BY DEF Invariant, Shaped, Managed, LifeUnchanged, CopyKept, Watched
<1> QED
  BY <1>1, <1>2, Stutters DEF Invariant

\* The user and AWS do not touch the pass.
LEMMA OutsideStep ==
  ASSUME Invariant, LifeUnchanged, UNCHANGED <<desired, pc>>
  PROVE  Invariant' /\ Lives
<1>1. Shaped'
  BY DEF Invariant, Shaped, LifeUnchanged
<1>2. Managed'
  BY DEF Invariant, Shaped, Managed, LifeUnchanged
<1> QED
  BY <1>1, <1>2, Stutters DEF Invariant

\* A deletion is called for when the pass saw one requested.
LEMMA DeletingStep ==
  ASSUME Invariant, LifeUnchanged, CopyKept,
         desired'.phase = desired.phase, desired.phase = "deleting", pc' = "delete"
  PROVE  Invariant' /\ Lives
<1>1. Shaped'
  BY DEF Shaped, LifeUnchanged, CopyKept
<1>2. Managed'
  BY DEF Invariant, Shaped, Managed, LifeUnchanged, CopyKept
<1> QED
  BY <1>1, <1>2, Stutters DEF Invariant

-----------------------------------------------------------------------------
(* The user *)

\* A new resource carries no finalizer, and there is no object for it.
LEMMA UserCreatesLives ==
  ASSUME Invariant, NEW spec, UserCreates(spec) PROVE Invariant' /\ Lives
<1>1. /\ cr' = [NoResource EXCEPT !.phase = "live", !.spec = spec]
      /\ cr.phase = "absent" /\ UNCHANGED <<object, pc, desired>>
  BY DEF UserCreates, UserEdits, local
<1>2. /\ {"phase", "finalizer"} \subseteq DOMAIN cr'
      /\ cr'.phase = "live" /\ cr'.finalizer = FALSE
  BY <1>1 DEF NoResource
<1>3. ~cr.finalizer /\ object.status = "none"
  BY <1>1 DEF Invariant, Managed
<1>4. Invariant'
  BY <1>1, <1>2, <1>3 DEF Invariant, Shaped, Managed, Phase
<1>5. Promise!Declare
  BY <1>1, <1>2, <1>3 DEF Promise!Declare, Invariant, Managed
<1> QED
  BY <1>4, <1>5 DEF Lives, Promise!Next

\* An edit of a field leaves alone what the life is about.
LEMMA UserSetsLives ==
  ASSUME Invariant, NEW f, NEW v, UserSets(f, v) PROVE Invariant' /\ Lives
<1>1. cr' = [cr EXCEPT !.spec.field[f] = v] /\ UNCHANGED <<object, pc, desired>>
  BY DEF UserSets, UserEdits, local
<1>2. LifeUnchanged
  BY <1>1 DEF Invariant, Shaped, LifeUnchanged
<1> QED
  BY <1>1, <1>2, OutsideStep

\* So does one of the tags.
LEMMA UserSetsTagsLives ==
  ASSUME Invariant, NEW tags, UserSetsTags(tags) PROVE Invariant' /\ Lives
<1>1. cr' = [cr EXCEPT !.spec.tags = tags] /\ UNCHANGED <<object, pc, desired>>
  BY DEF UserSetsTags, UserEdits, local
<1>2. LifeUnchanged
  BY <1>1 DEF Invariant, Shaped, LifeUnchanged
<1> QED
  BY <1>1, <1>2, OutsideStep

\* A deletion takes effect at once without a finalizer, and is a request with one.
LEMMA UserDeletesLives ==
  ASSUME Invariant, UserDeletes PROVE Invariant' /\ Lives
<1>1. cr.phase = "live" /\ UNCHANGED <<object, pc, desired>>
  BY DEF UserDeletes, local
<1>2. CASE cr.finalizer
  <2>1. /\ {"phase", "finalizer"} \subseteq DOMAIN cr'
        /\ cr'.phase = "deleting" /\ cr'.finalizer = TRUE
    BY <1>2 DEF UserDeletes, Invariant, Shaped, Managed
  <2>2. Invariant'
    BY <1>1, <1>2, <2>1 DEF Invariant, Shaped, Managed, Phase
  <2>3. Promise!Withdraw
    BY <1>1, <1>2, <2>1 DEF Promise!Withdraw
  <2> QED
    BY <2>2, <2>3 DEF Lives, Promise!Next
<1>3. CASE ~cr.finalizer
  <2>1. /\ {"phase", "finalizer"} \subseteq DOMAIN cr'
        /\ cr'.phase = "absent" /\ cr'.finalizer = FALSE
    BY <1>3 DEF UserDeletes, NoResource
  <2>2. Invariant'
    BY <1>1, <1>3, <2>1 DEF Invariant, Shaped, Managed, Phase
  <2>3. Promise!Withdraw
    BY <1>1, <1>3, <2>1 DEF Promise!Withdraw, Invariant, Managed
  <2> QED
    BY <2>2, <2>3 DEF Lives, Promise!Next
<1> QED
  BY <1>2, <1>3

-----------------------------------------------------------------------------
(* The shared steps of a pass *)

\* A pass begins with a copy that says of the finalizer and a deletion what the resource says.
LEMMA BeginsLives ==
  ASSUME Invariant, NEW ko, NEW next, Begins(ko, next), next \notin Watched,
         {"phase", "finalizer"} \subseteq DOMAIN ko,
         ko.phase = cr.phase, ko.finalizer = cr.finalizer
  PROVE  Invariant' /\ Lives
<1>1. desired' = ko /\ pc' = next /\ UNCHANGED <<cr, object>>
  BY DEF Begins
<1>2. Invariant'
  BY <1>1 DEF Invariant, Shaped, Managed, Watched
<1>3. LifeUnchanged
  BY <1>1 DEF Invariant, Shaped, LifeUnchanged
<1> QED
  BY <1>2, <1>3, Stutters

\* The copy that a pass takes says what the resource says.
LEMMA TakenCopy ==
  ASSUME Invariant
  PROVE  /\ {"phase", "finalizer"} \subseteq DOMAIN Taken
         /\ Taken.phase = cr.phase /\ Taken.finalizer = cr.finalizer
BY DEF Invariant, Shaped, Taken

\* A pass begins.
LEMMA ReconcileLives ==
  ASSUME Invariant, Reconcile PROVE Invariant' /\ Lives
BY BeginsLives, TakenCopy DEF Reconcile, Watched

\* A read decides on a deletion only if the pass saw one requested, and on no creation.
LEMMA ReadFoundLives ==
  ASSUME Invariant, NEW wanted, NEW ko, NEW next, ReadFound(wanted, ko, next),
         {"phase", "finalizer"} \subseteq DOMAIN wanted,
         wanted.phase = desired.phase, wanted.finalizer = desired.finalizer,
         next \in Watched => next = "delete" /\ desired.phase = "deleting"
  PROVE  Invariant' /\ Lives
<1>1. desired' = wanted /\ pc' = next /\ UNCHANGED <<cr, object>>
  BY DEF ReadFound
<1>2. LifeUnchanged /\ CopyKept
  BY <1>1 DEF Invariant, Shaped, LifeUnchanged, CopyKept
<1>3. CASE next \in Watched
  BY <1>1, <1>2, <1>3, DeletingStep
<1>4. CASE next \notin Watched
  BY <1>1, <1>2, <1>4, QuietStep
<1> QED
  BY <1>3, <1>4

\* Without an object a pass may create one under the finalizer, or remove the finalizer.
LEMMA ReadNotFoundLives ==
  ASSUME Invariant, ReadNotFound PROVE Invariant' /\ Lives
<1>1. /\ object.status = "none" /\ UNCHANGED <<cr, object, desired>>
      /\ pc' = IF desired.phase = "deleting" THEN "removeFinalizer"
               ELSE IF desired.finalizer THEN "create" ELSE "markManaged"
  BY DEF ReadNotFound, local, DeleteRequested
<1>2. LifeUnchanged
  BY <1>1 DEF Invariant, Shaped, LifeUnchanged
<1>3. Invariant'
  BY <1>1 DEF Invariant, Shaped, Managed
<1> QED
  BY <1>2, <1>3, Stutters

\* The finalizer is stored before anything is created.
LEMMA MarkManagedLives ==
  ASSUME Invariant, MarkManaged PROVE Invariant' /\ Lives
<1>1. /\ cr.phase # "absent" /\ pc' = "create" /\ UNCHANGED object
      /\ cr' = [cr EXCEPT !.finalizer = TRUE]
      /\ desired' = [desired EXCEPT !.finalizer = TRUE]
  BY DEF MarkManaged
<1>2. /\ {"phase", "finalizer"} \subseteq DOMAIN cr'
      /\ {"phase", "finalizer"} \subseteq DOMAIN desired'
      /\ cr'.phase = cr.phase /\ cr'.finalizer = TRUE
      /\ desired'.phase = desired.phase /\ desired'.finalizer = TRUE
  BY <1>1 DEF Invariant, Shaped
<1>3. Invariant'
  BY <1>1, <1>2 DEF Invariant, Shaped, Managed
<1>4. Promise!Manage
  BY <1>1, <1>2 DEF Promise!Manage
<1> QED
  BY <1>3, <1>4 DEF Lives, Promise!Next

\* The read after a creation goes on to the patches.
LEMMA ReadCreatedLives ==
  ASSUME Invariant, NEW ko, ReadCreated(ko) PROVE Invariant' /\ Lives
<1>1. pc' = "patchSpec" /\ UNCHANGED <<cr, object, desired>>
  BY DEF ReadCreated
<1>2. LifeUnchanged /\ CopyKept
  BY <1>1 DEF Invariant, Shaped, LifeUnchanged, CopyKept
<1> QED
  BY <1>1, <1>2, QuietStep DEF Watched

\* Tags are no part of the life: their removal ...
LEMMA RemoveTagsLives ==
  ASSUME Invariant, NEW next, NEW ko, next \notin Watched, RemoveTags(next, ko)
  PROVE  Invariant' /\ Lives
<1>1. /\ pc' \in {next, "addTags"} /\ UNCHANGED <<cr, desired>>
      /\ object' = [object EXCEPT !.tags = @ \ (latest.spec.tags \ desired.spec.tags)]
  BY DEF RemoveTags
<1>2. LifeUnchanged /\ CopyKept
  BY <1>1 DEF Invariant, Shaped, LifeUnchanged, CopyKept
<1> QED
  BY <1>1, <1>2, QuietStep DEF Watched

\* ... and their addition stutter.
LEMMA AddTagsLives ==
  ASSUME Invariant, NEW next, NEW ko, next \notin Watched, AddTags(next, ko)
  PROVE  Invariant' /\ Lives
<1>1. /\ pc' = next /\ UNCHANGED <<cr, desired>>
      /\ object' = [object EXCEPT !.tags = @ \union (desired.spec.tags \ latest.spec.tags)]
  BY DEF AddTags
<1>2. LifeUnchanged /\ CopyKept
  BY <1>1 DEF Invariant, Shaped, LifeUnchanged, CopyKept
<1> QED
  BY <1>1, <1>2, QuietStep

\* A patch of Spec changes nothing but Spec.
LEMMA PatchSpecLives ==
  ASSUME Invariant, NEW from, NEW to, PatchSpec(from, to) PROVE Invariant' /\ Lives
<1>1. /\ pc' = "patched" /\ UNCHANGED <<object, desired>>
      /\ cr' = [cr EXCEPT
           !.spec.field = [f \in Field |-> IF to.field[f] # from.field[f] THEN to.field[f]
                                           ELSE @[f]],
           !.spec.tags  = IF to.tags # from.tags THEN to.tags ELSE @]
  BY DEF PatchSpec, local
<1>2. LifeUnchanged /\ CopyKept
  BY <1>1 DEF Invariant, Shaped, LifeUnchanged, CopyKept
<1> QED
  BY <1>1, <1>2, QuietStep DEF Watched

\* A patch that the API server may refuse changes nothing more.
LEMMA PatchSpecKeepingLives ==
  ASSUME Invariant, NEW immutable, NEW from, NEW to, PatchSpecKeeping(immutable, from, to)
  PROVE  Invariant' /\ Lives
<1>1. CASE PatchSpec(from, to)
  BY <1>1, PatchSpecLives
<1>2. CASE pc' = "patchError" /\ UNCHANGED <<cr, object, local>>
  <2>1. LifeUnchanged /\ CopyKept
    BY <1>2 DEF Invariant, Shaped, LifeUnchanged, CopyKept, local
  <2> QED
    BY <1>2, <2>1, QuietStep DEF Watched
<1> QED
  BY <1>1, <1>2 DEF PatchSpecKeeping

\* At the end of a pass there is no copy any more.
LEMMA EndsLives ==
  ASSUME Invariant, LifeUnchanged, PassEnds PROVE Invariant' /\ Lives
<1>1. CopyKept /\ pc' \notin Watched
  BY DEF PassEnds, NoResource, CopyKept, Watched
<1> QED
  BY <1>1, QuietStep

\* The patch of the status ends the pass.
LEMMA PatchStatusLives ==
  ASSUME Invariant, NEW isSynced, PatchStatus(isSynced) PROVE Invariant' /\ Lives
<1>1. PassEnds /\ UNCHANGED object
  BY DEF PatchStatus
<1>2. LifeUnchanged
  <2>1. CASE cr.phase = "absent"
    BY <1>1, <2>1 DEF PatchStatus, Invariant, Shaped, LifeUnchanged
  <2>2. CASE cr.phase # "absent"
    <3>1. PICK status : cr' = [cr EXCEPT !.status = status]
      BY <2>2 DEF PatchStatus
    <3> QED
      BY <1>1, <3>1 DEF Invariant, Shaped, LifeUnchanged
  <2> QED
    BY <2>1, <2>2
<1> QED
  BY <1>1, <1>2, EndsLives

\* The resource goes when there is no object any more.
LEMMA RemoveFinalizerLives ==
  ASSUME Invariant, RemoveFinalizer PROVE Invariant' /\ Lives
<1>1. /\ pc = "removeFinalizer" /\ cr.phase = "deleting" /\ cr' = NoResource
      /\ pc' = "idle" /\ desired' = NoResource /\ UNCHANGED object
  BY DEF RemoveFinalizer, PassEnds
<1>2. Invariant'
  BY <1>1 DEF Invariant, Shaped, Managed, NoResource, Phase
<1>3. Promise!Release
  BY <1>1 DEF Promise!Release, NoResource, Invariant, Managed
<1> QED
  BY <1>2, <1>3 DEF Lives, Promise!Next

\* A call that fails leads to the patch of an error.
LEMMA CallFailsLives ==
  ASSUME Invariant, NEW refused, CallFailsOr(refused) PROVE Invariant' /\ Lives
<1>1. pc' \in {"patchError", "patchTerminal"} /\ UNCHANGED <<cr, object, desired>>
  BY DEF CallFailsOr
<1>2. LifeUnchanged /\ CopyKept
  BY <1>1 DEF Invariant, Shaped, LifeUnchanged, CopyKept
<1> QED
  BY <1>1, <1>2, QuietStep DEF Watched

\* A process that dies leaves what is stored.
LEMMA CrashLives ==
  ASSUME Invariant, Crash PROVE Invariant' /\ Lives
<1>1. PassEnds /\ LifeUnchanged
  BY DEF Crash, Invariant, Shaped, LifeUnchanged
<1> QED
  BY <1>1, EndsLives

-----------------------------------------------------------------------------
(* The steps of a kind *)

\* A creation needs the finalizer, which is in place.
LEMMA CreationLives ==
  ASSUME Invariant, pc = "create", object.status = "none", pc' \notin Watched,
         UNCHANGED <<cr, desired>>,
         "status" \in DOMAIN object', object'.status \notin {"none", "deleting"}
  PROVE  Invariant' /\ Lives
<1>1. Invariant'
  BY DEF Invariant, Shaped, Managed, Watched
<1>2. Promise!Create
  BY DEF Promise!Create, Invariant, Managed
<1> QED
  BY <1>1, <1>2 DEF Lives, Promise!Next

\* A modification leaves an object that is not being deleted as it is in this respect.
LEMMA ModificationLives ==
  ASSUME Invariant, object.status # "none", pc' \notin Watched, UNCHANGED <<cr, desired>>,
         "status" \in DOMAIN object', object'.status \notin {"none", "deleting"}
  PROVE  Invariant' /\ Lives
<1>1. LifeUnchanged /\ CopyKept
  BY DEF Invariant, Shaped, LifeUnchanged, CopyKept
<1> QED
  BY <1>1, QuietStep

\* AWS begins a deletion that the pass has called for.
LEMMA DeletionBegins ==
  ASSUME Invariant, pc = "delete", object.status # "none", pc' \notin Watched,
         UNCHANGED <<cr, desired>>,
         "status" \in DOMAIN object', object'.status = "deleting"
  PROVE  Invariant' /\ Lives
<1>1. Invariant'
  BY DEF Invariant, Shaped, Managed, Watched
<1> QED
  BY <1>1 DEF Lives

\* The object goes because of a deletion that has been requested.
LEMMA DeletionEnds ==
  ASSUME Invariant, object.status # "none", UNCHANGED <<cr, desired>>,
         "status" \in DOMAIN object', object'.status = "none",
         \/ object.status = "deleting" /\ UNCHANGED pc
         \/ pc = "delete" /\ pc' = "removeFinalizer"
  PROVE  Invariant' /\ Lives
<1>1. Invariant'
  BY DEF Invariant, Shaped, Managed
<1>2. Promise!Delete
  BY DEF Promise!Delete, Invariant, Managed
<1> QED
  BY <1>1, <1>2 DEF Lives, Promise!Next

-----------------------------------------------------------------------------
(* What follows *)

\* A behaviour whose steps live keeps the promise.
LEMMA LivesIsPromised == Lives => [Promise!Next]_(Promise!vars)
BY DEF Lives, Promise!vars

\* What is managed is no orphan.
LEMMA ManagedIsNoOrphan == Invariant => NoOrphan
BY DEF Invariant, Managed, NoOrphan
-----------------------------------------------------------------------------
(* Every pass comes to its end *)

\* The step brings the pass nearer to its end.
Forward == StepsLeft[pc'] < StepsLeft[pc]

\* What may follow the tags.
AfterTheTags == {"modify", "patchStatus", "patchError", "patchTerminal"}

\* How far the end is, stage by stage.
LEMMA Distances ==
  /\ StepsLeft["read"] = 6 /\ StepsLeft["markManaged"] = 5 /\ StepsLeft["removeTags"] = 5
  /\ StepsLeft["create"] = 4 /\ StepsLeft["addTags"] = 4
  /\ StepsLeft["readCreated"] = 3 /\ StepsLeft["modify"] = 3 /\ StepsLeft["delete"] = 3
  /\ StepsLeft["patchSpec"] = 2 /\ StepsLeft["removeFinalizer"] = 2
  /\ StepsLeft["patchStatus"] = 1 /\ StepsLeft["patched"] = 1
  /\ StepsLeft["patchError"] = 1 /\ StepsLeft["patchTerminal"] = 1
  /\ StepsLeft["idle"] = 0
BY DEF StepsLeft, Stage, Call

\* No stage but the beginning is as far from the end.
LEMMA ReadIsFirst == \A s \in Stage \ {"read"} : StepsLeft[s] < StepsLeft["read"]
BY Distances DEF Stage, Call

\* A pass that has something to read goes on with one of its later calls, or ends.
LEMMA ReadingAdvances ==
  /\ \A wanted, ko, next : ReadFound(wanted, ko, next) /\ next \in Stage \ {"read"} => Forward
  /\ ReadNotFound => Forward
  /\ \A ko : ReadCreated(ko) => Forward
<1>1. ReadNotFound => pc = "read" /\ pc' \in {"removeFinalizer", "create", "markManaged"}
  BY DEF ReadNotFound
<1>2. ReadNotFound => Forward
  BY <1>1, Distances DEF Forward
<1> QED
  BY <1>2, Distances, ReadIsFirst DEF ReadFound, ReadCreated, Forward

\* The finalizer comes before the creation.
LEMMA ManagingAdvances == MarkManaged => Forward
BY Distances DEF MarkManaged, Forward

\* The tags are removed, then added, and never come back.
LEMMA TagsAdvance ==
  ASSUME NEW next \in AfterTheTags, NEW ko, RemoveTags(next, ko) \/ AddTags(next, ko)
  PROVE  Forward
<1>1. StepsLeft[next] \in {1, 3}
  BY Distances DEF AfterTheTags
<1>2. \/ pc = "removeTags" /\ pc' \in {next, "addTags"}
      \/ pc = "addTags" /\ pc' = next
  BY DEF RemoveTags, AddTags
<1> QED
  BY <1>1, <1>2, Distances DEF Forward

\* Patches end the pass, or lead to the one that does.
LEMMA PatchesAdvance ==
  /\ \A from, to : PatchSpec(from, to) => Forward
  /\ \A immutable, from, to : PatchSpecKeeping(immutable, from, to) => Forward
  /\ \A isSynced : PatchStatus(isSynced) => Forward
  /\ RemoveFinalizer => Forward
<1>1. ASSUME NEW from, NEW to, PatchSpec(from, to) PROVE Forward
  BY <1>1, Distances DEF PatchSpec, Forward
<1>2. ASSUME NEW immutable, NEW from, NEW to, PatchSpecKeeping(immutable, from, to) PROVE Forward
  BY <1>1, <1>2, Distances DEF PatchSpecKeeping, Forward
<1>3. ASSUME NEW isSynced, PatchStatus(isSynced) PROVE Forward
  BY <1>3, Distances DEF PatchStatus, PassEnds, Forward
<1>4. RemoveFinalizer => Forward
  BY Distances DEF RemoveFinalizer, PassEnds, Forward
<1> QED
  BY <1>1, <1>2, <1>3, <1>4

\* So do failures: after an error no other call is made.
LEMMA FailuresAdvance ==
  /\ \A refused : CallFailsOr(refused) => Forward
  /\ pc \in Stage /\ Crash => Forward
<1>1. \A s \in Call : StepsLeft[s] > 1
  BY Distances DEF Call
<1>2. \A s \in Stage \ {"idle"} : StepsLeft[s] > 0
  BY Distances DEF Stage, Call
<1>3. ASSUME NEW refused, CallFailsOr(refused) PROVE Forward
  <2>1. pc \in Call /\ pc' \in {"patchError", "patchTerminal"}
    BY <1>3 DEF CallFailsOr
  <2> QED
    BY <2>1, <1>1, Distances DEF Forward
<1>4. pc \in Stage /\ Crash => Forward
  BY <1>2, Distances DEF Crash, PassEnds, Forward
<1> QED
  BY <1>3, <1>4

\* Creating, modifying and deleting have only the end before them.
LEMMA ChangesAdvance ==
  \/ pc = "create" /\ pc' = "readCreated"
  \/ pc \in {"modify", "delete"} /\ pc' \in {"patchSpec", "patchError", "removeFinalizer"}
  => Forward
BY Distances DEF Forward
=============================================================================
