--------------------------- MODULE ReferencesProofs ---------------------------
(***************************************************************************)
(* Resources that wait for each other: what a pass resolves is there to be *)
(* used, and what is reported as synced has been resolved; for any number  *)
(* of resources, whatever they refer to.                                   *)
(***************************************************************************)
EXTENDS References, TLAPS

\* The steps of one resource.
StepOf(r) ==
  \/ UserCreates(r) \/ UserChangesReference(r) \/ UserDeletes(r)
  \/ AWSCreates(r) \/ AWSDeletes(r)
  \/ Controller(r)

\* Every step is a step of one resource.
LEMMA NextIsOfOne == Next => \E r \in Resource : StepOf(r)
BY DEF Next, StepOf

\* What is kept of the other resources stays as it is.
Beside(r) ==
  \A s \in Resource \ {r} :
    /\ phase'[s] = phase[s] /\ valid'[s] = valid[s] /\ condition'[s] = condition[s]
    /\ object'[s] = object[s] /\ pass'[s] = pass[s]

-----------------------------------------------------------------------------
(* The invariant *)

\* A condition and a pass are older than the resource and the object, but what they say of the
\* finalizer, of a deletion and of a usable object stays true: only the pass over a resource
\* creates its object, deletes it and removes the finalizer.
Managed(r) ==
  /\ object[r] # "none" => phase[r] \in {"managed", "deleting"}
  /\ object[r] = "deleting" => phase[r] = "deleting"
  /\ pass[r].managed => phase[r] \in {"managed", "deleting"}
  /\ pass[r].deleting => phase[r] = "deleting"
  /\ pass[r].call = "create" => pass[r].managed
  /\ pass[r].call \in {"delete", "removeFinalizer"} => pass[r].deleting
  /\ pass[r].call = "removeFinalizer" => object[r] = "none"

\* What is, or will be, said of the object as synced is there, unless it is about to go.
Honest(r) ==
  /\ condition[r] = "synced" \/ (pass[r].call = "patchStatus" /\ pass[r].outcome = "synced")
     => object[r] = "ready" \/ phase[r] = "deleting"
  /\ phase[r] = "absent" => condition[r] = "unsynced"

\* A pass that does not delete reads, and says of the object more than nothing, only after all
\* references have been resolved and found valid.
Checked(r) ==
  /\ pass[r].call = "resolve" => ~pass[r].deleting
  /\ \/ pass[r].deleting
     \/ pass[r].call \in {"idle", "resolve"}
     \/ pass[r].call = "patchStatus" /\ pass[r].outcome = "unsynced"
     \/ pass[r].valid /\ pass[r].resolved = Len(Referents[r])

Sound(r) == Managed(r) /\ Honest(r) /\ Checked(r)

Invariant == TypeOK /\ \A r \in Resource : Sound(r)

-----------------------------------------------------------------------------
(* What steps have in common *)

\* A step that changes a pass only.
LEMMA PassStep ==
  ASSUME TypeOK, NEW r \in Resource, NEW p \in Pass, p.resolved <= Len(Referents[r]),
         pass' = [pass EXCEPT ![r] = p], UNCHANGED <<phase, valid, condition, object, edits>>
  PROVE  TypeOK' /\ Beside(r) /\ pass'[r] = p
BY DEF TypeOK, Beside

\* A pass that goes on.
LEMMA GoesOnStep ==
  ASSUME TypeOK, NEW r \in Resource, NEW call \in Stage, GoesOn(r, call)
  PROVE  /\ pass' = [pass EXCEPT ![r] = [pass[r] EXCEPT !.call = call]]
         /\ [pass[r] EXCEPT !.call = call] \in Pass
         /\ pass[r].resolved <= Len(Referents[r])
BY DEF TypeOK, GoesOn, Pass

\* The same of a pass that comes to its end.
LEMMA ReportsStep ==
  ASSUME TypeOK, NEW r \in Resource, NEW outcome \in Condition, Reports(r, outcome)
  PROVE  /\ pass' = [pass EXCEPT ![r] =
                       [pass[r] EXCEPT !.call = "patchStatus", !.outcome = outcome]]
         /\ [pass[r] EXCEPT !.call = "patchStatus", !.outcome = outcome] \in Pass
         /\ pass[r].resolved <= Len(Referents[r])
BY DEF TypeOK, Reports, Pass, Stage

\* A pass that has ended is fit for anything.
LEMMA NoPassType ==
  ASSUME NEW r \in Resource
  PROVE  NoPass \in Pass /\ NoPass.resolved <= Len(Referents[r])
BY LandscapeAssumption DEF NoPass, Pass, Stage, Condition

\* A pass that changes nothing but itself, and goes on with a call that it may go on with.
LEMMA GoesOnSound ==
  ASSUME TypeOK, NEW r \in Resource, Sound(r), NEW call \in Stage, GoesOn(r, call),
         UNCHANGED <<phase, valid, condition, object, edits>>,
         call \notin {"patchStatus", "resolve"},
         call = "create" => pass[r].managed,
         call \in {"delete", "removeFinalizer"} => pass[r].deleting,
         call = "removeFinalizer" => object[r] = "none",
         pass[r].deleting \/ (pass[r].valid /\ pass[r].resolved = Len(Referents[r]))
  PROVE  TypeOK' /\ Beside(r) /\ Sound(r)'
<1>1. PICK p \in Pass : p = [pass[r] EXCEPT !.call = call]
  BY GoesOnStep
<1>2. /\ p.call = call /\ p.resolved = pass[r].resolved /\ p.deleting = pass[r].deleting
      /\ p.managed = pass[r].managed /\ p.valid = pass[r].valid
  BY <1>1 DEF Pass, TypeOK
<1>3. TypeOK' /\ Beside(r) /\ pass'[r] = p
  BY <1>1, <1>2, GoesOnStep, PassStep
<1> QED
  BY <1>2, <1>3 DEF Sound, Managed, Honest, Checked

\* A pass that comes to its end, with an outcome that is true of the object.
LEMMA ReportsSound ==
  ASSUME TypeOK, NEW r \in Resource, Sound(r), NEW outcome \in Condition, Reports(r, outcome),
         UNCHANGED <<phase, valid, condition, object, edits>>,
         outcome = "synced" => object[r] = "ready" \/ phase[r] = "deleting",
         \/ outcome = "unsynced"
         \/ pass[r].deleting
         \/ pass[r].valid /\ pass[r].resolved = Len(Referents[r])
  PROVE  TypeOK' /\ Beside(r) /\ Sound(r)'
<1>1. PICK p \in Pass : p = [pass[r] EXCEPT !.call = "patchStatus", !.outcome = outcome]
  BY ReportsStep
<1>2. /\ p.call = "patchStatus" /\ p.resolved = pass[r].resolved
      /\ p.deleting = pass[r].deleting /\ p.outcome = outcome
      /\ p.managed = pass[r].managed /\ p.valid = pass[r].valid
  BY <1>1 DEF Pass, TypeOK
<1>3. TypeOK' /\ Beside(r) /\ pass'[r] = p
  BY <1>1, <1>2, ReportsStep, PassStep
<1> QED
  BY <1>2, <1>3 DEF Sound, Managed, Honest, Checked

\* A pass that dies.
LEMMA EndsSound ==
  ASSUME TypeOK, NEW r \in Resource, pass' = [pass EXCEPT ![r] = NoPass], Honest(r) /\ Managed(r),
         UNCHANGED <<phase, valid, condition, object, edits>>
  PROVE  TypeOK' /\ Beside(r) /\ Sound(r)'
<1>1. TypeOK' /\ Beside(r) /\ pass'[r] = NoPass
  BY NoPassType, PassStep
<1> QED
  BY <1>1 DEF Sound, Managed, Honest, Checked, NoPass

-----------------------------------------------------------------------------
(* Every step of one resource *)

\* The step leaves the others alone and what is kept of the resource sound.
Keeps(r) == TypeOK' /\ Beside(r) /\ Sound(r)'

\* The user leaves what the controller relies on as it is: what he deletes is gone only when no
\* finalizer holds it.
LEMMA UserKeeps ==
  ASSUME TypeOK, NEW r \in Resource, Sound(r),
         UserCreates(r) \/ UserChangesReference(r) \/ UserDeletes(r)
  PROVE  Keeps(r)
<1> USE DEF TypeOK, Keeps, Beside, Sound, Managed, Honest, Checked
<1>1. CASE UserCreates(r)
  <2>1. /\ phase' \in [Resource -> Phase] /\ valid' \in [Resource -> BOOLEAN]
        /\ condition' \in [Resource -> Condition] /\ edits' \in 0 .. MaxEdits
    BY <1>1, LandscapeAssumption DEF UserCreates, UserEdits, Phase, Condition
  <2>2. phase'[r] = "live" /\ condition'[r] = "unsynced" /\ UNCHANGED <<object, pass>>
    BY <1>1 DEF UserCreates, UserEdits
  <2>3. Sound(r)'
    BY <1>1, <2>2 DEF UserCreates
  <2> QED
    BY <1>1, <2>1, <2>2, <2>3 DEF UserCreates
<1>2. CASE UserChangesReference(r)
  BY <1>2, LandscapeAssumption DEF UserChangesReference, UserEdits
<1>3. CASE UserDeletes(r)
  BY <1>3 DEF UserDeletes, Gone, Phase, Condition
<1> QED
  BY <1>1, <1>2, <1>3

\* AWS ends a creation or a deletion that the controller has asked for.
LEMMA AWSKeeps ==
  ASSUME TypeOK, NEW r \in Resource, Sound(r), AWSCreates(r) \/ AWSDeletes(r)
  PROVE  Keeps(r)
<1>1. /\ object' = [object EXCEPT ![r] = IF object[r] = "creating" THEN "ready" ELSE "none"]
      /\ UNCHANGED <<phase, valid, condition, pass, edits>>
      /\ object[r] \in {"creating", "deleting"}
  BY DEF AWSCreates, AWSDeletes, AWSProceeds
<1>2. object' \in [Resource -> Object]
  BY <1>1 DEF TypeOK, Object
<1> QED
  BY <1>1, <1>2 DEF TypeOK, Keeps, Beside, Sound, Managed, Honest, Checked

\* A pass begins with a copy of the resource as it is now.
LEMMA ReconcileKeeps ==
  ASSUME TypeOK, NEW r \in Resource, Sound(r), Reconcile(r)
  PROVE  Keeps(r)
<1> DEFINE call == IF phase[r] = "deleting" THEN "read" ELSE "resolve"
<1>1. PICK p : p = [NoPass EXCEPT !.call = call, !.deleting = phase[r] = "deleting",
                                  !.managed = phase[r] # "live", !.valid = valid[r]]
  OBVIOUS
<1>2. /\ pass' = [pass EXCEPT ![r] = p] /\ phase[r] # "absent"
      /\ UNCHANGED <<phase, valid, condition, object, edits>>
  BY <1>1 DEF Reconcile, Begin
<1>3. PICK deleting \in BOOLEAN, managed \in BOOLEAN :
        /\ deleting <=> phase[r] = "deleting"
        /\ managed <=> phase[r] # "live"
        /\ p = [NoPass EXCEPT !.call = call, !.deleting = deleting, !.managed = managed,
                              !.valid = valid[r]]
  BY <1>1
<1>4. /\ p \in Pass /\ p.resolved <= Len(Referents[r])
      /\ p.call = call /\ p.deleting = deleting /\ p.managed = managed /\ p.outcome = "unsynced"
  <2>1. NoPass \in Pass /\ NoPass.outcome = "unsynced"
    BY NoPassType DEF NoPass
  <2>2. call \in Stage /\ valid[r] \in BOOLEAN
    BY DEF Stage, TypeOK
  <2> HIDE DEF call
  <2> QED
    BY <1>3, <2>1, <2>2, NoPassType DEF Pass
<1>5. TypeOK' /\ Beside(r) /\ pass'[r] = p
  BY <1>2, <1>4, PassStep
<1>6. phase[r] \in Phase
  BY DEF TypeOK
<1> QED
  <2>1. Managed(r)'
    BY <1>2, <1>3, <1>4, <1>5, <1>6 DEF Sound, Managed, Phase
  <2>2. Honest(r)'
    BY <1>2, <1>4, <1>5 DEF Sound, Honest
  <2>3. Checked(r)'
    BY <1>3, <1>4, <1>5 DEF Checked
  <2> QED
    BY <1>5, <2>1, <2>2, <2>3 DEF Keeps, Sound

\* A reference is resolved, or ends the pass with nothing said of the object.
LEMMA ResolveReferenceKeeps ==
  ASSUME TypeOK, NEW r \in Resource, Sound(r), ResolveReference(r)
  PROVE  Keeps(r)
<1>1. CASE Reports(r, "unsynced")
  BY <1>1, ReportsSound DEF ResolveReference, Keeps, Condition
<1>2. CASE pass' = [pass EXCEPT ![r].resolved = @ + 1]
  <2>1. PICK p : p = [pass[r] EXCEPT !.resolved = @ + 1]
    OBVIOUS
  <2>2. /\ pass[r] \in Pass /\ pass[r].call = "resolve" /\ pass[r].resolved < Len(Referents[r])
        /\ Len(Referents[r]) \in Nat
    BY LandscapeAssumption DEF ResolveReference, TypeOK
  <2>3. /\ p \in Pass /\ p.resolved = pass[r].resolved + 1
        /\ p.call = "resolve" /\ p.deleting = pass[r].deleting /\ p.managed = pass[r].managed
    BY <2>1, <2>2 DEF Pass
  <2>4. p.resolved <= Len(Referents[r])
    BY <2>2, <2>3 DEF Pass
  <2>5. pass' = [pass EXCEPT ![r] = p]
    BY <1>2, <2>1
  <2>6. TypeOK' /\ Beside(r) /\ pass'[r] = p
    BY <2>3, <2>4, <2>5, PassStep DEF ResolveReference
  <2> QED
    BY <2>2, <2>3, <2>6 DEF ResolveReference, Keeps, Sound, Managed, Honest, Checked
<1> QED
  BY <1>1, <1>2 DEF ResolveReference

\* Only a pass with valid references goes on to read.
LEMMA ResolvedKeeps ==
  ASSUME TypeOK, NEW r \in Resource, Sound(r), Resolved(r)
  PROVE  Keeps(r)
<1>1. CASE Reports(r, "unsynced")
  BY <1>1, ReportsSound DEF Resolved, Keeps, Condition
<1>2. CASE pass[r].valid /\ GoesOn(r, "read")
  BY <1>2, GoesOnSound DEF Resolved, Keeps, Stage
<1> QED
  BY <1>1, <1>2 DEF Resolved

\* What a pass that reads reports is what it finds.
LEMMA ReadKeeps ==
  ASSUME TypeOK, NEW r \in Resource, Sound(r), Read(r)
  PROVE  Keeps(r)
<1>1. /\ pass[r].call = "read" /\ UNCHANGED <<phase, valid, condition, object, edits>>
      /\ pass[r].deleting \/ (pass[r].valid /\ pass[r].resolved = Len(Referents[r]))
      /\ condition[r] \in Condition /\ "synced" \in Condition /\ "unsynced" \in Condition
  BY DEF Read, Sound, Checked, TypeOK, Condition
<1>2. CASE object[r] = "none" /\ pass[r].deleting
  <2>1. GoesOn(r, "removeFinalizer")
    BY <1>2 DEF Read
  <2> QED
    BY <1>1, <1>2, <2>1, GoesOnSound DEF Keeps, Stage
<1>3. CASE object[r] = "none" /\ ~pass[r].deleting
  <2>1. GoesOn(r, IF pass[r].managed THEN "create" ELSE "markManaged")
    BY <1>3 DEF Read
  <2> QED
    BY <1>1, <2>1, GoesOnSound DEF Keeps, Stage
<1>4. CASE object[r] # "none" /\ ~pass[r].deleting
  <2>1. Reports(r, IF object[r] = "ready" THEN "synced" ELSE "unsynced")
    BY <1>4 DEF Read
  <2> QED
    BY <1>1, <2>1, ReportsSound DEF Keeps
<1>5. CASE object[r] # "none" /\ pass[r].deleting
  <2>1. GoesOn(r, "delete") \/ \E c \in {condition[r], "unsynced"} : Reports(r, c)
    BY <1>5 DEF Read
  <2>2. phase[r] = "deleting"
    BY <1>5 DEF Sound, Managed
  <2>3. CASE GoesOn(r, "delete")
    BY <1>1, <1>5, <2>3, GoesOnSound DEF Keeps, Stage
  <2>4. CASE \E c \in {condition[r], "unsynced"} : Reports(r, c)
    BY <1>1, <1>5, <2>2, <2>4, ReportsSound DEF Keeps
  <2> QED
    BY <2>1, <2>3, <2>4
<1> QED
  BY <1>2, <1>3, <1>4, <1>5

\* The finalizer is there before the object.
LEMMA MarkManagedKeeps ==
  ASSUME TypeOK, NEW r \in Resource, Sound(r), MarkManaged(r)
  PROVE  Keeps(r)
<1>1. PICK p : p = [pass[r] EXCEPT !.call = "create", !.managed = TRUE]
  OBVIOUS
<1>2. /\ p \in Pass /\ p.resolved <= Len(Referents[r]) /\ pass' = [pass EXCEPT ![r] = p]
      /\ p.call = "create" /\ p.managed = TRUE /\ p.deleting = pass[r].deleting
      /\ p.valid = pass[r].valid /\ p.resolved = pass[r].resolved
  BY <1>1 DEF MarkManaged, TypeOK, Pass, Stage
<1>3. /\ phase' \in [Resource -> Phase] /\ phase'[r] \in {"managed", "deleting"}
      /\ phase[r] = "deleting" => phase'[r] = "deleting"
      /\ \A s \in Resource \ {r} : phase'[s] = phase[s]
      /\ UNCHANGED <<valid, condition, object, edits>> /\ pass[r].call = "markManaged"
  BY DEF MarkManaged, TypeOK, Phase
<1>4. TypeOK' /\ Beside(r) /\ pass'[r] = p
  BY <1>2, <1>3 DEF TypeOK, Beside
<1> QED
  BY <1>2, <1>3, <1>4 DEF Keeps, Sound, Managed, Honest, Checked

\* The object is created by the pass over its resource.
LEMMA CreateKeeps ==
  ASSUME TypeOK, NEW r \in Resource, Sound(r), Create(r)
  PROVE  Keeps(r)
<1>1. PICK p : p = [pass[r] EXCEPT !.call = "read"]
  OBVIOUS
<1>2. /\ p \in Pass /\ p.resolved <= Len(Referents[r]) /\ pass' = [pass EXCEPT ![r] = p]
      /\ p.call = "read" /\ p.managed = pass[r].managed /\ p.deleting = pass[r].deleting
      /\ p.valid = pass[r].valid /\ p.resolved = pass[r].resolved
  BY <1>1 DEF Create, GoesOn, TypeOK, Pass, Stage
<1>3. /\ object' \in [Resource -> Object] /\ object'[r] \in {"ready", "creating"}
      /\ \A s \in Resource \ {r} : object'[s] = object[s]
      /\ UNCHANGED <<phase, valid, condition, edits>>
      /\ pass[r].call = "create" /\ object[r] = "none"
  BY DEF Create, TypeOK, Object
<1>4. TypeOK' /\ Beside(r) /\ pass'[r] = p
  BY <1>2, <1>3 DEF TypeOK, Beside
<1> QED
  BY <1>2, <1>3, <1>4 DEF Keeps, Sound, Managed, Honest, Checked

\* The object of a resource that the user has deleted goes.
LEMMA DeleteKeeps ==
  ASSUME TypeOK, NEW r \in Resource, Sound(r), Delete(r)
  PROVE  Keeps(r)
<1>1. /\ pass[r].call = "delete" /\ pass[r].deleting /\ phase[r] = "deleting"
      /\ UNCHANGED <<phase, valid, condition, edits>>
      /\ condition[r] \in Condition /\ "unsynced" \in Condition
  BY DEF Delete, Sound, Managed, TypeOK, Condition
<1>2. PICK p \in Pass :
        /\ p.resolved = pass[r].resolved /\ p.deleting = pass[r].deleting
        /\ p.managed = pass[r].managed /\ p.valid = pass[r].valid
        /\ pass' = [pass EXCEPT ![r] = p]
        /\ \/ p.call = "removeFinalizer" /\ object' = [object EXCEPT ![r] = "none"]
           \/ p.call = "patchStatus" /\ object' = [object EXCEPT ![r] = "deleting"]
  <2>1. CASE GoesOn(r, "removeFinalizer") /\ object' = [object EXCEPT ![r] = "none"]
    <3>1. PICK p : p = [pass[r] EXCEPT !.call = "removeFinalizer"]
      OBVIOUS
    <3>2. /\ p \in Pass /\ p.resolved = pass[r].resolved /\ p.deleting = pass[r].deleting
          /\ p.managed = pass[r].managed /\ p.valid = pass[r].valid
          /\ p.call = "removeFinalizer"
      BY <3>1 DEF TypeOK, Pass, Stage
    <3>3. pass' = [pass EXCEPT ![r] = p]
      BY <2>1, <3>1 DEF GoesOn
    <3> QED
      BY <2>1, <3>2, <3>3
  <2>2. ASSUME NEW c \in Condition, Reports(r, c), object' = [object EXCEPT ![r] = "deleting"]
        PROVE  \E p \in Pass :
                 /\ p.resolved = pass[r].resolved /\ p.deleting = pass[r].deleting
                 /\ p.managed = pass[r].managed /\ p.valid = pass[r].valid
                 /\ pass' = [pass EXCEPT ![r] = p]
                 /\ p.call = "patchStatus"
    <3>1. PICK p : p = [pass[r] EXCEPT !.call = "patchStatus", !.outcome = c]
      OBVIOUS
    <3>2. /\ p \in Pass /\ p.resolved = pass[r].resolved /\ p.deleting = pass[r].deleting
          /\ p.managed = pass[r].managed /\ p.valid = pass[r].valid
          /\ p.call = "patchStatus"
      BY <2>2, <3>1 DEF TypeOK, Pass, Stage
    <3>3. pass' = [pass EXCEPT ![r] = p]
      BY <2>2, <3>1 DEF Reports
    <3> QED
      BY <3>2, <3>3
  <2> QED
    BY <1>1, <2>1, <2>2 DEF Delete
<1>3. /\ object' \in [Resource -> Object] /\ object'[r] \in {"none", "deleting"}
      /\ p.call = "removeFinalizer" => object'[r] = "none"
      /\ p.call \in {"removeFinalizer", "patchStatus"}
      /\ \A s \in Resource \ {r} : object'[s] = object[s]
  BY <1>2 DEF TypeOK, Object
<1>4. TypeOK' /\ Beside(r) /\ pass'[r] = p
  BY <1>1, <1>2, <1>3 DEF TypeOK, Beside
<1> QED
  BY <1>1, <1>2, <1>3, <1>4 DEF Keeps, Sound, Managed, Honest, Checked

\* A refusal says nothing new of an object.
LEMMA RefusedKeeps ==
  ASSUME TypeOK, NEW r \in Resource, Sound(r), Refused(r)
  PROVE  Keeps(r)
<1>1. /\ UNCHANGED <<phase, valid, condition, object, edits>>
      /\ Reports(r, IF pass[r].deleting THEN condition[r] ELSE "unsynced")
      /\ condition[r] \in Condition /\ "unsynced" \in Condition
      /\ pass[r].deleting => phase[r] = "deleting"
  BY DEF Refused, Sound, Managed, TypeOK, Condition
<1> QED
  BY <1>1, ReportsSound DEF Keeps

\* A failed call says nothing new of an object, or that its creation is refused for good.
LEMMA CallFailsKeeps ==
  ASSUME TypeOK, NEW r \in Resource, Sound(r), CallFails(r)
  PROVE  Keeps(r)
<1>1. /\ UNCHANGED <<phase, valid, condition, object, edits>>
      /\ condition[r] \in Condition /\ {"unsynced", "terminal"} \subseteq Condition
      /\ pass[r].deleting => phase[r] = "deleting"
  BY DEF CallFails, Sound, Managed, TypeOK, Condition
<1>2. CASE Reports(r, IF pass[r].deleting THEN condition[r] ELSE "unsynced")
  BY <1>1, <1>2, ReportsSound DEF Keeps
<1>3. CASE pass[r].call = "create" /\ Reports(r, "terminal")
  <2>1. pass[r].deleting \/ (pass[r].valid /\ pass[r].resolved = Len(Referents[r]))
    BY <1>3 DEF Sound, Checked
  <2> QED
    BY <1>1, <1>3, <2>1, ReportsSound DEF Keeps
<1> QED
  BY <1>2, <1>3 DEF CallFails

\* The resource goes after its object.
LEMMA RemoveFinalizerKeeps ==
  ASSUME TypeOK, NEW r \in Resource, Sound(r), RemoveFinalizer(r)
  PROVE  Keeps(r)
<1>1. /\ phase' \in [Resource -> Phase] /\ phase'[r] = "absent"
      /\ condition' \in [Resource -> Condition] /\ condition'[r] = "unsynced"
      /\ valid' \in [Resource -> BOOLEAN]
      /\ \A s \in Resource \ {r} :
           phase'[s] = phase[s] /\ valid'[s] = valid[s] /\ condition'[s] = condition[s]
      /\ UNCHANGED <<object, edits>> /\ object[r] = "none"
  BY DEF RemoveFinalizer, Gone, TypeOK, Phase, Condition, Sound, Managed
<1>2. /\ pass' \in [Resource -> Pass] /\ pass'[r] = NoPass
      /\ \A s \in Resource \ {r} : pass'[s] = pass[s]
  BY NoPassType DEF RemoveFinalizer, TypeOK
<1>3. TypeOK' /\ Beside(r)
  BY <1>1, <1>2, NoPassType DEF TypeOK, Beside
<1> QED
  BY <1>1, <1>2, <1>3 DEF Keeps, Sound, Managed, Honest, Checked, NoPass

\* What is stored as synced is there, or about to go.
LEMMA PatchStatusKeeps ==
  ASSUME TypeOK, NEW r \in Resource, Sound(r), PatchStatus(r)
  PROVE  Keeps(r)
<1>1. PICK c : /\ c = (CASE phase[r] = "absent" -> condition[r]
                         [] phase[r] # "absent" /\ pass[r].deleting
                            /\ pass[r].outcome = "terminal" -> "synced"
                         [] OTHER -> pass[r].outcome)
               /\ condition' = [condition EXCEPT ![r] = c]
  BY DEF PatchStatus
<1>2. /\ c \in Condition
      /\ c = "synced" => object[r] = "ready" \/ phase[r] = "deleting"
      /\ phase[r] = "absent" => c = "unsynced"
  BY <1>1 DEF PatchStatus, TypeOK, Pass, Condition, Sound, Managed, Honest
<1>3. /\ condition' \in [Resource -> Condition] /\ condition'[r] = c
      /\ \A s \in Resource \ {r} : condition'[s] = condition[s]
      /\ UNCHANGED <<phase, valid, object, edits>>
  BY <1>1, <1>2 DEF TypeOK, PatchStatus
<1>4. /\ pass' \in [Resource -> Pass] /\ pass'[r] = NoPass
      /\ \A s \in Resource \ {r} : pass'[s] = pass[s]
  BY NoPassType DEF PatchStatus, TypeOK
<1>5. TypeOK' /\ Beside(r)
  BY <1>3, <1>4, NoPassType DEF TypeOK, Beside
<1> QED
  BY <1>2, <1>3, <1>4, <1>5 DEF Keeps, Sound, Managed, Honest, Checked, NoPass

\* Every step of a resource.
LEMMA StepKeeps ==
  ASSUME TypeOK, NEW r \in Resource, Sound(r), StepOf(r)
  PROVE  Keeps(r)
<1>1. CASE Crash(r)
  BY <1>1, EndsSound DEF Crash, Keeps, Sound
<1> QED
  BY <1>1, UserKeeps, AWSKeeps, ReconcileKeeps, ResolveReferenceKeeps, ResolvedKeeps, ReadKeeps,
     MarkManagedKeeps, CreateKeeps, DeleteKeeps, RefusedKeeps, CallFailsKeeps,
     RemoveFinalizerKeeps, PatchStatusKeeps
  DEF StepOf, Controller, Answered

-----------------------------------------------------------------------------
(* What holds *)

\* The invariant of one resource does not depend on the others.
LEMMA OthersStaySound ==
  ASSUME NEW r, NEW s \in Resource \ {r}, Sound(s), Beside(r)
  PROVE  Sound(s)'
BY DEF Beside, Sound, Managed, Honest, Checked

\* Passes over different resources do not disturb each other, and what each of them knows of its
\* resource stays true.
THEOREM StaysSound == Spec => []Invariant
<1>1. Init => Invariant
  <2> SUFFICES ASSUME Init PROVE Invariant
    OBVIOUS
  <2>1. TypeOK
    BY NoPassType, LandscapeAssumption DEF Init, TypeOK, Phase, Condition, Object
  <2>2. ASSUME NEW r \in Resource PROVE Sound(r)
    BY DEF Init, Sound, Managed, Honest, Checked, NoPass
  <2> QED
    BY <2>1, <2>2 DEF Invariant
<1>2. Invariant /\ [Next]_vars => Invariant'
  <2>1. ASSUME Invariant, UNCHANGED vars PROVE Invariant'
    BY <2>1 DEF vars, Invariant, TypeOK, Sound, Managed, Honest, Checked
  <2>2. ASSUME Invariant, Next PROVE Invariant'
    <3>1. PICK r \in Resource : StepOf(r)
      BY <2>2, NextIsOfOne
    <3>2. Keeps(r)
      BY <2>2, <3>1, StepKeeps DEF Invariant
    <3>3. \A s \in Resource : Sound(s)'
      BY <2>2, <3>2, OthersStaySound DEF Keeps, Invariant
    <3> QED
      BY <3>2, <3>3 DEF Keeps, Invariant
  <2> QED
    BY <2>1, <2>2
<1> QED
  BY <1>1, <1>2, PTL DEF Spec

\* Every variable keeps its type.
THEOREM TypeCorrect == Spec => []TypeOK
BY StaysSound, PTL DEF Invariant

\* A pass resolves one reference at a time, and nothing else does.
LEMMA ResolvesOne ==
  ASSUME TypeOK, NEW r \in Resource, StepOf(r), pass'[r].resolved > pass[r].resolved
  PROVE  /\ ResolveReference(r) /\ pass'[r].resolved = pass[r].resolved + 1
         /\ Usable(Referents[r][pass'[r].resolved])
<1>1. pass[r] \in Pass /\ pass[r].resolved \in Nat
  BY DEF TypeOK, Pass
<1>2. \A call : GoesOn(r, call) => pass'[r].resolved = pass[r].resolved
  BY DEF GoesOn, TypeOK, Pass
<1>3. \A outcome : Reports(r, outcome) => pass'[r].resolved = pass[r].resolved
  BY DEF Reports, TypeOK, Pass
<1>4. pass' = pass => pass'[r].resolved = pass[r].resolved
  OBVIOUS
<1>5. pass' = [pass EXCEPT ![r] = NoPass] => pass'[r].resolved = 0
  BY DEF TypeOK, NoPass
<1>6. Reconcile(r) => pass'[r].resolved = 0
  BY DEF Reconcile, Begin, TypeOK, NoPass
<1>7. MarkManaged(r) => pass'[r].resolved = pass[r].resolved
  BY DEF MarkManaged, TypeOK, Pass
<1>8. Read(r) => pass'[r].resolved = pass[r].resolved
  BY <1>2, <1>3 DEF Read
<1>9. Create(r) \/ Delete(r) \/ Refused(r) \/ Resolved(r) \/ CallFails(r)
      => pass'[r].resolved = pass[r].resolved
  BY <1>2, <1>3 DEF Create, Delete, Refused, Resolved, CallFails
<1>10. RemoveFinalizer(r) \/ PatchStatus(r) \/ Crash(r) => pass'[r].resolved = 0
  BY <1>5 DEF RemoveFinalizer, PatchStatus, Crash
<1>11. \/ UserCreates(r) \/ UserChangesReference(r) \/ UserDeletes(r) \/ AWSCreates(r)
       \/ AWSDeletes(r)
       => pass' = pass
  BY DEF UserCreates, UserChangesReference, UserDeletes, UserEdits, AWSCreates, AWSDeletes,
         AWSProceeds
<1>12. ResolveReference(r)
  BY <1>1, <1>4, <1>6, <1>7, <1>8, <1>9, <1>10, <1>11 DEF StepOf, Controller, Answered
<1>13. /\ Usable(Referents[r][pass[r].resolved + 1])
       /\ pass' = [pass EXCEPT ![r].resolved = @ + 1]
  BY <1>1, <1>3, <1>12 DEF ResolveReference
<1>14. pass'[r].resolved = pass[r].resolved + 1
  BY <1>1, <1>13 DEF TypeOK, Pass
<1> QED
  BY <1>12, <1>13, <1>14

\* A reference is resolved only when the referent's object is there, unless the referent's
\* deletion has been requested: its condition, written by another pass that looked at AWS
\* earlier, is still true when it is read.
THEOREM ReferentsAreThere == Spec => ResolvesInTime
<1>1. Invariant /\ [Next]_vars =>
        [\A r \in Resource :
           pass'[r].resolved > pass[r].resolved =>
             LET s == Referents[r][pass'[r].resolved] IN
               object[s] = "ready" \/ phase[s] = "deleting"]_vars
  <2> SUFFICES ASSUME Invariant, Next, NEW r \in Resource, pass'[r].resolved > pass[r].resolved
               PROVE  LET s == Referents[r][pass'[r].resolved] IN
                        object[s] = "ready" \/ phase[s] = "deleting"
    OBVIOUS
  <2>1. TypeOK /\ pass[r].resolved \in Nat
    BY DEF Invariant, TypeOK, Pass
  <2>2. PICK q \in Resource : StepOf(q)
    BY NextIsOfOne
  <2>3. q = r
    BY <2>1, <2>2, StepKeeps DEF Keeps, Beside, Invariant
  <2>4. /\ ResolveReference(r) /\ pass'[r].resolved = pass[r].resolved + 1
        /\ Usable(Referents[r][pass'[r].resolved])
    BY <2>1, <2>2, <2>3, ResolvesOne
  <2>5. PICK s \in Resource : s = Referents[r][pass'[r].resolved]
    BY <2>1, <2>4, LandscapeAssumption DEF ResolveReference
  <2>6. Honest(s)
    BY DEF Invariant, Sound
  <2> QED
    BY <2>4, <2>5, <2>6 DEF Usable, Honest
<1> QED
  BY <1>1, StaysSound, PTL DEF Spec, ResolvesInTime

\* Nothing is reported as synced, or as refused for good, but by a pass that has resolved all
\* references of its resource and found none of them ambiguous.
THEOREM ReportsAreChecked == Spec => SyncedMeansResolved
<1>1. Invariant /\ [Next]_vars =>
        [\A r \in Resource :
           PatchStatus(r) /\ condition'[r] \in {"synced", "terminal"} /\ ~pass[r].deleting
             => pass[r].valid /\ pass[r].resolved = Len(Referents[r])]_vars
  <2> SUFFICES ASSUME Invariant, NEW r \in Resource, PatchStatus(r),
                      condition'[r] \in {"synced", "terminal"}, ~pass[r].deleting
               PROVE  pass[r].valid /\ pass[r].resolved = Len(Referents[r])
    OBVIOUS
  <2>1. Sound(r) /\ TypeOK
    BY DEF Invariant
  <2>2. phase[r] # "absent"
    BY <2>1 DEF PatchStatus, TypeOK, Sound, Honest
  <2>3. condition'[r] = pass[r].outcome
    BY <2>1, <2>2 DEF PatchStatus, TypeOK
  <2> QED
    BY <2>1, <2>3 DEF PatchStatus, Sound, Checked
<1> QED
  BY <1>1, StaysSound, PTL DEF Spec, SyncedMeansResolved
=============================================================================
