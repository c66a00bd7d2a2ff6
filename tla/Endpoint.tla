------------------------------ MODULE Endpoint ------------------------------
(***************************************************************************)
(* The reconciliation of one Endpoint custom resource with one AWS DMS     *)
(* endpoint (pkg/resource/endpoint).                                       *)
(*                                                                         *)
(* An endpoint has some 280 fields, which the code treats alike or almost  *)
(* alike.  A behaviour is about one of them, the focus, of which only the  *)
(* treatment matters: all the fields that are treated in the same way have *)
(* the same behaviours.  The state has three slots: the field's own value, *)
(* the reference it may be given as, and the value of another field (of    *)
(* Spec itself, sent and answered everywhere) that changes independently.  *)
(***************************************************************************)
EXTENDS ReconcilePass, EndpointFields, ReferenceFields

CONSTANTS
  Plain,     \* the values of a field; a resource named v has the ARN v
  Other,     \* those of the other field
  TooLarge,  \* a number beyond 32 bits
  Wrapped,   \* what its low 32 bits are
  Upper      \* what AWS makes of an EndpointType

VARIABLE focus  \* how the field is treated that the behaviour is about

endpointVars == <<vars, focus>>

ASSUME EndpointAssumption ==
  /\ Field = {"own", "ref", "other"}
  /\ Other \subseteq Plain /\ {Unset, TooLarge, Wrapped, Upper} \intersect Plain = {}
  /\ Unset \notin {TooLarge, Wrapped, Upper}

-----------------------------------------------------------------------------
(* Fields and what is done with them *)

\* An edit of them is refused by the API server, or of KMSKeyID undone by the next pass.
Unchangeable == Immutable \union {<<"TopLevel", "KMSKeyID">>}

Treatment(f) ==
  [nested |-> f[1] # "TopLevel",
   upper |-> f = <<"TopLevel", "EndpointType">>,
   secret |-> f \in Secret, number |-> f \in Number,
   required |-> f \in Required, immutable |-> f \in Immutable,
   changeable |-> f \notin Unchangeable,
   reference |-> \E r \in EndpointReference : r.field = f,
   compared |-> f \in Compared, found |-> f \in Found,
   createSent |-> f \in CreateSent, createAnswered |-> f \in CreateAnswered,
   modifySent |-> f \in ModifySent, modifyAnswered |-> f \in ModifyAnswered]

\* DatabaseName serves as the other field.
Focus == {Treatment(f) : f \in EndpointField \ {<<"TopLevel", "DatabaseName">>}}

\* What the user may write.
ChoiceOf(slot) ==
  CASE slot = "own" -> Plain \union (IF focus.required THEN {} ELSE {Unset})
                             \union (IF focus.number THEN {TooLarge} ELSE {})
    [] slot = "ref" -> IF focus.reference THEN Plain \union {Unset} ELSE {Unset}
    [] slot = "other" -> Other \union {Unset}

Values == Plain \union {Unset, TooLarge, Wrapped, Upper}

EndpointStatus == {"active", "deleting"}

NoEndpoint == [status |-> "none", value |-> NoSpec.field, tags |-> {}]

AWSEndpoint ==
  [status : EndpointStatus \union {"none"}, value : [Field -> Values], tags : SUBSET Tag]

TypeOK ==
  /\ focus \in Focus
  /\ cr \in ResourceOf(Values, EndpointStatus)
  /\ object \in AWSEndpoint
  /\ pc \in Stage
  /\ desired \in ResourceOf(Values, EndpointStatus)
  /\ latest \in ResourceOf(Values, EndpointStatus)
  /\ edits \in 0 .. MaxEdits

Init ==
  /\ focus \in Focus
  /\ cr = NoResource /\ object = NoEndpoint
  /\ pc = "idle" /\ desired = NoResource /\ latest = NoResource
  /\ edits = 0

-----------------------------------------------------------------------------
(* The user *)

EndpointSpec ==
  {[field |-> [own |-> a, ref |-> b, other |-> c], tags |-> t] :
     a \in ChoiceOf("own"), b \in ChoiceOf("ref"), c \in ChoiceOf("other"), t \in SUBSET Tag}

User ==
  \/ \E spec \in EndpointSpec : UserCreates(spec)
  \/ \E slot \in Field : \E v \in ChoiceOf(slot) :
       /\ slot = "own" /\ focus.immutable => Unset \in {v, cr.spec.field["own"]}
       /\ UserSets(slot, v)
  \/ \E tags \in SUBSET Tag : UserSetsTags(tags)
  \/ UserDeletes

(* AWS *)

EndpointIsDeleted ==
  /\ object.status = "deleting"
  /\ object' = NoEndpoint /\ UNCHANGED <<cr, pc, local, edits>>

-----------------------------------------------------------------------------
(* References *)

\* A field that is given as a reference has no value of its own.
ClearResolvedReferences(spec) ==
  IF spec.field["ref"] # Unset THEN [spec EXCEPT !.field["own"] = Unset] ELSE spec

\* A field is not given both as a value and as a reference.
ValidReferenceFields(spec) == Unset \in {spec.field["own"], spec.field["ref"]}

\* The reference is replaced by what the referent is known as.
ResolveReferences(ko) ==
  IF ko.spec.field["ref"] # Unset
  THEN [ko EXCEPT !.spec.field["own"] = ko.spec.field["ref"]] ELSE ko

\* A deletion needs no references: the errors in them are passed over.
ReconcileEndpoint ==
  IF ValidReferenceFields(cr.spec)
  THEN Begins(ResolveReferences(Taken), "read")
  ELSE Begins(Taken, IF DeleteRequested(cr) THEN "read" ELSE "patchError")

-----------------------------------------------------------------------------
(* Comparing and reading *)

\* The fields that differ, the tags aside.
Delta(want, have) ==
  {slot \in Field :
     /\ want.field[slot] # have.field[slot]
     /\ slot = "own" => focus.compared
     /\ slot = "ref" => ~focus.nested}

\* After these calls EndpointType is turned to lower case.
Lowered == {"find", "create", "modify"}

\* The field's own value after an answer, in which it may be missing.  A group of settings is
\* built anew from the answer.
AnsweredValue(answered, call, spec, i) ==
  CASE answered -> IF focus.upper /\ call \notin Lowered THEN Upper ELSE i.value["own"]
    [] ~answered /\ focus.nested -> Unset
    [] OTHER -> spec.field["own"]

\* Mutant: a reference is lost outside the groups, too.
AnsweredReference_Lost(spec) == Unset

\* The answer knows of no references.
AnsweredReference(spec) == IF focus.nested THEN Unset ELSE spec.field["ref"]

Observed(answered, call, ko, i) ==
  [ko EXCEPT
     !.spec.field = [own |-> AnsweredValue(answered, call, ko.spec, i),
                     ref |-> AnsweredReference(ko.spec),
                     other |-> i.value["other"]],
     !.status.object = i.status]

\* The tags are not asked for when a deletion is requested.
SdkFind(ko) ==
  [Observed(focus.found, "find", ko, object) EXCEPT
     !.spec.tags = IF DeleteRequested(ko) THEN @ ELSE object.tags]

\* sdkUpdate: what follows the tags.
AfterTags(want, have) ==
  IF Delta(want.spec, have.spec) = {} THEN "patchStatus" ELSE "modify"

UpdateStep(want, have) ==
  IF want.spec.tags # have.spec.tags THEN FirstOfTags(want, have) ELSE AfterTags(want, have)

\* Mutant: a deletion that is under way counts as one that is done.
DeleteStep_NoWait(have) ==
  IF have.status.object = "deleting" THEN "removeFinalizer" ELSE "delete"

\* sdkDelete waits for a deletion that is under way.
DeleteStep(have) == IF have.status.object = "deleting" THEN "patchError" ELSE "delete"

ReadEndpoint ==
  LET found == SdkFind(desired) IN
    ReadFound(desired, found,
              IF DeleteRequested(desired) THEN DeleteStep(found) ELSE UpdateStep(desired, found))

-----------------------------------------------------------------------------
(* Changing *)

\* A value that does not fit into 32 bits is an error before the call.
Representable(v) == v # TooLarge

Narrow(v) == IF v = TooLarge THEN Wrapped ELSE v

\* AWS chooses what is left unset, or leaves it out.
SdkCreate ==
  /\ pc = "create" /\ object.status = "none"
  /\ Representable(desired.spec.field["own"])
  /\ LET spec == desired.spec.field IN
       \E own \in IF focus.createSent /\ spec["own"] # Unset
                  THEN {Narrow(spec["own"])} ELSE Plain \union {Unset},
          other \in IF spec["other"] # Unset THEN {spec["other"]} ELSE Other \union {Unset} :
         LET new == [status |-> "active", tags |-> desired.spec.tags,
                     value |-> [own |-> own, ref |-> Unset, other |-> other]]
         IN object' = new /\ latest' = Observed(focus.createAnswered, "create", desired, new)
  /\ pc' = "readCreated"
  /\ UNCHANGED <<cr, desired, edits>>

ReadCreatedEndpoint == ReadCreated(SdkFind(latest))

\* An Update that ends with the tags returns the desired copy.
Updated == IF Delta(desired.spec, latest.spec) = {} THEN desired ELSE latest

RemoveEndpointTags == RemoveTags(AfterTags(desired, latest), Updated)
AddEndpointTags == AddTags(AfterTags(desired, latest), Updated)

\* ModifyEndpoint is given whatever is set, changed or not.
ModifyEndpoint ==
  /\ pc = "modify" /\ object.status = "active"
  /\ focus.modifySent => Representable(desired.spec.field["own"])
  /\ LET spec == desired.spec.field
         after == [object EXCEPT
           !.value["own"] = IF focus.modifySent /\ spec["own"] # Unset
                            THEN Narrow(spec["own"]) ELSE @,
           !.value["other"] = IF spec["other"] # Unset THEN spec["other"] ELSE @]
     IN object' = after /\ latest' = Observed(focus.modifyAnswered, "modify", desired, after)
  /\ pc' = "patchSpec"
  /\ UNCHANGED <<cr, desired, edits>>

\* The pass ends by a requeue.
DeleteEndpoint ==
  /\ pc = "delete" /\ object.status = "active"
  /\ object' = [object EXCEPT !.status = "deleting"]
  /\ latest' = [latest EXCEPT !.status.object = "deleting"]
  /\ pc' = "patchError"
  /\ UNCHANGED <<cr, desired, edits>>

\* The copies are compared, and the patch computed, without the values of references.
PatchEndpointSpec ==
  LET from == ClearResolvedReferences(desired.spec)
      to == ClearResolvedReferences(latest.spec)
  IN PatchSpec(IF Delta(from, to) = {} /\ from.tags = to.tags THEN to ELSE from, to)

\* An endpoint is always as synced as it can be.
IsSynced == TRUE

Controller ==
  \/ ReconcileEndpoint \/ ReadEndpoint \/ ReadNotFound
  \/ MarkManaged \/ SdkCreate \/ ReadCreatedEndpoint
  \/ RemoveEndpointTags \/ AddEndpointTags
  \/ ModifyEndpoint \/ DeleteEndpoint
  \/ PatchEndpointSpec \/ RemoveFinalizer \/ PatchStatus(IsSynced)
  \/ CallFails \/ Crash

Next == (User \/ EndpointIsDeleted \/ Controller) /\ UNCHANGED focus

Spec == Init /\ [][Next]_endpointVars

-----------------------------------------------------------------------------
(* Safety *)

\* No number reaches AWS with only its low 32 bits.
NumbersFit == \A slot \in Field : object.value[slot] # Wrapped

\* A pass never patches a Spec so that the next one refuses it: a field that is given as a
\* reference does not get a value, too.
StaysValid ==
  [][/\ PatchEndpointSpec
     /\ ValidReferenceFields(cr.spec) /\ cr.spec.field["ref"] = desired.spec.field["ref"]
     => ValidReferenceFields(cr'.spec)]_endpointVars

\* A reference outside the groups of settings is never replaced by the value it stands for.
KeepsTopLevelReference ==
  [][PatchEndpointSpec /\ ~focus.nested
     => cr'.spec.field["ref"] = cr.spec.field["ref"]]_endpointVars

\* The API server takes the patch: it does not change what must not be changed, although AWS
\* answers EndpointType in another form than it takes it.
KeepsImmutable ==
  [][PatchEndpointSpec /\ focus.immutable /\ cr.spec.field["own"] # Unset
     => cr'.spec.field["own"] = cr.spec.field["own"]]_endpointVars

\* An edit that the pass has seen is not undone by what AWS answers.
KeepsEdits ==
  [][PatchEndpointSpec /\ focus.changeable /\ ~focus.secret
     => \A slot \in {"own", "other"} :
          cr.spec.field[slot] \notin {Unset, TooLarge}
          /\ cr.spec.field[slot] = desired.spec.field[slot]
          => cr'.spec.field[slot] = cr.spec.field[slot]]_endpointVars

\* What a pass patches into Spec after a success is a Spec that the API server takes and the next
\* pass does not refuse, with the user's references and edits in it.
PatchKeepsSpec == StaysValid /\ KeepsTopLevelReference /\ KeepsImmutable /\ KeepsEdits

\* What AWS is to have: a value, or that of a referent.
Wanted(spec) == IF spec.field["ref"] # Unset THEN spec.field["ref"] ELSE spec.field["own"]

Configured ==
  /\ Wanted(cr.spec) \in {Unset, object.value["own"]}
  /\ cr.spec.field["other"] \in {Unset, object.value["other"]}
  /\ cr.spec.tags = object.tags

\* The pass that ends well reports a Spec as synced that it has seen or patched.
ReportsSynced ==
  /\ PatchStatus(IsSynced) /\ cr'.phase = "live"
  /\ cr'.status.synced = "True" /\ ~cr'.status.terminal
  /\ cr.spec.tags = desired.spec.tags
  /\ \A slot \in Field :
       cr.spec.field[slot] \in {ClearResolvedReferences(desired.spec).field[slot],
                                ClearResolvedReferences(latest.spec).field[slot]}

\* Synced becomes True, without a terminal error, only if AWS has all that the user asks for.
SyncedMeansConfigured ==
  [][ReportsSynced /\ focus.changeable /\ ~focus.secret => Configured]_endpointVars

\* Every pass takes a bounded number of steps, whatever fails (Advances).
PassesAdvance == [][Advances(Controller)]_endpointVars

-----------------------------------------------------------------------------
(* What the documentation says and the code does not do *)

\* ClearResolvedReferences removes "any reference values that were made concrete in the spec", so
\* that no patch replaces a reference by the value it stands for.
KeepsReference ==
  [][PatchEndpointSpec /\ cr.spec.field["ref"] = desired.spec.field["ref"]
     => cr'.spec.field["ref"] = cr.spec.field["ref"]]_endpointVars

\* "The password to be used to log in to the endpoint database": AWS has the one that Spec of a
\* synced endpoint names.
SyncedMeansPassword ==
  [][ReportsSynced /\ focus.secret /\ ~focus.nested => Configured]_endpointVars

\* "Merge in the information we read from the API call": what AWS does not answer, a secret, stays
\* as it is in Spec.
KeepsSecrets ==
  [][PatchEndpointSpec /\ focus.secret /\ cr.spec.field["own"] = desired.spec.field["own"]
     => cr'.spec.field["own"] = cr.spec.field["own"]]_endpointVars

=============================================================================
