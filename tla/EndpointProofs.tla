-------------------------- MODULE EndpointProofs --------------------------
(***************************************************************************)
(* The passes over an endpoint are the life of a managed resource,         *)
(* whichever field changes and however it is treated: for any values, tags *)
(* and number of edits.                                                    *)
(***************************************************************************)
EXTENDS Endpoint, ReconcilePassProofs

\* Whatever the user does keeps to the life.
LEMMA UserLives == Invariant /\ User => Invariant' /\ Lives
<1> SUFFICES ASSUME Invariant, User PROVE Invariant' /\ Lives
  OBVIOUS
<1>1. CASE \E spec \in EndpointSpec : UserCreates(spec)
  BY <1>1, UserCreatesLives
<1>2. CASE \E slot \in Field : \E v \in ChoiceOf(slot) : UserSets(slot, v)
  BY <1>2, UserSetsLives
<1>3. CASE \E tags \in SUBSET Tag : UserSetsTags(tags)
  BY <1>3, UserSetsTagsLives
<1>4. CASE UserDeletes
  BY <1>4, UserDeletesLives
<1> QED
  BY <1>1, <1>2, <1>3, <1>4 DEF User

\* A deletion that AWS ends is one that has been requested.
LEMMA AWSLives == Invariant /\ EndpointIsDeleted => Invariant' /\ Lives
BY DeletionEnds DEF EndpointIsDeleted, NoEndpoint, local

\* Resolving the references leaves alone what the life is about.
LEMMA ResolvedCopy ==
  ASSUME Invariant
  PROVE  /\ {"phase", "finalizer"} \subseteq DOMAIN ResolveReferences(Taken)
         /\ ResolveReferences(Taken).phase = cr.phase
         /\ ResolveReferences(Taken).finalizer = cr.finalizer
BY TakenCopy DEF ResolveReferences

\* An update leads to no call that is watched.
LEMMA UpdateStepCall ==
  ASSUME NEW want, NEW have
  PROVE  AfterTags(want, have) \notin Watched /\ UpdateStep(want, have) \notin Watched
BY DEF AfterTags, UpdateStep, FirstOfTags, Watched

\* A deletion leads to the call or to another pass.
LEMMA DeleteStepCall ==
  ASSUME NEW have PROVE DeleteStep(have) \in {"delete", "patchError"}
BY DEF DeleteStep

\* Whatever a pass does keeps to the life.
LEMMA ControllerLives == Invariant /\ Controller => Invariant' /\ Lives
<1> SUFFICES ASSUME Invariant, Controller PROVE Invariant' /\ Lives
  OBVIOUS
<1>1. CASE ReconcileEndpoint
  <2>1. CASE Begins(ResolveReferences(Taken), "read")
    BY <2>1, ResolvedCopy, BeginsLives DEF Watched
  <2>2. CASE \E next \in {"read", "patchError"} : Begins(Taken, next)
    BY <2>2, TakenCopy, BeginsLives DEF Watched
  <2> QED
    BY <1>1, <2>1, <2>2 DEF ReconcileEndpoint
<1>2. CASE ReadEndpoint
  <2> DEFINE found == SdkFind(desired)
             next == IF DeleteRequested(desired) THEN DeleteStep(found)
                     ELSE UpdateStep(desired, found)
  <2>1. ReadFound(desired, found, next)
    BY <1>2 DEF ReadEndpoint
  <2>2. next \in Watched => next = "delete" /\ desired.phase = "deleting"
    BY UpdateStepCall, DeleteStepCall DEF DeleteRequested, Watched
  <2>3. {"phase", "finalizer"} \subseteq DOMAIN desired
    BY DEF Invariant, Shaped
  <2> HIDE DEF found, next
  <2> QED
    BY <2>1, <2>2, <2>3, ReadFoundLives
<1>3. CASE SdkCreate
  <2>1. PICK own, other :
          object' = [status |-> "active", tags |-> desired.spec.tags,
                     value |-> [own |-> own, ref |-> Unset, other |-> other]]
    BY <1>3 DEF SdkCreate
  <2>2. "status" \in DOMAIN object' /\ object'.status = "active"
    BY <2>1
  <2> QED
    BY <1>3, <2>2, CreationLives DEF SdkCreate, Watched
<1>4. CASE ModifyEndpoint
  <2>1. PICK own, other :
          object' = [object EXCEPT !.value["own"] = own, !.value["other"] = other]
    BY <1>4 DEF ModifyEndpoint
  <2>2. "status" \in DOMAIN object' /\ object'.status = object.status
    BY <2>1 DEF Invariant, Shaped
  <2> QED
    BY <1>4, <2>2, ModificationLives DEF ModifyEndpoint, Watched
<1>5. CASE DeleteEndpoint
  <2>1. "status" \in DOMAIN object' /\ object'.status = "deleting"
    BY <1>5 DEF DeleteEndpoint, Invariant, Shaped
  <2> QED
    BY <1>5, <2>1, DeletionBegins DEF DeleteEndpoint, Watched
<1>6. CASE ReadCreatedEndpoint
  BY <1>6, ReadCreatedLives DEF ReadCreatedEndpoint
<1>7. CASE RemoveEndpointTags \/ AddEndpointTags
  BY <1>7, UpdateStepCall, RemoveTagsLives, AddTagsLives DEF RemoveEndpointTags, AddEndpointTags
<1>8. CASE PatchEndpointSpec
  <2>1. PICK from, to : PatchSpec(from, to)
    BY <1>8 DEF PatchEndpointSpec
  <2> QED
    BY <2>1, PatchSpecLives
<1>9. CASE PatchStatus(IsSynced)
  BY <1>9, PatchStatusLives
<1>10. CASE CallFails
  BY <1>10, CallFailsLives DEF CallFails
<1> QED
  BY <1>1, <1>2, <1>3, <1>4, <1>5, <1>6, <1>7, <1>8, <1>9, <1>10, ReadNotFoundLives,
     MarkManagedLives, RemoveFinalizerLives, CrashLives DEF Controller

\* Every step preserves the invariant and keeps to the life.
LEMMA StepLives == Invariant /\ [Next]_endpointVars => Invariant' /\ Lives
<1>1. Invariant /\ UNCHANGED endpointVars => Invariant' /\ Lives
  BY DEF endpointVars, vars, Invariant, Shaped, Managed, Lives
<1> QED
  BY <1>1, UserLives, AWSLives, ControllerLives DEF Next

\* Where the pass stands, what it knows and what exists agree on whether the endpoint is managed.
THEOREM StaysManaged == Spec => []Invariant
<1>1. Init => Invariant
  BY DEF Init, NoResource, NoEndpoint, Invariant, Shaped, Managed, Phase
<1>2. Invariant /\ [Next]_endpointVars => Invariant'
  BY StepLives
<1> QED
  BY <1>1, <1>2, PTL DEF Spec

\* No endpoint exists without a custom resource that carries the finalizer.
THEOREM NoEndpointOrphaned == Spec => []NoOrphan
BY StaysManaged, ManagedIsNoOrphan, PTL

\* The reconciliation of an endpoint implements the life of a managed resource.
THEOREM LivesAsPromised == Spec => ImplementsPromise
<1>1. Init => Promise!Init
  BY DEF Init, NoResource, NoEndpoint, Promise!Init
<1>2. Invariant /\ [Next]_endpointVars => [Promise!Next]_(Promise!vars)
  BY StepLives, LivesIsPromised
<1> QED
  BY <1>1, <1>2, StaysManaged, PTL DEF Spec, ImplementsPromise, Promise!Spec

-----------------------------------------------------------------------------
(* How the fields are treated *)

\* Every operation takes part in the field.
Everywhere ==
  Compared \intersect Found \intersect CreateSent \intersect CreateAnswered
    \intersect ModifySent \intersect ModifyAnswered

\* In the groups of settings the secrets alone are not answered; all else is done with all fields.
LEMMA GroupsEverywhere ==
  ASSUME NEW f \in EndpointField \ TopLevel, f \notin Secret
  PROVE  f \in Everywhere
<1> USE DEF Everywhere, Secret, Compared, Found, CreateSent, CreateAnswered, ModifySent,
            ModifyAnswered
<1>1. CASE f \in DmsTransfer
  BY <1>1 DEF DmsTransferCompared, DmsTransferFound, DmsTransferCreateSent,
     DmsTransferCreateAnswered, DmsTransferModifySent, DmsTransferModifyAnswered
<1>2. CASE f \in DocDB
  BY <1>2 DEF DocDBSecret, DocDBCompared, DocDBFound, DocDBCreateSent, DocDBCreateAnswered,
     DocDBModifySent, DocDBModifyAnswered
<1>3. CASE f \in DynamoDB
  BY <1>3 DEF DynamoDBCompared, DynamoDBFound, DynamoDBCreateSent, DynamoDBCreateAnswered,
     DynamoDBModifySent, DynamoDBModifyAnswered
<1>4. CASE f \in Elasticsearch
  BY <1>4 DEF ElasticsearchCompared, ElasticsearchFound, ElasticsearchCreateSent,
     ElasticsearchCreateAnswered, ElasticsearchModifySent, ElasticsearchModifyAnswered
<1>5. CASE f \in GcpMySQL
  BY <1>5 DEF GcpMySQLSecret, GcpMySQLCompared, GcpMySQLFound, GcpMySQLCreateSent,
     GcpMySQLCreateAnswered, GcpMySQLModifySent, GcpMySQLModifyAnswered
<1>6. CASE f \in IBMDB2
  BY <1>6 DEF IBMDB2Secret, IBMDB2Compared, IBMDB2Found, IBMDB2CreateSent, IBMDB2CreateAnswered,
     IBMDB2ModifySent, IBMDB2ModifyAnswered
<1>7. CASE f \in Kafka
  BY <1>7 DEF KafkaSecret, KafkaCompared, KafkaFound, KafkaCreateSent, KafkaCreateAnswered,
     KafkaModifySent, KafkaModifyAnswered
<1>8. CASE f \in Kinesis
  BY <1>8 DEF KinesisCompared, KinesisFound, KinesisCreateSent, KinesisCreateAnswered,
     KinesisModifySent, KinesisModifyAnswered
<1>9. CASE f \in MicrosoftSQLServer
  BY <1>9 DEF MicrosoftSQLServerSecret, MicrosoftSQLServerCompared, MicrosoftSQLServerFound,
     MicrosoftSQLServerCreateSent, MicrosoftSQLServerCreateAnswered,
     MicrosoftSQLServerModifySent, MicrosoftSQLServerModifyAnswered
<1>10. CASE f \in MongoDB
  BY <1>10 DEF MongoDBSecret, MongoDBCompared, MongoDBFound, MongoDBCreateSent,
     MongoDBCreateAnswered, MongoDBModifySent, MongoDBModifyAnswered
<1>11. CASE f \in MySQL
  BY <1>11 DEF MySQLSecret, MySQLCompared, MySQLFound, MySQLCreateSent, MySQLCreateAnswered,
     MySQLModifySent, MySQLModifyAnswered
<1>12. CASE f \in Neptune
  BY <1>12 DEF NeptuneCompared, NeptuneFound, NeptuneCreateSent, NeptuneCreateAnswered,
     NeptuneModifySent, NeptuneModifyAnswered
<1>13. CASE f \in Oracle
  BY <1>13 DEF OracleSecret, OracleCompared, OracleFound, OracleCreateSent, OracleCreateAnswered,
     OracleModifySent, OracleModifyAnswered
<1>14. CASE f \in PostgreSQL
  BY <1>14 DEF PostgreSQLSecret, PostgreSQLCompared, PostgreSQLFound, PostgreSQLCreateSent,
     PostgreSQLCreateAnswered, PostgreSQLModifySent, PostgreSQLModifyAnswered
<1>15. CASE f \in Redis
  BY <1>15 DEF RedisSecret, RedisCompared, RedisFound, RedisCreateSent, RedisCreateAnswered,
     RedisModifySent, RedisModifyAnswered
<1>16. CASE f \in Redshift
  BY <1>16 DEF RedshiftSecret, RedshiftCompared, RedshiftFound, RedshiftCreateSent,
     RedshiftCreateAnswered, RedshiftModifySent, RedshiftModifyAnswered
<1>17. CASE f \in S3
  BY <1>17 DEF S3Compared, S3Found, S3CreateSent, S3CreateAnswered, S3ModifySent,
     S3ModifyAnswered
<1>18. CASE f \in Sybase
  BY <1>18 DEF SybaseSecret, SybaseCompared, SybaseFound, SybaseCreateSent, SybaseCreateAnswered,
     SybaseModifySent, SybaseModifyAnswered
<1>19. CASE f \in Timestream
  BY <1>19 DEF TimestreamCompared, TimestreamFound, TimestreamCreateSent,
     TimestreamCreateAnswered, TimestreamModifySent, TimestreamModifyAnswered
<1> HIDE DEF Everywhere, Secret, Compared, Found, CreateSent, CreateAnswered, ModifySent,
             ModifyAnswered
<1> QED
  BY <1>1, <1>2, <1>3, <1>4, <1>5, <1>6, <1>7, <1>8, <1>9, <1>10, <1>11, <1>12, <1>13, <1>14,
     <1>15, <1>16, <1>17, <1>18, <1>19 DEF EndpointField

\* Outside the groups some fields that cannot be changed are left out, too.
LEMMA TopLevelEverywhere ==
  ASSUME NEW f \in TopLevel, f \notin Secret, f \notin Unchangeable
  PROVE  f \in Everywhere
<1>1. /\ f[1] = "TopLevel" /\ f = <<f[1], f[2]>>
      /\ f[2] \notin {"Name", "Password", "ResourceIdentifier", "KMSKeyID"}
  BY DEF TopLevel, Secret, TopLevelSecret, Unchangeable, Immutable, Required
<1>2. /\ f \in TopLevelCompared \intersect TopLevelFound \intersect TopLevelCreateSent
      /\ f \in TopLevelCreateAnswered \intersect TopLevelModifySent
      /\ f \in TopLevelModifyAnswered
  BY <1>1 DEF TopLevelCompared, TopLevelFound, TopLevelCreateSent, TopLevelCreateAnswered,
     TopLevelModifySent, TopLevelModifyAnswered
<1> QED
  BY <1>2 DEF Everywhere, Compared, Found, CreateSent, CreateAnswered, ModifySent,
     ModifyAnswered

\* The groups of settings do not go by the name of the fields outside them.
Groups ==
  UNION {DmsTransfer, DocDB, DynamoDB, Elasticsearch, GcpMySQL, IBMDB2, Kafka, Kinesis,
         MicrosoftSQLServer, MongoDB, MySQL, Neptune, Oracle, PostgreSQL, Redis, Redshift, S3,
         Sybase, Timestream}

LEMMA GroupsAreNamed ==
  /\ \A f \in Groups : f[1] # "TopLevel"
  /\ CreateAnswered \subseteq TopLevelCreateAnswered \union Groups
  /\ ModifyAnswered \subseteq TopLevelModifyAnswered \union Groups
<1>1. \A f \in Groups : f[1] # "TopLevel"
  BY DEF Groups, DmsTransfer, DocDB, DynamoDB, Elasticsearch, GcpMySQL, IBMDB2, Kafka,
     Kinesis, MicrosoftSQLServer, MongoDB, MySQL, Neptune, Oracle, PostgreSQL, Redis,
     Redshift, S3, Sybase, Timestream
<1>2. CreateAnswered \subseteq TopLevelCreateAnswered \union Groups
  BY DEF Groups, CreateAnswered, DmsTransferCreateAnswered, DocDBCreateAnswered,
     DynamoDBCreateAnswered, ElasticsearchCreateAnswered, GcpMySQLCreateAnswered,
     IBMDB2CreateAnswered, KafkaCreateAnswered, KinesisCreateAnswered,
     MicrosoftSQLServerCreateAnswered, MongoDBCreateAnswered, MySQLCreateAnswered,
     NeptuneCreateAnswered, OracleCreateAnswered, PostgreSQLCreateAnswered,
     RedisCreateAnswered, RedshiftCreateAnswered, S3CreateAnswered, SybaseCreateAnswered,
     TimestreamCreateAnswered
<1>3. ModifyAnswered \subseteq TopLevelModifyAnswered \union Groups
  BY DEF Groups, ModifyAnswered, DmsTransferModifyAnswered, DocDBModifyAnswered,
     DynamoDBModifyAnswered, ElasticsearchModifyAnswered, GcpMySQLModifyAnswered,
     IBMDB2ModifyAnswered, KafkaModifyAnswered, KinesisModifyAnswered,
     MicrosoftSQLServerModifyAnswered, MongoDBModifyAnswered, MySQLModifyAnswered,
     NeptuneModifyAnswered, OracleModifyAnswered, PostgreSQLModifyAnswered,
     RedisModifyAnswered, RedshiftModifyAnswered, S3ModifyAnswered, SybaseModifyAnswered,
     TimestreamModifyAnswered
<1> QED
  BY <1>1, <1>2, <1>3

\* Of a field that cannot be changed AWS answers what it was sent, or the copy keeps its value.
LEMMA ImmutableTreatment ==
  ASSUME NEW f \in Immutable
  PROVE  /\ f[1] = "TopLevel" /\ f \in CreateSent
         /\ f \in CreateAnswered => f \in Required
         /\ f \in ModifyAnswered => f \in Required /\ f \in ModifySent
<1>1. /\ f[1] = "TopLevel" /\ f = <<f[1], f[2]>>
      /\ f[2] \in {"EndpointType", "EngineName", "Name", "ResourceIdentifier"}
      /\ f \in Required <=> f[2] # "ResourceIdentifier"
  BY DEF Immutable, Required
<1>2. f \in CreateSent
  BY <1>1 DEF TopLevel, TopLevelCreateSent, CreateSent
<1>3. f \in CreateAnswered => f[2] # "ResourceIdentifier"
  BY <1>1, GroupsAreNamed DEF TopLevelCreateAnswered
<1>4. f \in ModifyAnswered => f[2] \in {"EndpointType", "EngineName"}
  BY <1>1, GroupsAreNamed DEF TopLevelModifyAnswered
<1>5. f[2] \in {"EndpointType", "EngineName"} => f \in ModifySent
  BY <1>1 DEF TopLevel, TopLevelModifySent, ModifySent
<1> QED
  BY <1>1, <1>2, <1>3, <1>4, <1>5

\* What the proofs use of the way in which a field is treated.
LEMMA FocusTreatment ==
  ASSUME focus \in Focus
  PROVE  /\ focus.changeable /\ ~focus.secret
              => /\ focus.compared /\ focus.found
                 /\ focus.createSent /\ focus.createAnswered
                 /\ focus.modifySent /\ focus.modifyAnswered
         /\ focus.immutable => /\ ~focus.nested /\ focus.createSent
                               /\ focus.createAnswered => focus.required
                               /\ focus.modifyAnswered => focus.required /\ focus.modifySent
         /\ focus.required => focus.immutable
<1>1. PICK f \in EndpointField : focus = Treatment(f)
  BY DEF Focus
<1>2. f \notin Unchangeable /\ f \notin Secret => f \in Everywhere
  BY GroupsEverywhere, TopLevelEverywhere
<1>3. f \in Required => f \in Immutable
  BY DEF Immutable
<1>4. /\ focus.changeable <=> f \notin Unchangeable
      /\ focus.secret <=> f \in Secret
      /\ focus.compared <=> f \in Compared
      /\ focus.found <=> f \in Found
      /\ focus.createSent <=> f \in CreateSent
      /\ focus.createAnswered <=> f \in CreateAnswered
      /\ focus.modifySent <=> f \in ModifySent
      /\ focus.modifyAnswered <=> f \in ModifyAnswered
      /\ focus.immutable <=> f \in Immutable
      /\ focus.required <=> f \in Required
      /\ focus.nested <=> f[1] # "TopLevel"
  BY <1>1 DEF Treatment
<1> QED
  BY <1>2, <1>3, <1>4, ImmutableTreatment DEF Everywhere

-----------------------------------------------------------------------------
(* Types *)

\* What AWS can have for a field.
Settable == Plain \union {Unset}

\* The copies of a resource in which only the field's own value can be a number that does not fit.
Copy ==
  {ko \in ResourceOf(Values, EndpointStatus) :
     /\ ko.spec.field["own"] \in Settable \union {TooLarge}
     /\ ko.spec.field["ref"] \in Settable /\ ko.spec.field["other"] \in Settable}

\* The endpoints, which have no such number, nor a part of one.
Existing == {i \in AWSEndpoint : \A slot \in Field : i.value[slot] \in Settable}

\* Why the types are kept: each slot has values of its own, wherever they come from.
Typed ==
  /\ focus \in Focus
  /\ cr \in Copy /\ desired \in Copy /\ latest \in Copy
  /\ object \in Existing
  /\ pc \in Stage /\ edits \in 0 .. MaxEdits

\* The slots, and what they can have.
LEMMA Slots ==
  /\ Field = {"own", "ref", "other"} /\ Unset \in Settable
  /\ Settable \union {TooLarge} \subseteq Values
  /\ Wrapped \notin Settable /\ Unset # TooLarge
BY EndpointAssumption DEF Settable, Values

LEMMA Choices ==
  /\ ChoiceOf("own") \subseteq Settable \union {TooLarge}
  /\ ChoiceOf("ref") \subseteq Settable /\ ChoiceOf("other") \subseteq Settable
  /\ focus.required => Unset \notin ChoiceOf("own")
BY EndpointAssumption DEF ChoiceOf, Settable

\* Nothing is set in what does not exist.
LEMMA NothingType == NoResource \in Copy /\ NoEndpoint \in Existing
<1>1. NoResource \in ResourceOf(Values, EndpointStatus)
  BY Slots DEF NoResource, NoSpec, NoStatus, ResourceOf, Phase, Synced
<1>2. NoEndpoint \in AWSEndpoint
  BY Slots DEF NoEndpoint, NoSpec, AWSEndpoint
<1>3. \A slot \in Field : NoResource.spec.field[slot] = Unset /\ NoEndpoint.value[slot] = Unset
  BY DEF NoResource, NoEndpoint, NoSpec
<1> QED
  BY <1>1, <1>2, <1>3, Slots DEF Copy, Existing

\* A copy with other fields, tags or status is a copy.
LEMMA FieldsType ==
  ASSUME NEW ko \in Copy, NEW field \in [Field -> Values],
         field["own"] \in Settable \union {TooLarge},
         field["ref"] \in Settable, field["other"] \in Settable
  PROVE  /\ [ko EXCEPT !.spec.field = field] \in Copy
         /\ [ko EXCEPT !.spec.field = field].spec.field = field
BY DEF Copy, ResourceOf

LEMMA SlotType ==
  ASSUME NEW ko \in Copy, NEW slot \in Field, NEW v,
         v \in Settable \union (IF slot = "own" THEN {TooLarge} ELSE {})
  PROVE  /\ [ko EXCEPT !.spec.field[slot] = v] \in Copy
         /\ [ko EXCEPT !.spec.field[slot] = v].spec
              = [ko.spec EXCEPT !.field = [ko.spec.field EXCEPT ![slot] = v]]
<1> DEFINE field == [ko.spec.field EXCEPT ![slot] = v]
<1>1. ko.spec.field \in [Field -> Values] /\ v \in Values
  BY Slots DEF Copy, ResourceOf
<1>2. field \in [Field -> Values]
  BY <1>1
<1>3. /\ field["own"] \in Settable \union {TooLarge}
      /\ field["ref"] \in Settable /\ field["other"] \in Settable
  BY <1>1, Slots DEF Copy
<1>4. [ko EXCEPT !.spec.field[slot] = v] = [ko EXCEPT !.spec.field = field]
  BY DEF Copy, ResourceOf
<1> HIDE DEF field
<1>5. [ko EXCEPT !.spec.field = field].spec = [ko.spec EXCEPT !.field = field]
  BY DEF Copy, ResourceOf
<1> QED
  BY <1>2, <1>3, <1>4, <1>5, FieldsType DEF field

LEMMA TagsType ==
  ASSUME NEW ko \in Copy, NEW tags \in SUBSET Tag PROVE [ko EXCEPT !.spec.tags = tags] \in Copy
BY DEF Copy, ResourceOf

LEMMA StatusType ==
  ASSUME NEW ko \in Copy, NEW ok \in Copy
  PROVE  /\ [ko EXCEPT !.status = ok.status] \in Copy
         /\ [ko EXCEPT !.status = ok.status].spec = ko.spec
BY DEF Copy, ResourceOf

LEMMA ObjectType ==
  ASSUME NEW ko \in Copy, NEW s \in EndpointStatus \union {"unset"}
  PROVE  [ko EXCEPT !.status.object = s] \in Copy
BY DEF Copy, ResourceOf

\* What a pass takes, with its references resolved.
LEMMA TakenType ==
  ASSUME cr \in Copy
  PROVE  /\ Taken \in Copy /\ Taken.spec = cr.spec /\ Taken.phase = cr.phase
         /\ ResolveReferences(Taken) \in Copy
         /\ ResolveReferences(Taken).phase = cr.phase
         /\ ResolveReferences(Taken).spec.tags = cr.spec.tags
         /\ ResolveReferences(Taken).spec.field
              = IF cr.spec.field["ref"] # Unset
                THEN [cr.spec.field EXCEPT !["own"] = cr.spec.field["ref"]] ELSE cr.spec.field
<1>1. PICK ko : ko = Taken
  OBVIOUS
<1>2. ko \in Copy /\ ko.spec = cr.spec /\ ko.phase = cr.phase
  BY <1>1 DEF Taken, Copy, ResourceOf, Synced
<1>3. ko.spec.field["ref"] \in Settable
  BY <1>2 DEF Copy
<1>4. [ko EXCEPT !.spec.field["own"] = ko.spec.field["ref"]].phase = ko.phase
  BY <1>2 DEF Copy, ResourceOf
<1>5. ResolveReferences(ko) \in Copy
  BY <1>2, <1>3, SlotType, Slots DEF ResolveReferences
<1>6. /\ ResolveReferences(ko).phase = cr.phase
      /\ ResolveReferences(ko).spec.tags = cr.spec.tags
      /\ ResolveReferences(ko).spec.field
           = IF cr.spec.field["ref"] # Unset
             THEN [cr.spec.field EXCEPT !["own"] = cr.spec.field["ref"]] ELSE cr.spec.field
  <2>1. CASE ko.spec.field["ref"] = Unset
    BY <1>2, <2>1 DEF ResolveReferences
  <2>2. CASE ko.spec.field["ref"] # Unset
    <3>1. ResolveReferences(ko).spec
            = [ko.spec EXCEPT !.field = [ko.spec.field EXCEPT !["own"] = ko.spec.field["ref"]]]
      BY <1>2, <1>3, <2>2, SlotType, Slots DEF ResolveReferences
    <3> QED
      BY <1>2, <1>4, <2>2, <3>1 DEF ResolveReferences, Copy, ResourceOf
  <2> QED
    BY <2>1, <2>2
<1> QED
  BY <1>1, <1>2, <1>5, <1>6

\* What a read or an answer leaves of a copy is a copy, with the fields that are answered.
LEMMA ObservedType ==
  ASSUME NEW answered, NEW call \in Lowered, NEW ko \in Copy,
         NEW i \in Existing, i.status # "none"
  PROVE  LET seen == Observed(answered, call, ko, i) IN
           /\ seen \in Copy /\ seen.phase = ko.phase /\ seen.spec.tags = ko.spec.tags
           /\ seen.spec.field["own"] = AnsweredValue(answered, call, ko.spec, i)
           /\ seen.spec.field["ref"] = AnsweredReference(ko.spec)
           /\ seen.spec.field["other"] = i.value["other"]
           /\ seen.status.object = i.status
<1> DEFINE own == AnsweredValue(answered, call, ko.spec, i)
           ref == AnsweredReference(ko.spec)
           other == i.value["other"]
<1>1. own \in Settable \union {TooLarge} /\ ref \in Settable /\ other \in Settable
  BY Slots DEF AnsweredValue, AnsweredReference, Copy, Existing
<1>2. i.status \in EndpointStatus
  BY DEF Existing, AWSEndpoint
<1> HIDE DEF own, ref, other
<1> DEFINE field == [own |-> own, ref |-> ref, other |-> other]
<1>3. /\ field \in [Field -> Values]
      /\ field["own"] = own /\ field["ref"] = ref /\ field["other"] = other
  BY <1>1, Slots
<1> HIDE DEF field
<1> DEFINE seen == [ko EXCEPT !.spec.field = field, !.status.object = i.status]
<1>4. /\ seen \in Copy /\ seen.phase = ko.phase /\ seen.spec.tags = ko.spec.tags
      /\ seen.spec.field = field /\ seen.status.object = i.status
  BY <1>1, <1>2, <1>3 DEF Copy, ResourceOf
<1> QED
  BY <1>3, <1>4 DEF Observed, field, own, ref, other

\* A read learns of the fields what AWS answers.
LEMMA SdkFindType ==
  ASSUME Typed, NEW ko \in Copy, object.status # "none"
  PROVE  LET seen == SdkFind(ko) IN
           /\ seen \in Copy /\ seen.phase = ko.phase /\ seen.status.object = object.status
           /\ seen.spec.tags = IF DeleteRequested(ko) THEN ko.spec.tags ELSE object.tags
           /\ seen.spec.field["own"] = AnsweredValue(focus.found, "find", ko.spec, object)
           /\ seen.spec.field["ref"] = AnsweredReference(ko.spec)
           /\ seen.spec.field["other"] = object.value["other"]
<1> DEFINE seen == Observed(focus.found, "find", ko, object)
           tags == IF DeleteRequested(ko) THEN ko.spec.tags ELSE object.tags
<1>1. /\ seen \in Copy /\ seen.phase = ko.phase /\ seen.status.object = object.status
      /\ seen.spec.tags = ko.spec.tags
      /\ seen.spec.field["own"] = AnsweredValue(focus.found, "find", ko.spec, object)
      /\ seen.spec.field["ref"] = AnsweredReference(ko.spec)
      /\ seen.spec.field["other"] = object.value["other"]
  BY ObservedType DEF Typed, Lowered
<1>2. SdkFind(ko) = [seen EXCEPT !.spec.tags = tags]
  BY <1>1 DEF SdkFind
<1>3. tags \in SUBSET Tag
  BY DEF Typed, Copy, ResourceOf, Existing, AWSEndpoint
<1> HIDE DEF seen, tags
<1>4. /\ [seen EXCEPT !.spec.tags = tags] \in Copy
      /\ [seen EXCEPT !.spec.tags = tags].phase = seen.phase
      /\ [seen EXCEPT !.spec.tags = tags].status = seen.status
      /\ [seen EXCEPT !.spec.tags = tags].spec.tags = tags
      /\ [seen EXCEPT !.spec.tags = tags].spec.field = seen.spec.field
  BY <1>1, <1>3, TagsType DEF Copy, ResourceOf
<1> QED
  BY <1>1, <1>2, <1>4 DEF tags

\* An endpoint with other tags is an endpoint.
LEMMA EndpointTagsType ==
  ASSUME NEW i \in Existing, NEW tags \in SUBSET Tag
  PROVE  /\ [i EXCEPT !.tags = tags] \in Existing
         /\ [i EXCEPT !.tags = tags].tags = tags
         /\ [i EXCEPT !.tags = tags].value = i.value
         /\ [i EXCEPT !.tags = tags].status = i.status
BY DEF Existing, AWSEndpoint

LEMMA UserTyped == Typed /\ User /\ UNCHANGED focus => Typed'
<1> SUFFICES ASSUME Typed, User, UNCHANGED focus PROVE Typed'
  OBVIOUS
<1> USE DEF Typed, UserEdits, local
<1>edit. edits < MaxEdits /\ edits' = edits + 1 => edits' \in 0 .. MaxEdits
  BY EditsAssumption
<1>1. ASSUME NEW spec \in EndpointSpec, UserCreates(spec) PROVE Typed'
  <2>1. PICK a \in ChoiceOf("own"), b \in ChoiceOf("ref"), c \in ChoiceOf("other"),
             t \in SUBSET Tag :
          spec = [field |-> [own |-> a, ref |-> b, other |-> c], tags |-> t]
    BY DEF EndpointSpec
  <2> DEFINE field == [own |-> a, ref |-> b, other |-> c]
  <2>2. /\ field \in [Field -> Values]
        /\ field["own"] \in Settable \union {TooLarge}
        /\ field["ref"] \in Settable /\ field["other"] \in Settable
    BY Slots, Choices
  <2> HIDE DEF field
  <2>3. cr' = [phase |-> "live", finalizer |-> FALSE,
               spec |-> [field |-> field, tags |-> t], status |-> NoStatus]
    BY <1>1, <2>1 DEF UserCreates, NoResource, field
  <2>4. cr' \in Copy
    BY <2>2, <2>3 DEF Copy, ResourceOf, Phase, NoStatus, Synced
  <2> QED
    BY <1>1, <2>4, <1>edit DEF UserCreates
<1>2. ASSUME NEW slot \in Field, NEW v \in ChoiceOf(slot), UserSets(slot, v) PROVE Typed'
  <2>1. v \in Settable \union (IF slot = "own" THEN {TooLarge} ELSE {})
    BY Slots, Choices
  <2>2. cr' \in Copy
    BY <1>2, <2>1, SlotType DEF UserSets
  <2> QED
    BY <1>2, <2>2, <1>edit DEF UserSets
<1>3. ASSUME NEW tags \in SUBSET Tag, UserSetsTags(tags) PROVE Typed'
  BY <1>3, TagsType, <1>edit DEF UserSetsTags
<1>4. CASE UserDeletes
  <2>1. cr' \in Copy
    BY <1>4, NothingType DEF UserDeletes, Copy, ResourceOf, Phase
  <2> QED
    BY <1>4, <2>1 DEF UserDeletes
<1> QED
  BY <1>1, <1>2, <1>3, <1>4 DEF User

LEMMA AWSTyped == Typed /\ EndpointIsDeleted /\ UNCHANGED focus => Typed'
BY NothingType DEF Typed, EndpointIsDeleted, local

\* A creation or a modification takes what is asked for to AWS as it is.
LEMMA Created ==
  ASSUME Typed, SdkCreate
  PROVE  /\ object' \in Existing /\ object'.status = "active"
         /\ object'.tags = desired.spec.tags
         /\ focus.createSent => desired.spec.field["own"] \in {Unset, object'.value["own"]}
         /\ desired.spec.field["other"] \in {Unset, object'.value["other"]}
         /\ latest' = Observed(focus.createAnswered, "create", desired, object')
<1> DEFINE spec == desired.spec.field
           Given == IF focus.createSent /\ spec["own"] # Unset
                    THEN {Narrow(spec["own"])} ELSE Plain \union {Unset}
           Chosen == IF spec["other"] # Unset THEN {spec["other"]} ELSE Other \union {Unset}
<1>1. PICK own \in Given, other \in Chosen :
        /\ object' = [status |-> "active", tags |-> desired.spec.tags,
                      value |-> [own |-> own, ref |-> Unset, other |-> other]]
        /\ latest' = Observed(focus.createAnswered, "create", desired, object')
  BY DEF SdkCreate
<1>2. Representable(spec["own"])
  BY DEF SdkCreate
<1>3. /\ own \in Settable
      /\ focus.createSent => spec["own"] \in {Unset, own}
      /\ other \in Settable /\ spec["other"] \in {Unset, other}
  BY <1>2, EndpointAssumption DEF Representable, Narrow, Settable, Typed, Copy
<1> HIDE DEF spec, Given, Chosen
<1> DEFINE value == [own |-> own, ref |-> Unset, other |-> other]
<1>4. /\ value \in [Field -> Values] /\ \A slot \in Field : value[slot] \in Settable
      /\ value["own"] = own /\ value["other"] = other
  BY <1>3, Slots
<1>5. desired.spec.tags \in SUBSET Tag
  BY DEF Typed, Copy, ResourceOf
<1> HIDE DEF value
<1>6. object' = [status |-> "active", tags |-> desired.spec.tags, value |-> value]
  BY <1>1 DEF value
<1>7. object' \in Existing
  BY <1>4, <1>5, <1>6 DEF Existing, AWSEndpoint, EndpointStatus
<1> QED
  BY <1>1, <1>3, <1>4, <1>6, <1>7 DEF spec

LEMMA Modified ==
  ASSUME Typed, ModifyEndpoint
  PROVE  /\ object' \in Existing /\ object'.status = object.status
         /\ object'.tags = object.tags
         /\ focus.modifySent => desired.spec.field["own"] \in {Unset, object'.value["own"]}
         /\ desired.spec.field["other"] \in {Unset, object'.value["other"]}
         /\ latest' = Observed(focus.modifyAnswered, "modify", desired, object')
<1> DEFINE spec == desired.spec.field
<1>1. PICK own, other :
        /\ own = IF focus.modifySent /\ spec["own"] # Unset
                 THEN Narrow(spec["own"]) ELSE object.value["own"]
        /\ other = IF spec["other"] # Unset THEN spec["other"] ELSE object.value["other"]
  OBVIOUS
<1>2. PICK value : value = [[object.value EXCEPT !["own"] = own] EXCEPT !["other"] = other]
  OBVIOUS
<1>3. /\ object' = [object EXCEPT !.value = value]
      /\ latest' = Observed(focus.modifyAnswered, "modify", desired, object')
      /\ focus.modifySent => Representable(spec["own"])
  BY <1>1, <1>2 DEF ModifyEndpoint, Typed, Existing, AWSEndpoint
<1>4. /\ own \in Settable
      /\ focus.modifySent => spec["own"] \in {Unset, own}
      /\ other \in Settable /\ spec["other"] \in {Unset, other}
  BY <1>1, <1>3, Slots DEF Representable, Narrow, Typed, Copy, Existing
<1>5. /\ value \in [Field -> Values] /\ \A slot \in Field : value[slot] \in Settable
      /\ value["own"] = own /\ value["other"] = other
  <2>1. /\ object.value \in [Field -> Values] /\ own \in Values /\ other \in Values
        /\ \A slot \in Field : object.value[slot] \in Settable
    BY <1>4, Slots DEF Typed, Existing, AWSEndpoint
  <2> QED
    BY <1>2, <1>4, <2>1, Slots
<1>6. /\ object' \in Existing /\ object'.status = object.status /\ object'.tags = object.tags
      /\ object'.value = value
  BY <1>3, <1>5 DEF Typed, Existing, AWSEndpoint
<1> QED
  BY <1>3, <1>4, <1>5, <1>6

\* A copy without the value of its reference.
LEMMA Cleared ==
  ASSUME NEW ko \in Copy
  PROVE  LET spec == ClearResolvedReferences(ko.spec) IN
           /\ spec.field \in [Field -> Values] /\ spec.tags = ko.spec.tags
           /\ spec.field["own"] = IF ko.spec.field["ref"] # Unset
                                  THEN Unset ELSE ko.spec.field["own"]
           /\ spec.field["ref"] = ko.spec.field["ref"]
           /\ spec.field["other"] = ko.spec.field["other"]
<1>1. /\ ko.spec \in [field : [Field -> Values], tags : SUBSET Tag]
      /\ ko.spec.field \in [Field -> Values]
  BY DEF Copy, ResourceOf
<1>2. CASE ko.spec.field["ref"] = Unset
  BY <1>1, <1>2 DEF ClearResolvedReferences
<1>3. CASE ko.spec.field["ref"] # Unset
  <2>1. PICK spec : spec = [ko.spec EXCEPT !.field["own"] = Unset]
    OBVIOUS
  <2>2. /\ spec.field = [ko.spec.field EXCEPT !["own"] = Unset] /\ spec.tags = ko.spec.tags
    BY <1>1, <2>1
  <2>3. ClearResolvedReferences(ko.spec) = spec
    BY <1>3, <2>1 DEF ClearResolvedReferences
  <2> QED
    BY <1>1, <1>3, <2>2, <2>3, Slots
<1> QED
  BY <1>2, <1>3

\* What a patch makes of Spec: the fields in which the copies differ become those of latest.
LEMMA Patched ==
  ASSUME Typed, PatchEndpointSpec
  PROVE  LET from == ClearResolvedReferences(desired.spec).field
             to == ClearResolvedReferences(latest.spec).field
         IN /\ cr' \in Copy /\ cr'.phase = cr.phase
            /\ \/ cr'.spec.field = cr.spec.field
               \/ \A slot \in Field :
                    cr'.spec.field[slot] = IF to[slot] # from[slot]
                                           THEN to[slot] ELSE cr.spec.field[slot]
<1>1. PICK from, to :
        /\ PatchSpec(from, to) /\ to = ClearResolvedReferences(latest.spec)
        /\ from \in {to, ClearResolvedReferences(desired.spec)}
  BY DEF PatchEndpointSpec
<1>2. /\ to.field \in [Field -> Values] /\ to.tags \in SUBSET Tag
      /\ to.field["own"] \in Settable \union {TooLarge}
      /\ to.field["ref"] \in Settable /\ to.field["other"] \in Settable
  BY <1>1, Cleared, Slots DEF Typed, Copy, ResourceOf
<1>3. PICK field, tags :
        /\ field = [f \in Field |-> IF to.field[f] # from.field[f]
                                    THEN to.field[f] ELSE cr.spec.field[f]]
        /\ tags = IF to.tags # from.tags THEN to.tags ELSE cr.spec.tags
  OBVIOUS
<1>4. cr' = [cr EXCEPT !.spec.field = field, !.spec.tags = tags]
  BY <1>1, <1>3 DEF PatchSpec
<1>5. /\ field \in [Field -> Values] /\ field["own"] \in Settable \union {TooLarge}
      /\ field["ref"] \in Settable /\ field["other"] \in Settable
      /\ tags \in SUBSET Tag
  BY <1>2, <1>3, Slots DEF Typed, Copy, ResourceOf
<1>6. /\ cr' \in Copy /\ cr'.phase = cr.phase /\ cr'.spec.field = field
  BY <1>4, <1>5 DEF Typed, Copy, ResourceOf
<1>7. CASE from = to
  <2>1. \A f \in Field : field[f] = cr.spec.field[f]
    BY <1>3, <1>7
  <2>2. field = cr.spec.field
    BY <1>5, <2>1 DEF Typed, Copy, ResourceOf
  <2> QED
    BY <1>6, <2>2
<1>8. CASE from = ClearResolvedReferences(desired.spec)
  BY <1>1, <1>3, <1>6, <1>8
<1> QED
  BY <1>1, <1>7, <1>8

\* The status after a pass.
LEMMA StatusPatchedType ==
  ASSUME Typed, PatchStatus(IsSynced)
  PROVE  /\ cr' \in Copy /\ cr'.phase = cr.phase /\ cr'.spec = cr.spec
         /\ cr.phase # "absent" => /\ cr'.status.synced = SyncedCondition(IsSynced)
                                   /\ cr'.status.terminal <=> pc = "patchTerminal"
<1>1. CASE cr.phase = "absent"
  BY <1>1 DEF PatchStatus, Typed
<1>2. CASE cr.phase # "absent"
  <2>1. PICK synced, terminal : /\ synced = SyncedCondition(IsSynced)
                                /\ terminal = (pc = "patchTerminal")
    OBVIOUS
  <2>2. synced \in Synced /\ terminal \in BOOLEAN
    BY <2>1 DEF SyncedCondition, IsSynced, Typed, Copy, ResourceOf, Synced
  <2>3. cr' = [cr EXCEPT !.status = [latest.status EXCEPT !.synced = synced,
                                                          !.terminal = terminal]]
    BY <1>2, <2>1 DEF PatchStatus
  <2>4. /\ cr' \in Copy /\ cr'.phase = cr.phase /\ cr'.spec = cr.spec
        /\ cr'.status.synced = synced /\ cr'.status.terminal = terminal
    BY <2>2, <2>3 DEF Typed, Copy, ResourceOf
  <2> QED
    BY <2>1, <2>4
<1> QED
  BY <1>1, <1>2

LEMMA ControllerTyped == Typed /\ Controller /\ UNCHANGED focus => Typed'
<1> SUFFICES ASSUME Typed, Controller, UNCHANGED focus PROVE Typed'
  OBVIOUS
<1> USE DEF Typed, local
<1>stage. /\ {"idle", "read", "markManaged", "create", "removeFinalizer", "patchError",
              "patchTerminal", "patchStatus", "patched", "patchSpec", "readCreated", "delete",
              "modify", "removeTags", "addTags"} \subseteq Stage
  BY DEF Stage, Call
<1>next. ASSUME NEW want, NEW have
         PROVE  AfterTags(want, have) \in Stage /\ UpdateStep(want, have) \in Stage
                /\ DeleteStep(have) \in Stage
  BY <1>stage DEF AfterTags, UpdateStep, FirstOfTags, DeleteStep
<1>1. CASE ReconcileEndpoint
  <2>1. CASE Begins(ResolveReferences(Taken), "read")
    BY <2>1, <1>stage, TakenType DEF Begins
  <2>2. ASSUME NEW next \in {"read", "patchError"}, Begins(Taken, next) PROVE Typed'
    BY <2>2, <1>stage, TakenType DEF Begins
  <2> QED
    BY <1>1, <2>1, <2>2 DEF ReconcileEndpoint
<1>2. CASE ReadEndpoint
  <2>1. /\ object.status # "none" /\ desired' = desired /\ latest' = SdkFind(desired)
        /\ pc' \in {DeleteStep(SdkFind(desired)), UpdateStep(desired, SdkFind(desired))}
        /\ UNCHANGED <<cr, object, edits>>
    BY <1>2 DEF ReadEndpoint, ReadFound
  <2>2. latest' \in Copy
    BY <2>1, SdkFindType
  <2> QED
    BY <2>1, <2>2, <1>next
<1>3. CASE ReadNotFound
  BY <1>3, <1>stage DEF ReadNotFound
<1>4. CASE MarkManaged
  <2>1. cr' \in Copy /\ desired' \in Copy
    BY <1>4 DEF MarkManaged, Copy, ResourceOf
  <2> QED
    BY <1>4, <2>1, <1>stage DEF MarkManaged
<1>5. CASE SdkCreate
  <2>1. latest' \in Copy
    BY <1>5, Created, ObservedType DEF Lowered
  <2> QED
    BY <1>5, <2>1, Created, <1>stage DEF SdkCreate
<1>6. CASE ReadCreatedEndpoint
  <2>1. latest' \in Copy
    BY <1>6, SdkFindType, StatusType DEF ReadCreatedEndpoint, ReadCreated
  <2> QED
    BY <1>6, <2>1, <1>stage DEF ReadCreatedEndpoint, ReadCreated
<1>7. CASE RemoveEndpointTags \/ AddEndpointTags
  <2>1. /\ latest' \in {Updated, latest} /\ pc' \in {AfterTags(desired, latest), "addTags"}
        /\ UNCHANGED <<cr, desired, edits>>
    BY <1>7 DEF RemoveEndpointTags, RemoveTags, AddEndpointTags, AddTags
  <2>2. latest' \in Copy
    BY <2>1 DEF Updated
  <2>3. object' \in Existing
    <3>1. object.tags \in SUBSET Tag /\ desired.spec.tags \in SUBSET Tag
      BY DEF Existing, AWSEndpoint, Copy, ResourceOf
    <3> QED
      BY <1>7, <3>1, EndpointTagsType
         DEF RemoveEndpointTags, RemoveTags, AddEndpointTags, AddTags
  <2> QED
    BY <2>1, <2>2, <2>3, <1>stage, <1>next
<1>8. CASE ModifyEndpoint
  <2>1. object.status # "none"
    BY <1>8 DEF ModifyEndpoint
  <2>2. object' \in Existing /\ latest' \in Copy
    BY <1>8, <2>1, Modified, ObservedType DEF Lowered
  <2> QED
    BY <1>8, <2>2, <1>stage DEF ModifyEndpoint
<1>9. CASE DeleteEndpoint
  <2>1. object' \in Existing
    BY <1>9 DEF DeleteEndpoint, Existing, AWSEndpoint, EndpointStatus
  <2>2. latest' \in Copy
    BY <1>9, ObjectType DEF DeleteEndpoint, EndpointStatus
  <2> QED
    BY <1>9, <2>1, <2>2, <1>stage DEF DeleteEndpoint
<1>10. CASE PatchEndpointSpec
  <2>1. cr' \in Copy
    BY <1>10, Patched
  <2> QED
    BY <1>10, <2>1, <1>stage DEF PatchEndpointSpec, PatchSpec
<1>11. CASE RemoveFinalizer
  BY <1>11, <1>stage, NothingType DEF RemoveFinalizer, PassEnds
<1>12. CASE PatchStatus(IsSynced)
  <2>1. cr' \in Copy
    BY <1>12, StatusPatchedType
  <2> QED
    BY <1>12, <2>1, <1>stage, NothingType DEF PatchStatus, PassEnds
<1>13. CASE CallFails
  BY <1>13, <1>stage DEF CallFails, CallFailsOr
<1>14. CASE Crash
  BY <1>14, <1>stage, NothingType DEF Crash, PassEnds
<1> QED
  BY <1>1, <1>2, <1>3, <1>4, <1>5, <1>6, <1>7, <1>8, <1>9, <1>10, <1>11, <1>12, <1>13, <1>14
     DEF Controller

LEMMA StaysTyped == Spec => []Typed
<1>1. Init => Typed
  BY NothingType, EditsAssumption DEF Init, Typed, Stage
<1>2. Typed /\ [Next]_endpointVars => Typed'
  <2>1. Typed /\ UNCHANGED endpointVars => Typed'
    BY DEF endpointVars, vars, Typed
  <2> QED
    BY <2>1, UserTyped, AWSTyped, ControllerTyped DEF Next
<1> QED
  BY <1>1, <1>2, PTL DEF Spec

\* Every variable keeps to its type.
THEOREM TypeCorrect == Spec => []TypeOK
<1>1. Typed => TypeOK
  BY DEF Typed, TypeOK, Copy, Existing
<1> QED
  BY <1>1, StaysTyped, PTL

\* Neither a creation nor a modification takes only the low 32 bits of a number to AWS: one that
\* does not fit is an error before the call.
THEOREM NumbersAlwaysFit == Spec => []NumbersFit
<1>1. Typed => NumbersFit
  BY Slots DEF Typed, Existing, NumbersFit
<1> QED
  BY <1>1, StaysTyped, PTL

-----------------------------------------------------------------------------
(* What a pass knows of the endpoint *)

\* The stages at which a pass has found or created the endpoint and goes on.
Informed == {"removeTags", "addTags", "modify", "readCreated", "patchSpec", "patched",
             "patchStatus"}

\* A field that is required is set.
Demanded ==
  focus.required => /\ cr.phase # "absent" => cr.spec.field["own"] # Unset
                    /\ pc # "idle" => desired.spec.field["own"] # Unset

\* The copy has the value that its reference stands for.
Resolved ==
  desired.spec.field["ref"] # Unset => desired.spec.field["own"] = desired.spec.field["ref"]

\* After a creation or a modification: the answer has what was asked for, and the reference is
\* kept outside the groups alone.
Answered ==
  /\ latest.spec.field["ref"] = AnsweredReference(desired.spec)
  /\ focus.immutable => latest.spec.field["own"] = desired.spec.field["own"]
  /\ focus.changeable /\ ~focus.secret
       => desired.spec.field["own"] \in {Unset, latest.spec.field["own"]}
  /\ desired.spec.field["other"] \in {Unset, latest.spec.field["other"]}

\* How far the tags are.
TagsFollow ==
  /\ pc = "removeTags" => object.tags = latest.spec.tags
  /\ pc = "addTags" => object.tags = latest.spec.tags \intersect desired.spec.tags
  /\ pc \notin {"removeTags", "addTags"} => object.tags = desired.spec.tags

\* The endpoint has what a copy asks for.
Has(spec) ==
  /\ focus.changeable /\ ~focus.secret => spec.field["own"] \in {Unset, object.value["own"]}
  /\ spec.field["other"] \in {Unset, object.value["other"]}

\* What the pass has learned is so, and when the calls are over what it wants is so, too.
InPlace ==
  /\ object.status # "none"
  /\ TagsFollow /\ Has(latest.spec)
  /\ pc \notin {"removeTags", "addTags", "modify"} => Has(desired.spec)

\* While a pass goes on nobody else changes the endpoint, but for the end of a deletion.
Knows ==
  /\ Demanded
  /\ pc # "patchError" /\ ~DeleteRequested(desired) => Resolved
  /\ pc \in {"readCreated", "patchSpec"} => Answered
  /\ pc \in Informed => /\ latest.spec.field["ref"] \in {Unset, desired.spec.field["ref"]}
                        /\ cr.phase = "deleting" \/ InPlace

\* What the user does leaves the pass alone; a field that is required is set, and a deletion stays.
LEMMA UserKnows == Typed /\ Invariant /\ Knows /\ User /\ UNCHANGED focus => Knows'
<1> SUFFICES ASSUME Typed, Invariant, Knows, User, UNCHANGED focus PROVE Knows'
  OBVIOUS
<1>1. UNCHANGED <<object, pc, desired, latest, focus>>
  BY DEF User, UserCreates, UserSets, UserSetsTags, UserDeletes, UserEdits, local
<1>2. cr.phase = "deleting" => cr'.phase = "deleting"
  BY DEF User, UserCreates, UserSets, UserSetsTags, UserDeletes, Typed, Copy, ResourceOf
<1>3. ASSUME focus.required, cr'.phase # "absent" PROVE cr'.spec.field["own"] # Unset
  <2>1. ASSUME NEW spec \in EndpointSpec, UserCreates(spec) PROVE cr'.spec.field["own"] # Unset
    <3>1. spec.field["own"] \in ChoiceOf("own")
      BY DEF EndpointSpec
    <3>2. cr'.spec = spec
      BY <2>1 DEF UserCreates, NoResource
    <3> QED
      BY <1>3, <3>1, <3>2, Choices
  <2>2. ASSUME NEW slot \in Field, NEW v \in ChoiceOf(slot), UserSets(slot, v)
        PROVE  cr'.spec.field["own"] # Unset
    <3>1. cr.phase # "absent" /\ cr' = [cr EXCEPT !.spec.field[slot] = v]
      BY <2>2 DEF UserSets
    <3>2. v \in Settable \union (IF slot = "own" THEN {TooLarge} ELSE {})
      BY Slots, Choices
    <3>3. cr'.spec = [cr.spec EXCEPT !.field = [cr.spec.field EXCEPT ![slot] = v]]
      BY <3>1, <3>2, SlotType DEF Typed
    <3>4. cr'.spec.field["own"] = IF slot = "own" THEN v ELSE cr.spec.field["own"]
      BY <3>3, Slots DEF Typed, Copy, ResourceOf
    <3> QED
      BY <1>3, <3>1, <3>4, Choices DEF Knows, Demanded
  <2>3. CASE (\E tags \in SUBSET Tag : UserSetsTags(tags)) \/ UserDeletes
    <3>1. cr'.spec.field = cr.spec.field /\ cr.phase # "absent"
      BY <1>3, <2>3 DEF UserSetsTags, UserDeletes, NoResource, Typed, Copy, ResourceOf
    <3> QED
      BY <1>3, <3>1 DEF Knows, Demanded
  <2> QED
    BY <2>1, <2>2, <2>3 DEF User
<1>4. /\ Resolved' <=> Resolved
      /\ Answered' <=> Answered
  BY <1>1 DEF Resolved, Answered, AnsweredReference
<1>5. InPlace' <=> InPlace
  BY <1>1 DEF InPlace, TagsFollow, Has
<1>6. Demanded'
  BY <1>1, <1>3 DEF Knows, Demanded
<1> QED
  BY <1>1, <1>2, <1>4, <1>5, <1>6 DEF Knows, DeleteRequested

\* AWS ends a deletion alone, which the user has asked for.
LEMMA AWSKnows == Typed /\ Invariant /\ Knows /\ EndpointIsDeleted /\ UNCHANGED focus => Knows'
<1> SUFFICES ASSUME Invariant, Knows, EndpointIsDeleted, UNCHANGED focus PROVE Knows'
  OBVIOUS
<1>1. cr.phase = "deleting" /\ UNCHANGED <<cr, pc, desired, latest, focus>>
  BY DEF EndpointIsDeleted, Invariant, Managed, local
<1> QED
  BY <1>1 DEF Knows, Demanded, Resolved, Answered, AnsweredReference

\* A call that leaves the resource and the copy of it alone.
LEMMA CallKnows ==
  ASSUME Knows, pc \notin {"idle", "patchError"}, UNCHANGED <<cr, desired, focus>>,
         pc' \in {"readCreated", "patchSpec"} => Answered',
         pc' \in Informed => /\ latest'.spec.field["ref"] \in {Unset, desired.spec.field["ref"]}
                             /\ cr.phase = "deleting" \/ InPlace'
  PROVE  Knows'
BY DEF Knows, Demanded, Resolved, DeleteRequested

\* A pass begins with its references resolved, or ends at once.
LEMMA ReconcileKnows == Typed /\ Knows /\ ReconcileEndpoint /\ UNCHANGED focus => Knows'
<1> SUFFICES ASSUME Typed, Knows, ReconcileEndpoint, UNCHANGED focus PROVE Knows'
  OBVIOUS
<1>1. /\ pc' \in {"read", "patchError"} /\ UNCHANGED <<cr, focus>> /\ cr.phase # "absent"
      /\ \/ desired' = ResolveReferences(Taken)
         \/ desired' = Taken /\ (DeleteRequested(cr) \/ pc' = "patchError")
  BY DEF ReconcileEndpoint, Begins
<1>2. cr \in Copy /\ cr.spec.field \in [Field -> Values]
  BY DEF Typed, Copy, ResourceOf
<1>3. /\ Taken.phase = cr.phase /\ ResolveReferences(Taken).phase = cr.phase
      /\ Taken.spec.field = cr.spec.field
      /\ ResolveReferences(Taken).spec.field
           = IF cr.spec.field["ref"] # Unset
             THEN [cr.spec.field EXCEPT !["own"] = cr.spec.field["ref"]] ELSE cr.spec.field
  BY <1>2, TakenType
<1>4. cr.spec.field["ref"] # Unset =>
        /\ [cr.spec.field EXCEPT !["own"] = cr.spec.field["ref"]]["own"] = cr.spec.field["ref"]
        /\ [cr.spec.field EXCEPT !["own"] = cr.spec.field["ref"]]["ref"] = cr.spec.field["ref"]
  BY <1>2, Slots
<1>5. Demanded'
  <2> SUFFICES ASSUME focus.required PROVE desired'.spec.field["own"] # Unset
    BY <1>1 DEF Knows, Demanded
  <2>1. cr.spec.field["own"] # Unset
    BY <1>1 DEF Knows, Demanded
  <2>2. ResolveReferences(Taken).spec.field["own"] # Unset
    BY <1>3, <1>4, <2>1
  <2> QED
    BY <1>1, <1>3, <2>1, <2>2
<1>6. pc' # "patchError" /\ ~DeleteRequested(desired') => Resolved'
  <2> SUFFICES ASSUME desired' = ResolveReferences(Taken), desired'.spec.field["ref"] # Unset
               PROVE  desired'.spec.field["own"] = desired'.spec.field["ref"]
    BY <1>1, <1>3 DEF Resolved, DeleteRequested
  <2> QED
    BY <1>3, <1>4
<1> QED
  BY <1>1, <1>5, <1>6 DEF Knows, Informed

\* A read informs the pass.
LEMMA ReadKnows == Typed /\ Knows /\ ReadEndpoint /\ UNCHANGED focus => Knows'
<1> SUFFICES ASSUME Typed, Knows, ReadEndpoint, UNCHANGED focus PROVE Knows'
  OBVIOUS
<1> DEFINE found == SdkFind(desired)
<1>1. /\ pc = "read" /\ object.status # "none" /\ UNCHANGED <<cr, object, desired, focus>>
      /\ latest' = found
      /\ pc' = IF DeleteRequested(desired) THEN DeleteStep(found) ELSE UpdateStep(desired, found)
  BY DEF ReadEndpoint, ReadFound
<1>2. CASE DeleteRequested(desired)
  BY <1>1, <1>2, DeleteStepCall, CallKnows DEF Informed
<1>3. CASE ~DeleteRequested(desired)
  <2>1. /\ found.spec.tags = object.tags
        /\ found.spec.field["own"] = AnsweredValue(focus.found, "find", desired.spec, object)
        /\ found.spec.field["ref"] = AnsweredReference(desired.spec)
        /\ found.spec.field["other"] = object.value["other"]
    BY <1>1, <1>3, SdkFindType DEF Typed
  <2> HIDE DEF found
  <2>2. focus.changeable /\ ~focus.secret => found.spec.field["own"] = object.value["own"]
    BY <2>1, FocusTreatment DEF Typed, AnsweredValue, Lowered
  <2>3. Has(latest.spec)'
    BY <1>1, <2>1, <2>2 DEF Has
  <2>4. /\ pc' \in {"addTags", "removeTags", "patchStatus", "modify"}
        /\ pc' = "addTags" => found.spec.tags \subseteq desired.spec.tags
        /\ pc' \in {"patchStatus", "modify"} => desired.spec.tags = found.spec.tags
        /\ pc' = "patchStatus" => Delta(desired.spec, found.spec) = {}
    BY <1>1, <1>3 DEF UpdateStep, FirstOfTags, AfterTags
  <2>5. TagsFollow'
    BY <1>1, <2>1, <2>4 DEF TagsFollow
  <2>6. pc' = "patchStatus" => Has(desired.spec)'
    <3> SUFFICES ASSUME Delta(desired.spec, found.spec) = {} PROVE Has(desired.spec)'
      BY <1>1, <2>4
    <3>1. /\ focus.compared => desired.spec.field["own"] = found.spec.field["own"]
          /\ desired.spec.field["other"] = found.spec.field["other"]
      BY Slots DEF Delta
    <3> QED
      BY <1>1, <2>1, <2>2, <3>1, FocusTreatment DEF Has, Typed
  <2>7. InPlace'
    BY <1>1, <2>3, <2>4, <2>5, <2>6 DEF InPlace
  <2>8. latest'.spec.field["ref"] \in {Unset, desired.spec.field["ref"]}
    BY <1>1, <2>1 DEF AnsweredReference
  <2> QED
    BY <1>1, <2>4, <2>7, <2>8, CallKnows
<1> QED
  BY <1>2, <1>3

\* A creation or a modification is answered with what was asked for.
LEMMA AnswerKnows ==
  ASSUME Typed, Knows, pc \notin {"idle", "patchError"}, UNCHANGED <<cr, desired, focus>>,
         NEW call \in {"create", "modify"}, NEW sent, NEW answered,
         focus.changeable /\ ~focus.secret => sent /\ answered,
         focus.immutable => /\ ~focus.nested
                            /\ answered => focus.required /\ sent,
         object' \in Existing, object'.status # "none",
         cr.phase = "deleting" \/ object'.tags = desired.spec.tags,
         sent => desired.spec.field["own"] \in {Unset, object'.value["own"]},
         desired.spec.field["other"] \in {Unset, object'.value["other"]},
         latest' = Observed(answered, call, desired, object'),
         pc' \in {"readCreated", "patchSpec"}
  PROVE  Knows'
<1>1. /\ latest'.spec.field["own"] = AnsweredValue(answered, call, desired.spec, object')
      /\ latest'.spec.field["ref"] = AnsweredReference(desired.spec)
      /\ latest'.spec.field["other"] = object'.value["other"]
  BY ObservedType DEF Typed, Lowered
<1>2. /\ answered => latest'.spec.field["own"] = object'.value["own"]
      /\ ~answered /\ ~focus.nested
           => latest'.spec.field["own"] = desired.spec.field["own"]
  BY <1>1 DEF AnsweredValue, Lowered
<1>3. focus.required => desired.spec.field["own"] # Unset
  BY DEF Knows, Demanded
<1>4. Answered'
  BY <1>1, <1>2, <1>3 DEF Answered, AnsweredReference
<1>5. Has(latest.spec)' /\ Has(desired.spec)'
  BY <1>1, <1>2 DEF Has
<1>6. cr.phase = "deleting" \/ InPlace'
  BY <1>5 DEF InPlace, TagsFollow
<1>7. latest'.spec.field["ref"] \in {Unset, desired.spec.field["ref"]}
  BY <1>1 DEF AnsweredReference
<1> QED
  BY <1>4, <1>6, <1>7, CallKnows

LEMMA CreateKnows == Typed /\ Knows /\ SdkCreate /\ UNCHANGED focus => Knows'
<1> SUFFICES ASSUME Typed, Knows, SdkCreate, UNCHANGED focus PROVE Knows'
  OBVIOUS
<1>1. pc = "create" /\ pc' = "readCreated" /\ UNCHANGED <<cr, desired, focus>>
  BY DEF SdkCreate
<1>2. /\ focus.changeable /\ ~focus.secret => focus.createSent /\ focus.createAnswered
      /\ focus.immutable => /\ ~focus.nested
                            /\ focus.createAnswered => focus.required /\ focus.createSent
  BY FocusTreatment DEF Typed
<1> QED
  BY <1>1, <1>2, Created, AnswerKnows

LEMMA ModifyKnows == Typed /\ Knows /\ ModifyEndpoint /\ UNCHANGED focus => Knows'
<1> SUFFICES ASSUME Typed, Knows, ModifyEndpoint, UNCHANGED focus PROVE Knows'
  OBVIOUS
<1>1. /\ pc = "modify" /\ pc' = "patchSpec" /\ object.status = "active"
      /\ UNCHANGED <<cr, desired, focus>>
  BY DEF ModifyEndpoint
<1>2. /\ focus.changeable /\ ~focus.secret => focus.modifySent /\ focus.modifyAnswered
      /\ focus.immutable => /\ ~focus.nested
                            /\ focus.modifyAnswered => focus.required /\ focus.modifySent
  BY FocusTreatment DEF Typed
<1>3. cr.phase = "deleting" \/ object.tags = desired.spec.tags
  BY <1>1 DEF Knows, Informed, InPlace, TagsFollow
<1> QED
  BY <1>1, <1>2, <1>3, Modified, AnswerKnows

\* The read after a creation takes the status only.
LEMMA ReadCreatedKnows == Typed /\ Knows /\ ReadCreatedEndpoint /\ UNCHANGED focus => Knows'
<1> SUFFICES ASSUME Typed, Knows, ReadCreatedEndpoint, UNCHANGED focus PROVE Knows'
  OBVIOUS
<1>1. /\ pc = "readCreated" /\ object.status # "none" /\ pc' = "patchSpec"
      /\ latest' = [latest EXCEPT !.status = SdkFind(latest).status]
      /\ UNCHANGED <<cr, object, desired, focus>>
  BY DEF ReadCreatedEndpoint, ReadCreated
<1>2. latest'.spec = latest.spec
  BY <1>1, SdkFindType, StatusType DEF Typed
<1>3. Answered /\ Answered'
  BY <1>1, <1>2 DEF Knows, Answered, AnsweredReference
<1>4. InPlace => InPlace'
  BY <1>1, <1>2 DEF InPlace, TagsFollow, Has
<1>5. /\ latest'.spec.field["ref"] \in {Unset, desired.spec.field["ref"]}
      /\ cr.phase = "deleting" \/ InPlace'
  BY <1>1, <1>2, <1>4 DEF Knows, Informed
<1> QED
  BY <1>1, <1>3, <1>5, CallKnows

\* The last call for the tags.
LEMMA TagsDoneKnows ==
  ASSUME Typed, Knows, pc \in {"removeTags", "addTags"}, InPlace,
         object' = [object EXCEPT !.tags = desired.spec.tags],
         pc' = AfterTags(desired, latest), latest' = Updated, UNCHANGED <<cr, desired, focus>>
  PROVE  Knows'
<1>1. /\ object'.tags = desired.spec.tags
      /\ object'.value = object.value /\ object'.status = object.status
  BY EndpointTagsType DEF Typed, Copy, ResourceOf
<1>2. object.status # "none" /\ Has(latest.spec)
  BY DEF InPlace
<1>3. latest.spec.field["ref"] \in {Unset, desired.spec.field["ref"]}
  BY DEF Knows, Informed
<1>4. CASE Delta(desired.spec, latest.spec) = {}
  <2>1. latest' = desired
    BY <1>4 DEF Updated
  <2>2. /\ focus.compared => desired.spec.field["own"] = latest.spec.field["own"]
        /\ desired.spec.field["other"] = latest.spec.field["other"]
    BY <1>4, Slots DEF Delta
  <2>3. Has(desired.spec)'
    BY <1>1, <1>2, <2>2, FocusTreatment DEF Has, Typed
  <2>4. pc' \notin {"removeTags", "addTags", "modify", "readCreated", "patchSpec"}
    BY <1>4 DEF AfterTags
  <2>5. InPlace'
    BY <1>1, <1>2, <2>1, <2>3, <2>4 DEF InPlace, TagsFollow, Has
  <2> QED
    BY <1>3, <2>1, <2>4, <2>5, CallKnows
<1>5. CASE Delta(desired.spec, latest.spec) # {}
  <2>1. latest' = latest /\ pc' = "modify"
    BY <1>5 DEF Updated, AfterTags
  <2>2. Has(latest.spec)'
    BY <1>1, <1>2, <2>1 DEF Has
  <2>3. InPlace'
    BY <1>1, <1>2, <2>1, <2>2 DEF InPlace, TagsFollow
  <2> QED
    BY <1>3, <2>1, <2>3, CallKnows
<1> QED
  BY <1>4, <1>5

\* The calls for the tags, while no deletion is under way.
LEMMA TagsKnow ==
  Typed /\ Knows /\ (RemoveEndpointTags \/ AddEndpointTags) /\ UNCHANGED focus => Knows'
<1> SUFFICES ASSUME Typed, Knows, RemoveEndpointTags \/ AddEndpointTags, UNCHANGED focus
             PROVE  Knows'
  OBVIOUS
<1>1. /\ pc \in {"removeTags", "addTags"} /\ UNCHANGED <<cr, desired, focus>>
      /\ pc' \in {AfterTags(desired, latest), "addTags"} /\ latest' \in {Updated, latest}
  BY DEF RemoveEndpointTags, RemoveTags, AddEndpointTags, AddTags
<1>2. latest.spec.field["ref"] \in {Unset, desired.spec.field["ref"]}
  BY <1>1 DEF Knows, Informed
<1>3. pc' \notin {"readCreated", "patchSpec"}
  BY <1>1 DEF AfterTags
<1>4. CASE cr.phase = "deleting"
  <2>1. latest'.spec.field["ref"] \in {Unset, desired.spec.field["ref"]}
    BY <1>1, <1>2 DEF Updated
  <2> QED
    BY <1>1, <1>3, <1>4, <2>1, CallKnows
<1>5. CASE cr.phase # "deleting" /\ RemoveEndpointTags
  <2>1. /\ pc = "removeTags"
        /\ object' = [object EXCEPT !.tags = object.tags \ (latest.spec.tags \ desired.spec.tags)]
        /\ IF desired.spec.tags \subseteq latest.spec.tags
           THEN pc' = AfterTags(desired, latest) /\ latest' = Updated
           ELSE pc' = "addTags" /\ UNCHANGED latest
    BY <1>5 DEF RemoveEndpointTags, RemoveTags
  <2>2. InPlace /\ object.tags = latest.spec.tags
    BY <1>5, <2>1 DEF Knows, Informed, InPlace, TagsFollow
  <2>3. object.tags \ (latest.spec.tags \ desired.spec.tags)
          = latest.spec.tags \intersect desired.spec.tags
    BY <2>2
  <2>4. CASE desired.spec.tags \subseteq latest.spec.tags
    <3>1. latest.spec.tags \intersect desired.spec.tags = desired.spec.tags
      BY <2>4
    <3> QED
      BY <1>1, <2>1, <2>2, <2>3, <2>4, <3>1, TagsDoneKnows
  <2>5. CASE ~(desired.spec.tags \subseteq latest.spec.tags)
    <3>1. /\ object'.tags = latest.spec.tags \intersect desired.spec.tags
          /\ object'.value = object.value /\ object'.status = object.status
      BY <2>1, <2>3, EndpointTagsType DEF Typed, Copy, ResourceOf
    <3>2. InPlace'
      BY <1>1, <2>1, <2>2, <2>5, <3>1 DEF InPlace, TagsFollow, Has
    <3> QED
      BY <1>1, <1>2, <2>1, <2>5, <3>2, CallKnows
  <2> QED
    BY <2>4, <2>5
<1>6. CASE cr.phase # "deleting" /\ AddEndpointTags
  <2>1. /\ pc = "addTags" /\ pc' = AfterTags(desired, latest) /\ latest' = Updated
        /\ object' = [object EXCEPT !.tags
                        = object.tags \union (desired.spec.tags \ latest.spec.tags)]
    BY <1>6 DEF AddEndpointTags, AddTags
  <2>2. InPlace /\ object.tags = latest.spec.tags \intersect desired.spec.tags
    BY <1>6, <2>1 DEF Knows, Informed, InPlace, TagsFollow
  <2>3. object.tags \union (desired.spec.tags \ latest.spec.tags) = desired.spec.tags
    BY <2>2
  <2> QED
    BY <1>1, <2>1, <2>2, <2>3, TagsDoneKnows
<1> QED
  BY <1>4, <1>5, <1>6

\* At a patch of Spec the copies are equal where Spec is not to change.
LEMMA PatchKeepsRequired ==
  ASSUME Typed, Answered, PatchEndpointSpec, focus.immutable
  PROVE  cr'.spec.field["own"] = cr.spec.field["own"]
<1>1. latest.spec.field["ref"] = desired.spec.field["ref"]
  BY FocusTreatment DEF Typed, Answered, AnsweredReference
<1>2. ClearResolvedReferences(latest.spec).field["own"]
        = ClearResolvedReferences(desired.spec).field["own"]
  BY <1>1, Cleared DEF Typed, Answered
<1> QED
  BY <1>2, Patched, Slots

\* A patch of Spec leaves the copies and the endpoint as they are.
LEMMA PatchKnows == Typed /\ Knows /\ PatchEndpointSpec /\ UNCHANGED focus => Knows'
<1> SUFFICES ASSUME Typed, Knows, PatchEndpointSpec, UNCHANGED focus PROVE Knows'
  OBVIOUS
<1>1. /\ pc = "patchSpec" /\ pc' = "patched"
      /\ UNCHANGED <<object, desired, latest, focus>>
  BY DEF PatchEndpointSpec, PatchSpec, local
<1>2. cr'.phase = cr.phase
  BY Patched
<1>3. Demanded'
  <2> SUFFICES ASSUME focus.required PROVE cr'.spec.field["own"] = cr.spec.field["own"]
    BY <1>1, <1>2 DEF Knows, Demanded
  <2> QED
    BY <1>1, FocusTreatment, PatchKeepsRequired DEF Knows, Typed
<1>4. InPlace => InPlace'
  BY <1>1 DEF InPlace, TagsFollow, Has
<1> QED
  BY <1>1, <1>2, <1>3, <1>4 DEF Knows, Resolved, DeleteRequested, Informed

\* When a pass ends it forgets.
LEMMA PassEndsKnows ==
  ASSUME Knows, PassEnds, UNCHANGED focus,
         cr'.phase = "absent" \/ (cr'.phase = cr.phase /\ cr'.spec = cr.spec)
  PROVE  Knows'
<1>1. NoResource.spec.field["ref"] = Unset \/ "ref" \notin Field
  BY DEF NoResource, NoSpec
<1> QED
  BY <1>1, Slots DEF PassEnds, Knows, Demanded, Resolved, Informed

LEMMA ControllerKnows == Typed /\ Knows /\ Controller /\ UNCHANGED focus => Knows'
<1> SUFFICES ASSUME Typed, Knows, Controller, UNCHANGED focus PROVE Knows'
  OBVIOUS
<1>1. CASE ReadNotFound \/ DeleteEndpoint \/ CallFails
  <2>1. /\ pc \notin {"idle", "patchError"} /\ pc' \notin Informed
        /\ UNCHANGED <<cr, desired, focus>>
    BY <1>1 DEF ReadNotFound, DeleteEndpoint, CallFails, CallFailsOr, Call, Informed, local
  <2> QED
    BY <2>1, CallKnows DEF Informed
<1>2. CASE MarkManaged
  <2>1. /\ cr'.phase = cr.phase /\ cr'.spec = cr.spec
        /\ desired'.phase = desired.phase /\ desired'.spec = desired.spec
        /\ pc = "markManaged" /\ pc' = "create" /\ focus' = focus
    BY <1>2 DEF MarkManaged, Typed, Copy, ResourceOf
  <2> QED
    BY <2>1 DEF Knows, Demanded, Resolved, DeleteRequested, Informed
<1>3. CASE RemoveFinalizer
  BY <1>3, PassEndsKnows DEF RemoveFinalizer, NoResource
<1>4. CASE PatchStatus(IsSynced)
  BY <1>4, StatusPatchedType, PassEndsKnows DEF PatchStatus
<1>5. CASE Crash
  BY <1>5, PassEndsKnows DEF Crash
<1> QED
  BY <1>1, <1>2, <1>3, <1>4, <1>5, ReconcileKnows, ReadKnows, CreateKnows, ModifyKnows,
     ReadCreatedKnows, TagsKnow, PatchKnows DEF Controller

\* What a pass has read or been answered stays true until it ends, or the user has asked for a
\* deletion.
THEOREM KnowsTheEndpoint == Spec => []Knows
<1>1. Init => Knows
  <2>1. NoResource.spec.field["ref"] = Unset /\ NoResource.phase = "absent"
    BY Slots DEF NoResource, NoSpec
  <2> QED
    BY <2>1 DEF Init, Knows, Demanded, Resolved, Informed
<1>2. Typed /\ Invariant /\ Knows /\ [Next]_endpointVars => Knows'
  <2>1. ASSUME Knows, UNCHANGED endpointVars PROVE Knows'
    <3>1. UNCHANGED <<cr, object, pc, desired, latest, focus>>
      BY <2>1 DEF endpointVars, vars
    <3>2. (Demanded' <=> Demanded) /\ (Resolved' <=> Resolved) /\ (Answered' <=> Answered)
      BY <3>1 DEF Demanded, Resolved, Answered, AnsweredReference
    <3>3. InPlace' <=> InPlace
      BY <3>1 DEF InPlace, TagsFollow, Has
    <3> QED
      BY <2>1, <3>1, <3>2, <3>3 DEF Knows, DeleteRequested
  <2> QED
    BY <2>1, UserKnows, AWSKnows, ControllerKnows DEF Next
<1> QED
  BY <1>1, <1>2, StaysTyped, StaysManaged, PTL DEF Spec

-----------------------------------------------------------------------------
(* What Synced means *)

\* Synced becomes True, without a terminal error, only after a pass that has ended well.
LEMMA SyncedKnows ==
  ASSUME Typed, Invariant, Knows, ReportsSynced
  PROVE  /\ pc \in {"patchStatus", "patched"} /\ cr'.spec = cr.spec
         /\ object' = object /\ Resolved /\ InPlace
         /\ latest.spec.field["ref"] \in {Unset, desired.spec.field["ref"]}
<1>1. /\ cr.phase = "live" /\ cr'.spec = cr.spec /\ object' = object
      /\ pc \in {"patchStatus", "patched", "patchError"}
      /\ SyncedCondition(IsSynced) = "True"
  BY StatusPatchedType DEF ReportsSynced, PatchStatus
<1>2. ~DeleteRequested(desired)
  BY <1>1 DEF Invariant, Managed, DeleteRequested
<1>3. pc # "patchError"
  BY <1>1, <1>2 DEF SyncedCondition
<1> QED
  BY <1>1, <1>2, <1>3 DEF Knows, Informed

\* Synced becomes True, without a terminal error, only if AWS has all that the user asks for.
THEOREM SyncedIsConfigured == Spec => SyncedMeansConfigured
<1>1. Typed /\ Invariant /\ Knows /\ [Next]_endpointVars
        => [ReportsSynced /\ focus.changeable /\ ~focus.secret => Configured]_endpointVars
  <2> SUFFICES ASSUME Typed, Invariant, Knows, ReportsSynced,
                      focus.changeable, ~focus.secret
               PROVE  Configured
    BY DEF endpointVars
  <2>1. /\ Resolved /\ Has(latest.spec) /\ Has(desired.spec)
        /\ object.tags = desired.spec.tags
        /\ latest.spec.field["ref"] \in {Unset, desired.spec.field["ref"]}
    BY SyncedKnows DEF InPlace, TagsFollow
  <2>2. /\ cr.spec.tags = desired.spec.tags
        /\ \A slot \in Field :
             cr.spec.field[slot] \in {ClearResolvedReferences(desired.spec).field[slot],
                                      ClearResolvedReferences(latest.spec).field[slot]}
    BY DEF ReportsSynced
  <2>3. cr.spec.field["other"] \in {Unset, object.value["other"]}
    BY <2>1, <2>2, Cleared, Slots DEF Typed, Has
  <2>4. cr.spec.field["ref"] \in {Unset, desired.spec.field["ref"]}
    BY <2>1, <2>2, Cleared, Slots DEF Typed
  <2>5. cr.spec.field["own"] \in {Unset, desired.spec.field["own"], latest.spec.field["own"]}
    BY <2>2, Cleared, Slots DEF Typed
  <2>6. Wanted(cr.spec) \in {Unset, object.value["own"]}
    BY <2>1, <2>4, <2>5 DEF Wanted, Resolved, Has
  <2> QED
    BY <2>1, <2>2, <2>3, <2>6 DEF Configured
<1> QED
  BY <1>1, StaysTyped, StaysManaged, KnowsTheEndpoint, PTL DEF Spec, SyncedMeansConfigured

-----------------------------------------------------------------------------
(* What a patch of Spec makes of it *)

\* A pass never patches a Spec so that the next one refuses it.
LEMMA PatchStaysValid ==
  ASSUME Typed, Knows, PatchEndpointSpec, ValidReferenceFields(cr.spec),
         cr.spec.field["ref"] = desired.spec.field["ref"]
  PROVE  ValidReferenceFields(cr'.spec)
<1> DEFINE from == ClearResolvedReferences(desired.spec).field
           to == ClearResolvedReferences(latest.spec).field
<1>1. latest.spec.field["ref"] = AnsweredReference(desired.spec)
  BY DEF Knows, Answered, PatchEndpointSpec, PatchSpec
<1>2. /\ from["ref"] = desired.spec.field["ref"] /\ to["ref"] = latest.spec.field["ref"]
      /\ from["ref"] # Unset => from["own"] = Unset
      /\ to["ref"] # Unset => to["own"] = Unset
  BY Cleared DEF Typed
<1> HIDE DEF from, to
<1>3. CASE cr'.spec.field = cr.spec.field
  BY <1>3 DEF ValidReferenceFields
<1>4. CASE /\ cr'.spec.field["own"] = IF to["own"] # from["own"]
                                     THEN to["own"] ELSE cr.spec.field["own"]
           /\ cr'.spec.field["ref"] = IF to["ref"] # from["ref"]
                                     THEN to["ref"] ELSE cr.spec.field["ref"]
  BY <1>1, <1>2, <1>4 DEF ValidReferenceFields, AnsweredReference
<1> QED
  BY <1>3, <1>4, Patched, Slots DEF from, to

\* An edit that the pass has seen is in the answer.
LEMMA PatchKeepsEdit ==
  ASSUME Typed, Knows, PatchEndpointSpec, focus.changeable, ~focus.secret,
         NEW slot \in {"own", "other"}, cr.spec.field[slot] # Unset,
         cr.spec.field[slot] = desired.spec.field[slot]
  PROVE  cr'.spec.field[slot] = cr.spec.field[slot]
<1>1. Answered
  BY DEF Knows, PatchEndpointSpec, PatchSpec
<1>2. latest.spec.field[slot] = desired.spec.field[slot]
  BY <1>1 DEF Answered
<1>3. ClearResolvedReferences(latest.spec).field[slot]
        \in {latest.spec.field[slot], ClearResolvedReferences(desired.spec).field[slot]}
  BY <1>1, Cleared DEF Typed, Answered, AnsweredReference
<1> QED
  BY <1>2, <1>3, Patched, Slots

\* What a pass patches into Spec after a success is a Spec that the API server takes and the next
\* pass does not refuse, with the user's references and edits in it.
THEOREM PatchKeeps == Spec => PatchKeepsSpec
<1>1. Typed /\ Knows /\ [Next]_endpointVars
        => [/\ PatchEndpointSpec
            /\ ValidReferenceFields(cr.spec)
               /\ cr.spec.field["ref"] = desired.spec.field["ref"]
            => ValidReferenceFields(cr'.spec)]_endpointVars
  BY PatchStaysValid
<1>2. Typed /\ Knows /\ [Next]_endpointVars
        => [PatchEndpointSpec /\ ~focus.nested
            => cr'.spec.field["ref"] = cr.spec.field["ref"]]_endpointVars
  <2> SUFFICES ASSUME Typed, Knows, PatchEndpointSpec, ~focus.nested
               PROVE  cr'.spec.field["ref"] = cr.spec.field["ref"]
    BY DEF endpointVars
  <2>1. latest.spec.field["ref"] = desired.spec.field["ref"]
    BY DEF Knows, Answered, AnsweredReference, PatchEndpointSpec, PatchSpec
  <2> QED
    BY <2>1, Cleared, Patched, Slots DEF Typed
<1>3. Typed /\ Knows /\ [Next]_endpointVars
        => [PatchEndpointSpec /\ focus.immutable /\ cr.spec.field["own"] # Unset
            => cr'.spec.field["own"] = cr.spec.field["own"]]_endpointVars
  BY PatchKeepsRequired DEF Knows, PatchEndpointSpec, PatchSpec
<1>4. Typed /\ Knows /\ [Next]_endpointVars
        => [PatchEndpointSpec /\ focus.changeable /\ ~focus.secret
            => \A slot \in {"own", "other"} :
                 cr.spec.field[slot] \notin {Unset, TooLarge}
                 /\ cr.spec.field[slot] = desired.spec.field[slot]
                 => cr'.spec.field[slot] = cr.spec.field[slot]]_endpointVars
  BY PatchKeepsEdit
<1> QED
  BY <1>1, <1>2, <1>3, <1>4, StaysTyped, KnowsTheEndpoint, PTL
     DEF Spec, PatchKeepsSpec, StaysValid, KeepsTopLevelReference, KeepsImmutable, KeepsEdits

-----------------------------------------------------------------------------
(* Every pass comes to its end *)

\* The user and AWS leave the pass where it is.
LEMMA OthersLeavePass == User \/ EndpointIsDeleted => pc' = pc
BY DEF User, UserCreates, UserSets, UserSetsTags, UserDeletes, UserEdits, EndpointIsDeleted

\* Whatever the pass does next, fails in or dies in, it does not come back to.
LEMMA ControllerAdvances == pc \in Stage /\ pc # "idle" /\ Controller => Forward
<1> SUFFICES ASSUME pc \in Stage, pc # "idle", Controller PROVE Forward
  OBVIOUS
<1>1. CASE ReadEndpoint
  <2>1. PICK have : \E wanted : ReadFound(wanted, have, IF DeleteRequested(desired)
                      THEN DeleteStep(have) ELSE UpdateStep(desired, have))
    BY <1>1 DEF ReadEndpoint
  <2>2. /\ UpdateStep(desired, have) \in Stage \ {"read"}
        /\ DeleteStep(have) \in Stage \ {"read"}
    BY DEF UpdateStep, FirstOfTags, AfterTags, DeleteStep, Stage, Call
  <2> QED
    BY <2>1, <2>2, ReadingAdvances
<1>2. CASE SdkCreate \/ ModifyEndpoint \/ DeleteEndpoint
  BY <1>2, ChangesAdvance DEF SdkCreate, ModifyEndpoint, DeleteEndpoint
<1>3. CASE RemoveEndpointTags \/ AddEndpointTags
  <2>1. AfterTags(desired, latest) \in AfterTheTags
    BY DEF AfterTags, AfterTheTags
  <2> QED
    BY <1>3, <2>1, TagsAdvance DEF RemoveEndpointTags, AddEndpointTags
<1>4. CASE ReadNotFound \/ ReadCreatedEndpoint \/ MarkManaged
  BY <1>4, ReadingAdvances, ManagingAdvances DEF ReadCreatedEndpoint
<1>5. CASE PatchEndpointSpec \/ RemoveFinalizer \/ PatchStatus(IsSynced)
  BY <1>5, PatchesAdvance DEF PatchEndpointSpec
<1>6. CASE CallFails \/ Crash
  BY <1>6, FailuresAdvance DEF CallFails
<1> QED
  BY <1>1, <1>2, <1>3, <1>4, <1>5, <1>6 DEF Controller, ReconcileEndpoint, Begins

\* A pass over an endpoint never goes back and is over after six steps, whatever fails: the half of
\* DeletionCompletes and of ComesToRest that needs no fairness.
THEOREM PassesEnd == Spec => PassesAdvance
<1>1. TypeOK /\ [Next]_endpointVars => [Advances(Controller)]_endpointVars
  BY OthersLeavePass, ControllerAdvances DEF TypeOK, Next, Advances, Forward, endpointVars, vars
<1> QED
  BY <1>1, TypeCorrect, PTL DEF Spec, PassesAdvance
=============================================================================
