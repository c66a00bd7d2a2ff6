-------------------------------- MODULE Tags --------------------------------
(***************************************************************************)
(* The tags of one resource during its passes.  The user writes a list of  *)
(* tags; the controller adds those it puts on every resource; AWS adds its *)
(* own, which nobody else may touch.  The lists are merged, compared,      *)
(* subtracted and filtered by tags.go and manager.go, the same in every    *)
(* package of pkg/resource, and by pkg/util/tags.go.  The other modules    *)
(* take tags as a set; this one is about the lists.                        *)
(***************************************************************************)
EXTENDS Naturals, Sequences, FiniteSets, Functions, SequencesExt

CONSTANTS
  UserKey,      \* the keys that the user writes
  AWSKey,       \* the keys that begin with "aws:"
  SystemKey,    \* the keys of the controller's own tags (flag --resource-tags)
  SystemText,   \* their value
  Text,         \* the values but for the empty one
  Empty, Nil,   \* the empty value, and none at all
  MaxLength,    \* bound: the length of the user's list
  MaxEdits      \* bound: how often the user edits it

ASSUME TagsAssumption ==
  /\ (UserKey \union SystemKey) \intersect AWSKey = {}
  /\ IsFiniteSet(SystemKey)
  /\ SystemText \in Text /\ {Empty, Nil} \intersect Text = {} /\ Empty # Nil
  /\ MaxLength \in Nat /\ MaxEdits \in Nat

VARIABLES
  spec,     \* the list in Spec
  stored,   \* the tags that AWS has, a function of keys
  pc,       \* the next call of the pass
  desired,  \* the pass's copy of the list
  latest,   \* the list that AWS has answered
  edits     \* how many edits the user has made

vars == <<spec, stored, pc, desired, latest, edits>>

DefaultTags == [k \in SystemKey |-> SystemText]

Key == UserKey \union AWSKey \union SystemKey
Value == Text \union {Empty}

Tag(keys) == [key : keys, value : Value \union {Nil}]
UserList == SeqOf(Tag(UserKey), MaxLength)
Tags == UNION {[K -> Value] : K \in SUBSET Key}

Keys(list) == {list[i].key : i \in DOMAIN list}

TypeOK ==
  /\ spec \in Seq(Tag(Key)) /\ stored \in Tags
  /\ pc \in {"idle", "read", "sync", "add", "patchSpec"}
  /\ desired \in Seq(Tag(Key)) /\ latest \in Seq(Tag(Key))
  /\ edits \in 0 .. MaxEdits

Init ==
  /\ spec = <<>> /\ stored = <<>>
  /\ pc = "idle" /\ desired = <<>> /\ latest = <<>>
  /\ edits = 0

-----------------------------------------------------------------------------
(* Lists and maps of tags *)

\* Of several tags with one key the last one counts; a value that is nil counts as empty.
convertToOrderedACKTags(list) ==
  [k \in Keys(list) |->
     LET i == CHOOSE j \in DOMAIN list :
                list[j].key = k /\ \A h \in DOMAIN list : h > j => list[h].key # k
     IN IF list[i].value = Nil THEN Empty ELSE list[i].value]

\* Where a key comes first.
FirstIndex(list, k) ==
  CHOOSE i \in DOMAIN list : list[i].key = k /\ \A h \in DOMAIN list : h < i => list[h].key # k

\* The keys in their order, each where it comes first; others follow in any order.
KeyOrder(list, keys) ==
  LET Before(k, l) ==
        /\ k \in Keys(list)
        /\ l \in Keys(list) => FirstIndex(list, k) < FirstIndex(list, l)
  IN CHOOSE order \in SetToSeqs(keys) :
       \A i, j \in DOMAIN order : Before(order[i], order[j]) => i < j

fromACKTags(tags, list) ==
  LET order == KeyOrder(list, DOMAIN tags)
  IN [i \in DOMAIN order |-> [key |-> order[i], value |-> tags[order[i]]]]

\* acktags.Merge: a's tags, and those of b whose keys a does not have.
Merge(a, b) == [k \in DOMAIN a \union DOMAIN b |-> IF k \in DOMAIN a THEN a[k] ELSE b[k]]

EnsureTags(list) == fromACKTags(Merge(convertToOrderedACKTags(list), DefaultTags), list)

\* Mutant: AWS's tags are not mirrored.
mirrorAWSTags_Not(list, observed) == list

\* AWS's tags are taken over from the list observed.
mirrorAWSTags(list, observed) ==
  LET have == convertToOrderedACKTags(observed)
  IN fromACKTags(Merge(Restrict(have, AWSKey \intersect DOMAIN have),
                       convertToOrderedACKTags(list)), list)

\* What may be patched into Spec.
FilterSystemTags(list) ==
  LET tags == convertToOrderedACKTags(list)
  IN fromACKTags(Restrict(tags, DOMAIN tags \ (AWSKey \union SystemKey)), list)

\* newResourceDelta compares the maps.
Different(a, b) == convertToOrderedACKTags(a) # convertToOrderedACKTags(b)

-----------------------------------------------------------------------------
(* Subtracting lists: pkg/util/tags.go *)

\* Mutant: a value that is nil differs from an empty one.
equalStrings_Exact(x, y) == x = y

equalStrings(x, y) == x = y \/ {x, y} = {Empty, Nil}

\* It reads through y although y is nil.
Panics(x, y) == x \notin {Nil, Empty} /\ y = Nil

\* Mutant: the values are not looked at.
addedOrUpdated_AddedOnly(a, b) == {t \in Range(a) : t.key \notin Keys(b)}

\* The first tag of a list with a key.
First(list, k) == list[FirstIndex(list, k)]

addedOrUpdated(a, b) ==
  {First(a, t.key) : t \in {u \in Range(b) :
     u.key \in Keys(a) /\ ~equalStrings(u.value, First(a, u.key).value)}}
  \union {t \in Range(a) : t.key \notin Keys(b)}

removed(a, b) == Keys(b) \ Keys(a)

-----------------------------------------------------------------------------
(* The user and AWS *)

UserEdits ==
  /\ edits < MaxEdits /\ edits' = edits + 1
  /\ spec' \in UserList
  /\ UNCHANGED <<stored, pc, desired, latest>>

\* AWS puts a tag of its own on the object, or takes it off.
AWSTags ==
  /\ \E k \in AWSKey : \E v \in Text :
       stored' \in {Merge([x \in {k} |-> v], stored), Restrict(stored, DOMAIN stored \ {k})}
  /\ UNCHANGED <<spec, pc, desired, latest, edits>>

-----------------------------------------------------------------------------
(* The pass *)

Reconcile ==
  /\ pc = "idle" /\ pc' = "read"
  /\ desired' = EnsureTags(spec)
  /\ UNCHANGED <<spec, stored, latest, edits>>

\* An empty value may be answered as none.
Answers(tags) ==
  LET order == SetToSeq(DOMAIN tags) IN
    {[i \in DOMAIN order |-> [key |-> order[i],
        value |-> IF tags[order[i]] = Empty THEN none ELSE tags[order[i]]]] : none \in {Empty, Nil}}

\* ReadOne changes the copy that it is given.
ReadOne ==
  /\ pc = "read"
  /\ latest' \in Answers(stored)
  /\ desired' = mirrorAWSTags(desired, latest')
  /\ pc' = IF Different(desired', latest') THEN "sync" ELSE "patchSpec"
  /\ UNCHANGED <<spec, stored, edits>>

\* syncTags: the first call, if there is something to remove.
RemoveTags ==
  /\ pc = "sync" /\ pc' = "add"
  /\ stored' = Restrict(stored, DOMAIN stored \ removed(desired, latest))
  /\ UNCHANGED <<spec, desired, latest, edits>>

\* The second call, if there is something to add.
AddTags ==
  /\ pc = "add" /\ pc' = "patchSpec"
  /\ stored' = Merge(convertToOrderedACKTags(SetToSeq(addedOrUpdated(desired, latest))), stored)
  /\ UNCHANGED <<spec, desired, latest, edits>>

\* The resource manager returns the desired copy, or, when it has stopped a replication task,
\* the one it has read; the difference is patched into Spec.
PatchSpec ==
  /\ pc = "patchSpec" /\ pc' = "idle"
  /\ \E returned \in {desired, latest} :
       spec' = IF Different(FilterSystemTags(desired), FilterSystemTags(returned))
               THEN FilterSystemTags(returned) ELSE spec
  /\ desired' = <<>> /\ latest' = <<>>
  /\ UNCHANGED <<stored, edits>>

\* A call fails, or the controller dies.
PassFails ==
  /\ pc # "idle" /\ pc' = "idle"
  /\ desired' = <<>> /\ latest' = <<>>
  /\ UNCHANGED <<spec, stored, edits>>

Next ==
  \/ UserEdits \/ AWSTags
  \/ Reconcile \/ ReadOne \/ RemoveTags \/ AddTags \/ PatchSpec \/ PassFails

Spec == Init /\ [][Next]_vars

-----------------------------------------------------------------------------
(* Safety *)

\* The calls that change tags never name one of AWS's, which would make every pass fail.
TouchesNoAWSTag ==
  pc \in {"sync", "add"} =>
    /\ removed(desired, latest) \intersect AWSKey = {}
    /\ \A t \in addedOrUpdated(desired, latest) : t.key \notin AWSKey

\* equalStrings never reads through nil: EnsureTags and mirrorAWSTags have given every tag of
\* the desired list a value.
NeverPanics ==
  pc \in {"sync", "add"} =>
    \A t \in Range(latest) : t.key \in Keys(desired) => ~Panics(t.value, First(desired, t.key).value)

\* The two ways of comparing agree: where delta.go sees a difference, and nowhere else,
\* ComputeTagsDelta finds something to add or to remove, and it gets to its end.
ComparisonsAgree ==
  /\ NeverPanics
  /\ pc \in {"sync", "patchSpec"} =>
       (Different(desired, latest)
          <=> removed(desired, latest) # {} \/ addedOrUpdated(desired, latest) # {})

\* When the tags have been changed AWS has those that the pass works on, the last one of each key,
\* and the controller's own, whatever AWS has added since they were read; and only AWS's beside
\* them.
SyncApplies ==
  [][AddTags =>
       LET wanted == Merge(convertToOrderedACKTags(desired), DefaultTags) IN
         \A k \in Key \ AWSKey :
           /\ k \in DOMAIN stored' <=> k \in DOMAIN wanted
           /\ k \in DOMAIN wanted => stored'[k] = wanted[k]]_vars

\* The tags of AWS, of the controller and of the user stay apart: the calls that a pass comes to
\* do not touch AWS's, and none but the user's are written into Spec.
TagsStayApart ==
  [][/\ TouchesNoAWSTag'
     /\ PatchSpec => Keys(spec') \ Keys(spec) \subseteq UserKey \ SystemKey]_vars
=============================================================================
