------------------------------ MODULE ListsProofs ------------------------------
(***************************************************************************)
(* The lists that are compared by hand, the tags of a resource and the log *)
(* destinations of an endpoint: for lists of any length, with any keys,    *)
(* values and numbers.                                                     *)
(***************************************************************************)
EXTENDS Tags, FiniteSetTheorems, TLAPS

CONSTANT Number  \* the numbers of log destinations that occur

VARIABLES
  ids,       \* ExtraArchivedLogDestIDs in Spec
  storedIds  \* those that AWS has

Hooks == INSTANCE EndpointHooks WITH desired <- ids, stored <- storedIds

-----------------------------------------------------------------------------

(* Finite sets in order *)

\* Some number of a finite set is not below any other.
LEMMA Greatest ==
  ASSUME NEW S \in SUBSET Nat, S # {}, IsFiniteSet(S)
  PROVE  \E n \in S : \A m \in S : m <= n
<1> DEFINE Above == [n \in S |-> {m \in S : m >= n}]
           T == {Above[n] : n \in S}
<1>1. \A n \in S : Above[n] \in SUBSET S /\ Above[n] \in T
  OBVIOUS
<1>2. T \subseteq FiniteSubsetsOf(S) /\ T # {}
  <2>1. FiniteSubsetsOf(S) = SUBSET S
    BY FS_FiniteSubsetsOfFinite
  <2>2. \A t \in T : \E n \in S : t = Above[n]
    OBVIOUS
  <2> HIDE DEF T, Above
  <2>3. T # {}
    BY <1>1
  <2>4. T \subseteq SUBSET S
    BY <1>1, <2>2
  <2> QED
    BY <2>1, <2>3, <2>4
<1>3. PICK x \in T : \A y \in T : <<y, x>> \notin StrictSubsetOrdering(S)
  <2> HIDE DEF T
  <2> QED
    BY <1>2, WFMin, FS_StrictSubsetOrderingWellFounded
<1>4. PICK n \in S : x = Above[n]
  OBVIOUS
<1>5. ASSUME NEW m \in S, m > n PROVE FALSE
  <2>1. n \in Int /\ m \in Int /\ S \subseteq Int
    OBVIOUS
  <2>2. n \in Above[n]
    BY <2>1
  <2>3. n \notin Above[m]
    BY <1>5, <2>1
  <2>4. \A k \in Above[m] : k \in S /\ k \in Int /\ k >= m
    BY <2>1
  <2>5. \A k \in Above[m] : k >= n
    BY <1>5, <2>1, <2>4
  <2>6. Above[m] \subseteq Above[n]
    BY <2>4, <2>5
  <2> HIDE DEF Above
  <2>7. <<Above[m], x>> \in StrictSubsetOrdering(S)
    BY <1>1, <1>4, <2>2, <2>3, <2>6 DEF StrictSubsetOrdering
  <2> QED
    BY <1>1, <1>3, <2>7
<1> QED
  BY <1>5

\* Some number of a set up to a bound is not above any other.
LEMMA Least ==
  ASSUME NEW b \in Nat, NEW S \in SUBSET (0 .. b), S # {}
  PROVE  \E n \in S : \A m \in S : n <= m
<1> DEFINE T == {k \in 0 .. b : b - k \in S}
<1>1. T \in SUBSET (0 .. b) /\ T \in SUBSET Nat
  OBVIOUS
<1>2. \A m \in S : m \in 0 .. b /\ b - m \in T
  <2> SUFFICES ASSUME NEW m \in S PROVE m \in 0 .. b /\ b - m \in T
    OBVIOUS
  <2>1. m \in 0 .. b
    OBVIOUS
  <2>2. b - m \in 0 .. b /\ b - (b - m) = m
    BY <2>1
  <2> QED
    BY <2>1, <2>2
<1>3. T # {}
  <2> HIDE DEF T
  <2> QED
    BY <1>2
<1>4. IsFiniteSet(T)
  <2> HIDE DEF T
  <2>1. IsFiniteSet(0 .. b)
    BY FS_Interval
  <2> QED
    BY <1>1, <2>1, FS_Subset
<1>5. PICK t \in T : \A u \in T : u <= t
  <2> HIDE DEF T
  <2> QED
    BY <1>1, <1>3, <1>4, Greatest
<1>6. t \in 0 .. b /\ b - t \in S
  OBVIOUS
<1>7. ASSUME NEW m \in S PROVE b - t <= m
  <2> HIDE DEF T
  <2>1. b - m <= t /\ m \in 0 .. b
    BY <1>2, <1>5
  <2> QED
    BY <1>6, <2>1
<1> QED
  BY <1>6, <1>7

\* A sequence that lists a set as often as it has elements without repeating one lists them all.
LEMMA ListsAll ==
  ASSUME NEW S, IsFiniteSet(S), NEW f \in [1 .. Cardinality(S) -> S], IsInjective(f)
  PROVE  \A s \in S : \E i \in 1 .. Cardinality(S) : f[i] = s
<1>1. Cardinality(S) \in Nat
  BY FS_CardinalityType
<1>2. Cardinality(1 .. Cardinality(S)) = Cardinality(S)
  BY <1>1, FS_Interval
<1>3. f \in Injection(1 .. Cardinality(S), S)
  BY DEF Injection
<1>4. f \in Surjection(1 .. Cardinality(S), S)
  BY <1>2, <1>3, FS_Injection
<1> QED
  BY <1>4 DEF Surjection

\* A finite set as a sequence.
LEMMA ListsSet ==
  ASSUME NEW S, IsFiniteSet(S)
  PROVE  /\ SetToSeq(S) \in [1 .. Cardinality(S) -> S] /\ Cardinality(S) \in Nat
         /\ IsInjective(SetToSeq(S))
         /\ \A s \in S : \E i \in 1 .. Cardinality(S) : SetToSeq(S)[i] = s
<1> DEFINE list == SetToSeq(S)
<1>1. \E f \in [1 .. Cardinality(S) -> S] : IsInjective(f)
  BY FS_CardinalityType DEF ExistsBijection, Bijection, Injection
<1>2. list \in [1 .. Cardinality(S) -> S] /\ IsInjective(list)
  BY <1>1 DEF SetToSeq
<1> HIDE DEF list
<1> QED
  BY <1>2, ListsAll, FS_CardinalityType DEF list

\* Elements that have positions can be listed in the order of these.
LEMMA Sorted ==
  ASSUME NEW S, IsFiniteSet(S), NEW pos \in [S -> Nat]
  PROVE  \E f \in [1 .. Cardinality(S) -> S] :
           /\ IsInjective(f)
           /\ \A i, j \in 1 .. Cardinality(S) : pos[f[i]] < pos[f[j]] => i < j
<1> DEFINE n == Cardinality(S)
           I == 1 .. n
<1>1. n \in Nat /\ IsFiniteSet(I) /\ Cardinality(I) = n
  BY FS_CardinalityType, FS_Interval
<1>2. PICK g \in [I -> S] : IsInjective(g)
  BY FS_CardinalityType DEF ExistsBijection, Bijection, Injection
<1> HIDE DEF n
<1> DEFINE UpTo(i) == {j \in I : pos[g[j]] < pos[g[i]] \/ (pos[g[j]] = pos[g[i]] /\ j <= i)}
           rank == [i \in I |-> Cardinality(UpTo(i))]
<1>3. \A i \in I : UpTo(i) \in SUBSET I /\ i \in UpTo(i)
  BY <1>1
<1>4. \A i \in I : IsFiniteSet(UpTo(i)) /\ Cardinality(UpTo(i)) \in 1 .. n
  <2> SUFFICES ASSUME NEW i \in I
               PROVE  IsFiniteSet(UpTo(i)) /\ Cardinality(UpTo(i)) \in 1 .. n
    OBVIOUS
  <2> HIDE DEF UpTo, I
  <2>1. IsFiniteSet(UpTo(i)) /\ Cardinality(UpTo(i)) <= n
    BY <1>1, <1>3, FS_Subset
  <2>2. Cardinality(UpTo(i)) \in Nat /\ Cardinality(UpTo(i)) # 0
    BY <1>3, <2>1, FS_CardinalityType, FS_EmptySet
  <2> QED
    BY <1>1, <2>1, <2>2
<1>5. ASSUME NEW i \in I, NEW j \in I, i # j, i \in UpTo(j)
      PROVE  Cardinality(UpTo(i)) < Cardinality(UpTo(j))
  <2>1. \A k \in I : g[k] \in S /\ pos[g[k]] \in Nat
    BY <1>2
  <2>2. j \notin UpTo(i)
    BY <1>1, <1>5, <2>1
  <2>3. UpTo(i) \subseteq UpTo(j)
    BY <1>1, <1>5, <2>1
  <2>4. j \in UpTo(j) /\ UpTo(i) # UpTo(j)
    BY <1>3, <2>2
  <2> HIDE DEF UpTo
  <2>5. /\ Cardinality(UpTo(i)) <= Cardinality(UpTo(j))
        /\ Cardinality(UpTo(i)) # Cardinality(UpTo(j))
    BY <1>4, <2>3, <2>4, FS_Subset
  <2> QED
    BY <1>4, <2>5
<1>6. \A i, j \in I : i \in UpTo(j) \/ j \in UpTo(i)
  BY <1>1, <1>2
<1> HIDE DEF UpTo
<1>7. rank \in [I -> I] /\ IsInjective(rank)
  <2>1. rank \in [I -> I]
    BY <1>4
  <2>2. ASSUME NEW i \in I, NEW j \in I, rank[i] = rank[j], i # j PROVE FALSE
    BY <1>4, <1>5, <1>6, <2>2
  <2> QED
    BY <2>1, <2>2 DEF IsInjective
<1>8. \A k \in I : \E i \in I : rank[i] = k
  <2>1. I = 1 .. Cardinality(I)
    BY <1>1
  <2> HIDE DEF rank, I
  <2>2. rank \in [1 .. Cardinality(I) -> I]
    BY <1>7, <2>1
  <2>3. \A k \in I : \E i \in 1 .. Cardinality(I) : rank[i] = k
    BY <1>1, <1>7, <2>2, ListsAll
  <2> QED
    BY <2>1, <2>3
<1> DEFINE at == [k \in I |-> CHOOSE i \in I : rank[i] = k]
           f == [k \in I |-> g[at[k]]]
<1>9. \A k \in I : at[k] \in I /\ rank[at[k]] = k
  <2> HIDE DEF rank
  <2> QED
    BY <1>8
<1>10. f \in [I -> S] /\ IsInjective(f)
  <2> HIDE DEF rank, at
  <2> QED
    BY <1>2, <1>9 DEF IsInjective
<1>11. ASSUME NEW i \in I, NEW j \in I, pos[f[i]] < pos[f[j]] PROVE i < j
  <2>1. at[i] \in UpTo(at[j]) /\ at[i] # at[j]
    <3> HIDE DEF at
    <3>1. at[i] \in I /\ at[j] \in I /\ f[i] = g[at[i]] /\ f[j] = g[at[j]]
      BY <1>9
    <3>2. pos[g[at[i]]] < pos[g[at[j]]] /\ pos[g[at[i]]] \in Nat
      BY <1>2, <1>11, <3>1
    <3> HIDE DEF f
    <3> QED
      BY <3>1, <3>2 DEF UpTo
  <2>2. rank[at[i]] < rank[at[j]]
    <3> HIDE DEF at
    <3> QED
      BY <1>5, <1>9, <2>1
  <2> QED
    BY <1>9, <2>2
<1> HIDE DEF f
<1> QED
  BY <1>10, <1>11 DEF n

-----------------------------------------------------------------------------
(* Lists of tags and the maps that they stand for *)

\* The value that a tag's value counts as.
Counted(v) == IF v = Nil THEN Empty ELSE v

List == Seq(Tag(Key))

\* No key is repeated, and every tag has a value.
Unique(list) == \A i, j \in DOMAIN list : list[i].key = list[j].key => i = j
Filled(list) == \A i \in DOMAIN list : list[i].value # Nil

\* Finitely many keys with values.
IsMap(tags) ==
  tags \in [DOMAIN tags -> Value] /\ DOMAIN tags \subseteq Key /\ IsFiniteSet(DOMAIN tags)

\* A list of tags, element by element.
LEMMA Elements ==
  ASSUME NEW list \in List
  PROVE  /\ Len(list) \in Nat /\ DOMAIN list = 1 .. Len(list)
         /\ \A i \in DOMAIN list : /\ list[i] \in Tag(Key) /\ list[i].key \in Key
                                   /\ list[i].value \in Value \union {Nil}
         /\ Keys(list) \subseteq Key
<1>1. list \in [1 .. Len(list) -> Tag(Key)] /\ Len(list) \in Nat
  BY DEF List
<1>2. \A t \in Tag(Key) : t.key \in Key /\ t.value \in Value \union {Nil}
  BY DEF Tag
<1>3. DOMAIN list = 1 .. Len(list) /\ \A i \in DOMAIN list : list[i] \in Tag(Key)
  BY <1>1
<1> QED
  BY <1>1, <1>2, <1>3 DEF Keys

\* The keys of a list are finitely many.
LEMMA FinitelyManyKeys ==
  ASSUME NEW list \in List
  PROVE  IsFiniteSet(Keys(list))
<1> DEFINE f == [i \in DOMAIN list |-> list[i].key]
<1>1. f \in Surjection(DOMAIN list, Keys(list))
  BY DEF Surjection, Keys
<1>2. IsFiniteSet(DOMAIN list)
  BY Elements, FS_Interval
<1> QED
  BY <1>1, <1>2, FS_Surjection

\* A key that occurs in a list occurs somewhere first and somewhere last.
LEMMA Occurs ==
  ASSUME NEW list \in List, NEW k \in Keys(list)
  PROVE  /\ \E i \in DOMAIN list : /\ list[i].key = k
                                   /\ \A h \in DOMAIN list : h < i => list[h].key # k
         /\ \E i \in DOMAIN list : /\ list[i].key = k
                                   /\ \A h \in DOMAIN list : h > i => list[h].key # k
<1> DEFINE S == {i \in DOMAIN list : list[i].key = k}
<1>1. Len(list) \in Nat /\ DOMAIN list = 1 .. Len(list)
  BY Elements
<1>2. S \in SUBSET (0 .. Len(list)) /\ S \in SUBSET Nat /\ S # {}
  BY <1>1 DEF Keys
<1>3. IsFiniteSet(S)
  <2> HIDE DEF S
  <2>1. IsFiniteSet(0 .. Len(list))
    BY <1>1, FS_Interval
  <2> QED
    BY <1>2, <2>1, FS_Subset
<1>4. PICK first \in S : \A m \in S : first <= m
  <2> HIDE DEF S
  <2> QED
    BY <1>1, <1>2, Least
<1>5. PICK last \in S : \A m \in S : m <= last
  <2> HIDE DEF S
  <2> QED
    BY <1>2, <1>3, Greatest
<1>6. \A h \in DOMAIN list : h < first => list[h].key # k
  BY <1>1, <1>4
<1>7. \A h \in DOMAIN list : h > last => list[h].key # k
  BY <1>1, <1>5
<1> QED
  BY <1>6, <1>7

\* A list stands for a map of its keys to values that occur with them.
LEMMA Converts ==
  ASSUME NEW list \in List
  PROVE  /\ IsMap(convertToOrderedACKTags(list))
         /\ DOMAIN convertToOrderedACKTags(list) = Keys(list)
         /\ \A k \in Keys(list) : \E i \in DOMAIN list :
              list[i].key = k /\ convertToOrderedACKTags(list)[k] = Counted(list[i].value)
<1> DEFINE tags == convertToOrderedACKTags(list)
<1>1. DOMAIN tags = Keys(list)
  BY DEF convertToOrderedACKTags
<1>2. ASSUME NEW k \in Keys(list)
      PROVE  \E i \in DOMAIN list : list[i].key = k /\ tags[k] = Counted(list[i].value)
  <2> DEFINE last == CHOOSE j \in DOMAIN list :
                       list[j].key = k /\ \A h \in DOMAIN list : h > j => list[h].key # k
  <2>1. last \in DOMAIN list /\ list[last].key = k
    BY Occurs
  <2>2. tags[k] = Counted(list[last].value)
    BY DEF convertToOrderedACKTags, Counted
  <2> HIDE DEF last
  <2> QED
    BY <2>1, <2>2
<1>3. \A v \in Value \union {Nil} : Counted(v) \in Value
  BY DEF Counted, Value
<1>4. tags \in [DOMAIN tags -> Value]
  <2>1. \A k \in Keys(list) : tags[k] \in Value
    <3> HIDE DEF tags
    <3> QED
      BY <1>2, <1>3, Elements
  <2> QED
    BY <1>1, <2>1 DEF convertToOrderedACKTags
<1> HIDE DEF tags
<1> QED
  BY <1>1, <1>2, <1>4, Elements, FinitelyManyKeys DEF IsMap, tags

\* Without repeated keys each tag counts.
LEMMA ConvertsEach ==
  ASSUME NEW list \in List, Unique(list), NEW i \in DOMAIN list
  PROVE  /\ list[i].key \in Keys(list)
         /\ convertToOrderedACKTags(list)[list[i].key] = Counted(list[i].value)
<1>1. list[i].key \in Keys(list)
  BY DEF Keys
<1>2. PICK j \in DOMAIN list :
        /\ list[j].key = list[i].key
        /\ convertToOrderedACKTags(list)[list[i].key] = Counted(list[j].value)
  BY <1>1, Converts
<1>3. i = j
  BY <1>2 DEF Unique
<1> QED
  BY <1>1, <1>2, <1>3

\* The keys are put in an order in which each comes once.
LEMMA Orders ==
  ASSUME NEW list \in List, NEW keys, IsFiniteSet(keys)
  PROVE  /\ KeyOrder(list, keys) \in [1 .. Cardinality(keys) -> keys]
         /\ IsInjective(KeyOrder(list, keys))
         /\ \A k \in keys : \E i \in 1 .. Cardinality(keys) : KeyOrder(list, keys)[i] = k
<1> DEFINE Before(k, l) ==
             /\ k \in Keys(list)
             /\ l \in Keys(list) => FirstIndex(list, k) < FirstIndex(list, l)
           Fits(order) == \A i, j \in DOMAIN order : Before(order[i], order[j]) => i < j
           pos == [k \in keys |-> IF k \in Keys(list) THEN FirstIndex(list, k) ELSE Len(list) + 1]
<1>1. \A k \in Keys(list) : FirstIndex(list, k) \in 1 .. Len(list)
  BY Occurs, Elements DEF FirstIndex
<1>2. pos \in [keys -> Nat] /\ \A k, l \in keys : Before(k, l) => pos[k] < pos[l]
  <2>1. Len(list) \in Nat
    BY Elements
  <2>2. \A k \in keys : pos[k] \in Nat
    BY <1>1, <2>1
  <2>3. ASSUME NEW k \in keys, NEW l \in keys, Before(k, l) PROVE pos[k] < pos[l]
    <3>1. pos[k] = FirstIndex(list, k) /\ FirstIndex(list, k) \in 1 .. Len(list)
      BY <1>1, <2>3
    <3>2. CASE l \in Keys(list)
      BY <2>3, <3>1, <3>2
    <3>3. CASE l \notin Keys(list)
      BY <2>1, <3>1, <3>3
    <3> QED
      BY <3>2, <3>3
  <2> QED
    BY <2>2, <2>3
<1>3. PICK f \in [1 .. Cardinality(keys) -> keys] :
        /\ IsInjective(f)
        /\ \A i, j \in 1 .. Cardinality(keys) : pos[f[i]] < pos[f[j]] => i < j
  <2> HIDE DEF pos
  <2> QED
    BY <1>2, Sorted
<1>4. f \in SetToSeqs(keys) /\ Fits(f)
  <2>1. f \in SetToSeqs(keys)
    BY <1>3 DEF SetToSeqs, IsInjective
  <2>2. DOMAIN f = 1 .. Cardinality(keys)
    OBVIOUS
  <2> HIDE DEF Before, pos
  <2>3. Fits(f)
    BY <1>2, <1>3, <2>2
  <2> QED
    BY <2>1, <2>3
<1> DEFINE order == KeyOrder(list, keys)
<1>5. order \in SetToSeqs(keys)
  <2>1. order = CHOOSE o \in SetToSeqs(keys) : Fits(o)
    BY DEF KeyOrder
  <2> HIDE DEF order, Fits
  <2> QED
    BY <1>4, <2>1
<1> HIDE DEF order
<1>6. order \in [1 .. Cardinality(keys) -> keys] /\ IsInjective(order)
  BY <1>5 DEF SetToSeqs, IsInjective
<1> QED
  BY <1>6, ListsAll DEF order

\* A list of tags that can be given to AWS: no key is repeated and every tag has a value.
Clean(list) == list \in List /\ Unique(list) /\ Filled(list)

\* A map is listed, in whatever order, so that nothing is lost.
LEMMA Listed ==
  ASSUME NEW tags, IsMap(tags), NEW list \in List
  PROVE  /\ Clean(fromACKTags(tags, list))
         /\ Keys(fromACKTags(tags, list)) = DOMAIN tags
         /\ convertToOrderedACKTags(fromACKTags(tags, list)) = tags
<1> DEFINE keys == DOMAIN tags
           n == Cardinality(keys)
           order == KeyOrder(list, keys)
           l == fromACKTags(tags, list)
<1>1. n \in Nat /\ keys \subseteq Key /\ IsFiniteSet(keys)
  BY FS_CardinalityType DEF IsMap
<1>2. /\ order \in [1 .. n -> keys] /\ IsInjective(order)
      /\ \A k \in keys : \E i \in 1 .. n : order[i] = k
  BY <1>1, Orders
<1>3. l = [i \in 1 .. n |-> [key |-> order[i], value |-> tags[order[i]]]]
  BY <1>2 DEF fromACKTags
<1>4. \A k \in keys : tags[k] \in Value
  BY DEF IsMap
<1> HIDE DEF n, order, l
<1>5. DOMAIN l = 1 .. n
  BY <1>3
<1>6. \A i \in 1 .. n : /\ l[i] = [key |-> order[i], value |-> tags[order[i]]]
                        /\ l[i].key = order[i] /\ l[i].value = tags[order[i]]
                        /\ order[i] \in keys
  BY <1>2, <1>3
<1>7. l \in List
  <2>1. \A i \in 1 .. n : l[i] \in Tag(Key)
    <3> SUFFICES ASSUME NEW i \in 1 .. n PROVE l[i] \in Tag(Key)
      OBVIOUS
    <3>1. order[i] \in Key /\ tags[order[i]] \in Value \union {Nil}
      BY <1>1, <1>4, <1>6
    <3>2. [key |-> order[i], value |-> tags[order[i]]] \in Tag(Key)
      BY <3>1 DEF Tag
    <3>3. l[i] = [key |-> order[i], value |-> tags[order[i]]]
      BY <1>6
    <3> QED
      BY <3>2, <3>3
  <2>2. l \in [1 .. n -> Tag(Key)]
    BY <1>3, <2>1
  <2> QED
    BY <1>1, <2>2 DEF List
<1>8. Unique(l)
  BY <1>2, <1>5, <1>6 DEF Unique, IsInjective
<1>9. Filled(l)
  BY <1>4, <1>5, <1>6, TagsAssumption DEF Filled, Value
<1>10. Keys(l) = keys
  <2>1. \A i \in DOMAIN l : l[i].key \in keys
    BY <1>5, <1>6
  <2>2. \A k \in keys : \E i \in DOMAIN l : l[i].key = k
    BY <1>2, <1>5, <1>6
  <2> QED
    BY <2>1, <2>2 DEF Keys
<1>11. convertToOrderedACKTags(l) = tags
  <2>1. /\ convertToOrderedACKTags(l) \in [keys -> Value]
        /\ tags \in [keys -> Value]
    BY <1>7, <1>10, Converts DEF IsMap
  <2>2. ASSUME NEW k \in keys PROVE convertToOrderedACKTags(l)[k] = tags[k]
    <3>1. PICK i \in 1 .. n : order[i] = k
      BY <1>2
    <3>2. convertToOrderedACKTags(l)[l[i].key] = Counted(l[i].value)
      BY <1>5, <1>7, <1>8, ConvertsEach
    <3> QED
      BY <1>4, <1>6, <3>1, <3>2, TagsAssumption DEF Counted, Value
  <2> QED
    BY <2>1, <2>2
<1> QED
  BY <1>7, <1>8, <1>9, <1>10, <1>11 DEF Clean, l

\* Maps are merged to a map.
LEMMA MergesMaps ==
  ASSUME NEW a, NEW b, IsMap(a), IsMap(b)
  PROVE  /\ IsMap(Merge(a, b)) /\ DOMAIN Merge(a, b) = DOMAIN a \union DOMAIN b
         /\ \A k \in DOMAIN a : Merge(a, b)[k] = a[k]
         /\ \A k \in DOMAIN b \ DOMAIN a : Merge(a, b)[k] = b[k]
<1>1. IsFiniteSet(DOMAIN a \union DOMAIN b)
  BY FS_Union DEF IsMap
<1>2. Merge(a, b) \in [DOMAIN a \union DOMAIN b -> Value]
  BY DEF IsMap, Merge
<1> QED
  BY <1>1, <1>2 DEF IsMap, Merge

\* What is left of a map is one.
LEMMA RestrictsMaps ==
  ASSUME NEW a, IsMap(a), NEW S \in SUBSET DOMAIN a
  PROVE  /\ IsMap(Restrict(a, S)) /\ DOMAIN Restrict(a, S) = S
         /\ \A k \in S : Restrict(a, S)[k] = a[k]
<1>1. IsFiniteSet(S)
  BY FS_Subset DEF IsMap
<1>2. Restrict(a, S) \in [S -> Value]
  BY DEF IsMap, Restrict
<1> QED
  BY <1>1, <1>2 DEF IsMap, Restrict

\* The controller's own tags are a map.
LEMMA DefaultsAreMap == IsMap(DefaultTags) /\ DOMAIN DefaultTags = SystemKey
BY TagsAssumption DEF IsMap, DefaultTags, Value, Key

-----------------------------------------------------------------------------
(* What is done with the lists *)

\* EnsureTags adds the controller's own tags where the user has none with their keys.
LEMMA Ensures ==
  ASSUME NEW list \in List
  PROVE  /\ Clean(EnsureTags(list)) /\ Keys(EnsureTags(list)) = Keys(list) \union SystemKey
         /\ convertToOrderedACKTags(EnsureTags(list))
              = Merge(convertToOrderedACKTags(list), DefaultTags)
<1>1. LET tags == Merge(convertToOrderedACKTags(list), DefaultTags)
      IN  IsMap(tags) /\ DOMAIN tags = Keys(list) \union SystemKey
  BY Converts, DefaultsAreMap, MergesMaps
<1> QED
  BY <1>1, Listed DEF EnsureTags

\* mirrorAWSTags makes the list have of AWS's tags those that have been observed, with their values,
\* and leaves the others as they are.
LEMMA Mirrors ==
  ASSUME NEW list \in List, Keys(list) \intersect AWSKey = {}, NEW observed \in List
  PROVE  LET l == mirrorAWSTags(list, observed)
             have == convertToOrderedACKTags(observed)
             want == convertToOrderedACKTags(list)
         IN  /\ Clean(l) /\ Keys(l) = Keys(list) \union (AWSKey \intersect Keys(observed))
             /\ \A k \in AWSKey \intersect Keys(observed) :
                  convertToOrderedACKTags(l)[k] = have[k]
             /\ \A k \in Keys(list) : convertToOrderedACKTags(l)[k] = want[k]
<1> DEFINE have == convertToOrderedACKTags(observed)
           theirs == Restrict(have, AWSKey \intersect DOMAIN have)
           want == convertToOrderedACKTags(list)
           tags == Merge(theirs, want)
<1>1. IsMap(have) /\ DOMAIN have = Keys(observed) /\ IsMap(want) /\ DOMAIN want = Keys(list)
  BY Converts
<1>2. mirrorAWSTags(list, observed) = fromACKTags(tags, list)
  BY DEF mirrorAWSTags
<1> HIDE DEF have, want
<1>3. /\ IsMap(theirs) /\ DOMAIN theirs = AWSKey \intersect Keys(observed)
      /\ \A k \in AWSKey \intersect Keys(observed) : theirs[k] = have[k]
  BY <1>1, RestrictsMaps
<1> HIDE DEF theirs
<1>4. /\ IsMap(tags) /\ DOMAIN tags = DOMAIN theirs \union DOMAIN want
      /\ \A k \in DOMAIN theirs : tags[k] = theirs[k]
      /\ \A k \in DOMAIN want \ DOMAIN theirs : tags[k] = want[k]
  BY <1>1, <1>3, MergesMaps
<1> HIDE DEF tags
<1>5. /\ Clean(fromACKTags(tags, list)) /\ Keys(fromACKTags(tags, list)) = DOMAIN tags
      /\ convertToOrderedACKTags(fromACKTags(tags, list)) = tags
  BY <1>4, Listed
<1> QED
  BY <1>1, <1>2, <1>3, <1>4, <1>5 DEF have, want

\* FilterSystemTags leaves only the user's tags.
LEMMA Filters ==
  ASSUME NEW list \in List
  PROVE  /\ FilterSystemTags(list) \in List
         /\ Keys(FilterSystemTags(list)) = Keys(list) \ (AWSKey \union SystemKey)
<1> DEFINE tags == convertToOrderedACKTags(list)
           S == DOMAIN tags \ (AWSKey \union SystemKey)
<1>1. IsMap(tags) /\ DOMAIN tags = Keys(list)
  BY Converts
<1>2. FilterSystemTags(list) = fromACKTags(Restrict(tags, S), list)
  BY DEF FilterSystemTags
<1> HIDE DEF tags
<1>3. IsMap(Restrict(tags, S)) /\ DOMAIN Restrict(tags, S) = S
  BY <1>1, RestrictsMaps
<1> QED
  BY <1>1, <1>2, <1>3, Listed DEF Clean

\* What AWS answers is a list of the tags that it has.
LEMMA AnswersAre ==
  ASSUME NEW tags, IsMap(tags), NEW list \in Answers(tags)
  PROVE  list \in List /\ Unique(list) /\ convertToOrderedACKTags(list) = tags
<1> DEFINE keys == DOMAIN tags
           n == Cardinality(keys)
           order == SetToSeq(keys)
<1>1. n \in Nat /\ keys \subseteq Key /\ IsFiniteSet(keys)
  BY FS_CardinalityType DEF IsMap
<1>2. order \in [1 .. n -> keys] /\ IsInjective(order)
  BY <1>1, ListsSet
<1>3. \A k \in keys : \E i \in 1 .. n : order[i] = k
  BY <1>1, ListsSet
<1>4. PICK none \in {Empty, Nil} :
        list = [i \in DOMAIN order |->
                  [key |-> order[i],
                   value |-> IF tags[order[i]] = Empty THEN none ELSE tags[order[i]]]]
  BY DEF Answers
<1> HIDE DEF n, order
<1>5. /\ DOMAIN list = 1 .. n
      /\ \A i \in 1 .. n :
           /\ list[i] = [key |-> order[i],
                         value |-> IF tags[order[i]] = Empty THEN none ELSE tags[order[i]]]
           /\ order[i] \in keys
  BY <1>2, <1>4
<1>6. \A k \in keys : /\ tags[k] \in Value
                      /\ (IF tags[k] = Empty THEN none ELSE tags[k]) \in Value \union {Nil}
                      /\ Counted(IF tags[k] = Empty THEN none ELSE tags[k]) = tags[k]
  BY TagsAssumption DEF IsMap, Value, Counted
<1>7. list \in List
  <2>1. \A i \in 1 .. n : list[i] \in Tag(Key)
    BY <1>1, <1>5, <1>6 DEF Tag
  <2>2. list \in [1 .. n -> Tag(Key)]
    BY <1>2, <1>4, <2>1
  <2> QED
    BY <1>1, <2>2 DEF List
<1>8. Unique(list)
  BY <1>2, <1>5 DEF Unique, IsInjective
<1>9. Keys(list) = keys
  <2>1. \A i \in DOMAIN list : list[i].key \in keys
    BY <1>5
  <2>2. \A k \in keys : \E i \in DOMAIN list : list[i].key = k
    BY <1>3, <1>5
  <2> QED
    BY <2>1, <2>2 DEF Keys
<1>10. convertToOrderedACKTags(list) = tags
  <2>1. /\ convertToOrderedACKTags(list) \in [keys -> Value]
        /\ tags \in [keys -> Value]
    BY <1>7, <1>9, Converts DEF IsMap
  <2>2. ASSUME NEW k \in keys PROVE convertToOrderedACKTags(list)[k] = tags[k]
    <3>1. PICK i \in 1 .. n : order[i] = k
      BY <1>3
    <3>2. convertToOrderedACKTags(list)[list[i].key] = Counted(list[i].value)
      BY <1>5, <1>7, <1>8, ConvertsEach
    <3> QED
      BY <1>5, <1>6, <3>1, <3>2
  <2> QED
    BY <2>1, <2>2
<1> QED
  BY <1>7, <1>8, <1>10

-----------------------------------------------------------------------------
(* Subtracting lists *)

\* A tag whose key is not repeated is the first with its key.
LEMMA FirstIs ==
  ASSUME NEW list \in List, Unique(list), NEW i \in DOMAIN list
  PROVE  First(list, list[i].key) = list[i]
<1> DEFINE first == FirstIndex(list, list[i].key)
<1>1. list[i].key \in Keys(list)
  BY DEF Keys
<1>2. first \in DOMAIN list /\ list[first].key = list[i].key
  BY <1>1, Occurs DEF FirstIndex
<1> HIDE DEF first
<1>3. first = i
  BY <1>2 DEF Unique
<1> QED
  BY <1>3 DEF First, first

\* equalStrings compares what values count as.
LEMMA EqualStrings ==
  ASSUME NEW x \in Value \union {Nil}, NEW y \in Value \union {Nil}
  PROVE  equalStrings(x, y) <=> Counted(x) = Counted(y)
<1>1. x \in Text \/ x = Empty \/ x = Nil
  BY DEF Value
<1>2. y \in Text \/ y = Empty \/ y = Nil
  BY DEF Value
<1>3. {x, y} = {Empty, Nil} <=> (x = Empty /\ y = Nil) \/ (x = Nil /\ y = Empty)
  BY TagsAssumption
<1> QED
  BY <1>1, <1>2, <1>3, TagsAssumption DEF equalStrings, Counted

\* What is to be added or changed are the tags whose keys are missing or count as something else.
LEMMA Subtracts ==
  ASSUME NEW a \in List, Unique(a), NEW b \in List, Unique(b)
  PROVE  addedOrUpdated(a, b) =
           {t \in Range(a) : \/ t.key \notin Keys(b)
                             \/ convertToOrderedACKTags(a)[t.key]
                                  # convertToOrderedACKTags(b)[t.key]}
<1> DEFINE have == convertToOrderedACKTags(b)
           want == convertToOrderedACKTags(a)
           Changed == {First(a, t.key) : t \in {u \in Range(b) :
                        u.key \in Keys(a) /\ ~equalStrings(u.value, First(a, u.key).value)}}
           Missing == {t \in Range(a) : t.key \notin Keys(b)}
<1>1. addedOrUpdated(a, b) = Changed \union Missing
  BY DEF addedOrUpdated
<1>2. ASSUME NEW i \in DOMAIN b, NEW j \in DOMAIN a, a[j].key = b[i].key
      PROVE  /\ First(a, b[i].key) = a[j]
             /\ ~equalStrings(b[i].value, First(a, b[i].key).value)
                  <=> want[a[j].key] # have[a[j].key]
  <2>1. First(a, b[i].key) = a[j]
    BY <1>2, FirstIs
  <2>2. want[a[j].key] = Counted(a[j].value) /\ have[a[j].key] = Counted(b[i].value)
    BY <1>2, ConvertsEach
  <2>3. a[j].value \in Value \union {Nil} /\ b[i].value \in Value \union {Nil}
    BY Elements
  <2> QED
    BY <2>1, <2>2, <2>3, EqualStrings
<1> HIDE DEF have, want
<1>3. ASSUME NEW t \in Changed
      PROVE  t \in Range(a) /\ want[t.key] # have[t.key]
  <2>1. PICK u \in Range(b) :
          /\ u.key \in Keys(a) /\ ~equalStrings(u.value, First(a, u.key).value)
          /\ t = First(a, u.key)
    BY <1>3
  <2>2. PICK i \in DOMAIN b : b[i] = u
    BY DEF Range
  <2>3. PICK j \in DOMAIN a : a[j].key = b[i].key
    BY <2>1, <2>2 DEF Keys
  <2> QED
    BY <1>2, <2>1, <2>2, <2>3 DEF Range
<1>4. ASSUME NEW t \in Range(a), t.key \in Keys(b), want[t.key] # have[t.key]
      PROVE  t \in Changed
  <2>1. PICK j \in DOMAIN a : a[j] = t
    BY DEF Range
  <2>2. PICK i \in DOMAIN b : b[i].key = t.key
    BY <1>4 DEF Keys
  <2>3. /\ First(a, b[i].key) = t
        /\ ~equalStrings(b[i].value, First(a, b[i].key).value)
    BY <1>2, <1>4, <2>1, <2>2
  <2>4. b[i] \in Range(b) /\ b[i].key \in Keys(a)
    BY <2>1, <2>2 DEF Range, Keys
  <2> QED
    BY <2>3, <2>4
<1> HIDE DEF Changed
<1> QED
  BY <1>1, <1>3, <1>4 DEF have, want

\* There is something to remove, to add or to change where the maps differ, and nowhere else.
LEMMA Agree ==
  ASSUME NEW a \in List, Unique(a), NEW b \in List, Unique(b)
  PROVE  Different(a, b) <=> removed(a, b) # {} \/ addedOrUpdated(a, b) # {}
<1> DEFINE have == convertToOrderedACKTags(b)
           want == convertToOrderedACKTags(a)
<1>1. want \in [Keys(a) -> Value] /\ have \in [Keys(b) -> Value]
  BY Converts DEF IsMap
<1>2. addedOrUpdated(a, b)
        = {t \in Range(a) : t.key \notin Keys(b) \/ want[t.key] # have[t.key]}
  BY Subtracts
<1>3. Different(a, b) <=> want # have
  BY DEF Different
<1>4. \A t \in Range(a) : t.key \in Keys(a)
  BY DEF Range, Keys
<1>5. \A k \in Keys(a) : \E t \in Range(a) : t.key = k
  BY DEF Range, Keys
<1> HIDE DEF have, want
<1>6. ASSUME want = have PROVE removed(a, b) = {} /\ addedOrUpdated(a, b) = {}
  <2>1. Keys(a) = Keys(b)
    BY <1>1, <1>6
  <2> QED
    BY <1>2, <1>4, <1>6, <2>1 DEF removed
<1>7. ASSUME removed(a, b) = {}, addedOrUpdated(a, b) = {} PROVE want = have
  <2>1. Keys(b) \subseteq Keys(a)
    BY <1>7 DEF removed
  <2>2. \A k \in Keys(a) : k \in Keys(b) /\ want[k] = have[k]
    BY <1>2, <1>5, <1>7
  <2>3. Keys(a) = Keys(b)
    BY <2>1, <2>2
  <2> QED
    BY <1>1, <2>2, <2>3
<1> QED
  BY <1>3, <1>6, <1>7

\* Tags taken from a list stand for the same values.
LEMMA ConvertsSome ==
  ASSUME NEW a \in List, Unique(a), NEW S \in SUBSET Range(a)
  PROVE  /\ IsMap(convertToOrderedACKTags(SetToSeq(S)))
         /\ DOMAIN convertToOrderedACKTags(SetToSeq(S)) = {t.key : t \in S}
         /\ \A t \in S : convertToOrderedACKTags(SetToSeq(S))[t.key]
                           = convertToOrderedACKTags(a)[t.key]
<1> DEFINE n == Cardinality(S)
           l == SetToSeq(S)
<1>1. IsFiniteSet(S)
  <2>1. IsFiniteSet(DOMAIN a)
    BY Elements, FS_Interval
  <2>2. a \in Surjection(DOMAIN a, Range(a))
    <3>1. a \in [1 .. Len(a) -> Tag(Key)] /\ DOMAIN a = 1 .. Len(a)
      BY Elements DEF List
    <3> QED
      BY <3>1 DEF Surjection, Range
  <2>3. IsFiniteSet(Range(a))
    BY <2>1, <2>2, FS_Surjection
  <2> QED
    BY <2>3, FS_Subset
<1>2. l \in [1 .. n -> S] /\ n \in Nat /\ \A t \in S : \E i \in 1 .. n : l[i] = t
  BY <1>1, ListsSet
<1>3. \A t \in S : \E j \in DOMAIN a : a[j] = t
  BY DEF Range
<1>4. S \subseteq Tag(Key)
  BY <1>3, Elements
<1> HIDE DEF n, l
<1>5. l \in List /\ DOMAIN l = 1 .. n
  BY <1>2, <1>4 DEF List
<1>6. Keys(l) = {t.key : t \in S}
  <2>1. \A i \in DOMAIN l : l[i] \in S
    BY <1>2, <1>5
  <2>2. \A t \in S : \E i \in DOMAIN l : l[i] = t
    BY <1>2, <1>5
  <2> QED
    BY <2>1, <2>2 DEF Keys
<1>7. ASSUME NEW t \in S
      PROVE  convertToOrderedACKTags(l)[t.key] = convertToOrderedACKTags(a)[t.key]
  <2>1. t.key \in Keys(l)
    BY <1>6
  <2>2. PICK i \in DOMAIN l :
          l[i].key = t.key /\ convertToOrderedACKTags(l)[t.key] = Counted(l[i].value)
    BY <1>5, <2>1, Converts
  <2>3. PICK j \in DOMAIN a : a[j] = l[i]
    BY <1>2, <1>3, <1>5
  <2>4. convertToOrderedACKTags(a)[a[j].key] = Counted(a[j].value)
    BY ConvertsEach
  <2> QED
    BY <2>2, <2>3, <2>4
<1> QED
  BY <1>5, <1>6, <1>7, Converts DEF l

-----------------------------------------------------------------------------
(* The invariant of the tags *)

\* The variables' types, finitely many tags, and none but the user's in Spec.
Shaped ==
  /\ spec \in List /\ Keys(spec) \subseteq UserKey /\ IsMap(stored)
  /\ pc \in {"idle", "read", "sync", "add", "patchSpec"}
  /\ desired \in List /\ latest \in List
  /\ edits \in 0 .. MaxEdits

\* A pass works on a clean list with the controller's own tags.
Ensured ==
  /\ pc # "idle" => Clean(desired) /\ SystemKey \subseteq Keys(desired)
  /\ pc = "read" => Keys(desired) \intersect AWSKey = {}

\* Of AWS's tags it has those that it has read.
Mirrored ==
  pc \in {"sync", "add", "patchSpec"} =>
    /\ Unique(latest)
    /\ \A k \in AWSKey :
         /\ k \in Keys(desired) <=> k \in Keys(latest)
         /\ k \in Keys(latest) =>
              convertToOrderedACKTags(desired)[k] = convertToOrderedACKTags(latest)[k]

\* AWS itself changes no other tags: those read are there until the pass removes them.
Current ==
  /\ pc = "sync" =>
       \A k \in Key \ AWSKey : k \in DOMAIN stored <=> k \in Keys(latest)
  /\ pc = "add" =>
       \A k \in Key \ AWSKey : k \in DOMAIN stored <=> k \in Keys(latest) \intersect Keys(desired)
  /\ pc \in {"sync", "add"} =>
       \A k \in DOMAIN stored \ AWSKey : stored[k] = convertToOrderedACKTags(latest)[k]

Invariant == Shaped /\ Ensured /\ Mirrored /\ Current

\* It holds at first.
LEMMA InitShaped == Init => Invariant
<1> SUFFICES ASSUME Init PROVE Invariant
  OBVIOUS
<1>1. <<>> \in List /\ Keys(<<>>) = {}
  BY DEF List, Keys
<1>2. IsMap(<<>>)
  <2>1. DOMAIN <<>> = {}
    OBVIOUS
  <2>2. <<>> \in [DOMAIN <<>> -> Value]
    BY <2>1
  <2> QED
    BY <2>1, <2>2, FS_EmptySet DEF IsMap
<1> QED
  BY <1>1, <1>2, TagsAssumption DEF Init, Invariant, Shaped, Ensured, Mirrored, Current

\* The user writes what he likes into Spec, with keys of his.
LEMMA UserEditsKeeps == Invariant /\ UserEdits => Invariant'
<1> SUFFICES ASSUME Invariant, UserEdits PROVE Invariant'
  OBVIOUS
<1>1. spec' \in List /\ Keys(spec') \subseteq UserKey
  <2>1. PICK n \in 0 .. MaxLength : spec' \in [1 .. n -> Tag(UserKey)]
    BY DEF UserEdits, UserList, SeqOf
  <2>2. n \in Nat
    BY TagsAssumption
  <2>3. Tag(UserKey) \subseteq Tag(Key) /\ \A t \in Tag(UserKey) : t.key \in UserKey
    BY DEF Tag, Key
  <2>4. spec' \in [1 .. n -> Tag(Key)] /\ \A i \in DOMAIN spec' : spec'[i] \in Tag(UserKey)
    BY <2>1, <2>3
  <2>5. spec' \in List
    BY <2>2, <2>4 DEF List
  <2> QED
    BY <2>3, <2>4, <2>5 DEF Keys
<1>2. edits' \in 0 .. MaxEdits /\ UNCHANGED <<stored, pc, desired, latest>>
  BY TagsAssumption DEF UserEdits, Invariant, Shaped
<1> QED
  BY <1>1, <1>2 DEF Invariant, Shaped, Ensured, Mirrored, Current

\* AWS changes its own tags only.
LEMMA AWSTagsKeeps == Invariant /\ AWSTags => Invariant'
<1> SUFFICES ASSUME Invariant, AWSTags PROVE Invariant'
  OBVIOUS
<1>1. IsMap(stored)
  BY DEF Invariant, Shaped
<1>2. PICK k \in AWSKey : \E v \in Text :
        stored' \in {Merge([x \in {k} |-> v], stored), Restrict(stored, DOMAIN stored \ {k})}
  BY DEF AWSTags
<1>3. PICK v \in Text :
        stored' \in {Merge([x \in {k} |-> v], stored), Restrict(stored, DOMAIN stored \ {k})}
  BY <1>2
<1>4. /\ IsMap(stored')
      /\ \A l \in Key \ AWSKey : l \in DOMAIN stored' <=> l \in DOMAIN stored
      /\ \A l \in DOMAIN stored' \ AWSKey : stored'[l] = stored[l]
  <2>1. CASE stored' = Merge([x \in {k} |-> v], stored)
    <3> DEFINE own == [x \in {k} |-> v]
    <3>1. IsMap(own) /\ DOMAIN own = {k}
      BY FS_Singleton DEF IsMap, Value, Key
    <3> HIDE DEF own
    <3>2. /\ IsMap(Merge(own, stored)) /\ DOMAIN Merge(own, stored) = {k} \union DOMAIN stored
          /\ \A l \in DOMAIN stored \ {k} : Merge(own, stored)[l] = stored[l]
      <4>1. /\ IsMap(Merge(own, stored))
            /\ DOMAIN Merge(own, stored) = DOMAIN own \union DOMAIN stored
            /\ \A l \in DOMAIN stored \ DOMAIN own : Merge(own, stored)[l] = stored[l]
        BY <1>1, <3>1, MergesMaps
      <4> QED
        BY <3>1, <4>1
    <3>3. stored' = Merge(own, stored)
      BY <2>1 DEF own
    <3> QED
      BY <3>2, <3>3
  <2>2. CASE stored' = Restrict(stored, DOMAIN stored \ {k})
    <3>1. /\ IsMap(stored') /\ DOMAIN stored' = DOMAIN stored \ {k}
          /\ \A l \in DOMAIN stored \ {k} : stored'[l] = stored[l]
      BY <1>1, <2>2, RestrictsMaps
    <3> QED
      BY <3>1
  <2> QED
    BY <1>3, <2>1, <2>2
<1>5. UNCHANGED <<spec, pc, desired, latest, edits>> /\ DOMAIN stored' \subseteq Key
  BY <1>4 DEF AWSTags, IsMap
<1> QED
  <2>1. Shaped' /\ Ensured' /\ Mirrored'
    BY <1>4, <1>5 DEF Invariant, Shaped, Ensured, Mirrored
  <2>2. Current'
    BY <1>4, <1>5 DEF Invariant, Current
  <2> QED
    BY <2>1, <2>2 DEF Invariant

\* A pass begins with the tags in Spec and those that EnsureTags adds.
LEMMA ReconcileKeeps == Invariant /\ Reconcile => Invariant'
<1> SUFFICES ASSUME Invariant, Reconcile PROVE Invariant'
  OBVIOUS
<1>1. /\ Clean(desired') /\ Keys(desired') = Keys(spec) \union SystemKey /\ pc' = "read"
      /\ UNCHANGED <<spec, stored, latest, edits>>
  BY Ensures DEF Reconcile, Invariant, Shaped
<1> QED
  BY <1>1, TagsAssumption DEF Invariant, Shaped, Ensured, Mirrored, Current, Clean

\* What has been read is what AWS has, and AWS's part of it has been taken over.
LEMMA ReadOneKeeps == Invariant /\ ReadOne => Invariant'
<1> SUFFICES ASSUME Invariant, ReadOne PROVE Invariant'
  OBVIOUS
<1>1. /\ latest' \in List /\ Unique(latest')
      /\ convertToOrderedACKTags(latest') = stored /\ Keys(latest') = DOMAIN stored
  BY AnswersAre, Converts DEF ReadOne, Invariant, Shaped
<1>2. desired \in List /\ Keys(desired) \intersect AWSKey = {} /\ SystemKey \subseteq Keys(desired)
  BY DEF ReadOne, Invariant, Shaped, Ensured
<1>3. /\ Clean(desired') /\ Keys(desired') = Keys(desired) \union (AWSKey \intersect Keys(latest'))
      /\ \A k \in AWSKey \intersect Keys(latest') :
           convertToOrderedACKTags(desired')[k] = convertToOrderedACKTags(latest')[k]
  BY <1>1, <1>2, Mirrors DEF ReadOne
<1>4. /\ pc' \in {"sync", "patchSpec"}
      /\ UNCHANGED <<spec, stored, edits>>
  BY DEF ReadOne
<1>5. Shaped'
  BY <1>1, <1>3, <1>4 DEF Invariant, Shaped, Clean
<1>6. Ensured'
  BY <1>2, <1>3, <1>4 DEF Ensured
<1>7. Mirrored'
  BY <1>1, <1>2, <1>3 DEF Mirrored
<1>8. Current'
  BY <1>1, <1>4 DEF Current
<1> QED
  BY <1>5, <1>6, <1>7, <1>8 DEF Invariant

\* The first call takes off what is not asked for.
LEMMA RemoveTagsKeeps == Invariant /\ RemoveTags => Invariant'
<1> SUFFICES ASSUME Invariant, RemoveTags PROVE Invariant'
  OBVIOUS
<1>1. /\ pc = "sync" /\ pc' = "add" /\ UNCHANGED <<spec, desired, latest, edits>>
      /\ stored' = Restrict(stored, DOMAIN stored \ removed(desired, latest))
  BY DEF RemoveTags
<1>2. /\ IsMap(stored') /\ DOMAIN stored' = DOMAIN stored \ removed(desired, latest)
      /\ \A k \in DOMAIN stored' : stored'[k] = stored[k]
  BY <1>1, RestrictsMaps DEF Invariant, Shaped
<1>3. Shaped' /\ Ensured' /\ Mirrored'
  BY <1>1, <1>2 DEF Invariant, Shaped, Ensured, Mirrored
<1>4. \A k \in Key \ AWSKey : k \in DOMAIN stored' <=> k \in Keys(latest) \intersect Keys(desired)
  BY <1>1, <1>2 DEF Invariant, Current, removed
<1>5. \A k \in DOMAIN stored' \ AWSKey : stored'[k] = convertToOrderedACKTags(latest)[k]
  BY <1>1, <1>2 DEF Invariant, Current
<1> QED
  BY <1>1, <1>3, <1>4, <1>5 DEF Invariant, Current

\* What AWS has after the second call.
LEMMA Adds ==
  ASSUME Invariant, AddTags
  PROVE  /\ IsMap(stored')
         /\ DOMAIN stored' = {t.key : t \in addedOrUpdated(desired, latest)} \union DOMAIN stored
         /\ \A t \in addedOrUpdated(desired, latest) :
              stored'[t.key] = convertToOrderedACKTags(desired)[t.key]
         /\ \A k \in DOMAIN stored :
              k \notin {t.key : t \in addedOrUpdated(desired, latest)} => stored'[k] = stored[k]
<1> DEFINE S == addedOrUpdated(desired, latest)
           added == convertToOrderedACKTags(SetToSeq(S))
<1>1. desired \in List /\ Unique(desired) /\ latest \in List /\ Unique(latest) /\ IsMap(stored)
  BY DEF AddTags, Invariant, Shaped, Ensured, Mirrored, Clean
<1>2. S \in SUBSET Range(desired)
  BY <1>1, Subtracts
<1>3. /\ IsMap(added) /\ DOMAIN added = {t.key : t \in S}
      /\ \A t \in S : added[t.key] = convertToOrderedACKTags(desired)[t.key]
  <2> HIDE DEF S
  <2> QED
    BY <1>1, <1>2, ConvertsSome
<1>4. stored' = Merge(added, stored)
  BY DEF AddTags
<1> HIDE DEF S, added
<1>5. /\ IsMap(stored') /\ DOMAIN stored' = DOMAIN added \union DOMAIN stored
      /\ \A k \in DOMAIN added : stored'[k] = added[k]
      /\ \A k \in DOMAIN stored \ DOMAIN added : stored'[k] = stored[k]
  <2>1. IsMap(added) /\ IsMap(stored)
    BY <1>1, <1>3
  <2>2. /\ IsMap(Merge(added, stored))
        /\ DOMAIN Merge(added, stored) = DOMAIN added \union DOMAIN stored
        /\ \A k \in DOMAIN added : Merge(added, stored)[k] = added[k]
        /\ \A k \in DOMAIN stored \ DOMAIN added : Merge(added, stored)[k] = stored[k]
    BY <2>1, MergesMaps
  <2> QED
    BY <1>4, <2>2
<1> QED
  BY <1>3, <1>5 DEF S

\* The second call leaves a map.
LEMMA AddTagsKeeps == Invariant /\ AddTags => Invariant'
<1> SUFFICES ASSUME Invariant, AddTags PROVE Invariant'
  OBVIOUS
<1>1. IsMap(stored')
  BY Adds
<1>2. pc = "add" /\ pc' = "patchSpec" /\ UNCHANGED <<spec, desired, latest, edits>>
  BY DEF AddTags
<1> QED
  BY <1>1, <1>2 DEF Invariant, Shaped, Ensured, Mirrored, Current

\* The end of a pass, in whatever way.
LEMMA EndKeeps ==
  ASSUME Invariant, pc' = "idle", desired' = <<>>, latest' = <<>>,
         spec' \in List, Keys(spec') \subseteq UserKey, UNCHANGED <<stored, edits>>
  PROVE  Invariant'
<1>1. <<>> \in List
  BY DEF List
<1> QED
  BY <1>1 DEF Invariant, Shaped, Ensured, Mirrored, Current

\* What is patched is what was there, or the user's part of one of the two lists.
LEMMA Patches ==
  ASSUME Invariant, PatchSpec
  PROVE  /\ spec' \in List
         /\ spec' = spec \/ Keys(spec') \subseteq UserKey \ SystemKey
<1>1. PICK returned \in {desired, latest} :
        spec' = IF Different(FilterSystemTags(desired), FilterSystemTags(returned))
                THEN FilterSystemTags(returned) ELSE spec
  BY DEF PatchSpec
<1>2. returned \in List /\ spec \in List
  BY DEF Invariant, Shaped
<1>3. /\ FilterSystemTags(returned) \in List
      /\ Keys(FilterSystemTags(returned)) = Keys(returned) \ (AWSKey \union SystemKey)
  BY <1>2, Filters
<1>4. Keys(returned) \subseteq UserKey \union AWSKey \union SystemKey
  BY <1>2, Elements DEF Key
<1> QED
  BY <1>1, <1>2, <1>3, <1>4

\* Every step keeps the invariant.
LEMMA NextKeeps == Invariant /\ [Next]_vars => Invariant'
<1> SUFFICES ASSUME Invariant, [Next]_vars PROVE Invariant'
  OBVIOUS
<1>1. CASE PatchSpec
  <2>1. Keys(spec) \subseteq UserKey
    BY DEF Invariant, Shaped
  <2> QED
    BY <1>1, <2>1, Patches, EndKeeps DEF PatchSpec
<1>2. CASE PassFails
  BY <1>2, EndKeeps DEF PassFails, Invariant, Shaped
<1>3. CASE UNCHANGED vars
  BY <1>3 DEF vars, Invariant, Shaped, Ensured, Mirrored, Current
<1> QED
  BY <1>1, <1>2, <1>3, UserEditsKeeps, AWSTagsKeeps, ReconcileKeeps, ReadOneKeeps,
     RemoveTagsKeeps, AddTagsKeeps
  DEF Next

-----------------------------------------------------------------------------
(* What holds of the tags *)

\* None of AWS's tags is among those to remove, to add or to change.
LEMMA TouchesNone == Invariant => TouchesNoAWSTag
<1> SUFFICES ASSUME Invariant, pc \in {"sync", "add"}
             PROVE  /\ removed(desired, latest) \intersect AWSKey = {}
                    /\ \A t \in addedOrUpdated(desired, latest) : t.key \notin AWSKey
  BY DEF TouchesNoAWSTag
<1>1. desired \in List /\ Unique(desired) /\ latest \in List /\ Unique(latest)
  BY DEF Invariant, Shaped, Ensured, Mirrored, Clean
<1>2. \A k \in AWSKey :
        /\ k \in Keys(desired) <=> k \in Keys(latest)
        /\ k \in Keys(latest) =>
             convertToOrderedACKTags(desired)[k] = convertToOrderedACKTags(latest)[k]
  BY DEF Invariant, Mirrored
<1>3. \A t \in Range(desired) : t.key \in Keys(desired)
  BY DEF Range, Keys
<1>4. \A t \in addedOrUpdated(desired, latest) :
        /\ t \in Range(desired)
        /\ \/ t.key \notin Keys(latest)
           \/ convertToOrderedACKTags(desired)[t.key] # convertToOrderedACKTags(latest)[t.key]
  BY <1>1, Subtracts
<1>5. removed(desired, latest) \intersect AWSKey = {}
  BY <1>2 DEF removed
<1> QED
  BY <1>2, <1>3, <1>4, <1>5

\* Every tag of the desired list has a value.
LEMMA PanicsNever == Invariant => NeverPanics
<1> SUFFICES ASSUME Invariant, pc \in {"sync", "add"}, NEW t \in Range(latest),
                    t.key \in Keys(desired)
             PROVE  ~Panics(t.value, First(desired, t.key).value)
  BY DEF NeverPanics
<1>1. desired \in List /\ Unique(desired) /\ Filled(desired)
  BY DEF Invariant, Ensured, Clean
<1>2. PICK i \in DOMAIN desired : desired[i].key = t.key
  BY DEF Keys
<1>3. First(desired, t.key) = desired[i]
  BY <1>1, <1>2, FirstIs
<1> QED
  BY <1>1, <1>3 DEF Filled, Panics

\* The lists that a pass has read or made are such that both ways of comparing them agree.
LEMMA InvariantAgrees == Invariant => ComparisonsAgree
<1> SUFFICES ASSUME Invariant PROVE ComparisonsAgree
  OBVIOUS
<1>1. ASSUME pc \in {"sync", "patchSpec"}
      PROVE  Different(desired, latest)
               <=> removed(desired, latest) # {} \/ addedOrUpdated(desired, latest) # {}
  <2>1. desired \in List /\ Unique(desired) /\ latest \in List /\ Unique(latest)
    BY <1>1 DEF Invariant, Shaped, Ensured, Mirrored, Clean
  <2> QED
    BY <2>1, Agree
<1> QED
  BY <1>1, PanicsNever DEF ComparisonsAgree

\* The second call leaves on the object what the pass works on.
LEMMA AddsAll ==
  ASSUME Invariant, AddTags, NEW k \in Key \ AWSKey
  PROVE  LET wanted == Merge(convertToOrderedACKTags(desired), DefaultTags) IN
           /\ k \in DOMAIN stored' <=> k \in DOMAIN wanted
           /\ k \in DOMAIN wanted => stored'[k] = wanted[k]
<1> DEFINE want == convertToOrderedACKTags(desired)
           have == convertToOrderedACKTags(latest)
           wanted == Merge(want, DefaultTags)
           S == addedOrUpdated(desired, latest)
<1>1. /\ desired \in List /\ Unique(desired) /\ latest \in List /\ Unique(latest)
      /\ SystemKey \subseteq Keys(desired) /\ pc = "add"
  BY DEF AddTags, Invariant, Shaped, Ensured, Mirrored, Clean
<1>2. DOMAIN wanted = Keys(desired) /\ \A l \in Keys(desired) : wanted[l] = want[l]
  <2>1. IsMap(want) /\ DOMAIN want = Keys(desired)
    BY <1>1, Converts
  <2> HIDE DEF want
  <2>2. /\ DOMAIN wanted = DOMAIN want \union DOMAIN DefaultTags
        /\ \A l \in DOMAIN want : wanted[l] = want[l]
    BY <2>1, DefaultsAreMap, MergesMaps
  <2> QED
    BY <1>1, <2>1, <2>2, DefaultsAreMap
<1>3. /\ S = {t \in Range(desired) : t.key \notin Keys(latest) \/ want[t.key] # have[t.key]}
      /\ DOMAIN stored' = {t.key : t \in S} \union DOMAIN stored
      /\ \A t \in S : stored'[t.key] = want[t.key]
      /\ \A l \in DOMAIN stored : l \notin {t.key : t \in S} => stored'[l] = stored[l]
  BY <1>1, Adds, Subtracts
<1>4. /\ k \in DOMAIN stored <=> k \in Keys(latest) \intersect Keys(desired)
      /\ k \in DOMAIN stored => stored[k] = have[k]
  BY <1>1 DEF Invariant, Current
<1> HIDE DEF want, have, wanted, S
<1>5. k \in {t.key : t \in S}
        <=> k \in Keys(desired) /\ (k \notin Keys(latest) \/ want[k] # have[k])
  <2>1. \A t \in Range(desired) : t.key \in Keys(desired)
    BY DEF Range, Keys
  <2>2. ASSUME k \in Keys(desired) PROVE \E t \in Range(desired) : t.key = k
    BY <2>2 DEF Range, Keys
  <2> QED
    BY <1>3, <2>1, <2>2
<1>6. k \in DOMAIN stored' <=> k \in Keys(desired)
  BY <1>3, <1>4, <1>5
<1>7. k \in Keys(desired) => stored'[k] = want[k]
  <2>1. k \in {t.key : t \in S} => stored'[k] = want[k]
    BY <1>3
  <2>2. k \notin {t.key : t \in S} /\ k \in Keys(desired) => stored'[k] = want[k]
    BY <1>3, <1>4, <1>5
  <2> QED
    BY <2>1, <2>2
<1> QED
  BY <1>2, <1>6, <1>7 DEF wanted, want

-----------------------------------------------------------------------------
(* The log destinations *)

\* The lists are lists of numbers.
DestinationsShaped == ids \in Seq(Number) /\ storedIds \in Seq(Number)

\* Without duplicates the length of a list is the number of its elements.
LEMMA LengthCounts ==
  ASSUME NEW a \in Seq(Number), IsInjective(a)
  PROVE  IsFiniteSet(Range(a)) /\ Cardinality(Range(a)) = Len(a) /\ Len(a) \in Nat
<1>1. a \in [1 .. Len(a) -> Number] /\ Len(a) \in Nat /\ DOMAIN a = 1 .. Len(a)
  OBVIOUS
<1>2. a \in Bijection(1 .. Len(a), Range(a))
  BY <1>1 DEF Bijection, Injection, Surjection, Range
<1>3. IsFiniteSet(1 .. Len(a)) /\ Cardinality(1 .. Len(a)) = Len(a)
  <2>1. PICK n \in Nat : n = Len(a)
    BY <1>1
  <2>2. IsFiniteSet(1 .. n) /\ Cardinality(1 .. n) = n
    BY FS_Interval
  <2> QED
    BY <2>1, <2>2
<1> QED
  BY <1>1, <1>2, <1>3, FS_Bijection DEF ExistsBijection

\* Two lists without duplicates that are as long as each other differ in what they contain if
\* one of them contains what the other does not.
LEMMA DiffersInElements == DestinationsShaped => Hooks!DifferenceIsOfElements
<1> SUFFICES ASSUME DestinationsShaped, IsInjective(ids), IsInjective(storedIds)
             PROVE  Hooks!compareExtraArchivedLogDestIDs(ids, storedIds)
                      <=> ~Hooks!Same(ids, storedIds)
  BY DEF Hooks!DifferenceIsOfElements, Hooks!IsInjective, IsInjective
<1>1. /\ IsFiniteSet(Range(ids)) /\ Cardinality(Range(ids)) = Len(ids)
      /\ IsFiniteSet(Range(storedIds)) /\ Cardinality(Range(storedIds)) = Len(storedIds)
      /\ Len(ids) \in Nat /\ Len(storedIds) \in Nat
  BY LengthCounts DEF DestinationsShaped
<1>2. Hooks!Same(ids, storedIds) <=> Range(ids) = Range(storedIds)
  BY DEF Hooks!Same, Hooks!Range, Range
<1>3. Hooks!compareExtraArchivedLogDestIDs(ids, storedIds)
        <=> Len(ids) # Len(storedIds) \/ ~(Range(storedIds) \subseteq Range(ids))
  BY DEF Hooks!compareExtraArchivedLogDestIDs, Hooks!Range, Range
<1>4. ASSUME Range(storedIds) \subseteq Range(ids), Len(ids) = Len(storedIds)
      PROVE  Range(ids) = Range(storedIds)
  BY <1>1, <1>4, FS_Subset
<1>5. ASSUME Range(ids) = Range(storedIds)
      PROVE  Len(ids) = Len(storedIds) /\ Range(storedIds) \subseteq Range(ids)
  BY <1>1, <1>5
<1> QED
  BY <1>2, <1>3, <1>4, <1>5

\* Log destinations without duplicates are compared as sets, however many they are: a difference
\* is found if and only if the lists have different elements.
THEOREM ComparesElements == Hooks!Spec => []Hooks!DifferenceIsOfElements
<1>1. Hooks!Init => DestinationsShaped
  BY DEF Hooks!Init, DestinationsShaped
<1>2. DestinationsShaped /\ [Hooks!Next]_(Hooks!vars) => DestinationsShaped'
  <2> SUFFICES ASSUME DestinationsShaped, [Hooks!Next]_(Hooks!vars)
               PROVE  DestinationsShaped'
    OBVIOUS
  <2>1. CASE UNCHANGED Hooks!vars
    BY <2>1 DEF Hooks!vars, DestinationsShaped
  <2>2. CASE Hooks!UserEdits
    <3>1. storedIds' = storedIds /\ \E n \in 0 .. MaxLength : ids' \in [1 .. n -> Number]
      BY <2>2 DEF Hooks!UserEdits, Hooks!List, Hooks!SeqOf
    <3> QED
      BY <3>1, TagsAssumption DEF DestinationsShaped
  <2>3. CASE Hooks!ModifyEndpoint
    BY <2>3 DEF Hooks!ModifyEndpoint, DestinationsShaped
  <2> QED
    BY <2>1, <2>2, <2>3 DEF Hooks!Next
<1> QED
  BY <1>1, <1>2, DiffersInElements, PTL DEF Hooks!Spec

-----------------------------------------------------------------------------
(* The tags *)

\* What a pass knows of the lists stays true: the one it works on repeats no key and has AWS's
\* tags as they were read.
THEOREM KnowsTheLists == Spec => []Invariant
<1>1. Init => Invariant
  BY InitShaped
<1>2. Invariant /\ [Next]_vars => Invariant'
  BY NextKeeps
<1> QED
  BY <1>1, <1>2, PTL DEF Spec

\* Every variable of the tags keeps its type.
THEOREM TypeCorrect == Spec => []TypeOK
<1>1. Invariant => TypeOK
  <2> SUFFICES ASSUME Invariant PROVE TypeOK
    OBVIOUS
  <2>1. stored \in Tags
    BY DEF Invariant, Shaped, IsMap, Tags
  <2> QED
    BY <2>1 DEF Invariant, Shaped, List, TypeOK
<1> QED
  BY <1>1, KnowsTheLists, PTL

\* Where the generated comparison sees a difference, and nowhere else, the subtraction by hand
\* finds something to do, and gets to its end, for lists of any length.
THEOREM BothAgree == Spec => []ComparisonsAgree
BY InvariantAgrees, KnowsTheLists, PTL

\* When the tags have been changed AWS has those that the pass works on and the controller's own,
\* and only its own beside them.
THEOREM AppliesTags == Spec => SyncApplies
<1>1. Invariant /\ [Next]_vars =>
        [AddTags =>
           LET wanted == Merge(convertToOrderedACKTags(desired), DefaultTags) IN
             \A k \in Key \ AWSKey :
               /\ k \in DOMAIN stored' <=> k \in DOMAIN wanted
               /\ k \in DOMAIN wanted => stored'[k] = wanted[k]]_vars
  BY AddsAll
<1> QED
  BY <1>1, KnowsTheLists, PTL DEF Spec, SyncApplies

\* No call names one of AWS's tags, and none but the user's are written into Spec.
THEOREM KeepsApart == Spec => TagsStayApart
<1>1. Invariant /\ TouchesNoAWSTag' /\ [Next]_vars =>
        [/\ TouchesNoAWSTag'
         /\ PatchSpec => Keys(spec') \ Keys(spec) \subseteq UserKey \ SystemKey]_vars
  BY Patches
<1> QED
  BY <1>1, TouchesNone, KnowsTheLists, PTL DEF Spec, TagsStayApart
=============================================================================
