------------------------- MODULE ManagerFactoryProofs -------------------------
(* Theorems about ManagerFactory, for every number of workers and combinations. *)
EXTENDS ManagerFactory, FiniteSetTheorems, TLAPS

-----------------------------------------------------------------------------
(* Types *)

\* Every variable keeps its type through lookups, stores and failures of ManagerFor.
THEOREM TypeCorrect == Spec => []TypeOK
<1> USE DEF TypeOK
<1>1. Init => TypeOK
  BY DEF Init
<1>2. TypeOK /\ [Next]_vars => TypeOK'
  <2> SUFFICES ASSUME TypeOK, [Next]_vars PROVE TypeOK'
    OBVIOUS
  <2> USE DEF Goto, mutex
  <2>1. ASSUME NEW w \in Worker, Call(w) PROVE TypeOK'
    BY <2>1 DEF Call
  <2>2. ASSUME NEW w \in Worker, RLock(w) \/ Lookup(w) \/ RUnlock(w) \/ ReturnFound(w)
        PROVE  TypeOK'
    BY <2>2 DEF RLock, Lookup, RUnlock, ReturnFound
  <2>3. ASSUME NEW w \in Worker,
               Announce(w) \/ Lock(w) \/ Store(w) \/ NewFails(w) \/ Unlock(w)
        PROVE  TypeOK'
    BY <2>3 DEF Announce, Lock, Store, NewFails, Unlock
  <2>4. CASE UNCHANGED vars
    BY <2>4 DEF vars
  <2> QED
    BY <2>1, <2>2, <2>3, <2>4 DEF Next, ManagerFor
<1> QED
  BY <1>1, <1>2, PTL DEF Spec

-----------------------------------------------------------------------------
(* The mutex *)

\* The sections of the code in which the mutex is held, and that it excludes what it should.
Locked ==
  /\ \A w \in Worker : pc[w] \in {"lookup", "runlock"} => w \in readers
  /\ \A w \in Worker : pc[w] \in {"wait", "new", "unlock"} => writer = {w}
  /\ \A w \in Worker : pc[w] \in {"new", "unlock"} => readers = {}

\* No worker stores into the map while another one looks it up or stores: the lookup of
\* ManagerFor is under RLock and its store under Lock.
THEOREM MapIsSafe == Spec => []NoMapRace
<1>1. Init => Locked
  BY DEF Init, Locked
<1>2. TypeOK /\ Locked /\ [Next]_vars => Locked'
  <2> SUFFICES ASSUME TypeOK, Locked, [Next]_vars PROVE Locked'
    OBVIOUS
  <2> USE DEF Goto, mutex, Locked, TypeOK
  <2>1. ASSUME NEW w \in Worker, Call(w) \/ ReturnFound(w) PROVE Locked'
    BY <2>1 DEF Call, ReturnFound
  <2>2. ASSUME NEW w \in Worker, RLock(w) PROVE Locked'
    BY <2>2 DEF RLock
  <2>3. ASSUME NEW w \in Worker, Lookup(w) PROVE Locked'
    BY <2>3 DEF Lookup
  <2>4. ASSUME NEW w \in Worker, RUnlock(w) PROVE Locked'
    BY <2>4 DEF RUnlock
  <2>5. ASSUME NEW w \in Worker, Announce(w) \/ Lock(w) PROVE Locked'
    BY <2>5 DEF Announce, Lock
  <2>6. ASSUME NEW w \in Worker, Store(w) \/ NewFails(w) PROVE Locked'
    BY <2>6 DEF Store, NewFails
  <2>7. ASSUME NEW w \in Worker, Unlock(w) PROVE Locked'
    BY <2>7 DEF Unlock
  <2>8. CASE UNCHANGED vars
    BY <2>8 DEF vars
  <2> QED
    BY <2>1, <2>2, <2>3, <2>4, <2>5, <2>6, <2>7, <2>8 DEF Next, ManagerFor
<1>3. Locked => NoMapRace
  BY DEF Locked, NoMapRace
<1> QED
  BY <1>1, <1>2, <1>3, TypeCorrect, PTL DEF Spec

\* Whoever is in the mutex is at a step of the code that leads out of it.
Owned ==
  /\ \A w \in readers : pc[w] \in {"lookup", "runlock"}
  /\ \A w \in writer : pc[w] \in {"wait", "new", "unlock"}

\* Every way through ManagerFor gives back what it has taken, so a call that waits for the mutex
\* waits for a call that goes on.
THEOREM CallsGoOn == Spec => []NobodyIsStuck
<1>1. Init => Owned
  BY DEF Init, Owned
<1>2. TypeOK /\ Owned /\ [Next]_vars => Owned'
  <2> SUFFICES ASSUME TypeOK, Owned, [Next]_vars PROVE Owned'
    OBVIOUS
  <2> USE DEF Goto, mutex, Owned, TypeOK
  <2>1. ASSUME NEW w \in Worker, Call(w) \/ ReturnFound(w) PROVE Owned'
    BY <2>1 DEF Call, ReturnFound
  <2>2. ASSUME NEW w \in Worker, RLock(w) PROVE Owned'
    BY <2>2 DEF RLock
  <2>3. ASSUME NEW w \in Worker, Lookup(w) PROVE Owned'
    BY <2>3 DEF Lookup
  <2>4. ASSUME NEW w \in Worker, RUnlock(w) PROVE Owned'
    BY <2>4 DEF RUnlock
  <2>5. ASSUME NEW w \in Worker, Announce(w) \/ Lock(w) PROVE Owned'
    BY <2>5 DEF Announce, Lock
  <2>6. ASSUME NEW w \in Worker, Store(w) \/ NewFails(w) PROVE Owned'
    BY <2>6 DEF Store, NewFails
  <2>7. ASSUME NEW w \in Worker, Unlock(w) PROVE Owned'
    BY <2>7 DEF Unlock
  <2>8. CASE UNCHANGED vars
    BY <2>8 DEF vars
  <2> QED
    BY <2>1, <2>2, <2>3, <2>4, <2>5, <2>6, <2>7, <2>8 DEF Next, ManagerFor
<1>3. TypeOK /\ Owned => NobodyIsStuck
  <2> SUFFICES ASSUME TypeOK, Owned, NEW w \in Worker, pc[w] # "idle"
               PROVE  \E v \in Worker : CanGoOn(v)
    BY DEF NobodyIsStuck
  <2>1. CASE readers # {}
    <3>1. PICK v \in readers : pc[v] \in {"lookup", "runlock"}
      BY <2>1 DEF Owned
    <3> QED
      BY <3>1 DEF CanGoOn, TypeOK
  <2>2. CASE readers = {} /\ writer # {}
    <3>1. PICK v \in writer : pc[v] \in {"wait", "new", "unlock"}
      BY <2>2 DEF Owned
    <3> QED
      BY <2>2, <3>1 DEF CanGoOn, TypeOK
  <2>3. CASE readers = {} /\ writer = {}
    BY <2>3 DEF CanGoOn, TypeOK
  <2> QED
    BY <2>1, <2>2, <2>3
<1> QED
  BY <1>1, <1>2, <1>3, TypeCorrect, PTL DEF Spec

-----------------------------------------------------------------------------
(* How many managers there are *)

\* The workers that have missed in the cache and may still make a manager for i.
Missed(i) == {w \in Worker : /\ rmId[w] = i
                             /\ \/ pc[w] \in {"runlock", "found"} /\ rm[w] = 0
                                \/ pc[w] \in {"lock", "wait", "new"}}

\* A manager that is made is paid for by a worker that has missed, and nobody misses any more
\* once there is one.
Paid == \A i \in RmId : /\ rmCache[i] = created[i]
                        /\ created[i] + Cardinality(Missed(i)) <= Cardinality(Worker)

LEMMA MissedIsFinite ==
  ASSUME NEW i PROVE IsFiniteSet(Missed(i)) /\ Cardinality(Missed(i)) \in Nat
                     /\ Cardinality(Missed(i)) <= Cardinality(Worker)
                     /\ Cardinality(Worker) \in Nat
  BY WorkerAssumption, FS_Subset, FS_CardinalityType DEF Missed

\* A step that makes no manager and lets nobody miss costs nothing.
LEMMA NobodyMisses ==
  ASSUME TypeOK, Paid, UNCHANGED <<rmCache, created>>,
         NEW i \in RmId, Missed(i)' \subseteq Missed(i)
  PROVE  created'[i] + Cardinality(Missed(i)') <= Cardinality(Worker)
<1>1. Cardinality(Missed(i)') <= Cardinality(Missed(i))
  BY MissedIsFinite, FS_Subset
<1>2. IsFiniteSet(Missed(i)') /\ Cardinality(Missed(i)') \in Nat
  BY MissedIsFinite, FS_Subset, FS_CardinalityType
<1> QED
  BY <1>1, <1>2, MissedIsFinite DEF Paid, TypeOK

\* ManagerFor looks the cache up once, so two workers may make a manager for the same
\* combination; but never more managers than workers are made, in however many calls.
THEOREM ManagersAreFew == Spec => []FewManagers
<1>1. Init => Paid
  <2> SUFFICES ASSUME Init, NEW i \in RmId
               PROVE  rmCache[i] = created[i]
                      /\ created[i] + Cardinality(Missed(i)) <= Cardinality(Worker)
    BY DEF Paid
  <2> QED
    BY MissedIsFinite DEF Init
<1>2. TypeOK /\ Paid /\ [Next]_vars => Paid'
  <2> SUFFICES ASSUME TypeOK, Paid, [Next]_vars, NEW i \in RmId
               PROVE  rmCache'[i] = created'[i]
                      /\ created'[i] + Cardinality(Missed(i)') <= Cardinality(Worker)
    BY DEF Paid
  <2> USE DEF Goto, mutex, TypeOK
  <2>same. ASSUME UNCHANGED <<rmCache, created>>, Missed(i)' \subseteq Missed(i)
           PROVE  rmCache'[i] = created'[i]
                  /\ created'[i] + Cardinality(Missed(i)') <= Cardinality(Worker)
    BY <2>same, NobodyMisses DEF Paid
  <2>1. ASSUME NEW w \in Worker, Call(w) \/ RLock(w) \/ RUnlock(w) \/ ReturnFound(w)
        PROVE  UNCHANGED <<rmCache, created>> /\ Missed(i)' \subseteq Missed(i)
    BY <2>1 DEF Call, RLock, RUnlock, ReturnFound, Missed
  <2>2. ASSUME NEW w \in Worker, Announce(w) \/ Lock(w) \/ NewFails(w) \/ Unlock(w)
        PROVE  UNCHANGED <<rmCache, created>> /\ Missed(i)' \subseteq Missed(i)
    BY <2>2 DEF Announce, Lock, NewFails, Unlock, Missed
  <2>3. ASSUME NEW w \in Worker, Lookup(w)
        PROVE  rmCache'[i] = created'[i]
               /\ created'[i] + Cardinality(Missed(i)') <= Cardinality(Worker)
    <3>1. UNCHANGED <<rmCache, created>>
      BY <2>3 DEF Lookup
    \* Whoever misses finds that no manager has been made.
    <3>2. CASE created[i] = 0
      <4>1. IsFiniteSet(Missed(i)') /\ Cardinality(Missed(i)') <= Cardinality(Worker)
        BY WorkerAssumption, FS_Subset DEF Missed
      <4>2. Cardinality(Missed(i)') \in Nat /\ Cardinality(Worker) \in Nat
        BY <4>1, WorkerAssumption, FS_CardinalityType
      <4> QED
        BY <3>1, <3>2, <4>1, <4>2 DEF Paid
    <3>3. CASE created[i] # 0
      <4>1. rmCache[i] # 0
        BY <3>3 DEF Paid
      <4>2. Missed(i)' \subseteq Missed(i)
        BY <2>3, <4>1 DEF Lookup, Missed
      <4> QED
        BY <2>same, <3>1, <4>2
    <3> QED
      BY <3>2, <3>3
  <2>4. ASSUME NEW w \in Worker, Store(w)
        PROVE  rmCache'[i] = created'[i]
               /\ created'[i] + Cardinality(Missed(i)') <= Cardinality(Worker)
    <3>1. CASE rmId[w] = i
      <4>1. w \in Missed(i)
        BY <2>4, <3>1 DEF Store, Missed
      <4>2. Missed(i)' = Missed(i) \ {w}
        BY <2>4 DEF Store, Missed
      <4>3. Cardinality(Missed(i)') = Cardinality(Missed(i)) - 1
        BY <4>1, <4>2, MissedIsFinite, FS_RemoveElement
      <4>4. created'[i] = created[i] + 1 /\ rmCache'[i] = created[i] + 1
        BY <2>4, <3>1 DEF Store
      <4> QED
        BY <4>3, <4>4, MissedIsFinite DEF Paid
    <3>2. CASE rmId[w] # i
      <4>1. Missed(i)' = Missed(i)
        BY <2>4, <3>2 DEF Store, Missed
      <4>2. created'[i] = created[i] /\ rmCache'[i] = rmCache[i]
        BY <2>4, <3>2 DEF Store
      <4> QED
        BY <4>1, <4>2 DEF Paid
    <3> QED
      BY <3>1, <3>2
  <2>5. CASE UNCHANGED vars
    BY <2>5, <2>same DEF vars, Missed
  <2> QED
    BY <2>same, <2>1, <2>2, <2>3, <2>4, <2>5 DEF Next, ManagerFor
<1>3. TypeOK /\ Paid => FewManagers
  BY MissedIsFinite DEF Paid, FewManagers, TypeOK
<1> QED
  BY <1>1, <1>2, <1>3, TypeCorrect, PTL DEF Spec
=============================================================================
