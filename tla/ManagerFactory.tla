---------------------------- MODULE ManagerFactory ----------------------------
(***************************************************************************)
(* The cache of resource managers of one kind of resource                  *)
(* (pkg/resource/replication_task/manager_factory.go; the factories of the *)
(* other kinds are the same).  The workers of the kind's work queue call   *)
(* ManagerFor at the start of each pass, for the account, region and role  *)
(* of the resource at hand.                                                *)
(*                                                                         *)
(* The lookup and the store are two critical sections of one RWMutex, and  *)
(* other workers may run between them.                                     *)
(***************************************************************************)
EXTENDS FiniteSets, Naturals

CONSTANTS
  Worker,  \* the workers of the kind (--reconcile-default-max-concurrent-syncs)
  RmId     \* combinations of account, region and role

ASSUME WorkerAssumption == IsFiniteSet(Worker) /\ Worker # {}

VARIABLES
  rmCache,  \* the manager of each combination, 0 when there is none yet
  created,  \* how many managers have been made for each combination
  pc,       \* where each worker is
  rmId,     \* the combination each worker asks for
  rm,       \* the manager each worker has got
  readers,  \* the workers that hold the RWMutex for reading
  writer    \* the worker that holds it for writing, or waits for the readers to leave; one at most

vars == <<rmCache, created, pc, rmId, rm, readers, writer>>

mutex == <<readers, writer>>

\* The n-th manager made for a combination is the number n.
TypeOK ==
  /\ rmCache \in [RmId -> Nat] /\ created \in [RmId -> Nat]
  /\ pc \in [Worker -> {"idle", "rlock", "lookup", "runlock", "found", "lock", "wait", "new",
                      "unlock"}]
  /\ rmId \in [Worker -> RmId]
  /\ rm \in [Worker -> Nat]
  /\ readers \subseteq Worker /\ writer \subseteq Worker

Init ==
  /\ rmCache = [i \in RmId |-> 0] /\ created = [i \in RmId |-> 0]
  /\ pc = [w \in Worker |-> "idle"]
  /\ rmId \in [Worker -> RmId]
  /\ rm = [w \in Worker |-> 0]
  /\ readers = {} /\ writer = {}

-----------------------------------------------------------------------------

Goto(w, from, to) == pc[w] = from /\ pc' = [pc EXCEPT ![w] = to]

\* A worker takes the next resource from the queue.
Call(w) ==
  /\ Goto(w, "idle", "rlock")
  /\ \E i \in RmId : rmId' = [rmId EXCEPT ![w] = i]
  /\ rm' = [rm EXCEPT ![w] = 0]
  /\ UNCHANGED <<rmCache, created, mutex>>

RLock(w) ==
  /\ Goto(w, "rlock", "lookup")
  /\ writer = {} /\ readers' = readers \union {w}
  /\ UNCHANGED <<rmCache, created, rmId, rm, writer>>

Lookup(w) ==
  /\ Goto(w, "lookup", "runlock")
  /\ rm' = [rm EXCEPT ![w] = rmCache[rmId[w]]]
  /\ UNCHANGED <<rmCache, created, rmId, mutex>>

\* Mutant: the read lock is kept.
RUnlock_Forgotten(w) ==
  /\ Goto(w, "runlock", "found")
  /\ UNCHANGED <<rmCache, created, rmId, rm, mutex>>

RUnlock(w) ==
  /\ Goto(w, "runlock", "found")
  /\ readers' = readers \ {w}
  /\ UNCHANGED <<rmCache, created, rmId, rm, writer>>

\* Mutant: what was found is not used.
ReturnFound_Never(w) ==
  /\ Goto(w, "found", "lock")
  /\ UNCHANGED <<rmCache, created, rmId, rm, mutex>>

ReturnFound(w) ==
  /\ Goto(w, "found", IF rm[w] # 0 THEN "idle" ELSE "lock")
  /\ UNCHANGED <<rmCache, created, rmId, rm, mutex>>

\* Lock first keeps later readers out, and other writers.
Announce(w) ==
  /\ Goto(w, "lock", "wait")
  /\ writer = {} /\ writer' = {w}
  /\ UNCHANGED <<rmCache, created, rmId, rm, readers>>

\* Mutant: the write lock does not wait for the readers.
Lock_IgnoresReaders(w) ==
  /\ Goto(w, "wait", "new")
  /\ UNCHANGED <<rmCache, created, rmId, rm, mutex>>

\* Then it waits for the earlier ones to leave.
Lock(w) ==
  /\ Goto(w, "wait", "new")
  /\ readers = {}
  /\ UNCHANGED <<rmCache, created, rmId, rm, mutex>>

\* newResourceManager, and the store.  The cache is not looked up again.
Store(w) ==
  /\ Goto(w, "new", "unlock")
  /\ LET i == rmId[w] IN
       /\ created' = [created EXCEPT ![i] = @ + 1]
       /\ rmCache' = [rmCache EXCEPT ![i] = created[i] + 1]
       /\ rm' = [rm EXCEPT ![w] = created[i] + 1]
  /\ UNCHANGED <<rmId, mutex>>

\* The error branch: nothing is stored, and the deferred Unlock still runs.  (The constructor of
\* this version never takes it.)
NewFails(w) ==
  /\ Goto(w, "new", "unlock")
  /\ UNCHANGED <<rmCache, created, rmId, rm, mutex>>

Unlock(w) ==
  /\ Goto(w, "unlock", "idle")
  /\ writer' = {}
  /\ UNCHANGED <<rmCache, created, rmId, rm, readers>>

ManagerFor(w) ==
  \/ RLock(w) \/ Lookup(w) \/ RUnlock(w) \/ ReturnFound(w)
  \/ Announce(w) \/ Lock(w) \/ Store(w) \/ NewFails(w) \/ Unlock(w)

Next == \E w \in Worker : Call(w) \/ ManagerFor(w)

Spec == Init /\ [][Next]_vars

-----------------------------------------------------------------------------

\* The cache is a Go map: a worker that looks it up and one that stores into it at the same time
\* would end the process.  (The lookup is under RLock, the store under Lock.)
NoMapRace ==
  \A v, w \in Worker : pc[v] = "new" => pc[w] # "lookup" /\ (pc[w] = "new" => v = w)

\* However often ManagerFor is called, a combination gets no more managers than there are
\* workers: only calls that had all missed before the first store make one each.
FewManagers == \A i \in RmId : created[i] <= Cardinality(Worker)

\* The calls never wait for one another in a circle: as long as one is under way, one of them is
\* outside the mutex, or may enter it, or holds it and works.
CanGoOn(w) ==
  \/ pc[w] \in {"lookup", "runlock", "found", "new", "unlock"}
  \/ pc[w] \in {"rlock", "lock"} /\ writer = {}
  \/ pc[w] = "wait" /\ readers = {}

NobodyIsStuck == (\E w \in Worker : pc[w] # "idle") => \E w \in Worker : CanGoOn(w)

\* "This helps us to avoid creating multiple resource managers for the same
\* account/region/roleARN combination."
OneManagerPerId == \A i \in RmId : created[i] <= 1

\* Every call returns: the mutex is given back on every way out of ManagerFor.
CallsReturn == \A w \in Worker : pc[w] # "idle" ~> pc[w] = "idle"

\* A goroutine that can go on does, and the RWMutex passes nobody over for ever.
FairSpec ==
  /\ Spec
  /\ \A w \in Worker :
       /\ WF_vars(\/ Lookup(w) \/ RUnlock(w) \/ ReturnFound(w)
                  \/ Lock(w) \/ Store(w) \/ NewFails(w) \/ Unlock(w))
       /\ SF_vars(RLock(w)) /\ SF_vars(Announce(w))
=============================================================================
