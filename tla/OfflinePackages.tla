-------------------------- MODULE OfflinePackages --------------------------
(* Offline map packages.  A principal asks a data manager for the package of an area; a
   job row records the wish and its owners, a data manager claims the row by a lease,
   extracts the archive, publishes it on the disk all data managers share and completes
   the row, which gives every owner a reference to the package.  Packages nobody refers
   to and no job prepares are deleted when room is needed.

   One step is one database transaction or one operation on the disk; transactions are
   serialized by the advisory locks of PostgresOfflinePackageAccountingStore.  The package
   id is the hash of the request, so Packages stands for both.  A data manager runs one job
   at a time, the default of OFFLINE_PACKAGE_WORKERS.  A principal's byte budget is a free
   choice: it may evict more references or refuse the package.  Left out: invalid requests,
   the byte budget of the disk, the order in which evictable packages and references go
   (oldest first), the ceiling on tracked jobs, and cancelExpiredOfflinePackageJobs, which
   no service calls. *)
EXTENDS Naturals, Sequences, FiniteSets

CONSTANTS
  Workers,      \* data-manager processes
  Principals, Packages,
  NoOne,        \* no lease, no package
  Gone,         \* the owner of a lease whose process has died
  MaxJobs,      \* bound: rows ever inserted
  MaxRunning,   \* OFFLINE_PACKAGE_WORKERS, as the claims use it
  MaxOwnRunning, MaxOwnQueued,   \* live leases and waiting jobs of one principal
  MaxPending,   \* OFFLINE_PACKAGE_MAX_QUEUED_JOBS
  MaxRefs,      \* references of one principal
  MaxPackages,  \* OFFLINE_PACKAGE_MAX_COUNT
  MaxFaults     \* bound: crashes, stalls, failed database calls

ASSUME OwnersAssumption == NoOne \notin Workers /\ Gone \notin Workers /\ NoOne \notin Packages
ASSUME PackagesAssumption == IsFiniteSet(Packages) /\ MaxPackages \in Nat \ {0}
ASSUME BoundsAssumption ==
  {MaxJobs, MaxRunning, MaxOwnRunning, MaxOwnQueued, MaxPending, MaxRefs, MaxFaults} \subseteq Nat

VARIABLES
  status, pkg, owners,   \* offline_package_jobs and offline_package_job_owners
  lease, live,           \* lease_owner; whether lease_expires_at is in the future
  refs,                  \* offline_package_artifact_references
  next,                  \* rows inserted so far
  disk,                  \* packages with a readable manifest and archive
  torn,                  \* history: deleted from the disk by a transaction that was lost
  pc, job,               \* the step of a worker's run, and its job
  pending,               \* jobs the worker will try, in order
  timer,                 \* whether its retry timer is set
  lost,                  \* whether a renewal of the run failed
  cands, used,           \* of ensureCapacity: candidates left, packages counted
  todo,                  \* packages the worker still tries to delete
  queued,                \* history: rows that a data manager took into its queue
  faults

rows == <<status, pkg, owners, lease, live>>
store == <<rows, refs, next>>
run == <<pc, job, pending, lost, cands, used>>
vars == <<store, disk, torn, run, timer, todo, queued, faults>>

Jobs == 1..MaxJobs
Running == {"source", "capacity", "extract", "renew", "publish", "complete", "cleanup",
            "fail", "quota"}

RowTypes ==
  /\ status \in [Jobs -> {"none", "preparing", "ready", "failed", "expired"}]
  /\ pkg \in [Jobs -> Packages \cup {NoOne}] /\ owners \in [Jobs -> SUBSET Principals]
  /\ lease \in [Jobs -> Workers \cup {NoOne, Gone}]
  /\ refs \in [Principals -> SUBSET Packages] /\ next \in 0..MaxJobs

FileTypes ==
  /\ disk \subseteq Packages /\ torn \subseteq Packages
  /\ cands \in [Workers -> SUBSET Packages] /\ used \in [Workers -> Nat]
  /\ todo \in [Workers -> SUBSET Packages]

RunTypes ==
  /\ pc \in [Workers -> Running \cup {"down", "idle", "claim"}]
  /\ job \in [Workers -> Jobs \cup {0}] /\ pending \in [Workers -> Seq(Jobs)]
  /\ \A w \in Workers : pc[w] \in {"down", "idle"} <=> job[w] = 0

Flags ==
  /\ live \in [Jobs -> BOOLEAN]
  /\ timer \in [Workers -> BOOLEAN] /\ lost \in [Workers -> BOOLEAN]

TypeOK ==
  RowTypes /\ FileTypes /\ RunTypes /\ Flags /\ queued \subseteq Jobs /\ faults \in 0..MaxFaults

Init ==
  /\ status = [j \in Jobs |-> "none"] /\ pkg = [j \in Jobs |-> NoOne]
  /\ owners = [j \in Jobs |-> {}]
  /\ lease = [j \in Jobs |-> NoOne] /\ live = [j \in Jobs |-> FALSE]
  /\ refs = [p \in Principals |-> {}] /\ next = 0
  /\ disk = {} /\ torn = {}
  /\ pc = [w \in Workers |-> "idle"] /\ job = [w \in Workers |-> 0]
  /\ pending = [w \in Workers |-> <<>>] /\ timer = [w \in Workers |-> FALSE]
  /\ lost = [w \in Workers |-> FALSE]
  /\ cands = [w \in Workers |-> {}] /\ used = [w \in Workers |-> 0]
  /\ todo = [w \in Workers |-> {}] /\ queued = {} /\ faults = 0

Fault == faults < MaxFaults /\ faults' = faults + 1

-----------------------------------------------------------------------------
(* The accounting store *)

Preparing == {j \in Jobs : status[j] = "preparing"}

(* Mutant: only a job under way protects its package. *)
ProtectedWhileLive(k) == \E j \in Preparing : live[j] /\ pkg[j] = k

Protected(k) == \E j \in Preparing : pkg[j] = k

Live == {j \in Preparing : live[j]}
RunningOf(p) == Cardinality({j \in Live : p \in owners[j]})
QueuedOf(p) == Cardinality({j \in Preparing \ Live : p \in owners[j]})

(* What retainReference may leave a principal with.  References go until the new one is
   within the budgets; those to packages under way are kept. *)
Evictable(p) ==
  {gone \in SUBSET refs[p] :
     (\A r \in gone : ~Protected(r)) /\ Cardinality(refs[p] \ gone) < MaxRefs}

Retained(p, k) ==
  IF k \in refs[p] THEN {refs[p]} ELSE {(refs[p] \ gone) \cup {k} : gone \in Evictable(p)}

(* Mutant: a package between its publication and its completion counts for nothing. *)
UnreferencedIgnoresJobs(k) == \A p \in Principals : k \notin refs[p]

Unreferenced(k) == ~Protected(k) /\ \A p \in Principals : k \notin refs[p]

(* The packages that lost their last reference to a change of refs. *)
Orphaned == {k \in Packages : /\ \E p \in Principals : k \in refs[p] \ refs'[p]
                              /\ \A p \in Principals : k \notin refs'[p]
                              /\ ~Protected(k)}

(* Mutant: rows keep the promise of a package that is gone. *)
InvalidatedNothing(k) == status

(* invalidateArtifact: rows that promise the package expire, references to it go. *)
Invalidated(k) ==
  [j \in Jobs |-> IF status[j] = "ready" /\ pkg[j] = k THEN "expired" ELSE status[j]]

Dropped(k) == [p \in Principals |-> refs[p] \ {k}]

(* Admission: a job under way is joined.  The data manager tracks the row and does not queue
   it, not even one that nobody has queued.  A request of an owner changes nothing. *)
Join(w, p, k) ==
  /\ pc[w] # "down"
  /\ \E j \in Preparing :
       /\ pkg[j] = k /\ p \notin owners[j]
       /\ IF live[j] THEN RunningOf(p) < MaxOwnRunning ELSE QueuedOf(p) < MaxOwnQueued
       /\ owners' = [owners EXCEPT ![j] = @ \cup {p}]
  /\ UNCHANGED <<status, pkg, lease, live, refs, next, disk, torn, run, timer, todo, queued, faults>>

(* Admission: a published package is handed out. *)
Reuse(w, p, k) ==
  /\ pc[w] # "down" /\ ~Protected(k) /\ k \in disk
  /\ \E r \in Retained(p, k) : refs' = [refs EXCEPT ![p] = r]
  /\ \/ \E j \in Jobs :
          /\ status[j] = "ready" /\ pkg[j] = k
          /\ owners' = [owners EXCEPT ![j] = @ \cup {p}]
          /\ UNCHANGED <<status, pkg, next>>
     \/ /\ ~\E j \in Jobs : status[j] = "ready" /\ pkg[j] = k
        /\ next < MaxJobs /\ next' = next + 1
        /\ status' = [status EXCEPT ![next'] = "ready"]
        /\ pkg' = [pkg EXCEPT ![next'] = k]
        /\ owners' = [owners EXCEPT ![next'] = {p}]
  /\ todo' = [todo EXCEPT ![w] = @ \cup Orphaned]
  /\ UNCHANGED <<lease, live, disk, torn, run, timer, queued, faults>>

(* Mutant: the job of the last run is still held as in flight. *)
DrainKeepsJob(w, q) ==
  IF q = <<>>
  THEN pc' = [pc EXCEPT ![w] = "idle"] /\ pending' = [pending EXCEPT ![w] = q] /\ job' = job
  ELSE /\ pc' = [pc EXCEPT ![w] = "claim"] /\ job' = [job EXCEPT ![w] = Head(q)]
       /\ pending' = [pending EXCEPT ![w] = Tail(q)]

(* The trailing drain(): a worker without a run takes the next of its pending jobs. *)
Drain(w, q) ==
  IF q = <<>>
  THEN /\ pc' = [pc EXCEPT ![w] = "idle"] /\ job' = [job EXCEPT ![w] = 0]
       /\ pending' = [pending EXCEPT ![w] = q]
  ELSE /\ pc' = [pc EXCEPT ![w] = "claim"] /\ job' = [job EXCEPT ![w] = Head(q)]
       /\ pending' = [pending EXCEPT ![w] = Tail(q)]

Schedule(w, q) ==
  IF pc[w] = "idle" THEN Drain(w, q)
  ELSE pending' = [pending EXCEPT ![w] = q] /\ UNCHANGED <<pc, job>>

(* Admission: a new row, and what an earlier one promised is withdrawn.  When the answer of
   the transaction is lost the row is there, and no data manager has it in its queue. *)
Queue(w, p, k) ==
  /\ pc[w] # "down" /\ ~Protected(k) /\ k \notin disk
  /\ Len(pending[w]) < MaxPending /\ QueuedOf(p) < MaxOwnQueued
  /\ Cardinality(Preparing \ Live) < MaxPending
  /\ next < MaxJobs /\ next' = next + 1
  /\ status' = [Invalidated(k) EXCEPT ![next'] = "preparing"]
  /\ refs' = Dropped(k) /\ torn' = torn \ {k}
  /\ pkg' = [pkg EXCEPT ![next'] = k] /\ owners' = [owners EXCEPT ![next'] = {p}]
  /\ \/ /\ Schedule(w, Append(pending[w], next')) /\ queued' = queued \cup {next'}
        /\ UNCHANGED faults
     \/ Fault /\ UNCHANGED <<pc, job, pending, queued>>
  /\ UNCHANGED <<lease, live, disk, lost, cands, used, timer, todo>>

(* Rows that are over are forgotten after their time; references stay, and so does the
   package a worker that still runs the job has in its own record. *)
RemoveTerminal(j) ==
  /\ status[j] \in {"ready", "failed", "expired"}
  /\ status' = [status EXCEPT ![j] = "none"]
  /\ owners' = [owners EXCEPT ![j] = {}]
  /\ UNCHANGED <<pkg, lease, live, refs, next, disk, torn, run, timer, todo, queued, faults>>

-----------------------------------------------------------------------------
(* Deletion, under the global lock: kept when it is referred to, prepared or streamed, or
   cannot be deleted; otherwise deleted and withdrawn.  When the transaction is lost after
   the deletion, rows still promise what is gone.  (The connection that holds the lock is
   assumed to last from the check to the deletion, which follows it at once.) *)
RemoveUnreferenced(k) ==
  /\ Unreferenced(k)
  /\ disk' = disk \ {k} /\ torn' = torn \ {k}
  /\ status' = Invalidated(k) /\ refs' = Dropped(k)
  /\ UNCHANGED faults

RemovalLost(k) ==
  /\ Unreferenced(k) /\ k \in disk /\ Fault
  /\ disk' = disk \ {k} /\ torn' = torn \cup {k}
  /\ UNCHANGED <<status, refs>>

Remove(k) == RemoveUnreferenced(k) \/ RemovalLost(k) \/ UNCHANGED <<disk, torn, status, refs, faults>>

RemoveTodo(w) ==
  /\ \E k \in todo[w] : Remove(k) /\ todo' = [todo EXCEPT ![w] = @ \ {k}]
  /\ UNCHANGED <<pkg, owners, lease, live, next, run, timer, queued>>

-----------------------------------------------------------------------------
(* The run of a job *)

Goto(w, p) == pc' = [pc EXCEPT ![w] = p]
Holds(w) == status[job[w]] = "preparing" /\ lease[job[w]] = w

(* Mutant: a refused claim or a failed report is not tried again. *)
OverForgets(w, retry) ==
  /\ Drain(w, pending[w])
  /\ lost' = [lost EXCEPT ![w] = FALSE] /\ UNCHANGED <<timer, cands, used>>

(* The run is over; with retry, the timer is set as well. *)
Over(w, retry) ==
  /\ Drain(w, pending[w])
  /\ timer' = [timer EXCEPT ![w] = @ \/ retry] /\ lost' = [lost EXCEPT ![w] = FALSE]
  /\ UNCHANGED <<cands, used>>

Claimable(w, j) ==
  /\ status[j] = "preparing"
  /\ \/ lease[j] = w /\ live[j]
     \/ /\ Cardinality(Live) < MaxRunning
        /\ \A p \in owners[j] : RunningOf(p) < MaxOwnRunning

Granted(w) ==
  lease' = [lease EXCEPT ![job[w]] = w] /\ live' = [live EXCEPT ![job[w]] = TRUE]

(* A claim that is refused, or fails before or after its commit, is retried later. *)
Claim(w) ==
  /\ pc[w] = "claim"
  /\ \/ /\ Claimable(w, job[w]) /\ Granted(w) /\ Goto(w, "source")
        /\ UNCHANGED <<job, pending, timer, lost, cands, used, faults>>
     \/ /\ ~Claimable(w, job[w]) /\ Over(w, TRUE) /\ UNCHANGED <<lease, live, faults>>
     \/ /\ Claimable(w, job[w]) /\ Fault /\ Over(w, TRUE)
        /\ Granted(w) \/ UNCHANGED <<lease, live>>
  /\ UNCHANGED <<status, pkg, owners, refs, next, disk, torn, todo, queued>>

(* Every step of the run may throw: a changed source, no room, a failed extraction. *)
Throw(w) ==
  /\ pc[w] \in {"source", "capacity", "extract", "publish"} /\ Goto(w, "fail")
  /\ cands' = [cands EXCEPT ![w] = {}] /\ used' = [used EXCEPT ![w] = 0]
  /\ UNCHANGED <<store, disk, torn, job, pending, lost, timer, todo, queued, faults>>

(* ensureCapacity lists the packages; the newest of the current dataset is kept. *)
ListPackages(w) ==
  /\ pc[w] = "source" /\ Goto(w, "capacity")
  /\ \E newest \in SUBSET disk :
       Cardinality(newest) <= 1 /\ cands' = [cands EXCEPT ![w] = disk \ newest]
  /\ used' = [used EXCEPT ![w] = Cardinality(disk)]
  /\ UNCHANGED <<store, disk, torn, job, pending, lost, timer, todo, queued, faults>>

(* One candidate after the other is deleted while the budget is used up.  A deletion that
   was not confirmed is not counted. *)
EnsureCapacity(w) ==
  /\ pc[w] = "capacity" /\ used[w] >= MaxPackages
  /\ \E k \in cands[w] :
       /\ cands' = [cands EXCEPT ![w] = @ \ {k}]
       /\ \/ RemoveUnreferenced(k) /\ used' = [used EXCEPT ![w] = @ - 1]
          \/ Remove(k) /\ UNCHANGED used
  /\ UNCHANGED <<pkg, owners, lease, live, next, pc, job, pending, lost, timer, todo, queued>>

Extract(w) ==
  /\ \/ /\ pc[w] = "capacity" /\ used[w] < MaxPackages /\ Goto(w, "extract")
        /\ cands' = [cands EXCEPT ![w] = {}] /\ used' = [used EXCEPT ![w] = 0]
     \/ pc[w] = "extract" /\ Goto(w, "renew") /\ UNCHANGED <<cands, used>>
  /\ UNCHANGED <<store, disk, torn, job, pending, lost, timer, todo, queued, faults>>

(* The renewal timer of the run. *)
Renew(w) ==
  /\ pc[w] \in Running
  /\ IF Holds(w) THEN live' = [live EXCEPT ![job[w]] = TRUE] /\ UNCHANGED lost
                 ELSE lost' = [lost EXCEPT ![w] = TRUE] /\ UNCHANGED live
  /\ UNCHANGED <<status, pkg, owners, lease, refs, next, disk, torn, pc, job, pending,
                 cands, used, timer, todo, queued, faults>>

RenewFails(w) ==
  /\ pc[w] \in Running /\ Fault /\ lost' = [lost EXCEPT ![w] = TRUE]
  /\ UNCHANGED <<store, disk, torn, pc, job, pending, cands, used, timer, todo, queued>>

(* The lease is renewed once more before anything is published. *)
Confirm(w) ==
  /\ pc[w] = "renew"
  /\ IF Holds(w) /\ ~lost[w]
     THEN live' = [live EXCEPT ![job[w]] = TRUE] /\ Goto(w, "publish")
     ELSE Goto(w, "fail") /\ UNCHANGED live
  /\ UNCHANGED <<status, pkg, owners, lease, refs, next, disk, torn, job, pending, lost,
                 cands, used, timer, todo, queued, faults>>

PublishPackage(w) ==
  /\ pc[w] = "publish" /\ Goto(w, "complete")
  /\ disk' = disk \cup {pkg[job[w]]} /\ torn' = torn \ {pkg[job[w]]}
  /\ UNCHANGED <<store, job, pending, lost, cands, used, timer, todo, queued, faults>>

(* Every owner gets a reference, or none does. *)
Complete(w) ==
  LET j == job[w] IN
  /\ pc[w] = "complete" /\ Holds(w)
  /\ refs' \in [Principals -> SUBSET Packages]
  /\ \A p \in Principals : IF p \in owners[j] THEN refs'[p] \in Retained(p, pkg[j])
                                              ELSE refs'[p] = refs[p]
  /\ status' = [status EXCEPT ![j] = "ready"]
  /\ lease' = [lease EXCEPT ![j] = NoOne] /\ live' = [live EXCEPT ![j] = FALSE]
  /\ \/ Goto(w, "cleanup") /\ todo' = [todo EXCEPT ![w] = @ \cup Orphaned] /\ UNCHANGED faults
     \/ Goto(w, "fail") /\ Fault /\ UNCHANGED todo   \* committed, and the answer was lost
  /\ UNCHANGED <<pkg, owners, next, disk, torn, job, pending, lost, cands, used, timer, queued>>

(* The lease is another's, the transaction fails, or an owner's budget refuses. *)
CompleteRefused(w) ==
  /\ pc[w] = "complete"
  /\ \/ ~Holds(w) /\ Goto(w, "fail") /\ UNCHANGED faults
     \/ Holds(w) /\ Fault /\ Goto(w, "fail")
     \/ Holds(w) /\ Goto(w, "quota") /\ UNCHANGED faults
  /\ UNCHANGED <<store, disk, torn, job, pending, lost, cands, used, timer, todo, queued>>

(* The catch block.  A package published for a job that its owners' budgets refused is
   offered for deletion, unless the report fails, before or after its commit. *)
Failed(w) ==
  IF Holds(w) THEN /\ status' = [status EXCEPT ![job[w]] = "failed"]
                   /\ lease' = [lease EXCEPT ![job[w]] = NoOne]
                   /\ live' = [live EXCEPT ![job[w]] = FALSE]
              ELSE UNCHANGED <<status, lease, live>>

Fail(w) ==
  /\ pc[w] \in {"fail", "quota"} /\ Failed(w)
  /\ todo' = IF pc[w] = "quota" THEN [todo EXCEPT ![w] = @ \cup {pkg[job[w]]}] ELSE todo
  /\ Goto(w, "cleanup")
  /\ UNCHANGED <<pkg, owners, refs, next, disk, torn, job, pending, lost, cands, used, timer,
                 queued, faults>>

FailFails(w) ==
  /\ pc[w] \in {"fail", "quota"} /\ Fault /\ Over(w, TRUE)
  /\ Failed(w) \/ UNCHANGED <<status, lease, live>>
  /\ UNCHANGED <<pkg, owners, refs, next, disk, torn, todo, queued>>

Finish(w) ==
  /\ pc[w] = "cleanup" /\ todo[w] = {} /\ Over(w, FALSE)
  /\ UNCHANGED <<store, disk, torn, todo, queued, faults>>

-----------------------------------------------------------------------------
(* Retry, restart and the clock *)

(* The jobs of S: those of q first, in its order, then the others in the order of creation. *)
Rank(q, j) == IF \E i \in DOMAIN q : q[i] = j THEN CHOOSE i \in DOMAIN q : q[i] = j ELSE Len(q) + j

Orders(S, q) ==
  {s \in [1..Cardinality(S) -> S] :
     \A i, j \in DOMAIN s : i < j => Rank(q, s[i]) < Rank(q, s[j])}

ReloadRunnableJobs(w) ==
  /\ pc[w] # "down" /\ timer[w] /\ timer' = [timer EXCEPT ![w] = FALSE]
  /\ \E s \in Orders(Preparing \ {job[w]}, pending[w]) : Schedule(w, s)
  /\ queued' = queued \cup Preparing
  /\ UNCHANGED <<store, disk, torn, lost, cands, used, todo, faults>>

(* A new process has a new worker id: the leases of the old one belong to nobody. *)
Crash(w) ==
  /\ pc[w] # "down" /\ Fault /\ Goto(w, "down")
  /\ job' = [job EXCEPT ![w] = 0] /\ pending' = [pending EXCEPT ![w] = <<>>]
  /\ timer' = [timer EXCEPT ![w] = FALSE] /\ lost' = [lost EXCEPT ![w] = FALSE]
  /\ todo' = [todo EXCEPT ![w] = {}]
  /\ cands' = [cands EXCEPT ![w] = {}] /\ used' = [used EXCEPT ![w] = 0]
  /\ lease' = [j \in Jobs |-> IF lease[j] = w THEN Gone ELSE lease[j]]
  /\ UNCHANGED <<status, pkg, owners, live, refs, next, disk, torn, queued>>

(* A start.  reconcileOfflinePackageStorage clears what is not a published package: of a
   run elsewhere the archive it still extracts (Throw). *)
Initialize(w) ==
  /\ pc[w] = "down"
  /\ \E s \in Orders(Preparing, <<>>) : Drain(w, s)
  /\ queued' = queued \cup Preparing
  /\ UNCHANGED <<store, disk, torn, lost, cands, used, timer, todo, faults>>

(* A lease that its owner's run does not renew lapses; another one only when the process
   or its database connection stalls. *)
Renewed(j) == \E w \in Workers : lease[j] = w /\ job[w] = j /\ pc[w] \in Running

Lapse(j) ==
  /\ live[j] /\ ~Renewed(j) /\ live' = [live EXCEPT ![j] = FALSE]
  /\ UNCHANGED <<status, pkg, owners, lease, refs, next, disk, torn, run, timer, todo, queued, faults>>

Stall(j) ==
  /\ live[j] /\ Renewed(j) /\ Fault /\ live' = [live EXCEPT ![j] = FALSE]
  /\ UNCHANGED <<status, pkg, owners, lease, refs, next, disk, torn, run, timer, todo, queued>>

-----------------------------------------------------------------------------
Step(w) ==
  \/ Claim(w) \/ ListPackages(w) \/ EnsureCapacity(w) \/ Extract(w) \/ Confirm(w)
  \/ PublishPackage(w) \/ Complete(w) \/ CompleteRefused(w) \/ Throw(w)
  \/ Fail(w) \/ FailFails(w) \/ RemoveTodo(w) \/ Finish(w)

Next ==
  \/ \E w \in Workers, p \in Principals, k \in Packages :
       Join(w, p, k) \/ Reuse(w, p, k) \/ Queue(w, p, k)
  \/ \E w \in Workers :
       \/ Step(w) \/ Renew(w) \/ RenewFails(w)
       \/ ReloadRunnableJobs(w) \/ Crash(w) \/ Initialize(w)
  \/ \E j \in Jobs : RemoveTerminal(j) \/ Lapse(j) \/ Stall(j)

Spec == Init /\ [][Next]_vars

Fairness ==
  /\ \A w \in Workers : WF_vars(Step(w)) /\ WF_vars(ReloadRunnableJobs(w)) /\ WF_vars(Initialize(w))
  /\ \A j \in Jobs : WF_vars(Lapse(j))

FairSpec == Spec /\ Fairness

-----------------------------------------------------------------------------
(* Properties *)

(* A package somebody refers to is on the disk, whichever worker published it and whatever
   was deleted, lost or crashed between its publication and the completion of the job. *)
ReferencedIsPublished == \A p \in Principals : refs[p] \subseteq disk

(* A job that promises a download can keep it, unless a deletion was cut off between the
   disk and the database. *)
ReadyIsPublished == \A j \in Jobs : status[j] = "ready" => pkg[j] \in disk \cup torn

(* Two data managers never work for the same package under two rows. *)
OneRowPerPackage ==
  \A i, j \in Jobs : {status[i], status[j]} \subseteq {"preparing", "ready"} /\ pkg[i] = pkg[j] => i = j

(* Every job that a data manager took into its queue comes to an end, also when the worker
   that runs it dies, loses its lease or cannot report: it never happens that from some
   point on there is always such a job in preparation.  Nothing is said of a row that no
   data manager has queued: its admission was committed and the answer lost, and a caller
   who joins it is told that it is being prepared, but it waits until some data manager
   reloads its queue or starts. *)
JobsSettle == []<>(Preparing \cap queued = {})
=============================================================================
