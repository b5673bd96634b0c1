----------------------- MODULE OfflinePackagesProofs -----------------------
(* Proofs about the offline packages, for any number of data managers, principals, packages,
   jobs and faults.  The critical stretch is the one between the publication of a package and
   the completion of its job: nobody refers to the package yet, and only the row of the job
   keeps it from being deleted. *)
EXTENDS OfflinePackages, FiniteSetTheorems, TLAPS

(* Rows in use have a package; a run is about one of them. *)
Known ==
  /\ \A j \in Jobs : status[j] # "none" => j <= next
  /\ \A j \in Jobs : j <= next => pkg[j] \in Packages
  /\ \A w \in Workers : pc[w] \in Running => job[w] <= next

(* A published package waits for the completion of its job. *)
AwaitsCompletion ==
  \A w \in Workers : pc[w] = "complete" /\ status[job[w]] = "preparing" => pkg[job[w]] \in disk

Kept == AwaitsCompletion /\ ReferencedIsPublished /\ ReadyIsPublished /\ OneRowPerPackage
IndInv == TypeOK /\ Known /\ Kept

-----------------------------------------------------------------------------
(* Helpers *)

LEMMA MaxJobsNat == MaxJobs \in Nat /\ MaxFaults \in Nat /\ 0 \notin Jobs
  BY BoundsAssumption DEF Jobs

(* What a principal is left with is what it had, and the package. *)
LEMMA RetainedBound ==
  ASSUME NEW p \in Principals, NEW k \in Packages, NEW r \in Retained(p, k)
  PROVE  r \subseteq refs[p] \cup {k}
  BY DEF Retained, Evictable

(* A queue made of rows is a queue. *)
LEMMA OrdersAreQueues ==
  ASSUME NEW S \in SUBSET Jobs, NEW q, NEW s \in Orders(S, q)
  PROVE  s \in Seq(Jobs)
<1>1. IsFiniteSet(Jobs)
  BY MaxJobsNat, FS_Interval DEF Jobs
<1>2. Cardinality(S) \in Nat
  BY <1>1, FS_Subset, FS_CardinalityType
<1>3. s \in [1..Cardinality(S) -> Jobs]
  BY DEF Orders
<1> QED
  BY <1>2, <1>3

LEMMA DrainTypes ==
  ASSUME RunTypes, NEW w \in Workers, NEW q \in Seq(Jobs), Drain(w, q)
  PROVE  RunTypes'
<1>1. CASE q = <<>>
  BY <1>1, MaxJobsNat DEF RunTypes, Drain, Running
<1>2. CASE q # <<>>
  <2>1. Head(q) \in Jobs /\ Tail(q) \in Seq(Jobs)
    BY <1>2
  <2> QED
    BY <1>2, <2>1, MaxJobsNat DEF RunTypes, Drain, Running
<1> QED
  BY <1>1, <1>2

LEMMA ScheduleTypes ==
  ASSUME RunTypes, NEW w \in Workers, NEW q \in Seq(Jobs), Schedule(w, q)
  PROVE  RunTypes'
<1>1. CASE pc[w] = "idle"
  BY <1>1, DrainTypes DEF Schedule
<1>2. CASE pc[w] # "idle"
  BY <1>2 DEF Schedule, RunTypes
<1> QED
  BY <1>1, <1>2

(* The end of a run keeps the types. *)
LEMMA OverTypes ==
  ASSUME TypeOK, NEW w \in Workers, NEW retry \in BOOLEAN, Over(w, retry)
  PROVE  /\ RunTypes'
         /\ timer' \in [Workers -> BOOLEAN] /\ lost' \in [Workers -> BOOLEAN]
         /\ UNCHANGED <<cands, used>>
<1>1. pending[w] \in Seq(Jobs)
  BY DEF TypeOK, RunTypes
<1>2. RunTypes'
  BY <1>1, DrainTypes DEF Over, TypeOK
<1>3. timer' \in [Workers -> BOOLEAN] /\ lost' \in [Workers -> BOOLEAN]
  BY DEF Over, TypeOK, Flags
<1> QED
  BY <1>2, <1>3 DEF Over

-----------------------------------------------------------------------------
(* Steps of a run that change neither the rows, the references nor the disk *)

(* Such a step keeps the invariants when it takes no worker to the completion and starts
   no run but of a known row. *)
LEMMA QuietStep ==
  ASSUME IndInv, UNCHANGED <<status, pkg, refs, next, disk, torn>>,
         \A w \in Workers : pc'[w] = "complete" => pc[w] = "complete" /\ job'[w] = job[w],
         \A w \in Workers : pc'[w] \in Running => job'[w] <= next
  PROVE  Known' /\ Kept'
<1>1. Known'
  BY DEF IndInv, Known
<1>2. AwaitsCompletion'
  BY DEF IndInv, Kept, AwaitsCompletion
<1>3. ReferencedIsPublished' /\ ReadyIsPublished' /\ OneRowPerPackage'
  BY DEF IndInv, Kept, ReferencedIsPublished, ReadyIsPublished, OneRowPerPackage
<1> QED
  BY <1>1, <1>2, <1>3 DEF Kept

(* The end of a run, as the invariants see it. *)
LEMMA OverIsQuiet ==
  ASSUME IndInv, NEW w \in Workers, NEW retry \in BOOLEAN, Over(w, retry)
  PROVE  /\ \A v \in Workers : pc'[v] = "complete" => pc[v] = "complete" /\ job'[v] = job[v]
         /\ \A v \in Workers : pc'[v] \in Running => job'[v] <= next
  BY ZenonT(40) DEF IndInv, TypeOK, RunTypes, Known, Over, Drain, Running

(* A claim, granted, refused or failed. *)
LEMMA ClaimStep ==
  ASSUME IndInv, NEW w \in Workers, Claim(w)
  PROVE  IndInv'
<1> job[w] \in Jobs
  BY DEF IndInv, TypeOK, RunTypes, Claim
<1>1. CASE Claimable(w, job[w]) /\ Granted(w) /\ Goto(w, "source")
           /\ UNCHANGED <<job, pending, timer, lost, cands, used, faults>>
  <2>1. RowTypes' /\ FileTypes' /\ RunTypes'
    BY <1>1 DEF IndInv, TypeOK, RowTypes, FileTypes, RunTypes, Claim, Granted, Goto, Running
  <2>2. Flags'
    BY <1>1 DEF IndInv, TypeOK, Flags, Granted
  <2>3. Known' /\ Kept'
    <3>1. job[w] <= next
      BY <1>1 DEF IndInv, Known, Claimable
    <3> QED
      BY <1>1, <3>1, QuietStep DEF IndInv, TypeOK, RunTypes, Known, Claim, Goto, Running
  <2> QED
    BY <1>1, <2>1, <2>2, <2>3 DEF IndInv, TypeOK, Claim
<1>2. CASE /\ Over(w, TRUE) /\ (Granted(w) \/ UNCHANGED <<lease, live>>)
           /\ (Fault \/ UNCHANGED faults)
  <2>0. UNCHANGED <<cands, used>>
    BY <1>2 DEF Over
  <2>1. RowTypes' /\ FileTypes' /\ faults' \in 0..MaxFaults
    BY <1>2, <2>0, MaxJobsNat DEF IndInv, TypeOK, RowTypes, FileTypes, Claim, Granted, Fault
  <2>2. RunTypes'
    BY <1>2, OverTypes DEF IndInv
  <2>3. Flags'
    <3>1. live' \in [Jobs -> BOOLEAN]
      BY <1>2 DEF IndInv, TypeOK, Flags, Granted
    <3> QED
      BY <1>2, <3>1, OverTypes DEF IndInv, Flags
  <2>4. Known' /\ Kept'
    BY <1>2, OverIsQuiet, QuietStep DEF Claim
  <2> QED
    BY <2>1, <2>2, <2>3, <2>4 DEF IndInv, TypeOK, Claim
<1> QED
  BY <1>1, <1>2 DEF Claim

(* Steps that only move the run of a worker. *)
LEMMA RunStep ==
  ASSUME IndInv, NEW w \in Workers,
         Throw(w) \/ ListPackages(w) \/ Extract(w) \/ CompleteRefused(w)
  PROVE  IndInv'
<1>0. job[w] \in Jobs /\ job[w] <= next /\ pc[w] \in Running
  BY DEF IndInv, TypeOK, RunTypes, Known, Throw, ListPackages, Extract, CompleteRefused, Running
<1>1. UNCHANGED <<store, disk, torn, job, pending, lost, timer, todo, queued>>
  BY DEF Throw, ListPackages, Extract, CompleteRefused
<1>2. \E p \in Running \ {"complete"} : Goto(w, p)
  BY DEF Throw, ListPackages, Extract, CompleteRefused, Running
<1>3. cands' \in [Workers -> SUBSET Packages] /\ used' \in [Workers -> Nat]
  <2>1. \A d \in SUBSET Packages : Cardinality(d) \in Nat
    BY PackagesAssumption, FS_Subset, FS_CardinalityType
  <2> QED
    BY <2>1 DEF IndInv, TypeOK, FileTypes, Throw, ListPackages, Extract, CompleteRefused
<1>4. faults' \in 0..MaxFaults
  BY MaxJobsNat DEF IndInv, TypeOK, Throw, ListPackages, Extract, CompleteRefused, Fault
<1>5. RowTypes' /\ FileTypes'
  BY <1>1, <1>3 DEF IndInv, TypeOK, RowTypes, FileTypes, store, rows
<1>6. RunTypes'
  BY <1>0, <1>1, <1>2 DEF IndInv, TypeOK, RunTypes, Goto, Running
<1>7. Flags'
  BY <1>1 DEF IndInv, TypeOK, Flags, store, rows
<1>8. Known' /\ Kept'
  BY <1>0, <1>1, <1>2, QuietStep DEF IndInv, TypeOK, RunTypes, Known, Goto, Running, store, rows
<1> QED
  BY <1>1, <1>4, <1>5, <1>6, <1>7, <1>8 DEF IndInv, TypeOK

(* The renewal timer, the renewal before publication, and the clock. *)
LEMMA LeaseStep ==
  ASSUME IndInv,
         \/ \E w \in Workers : Renew(w) \/ RenewFails(w) \/ Confirm(w)
         \/ \E j \in Jobs : Lapse(j) \/ Stall(j)
  PROVE  IndInv'
<1>1. /\ UNCHANGED <<status, pkg, owners, lease, refs, next, disk, torn, job, pending>>
      /\ UNCHANGED <<cands, used, timer, todo, queued>>
  BY DEF Renew, RenewFails, Confirm, Lapse, Stall, store, rows, run
<1>2. faults' \in 0..MaxFaults
  BY MaxJobsNat DEF IndInv, TypeOK, Renew, RenewFails, Confirm, Lapse, Stall, Fault
<1>3. live' \in [Jobs -> BOOLEAN] /\ lost' \in [Workers -> BOOLEAN]
  BY DEF IndInv, TypeOK, Flags, Renew, RenewFails, Confirm, Lapse, Stall, store, rows, run
<1>4. \/ UNCHANGED pc
      \/ \E w \in Workers : pc[w] = "renew" /\ (Goto(w, "publish") \/ Goto(w, "fail"))
  BY DEF Renew, RenewFails, Confirm, Lapse, Stall, run
<1>5. RowTypes' /\ FileTypes' /\ Flags'
  BY <1>1, <1>3 DEF IndInv, TypeOK, RowTypes, FileTypes, Flags
<1>6. RunTypes'
  BY <1>1, <1>4 DEF IndInv, TypeOK, RunTypes, Goto, Running
<1>7. Known' /\ Kept'
  <2>1. \A w \in Workers : pc'[w] \in Running => pc[w] \in Running
    BY <1>4 DEF IndInv, TypeOK, RunTypes, Goto, Running
  <2>2. \A w \in Workers : pc'[w] = "complete" => pc[w] = "complete"
    BY <1>4 DEF IndInv, TypeOK, RunTypes, Goto
  <2> QED
    BY <1>1, <2>1, <2>2, QuietStep DEF IndInv, Known
<1> QED
  BY <1>1, <1>2, <1>5, <1>6, <1>7 DEF IndInv, TypeOK

(* The end of a run. *)
LEMMA FinishStep ==
  ASSUME IndInv, NEW w \in Workers, Finish(w)
  PROVE  IndInv'
<1>1. Over(w, FALSE) /\ UNCHANGED <<store, disk, torn, todo, queued, faults>>
  BY DEF Finish
<1>2. RunTypes' /\ timer' \in [Workers -> BOOLEAN] /\ lost' \in [Workers -> BOOLEAN]
      /\ UNCHANGED <<cands, used>>
  BY <1>1, OverTypes DEF IndInv
<1>3. RowTypes' /\ FileTypes' /\ Flags'
  BY <1>1, <1>2 DEF IndInv, TypeOK, RowTypes, FileTypes, Flags, store, rows
<1>4. Known' /\ Kept'
  BY <1>1, OverIsQuiet, QuietStep DEF store, rows
<1> QED
  BY <1>1, <1>2, <1>3, <1>4 DEF IndInv, TypeOK

-----------------------------------------------------------------------------
(* Start, restart and retry *)

LEMMA RestartStep ==
  ASSUME IndInv, NEW w \in Workers, Crash(w) \/ Initialize(w) \/ ReloadRunnableJobs(w)
  PROVE  IndInv'
<1>1. CASE Crash(w)
  <2>1. RowTypes' /\ FileTypes' /\ faults' \in 0..MaxFaults /\ queued' \subseteq Jobs
    BY <1>1, MaxJobsNat DEF IndInv, TypeOK, RowTypes, FileTypes, Crash, Fault
  <2>2. RunTypes'
    BY <1>1 DEF IndInv, TypeOK, RunTypes, Crash, Goto
  <2>3. Flags'
    BY <1>1 DEF IndInv, TypeOK, Flags, Crash
  <2>4. Known' /\ Kept'
    BY <1>1, QuietStep DEF IndInv, TypeOK, RunTypes, Known, Crash, Goto, Running
  <2> QED
    BY <2>1, <2>2, <2>3, <2>4 DEF IndInv, TypeOK
<1>2. CASE Initialize(w) \/ ReloadRunnableJobs(w)
  <2>0. PICK S \in SUBSET Jobs : \E q : \E s \in Orders(S, q) : Drain(w, s) \/ Schedule(w, s)
    BY <1>2 DEF Initialize, ReloadRunnableJobs, Preparing
  <2>1. PICK s \in Seq(Jobs) : Drain(w, s) \/ Schedule(w, s)
    BY <2>0, OrdersAreQueues
  <2>2. RunTypes'
    BY <2>1, DrainTypes, ScheduleTypes DEF IndInv, TypeOK
  <2>3. UNCHANGED <<store, disk, torn, lost, cands, used, todo, faults>>
    BY <1>2 DEF Initialize, ReloadRunnableJobs
  <2>4. RowTypes' /\ FileTypes'
    BY <2>3 DEF IndInv, TypeOK, RowTypes, FileTypes, store, rows
  <2>5. Flags'
    BY <1>2, <2>3 DEF IndInv, TypeOK, Flags, Initialize, ReloadRunnableJobs, store, rows
  <2>6. Known' /\ Kept'
    <3>1. \A v \in Workers : pc'[v] \in Running => pc[v] \in Running /\ job'[v] = job[v]
      BY <2>1 DEF IndInv, TypeOK, RunTypes, Schedule, Drain, Running
    <3>2. \A v \in Workers : pc'[v] = "complete" => pc[v] = "complete" /\ job'[v] = job[v]
      BY <2>1 DEF IndInv, TypeOK, RunTypes, Schedule, Drain
    <3> QED
      BY <2>3, <3>1, <3>2, QuietStep DEF IndInv, Known, store, rows
  <2>7. queued' \subseteq Jobs
    BY <1>2 DEF IndInv, TypeOK, Initialize, ReloadRunnableJobs, Preparing
  <2> QED
    BY <2>2, <2>3, <2>4, <2>5, <2>6, <2>7 DEF IndInv, TypeOK
<1> QED
  BY <1>1, <1>2

-----------------------------------------------------------------------------
(* Deletion *)

(* What is deleted is neither referred to nor prepared, and no row promises it unless the
   transaction was lost. *)
LEMMA RemoveKeeps ==
  ASSUME IndInv, NEW k \in Packages, Remove(k), UNCHANGED <<pkg, next, pc, job>>
  PROVE  /\ Known' /\ Kept'
         /\ status' \in [Jobs -> {"none", "preparing", "ready", "failed", "expired"}]
         /\ refs' \in [Principals -> SUBSET Packages]
         /\ disk' \subseteq Packages /\ torn' \subseteq Packages /\ faults' \in 0..MaxFaults
<1>1. CASE RemoveUnreferenced(k)
  <2>1. \A j \in Jobs : status'[j] = IF status[j] = "ready" /\ pkg[j] = k THEN "expired" ELSE status[j]
    BY <1>1 DEF RemoveUnreferenced, Invalidated
  <2>2. /\ status' \in [Jobs -> {"none", "preparing", "ready", "failed", "expired"}]
        /\ refs' \in [Principals -> SUBSET Packages]
        /\ disk' \subseteq Packages /\ torn' \subseteq Packages /\ faults' \in 0..MaxFaults
    BY <1>1 DEF RemoveUnreferenced, Invalidated, Dropped, IndInv, TypeOK, RowTypes, FileTypes
  <2>3. Known'
    BY <2>1 DEF IndInv, Known
  <2>4. AwaitsCompletion'
    <3> SUFFICES ASSUME NEW w \in Workers, pc[w] = "complete", status'[job[w]] = "preparing"
                 PROVE  pkg[job[w]] \in disk'
      BY DEF AwaitsCompletion
    <3>1. job[w] \in Jobs
      BY DEF IndInv, TypeOK, RunTypes
    <3>2. status[job[w]] = "preparing" /\ pkg[job[w]] \in disk
      BY <2>1, <3>1 DEF IndInv, Kept, AwaitsCompletion
    <3>3. pkg[job[w]] # k
      BY <1>1, <3>1, <3>2 DEF RemoveUnreferenced, Unreferenced, Protected, Preparing
    <3> QED
      BY <1>1, <3>2, <3>3 DEF RemoveUnreferenced
  <2>5. ReferencedIsPublished'
    BY <1>1 DEF IndInv, Kept, ReferencedIsPublished, RemoveUnreferenced, Dropped
  <2>6. ReadyIsPublished'
    BY <1>1, <2>1 DEF IndInv, Kept, ReadyIsPublished, RemoveUnreferenced
  <2>7. OneRowPerPackage'
    BY <2>1 DEF IndInv, Kept, OneRowPerPackage
  <2> QED
    BY <2>2, <2>3, <2>4, <2>5, <2>6, <2>7 DEF Kept
<1>2. CASE RemovalLost(k)
  <2>1. /\ status' \in [Jobs -> {"none", "preparing", "ready", "failed", "expired"}]
        /\ refs' \in [Principals -> SUBSET Packages]
        /\ disk' \subseteq Packages /\ torn' \subseteq Packages /\ faults' \in 0..MaxFaults
    BY <1>2, MaxJobsNat DEF RemovalLost, Fault, IndInv, TypeOK, RowTypes, FileTypes
  <2>2. Known' /\ OneRowPerPackage'
    BY <1>2 DEF RemovalLost, IndInv, Known, Kept, OneRowPerPackage
  <2>3. AwaitsCompletion'
    <3> SUFFICES ASSUME NEW w \in Workers, pc[w] = "complete", status[job[w]] = "preparing"
                 PROVE  pkg[job[w]] \in disk'
      BY <1>2 DEF AwaitsCompletion, RemovalLost
    <3>1. job[w] \in Jobs
      BY DEF IndInv, TypeOK, RunTypes
    <3>2. pkg[job[w]] # k
      BY <1>2, <3>1 DEF RemovalLost, Unreferenced, Protected, Preparing
    <3> QED
      BY <1>2, <3>2 DEF RemovalLost, IndInv, Kept, AwaitsCompletion
  <2>4. ReferencedIsPublished'
    BY <1>2 DEF IndInv, Kept, ReferencedIsPublished, RemovalLost, Unreferenced
  <2>5. ReadyIsPublished'
    BY <1>2 DEF IndInv, Kept, ReadyIsPublished, RemovalLost
  <2> QED
    BY <2>1, <2>2, <2>3, <2>4, <2>5 DEF Kept
<1>3. CASE UNCHANGED <<disk, torn, status, refs, faults>>
  <2>1. Known' /\ Kept'
    BY <1>3, QuietStep DEF IndInv, Known
  <2> QED
    BY <1>3, <2>1 DEF IndInv, TypeOK, RowTypes, FileTypes
<1> QED
  BY <1>1, <1>2, <1>3 DEF Remove

LEMMA RemoveStep ==
  ASSUME IndInv, NEW w \in Workers, RemoveTodo(w) \/ EnsureCapacity(w)
  PROVE  IndInv'
<1>1. PICK k \in Packages : Remove(k)
  BY DEF IndInv, TypeOK, FileTypes, RemoveTodo, EnsureCapacity, Remove
<1>2. UNCHANGED <<pkg, owners, lease, live, next, pc, job, pending, lost, timer, queued>>
  BY DEF RemoveTodo, EnsureCapacity, run
<1>3. /\ Known' /\ Kept'
      /\ status' \in [Jobs -> {"none", "preparing", "ready", "failed", "expired"}]
      /\ refs' \in [Principals -> SUBSET Packages]
      /\ disk' \subseteq Packages /\ torn' \subseteq Packages /\ faults' \in 0..MaxFaults
  BY <1>1, <1>2, RemoveKeeps
<1>4. /\ cands' \in [Workers -> SUBSET Packages] /\ todo' \in [Workers -> SUBSET Packages]
      /\ used' \in [Workers -> Nat]
  BY PackagesAssumption DEF IndInv, TypeOK, FileTypes, RemoveTodo, EnsureCapacity, run
<1>5. RowTypes' /\ FileTypes' /\ RunTypes' /\ Flags'
  BY <1>2, <1>3, <1>4 DEF IndInv, TypeOK, RowTypes, FileTypes, RunTypes, Flags
<1> QED
  BY <1>2, <1>3, <1>5 DEF IndInv, TypeOK

-----------------------------------------------------------------------------
(* Publication, completion and failure *)

(* Rows other than the worker's own do not change, and the own row ends. *)
LEMMA PublishStep ==
  ASSUME IndInv, NEW w \in Workers, PublishPackage(w)
  PROVE  IndInv'
<1>1. pc[w] = "publish" /\ job[w] \in Jobs /\ pkg[job[w]] \in Packages
  BY DEF IndInv, TypeOK, RunTypes, Known, PublishPackage, Running
<1>2. RowTypes' /\ FileTypes' /\ Flags'
  BY <1>1 DEF IndInv, TypeOK, RowTypes, FileTypes, Flags, PublishPackage, store, rows
<1>3. RunTypes'
  BY <1>1 DEF IndInv, TypeOK, RunTypes, PublishPackage, Goto, Running
<1>4. Known'
  BY <1>1 DEF IndInv, TypeOK, RunTypes, Known, PublishPackage, Goto, Running, store, rows
<1>5. AwaitsCompletion'
  BY <1>1 DEF IndInv, TypeOK, RunTypes, Kept, AwaitsCompletion, PublishPackage, Goto, store, rows
<1>6. ReferencedIsPublished' /\ ReadyIsPublished' /\ OneRowPerPackage'
  BY <1>1 DEF IndInv, Kept, ReferencedIsPublished, ReadyIsPublished, OneRowPerPackage,
              PublishPackage, store, rows
<1> QED
  BY <1>2, <1>3, <1>4, <1>5, <1>6 DEF IndInv, TypeOK, Kept, PublishPackage

LEMMA CompleteStep ==
  ASSUME IndInv, NEW w \in Workers, Complete(w)
  PROVE  IndInv'
<1> DEFINE j == job[w]
<1>1. pc[w] = "complete" /\ j \in Jobs /\ j <= next /\ pkg[j] \in Packages /\ pkg[j] \in disk
      /\ status[j] = "preparing"
  BY DEF IndInv, TypeOK, RunTypes, Known, Kept, AwaitsCompletion, Complete, Holds, Running
<1>2. /\ UNCHANGED <<pkg, owners, next, disk, torn, job, pending, lost, cands, used, timer, queued>>
      /\ status' = [status EXCEPT ![j] = "ready"]
      /\ lease' = [lease EXCEPT ![j] = NoOne] /\ live' = [live EXCEPT ![j] = FALSE]
      /\ refs' \in [Principals -> SUBSET Packages]
      /\ Goto(w, "cleanup") \/ Goto(w, "fail")
  BY DEF Complete
<1>3. faults' \in 0..MaxFaults
  BY MaxJobsNat DEF IndInv, TypeOK, Complete, Fault
<1>4. todo' \in [Workers -> SUBSET Packages]
  <2>1. Orphaned \subseteq Packages
    BY DEF Orphaned
  <2> QED
    BY <2>1 DEF IndInv, TypeOK, FileTypes, Complete
<1>5. RowTypes' /\ FileTypes'
  BY <1>1, <1>2, <1>4 DEF IndInv, TypeOK, RowTypes, FileTypes
<1>6. RunTypes'
  BY <1>1, <1>2 DEF IndInv, TypeOK, RunTypes, Goto, Running
<1>7. Flags'
  BY <1>2 DEF IndInv, TypeOK, Flags
<1>8. Known'
  BY <1>1, <1>2 DEF IndInv, TypeOK, RowTypes, RunTypes, Known, Goto, Running
<1>9. AwaitsCompletion'
  BY <1>1, <1>2 DEF IndInv, TypeOK, RowTypes, RunTypes, Kept, AwaitsCompletion, Goto
<1>10. ReferencedIsPublished'
  <2> SUFFICES ASSUME NEW p \in Principals
               PROVE  refs'[p] \subseteq disk
    BY <1>2 DEF ReferencedIsPublished
  <2>1. refs[p] \subseteq disk
    BY DEF IndInv, Kept, ReferencedIsPublished
  <2>2. CASE p \in owners[j]
    <3>1. refs'[p] \in Retained(p, pkg[j])
      BY <2>2 DEF Complete
    <3>2. refs'[p] \subseteq refs[p] \cup {pkg[j]}
      BY <1>1, <3>1, RetainedBound
    <3> QED
      BY <1>1, <2>1, <3>2
  <2>3. CASE p \notin owners[j]
    BY <2>1, <2>3 DEF Complete
  <2> QED
    BY <2>2, <2>3
<1>11. ReadyIsPublished'
  BY <1>1, <1>2 DEF IndInv, TypeOK, RowTypes, Kept, ReadyIsPublished
<1>12. OneRowPerPackage'
  BY <1>1, <1>2 DEF IndInv, TypeOK, RowTypes, Kept, OneRowPerPackage
<1> QED
  BY <1>2, <1>3, <1>5, <1>6, <1>7, <1>8, <1>9, <1>10, <1>11, <1>12 DEF IndInv, TypeOK, Kept

(* The report of a failure, or nothing, keeps what the rows promise. *)
LEMMA FailedKeeps ==
  ASSUME IndInv, NEW w \in Workers, job[w] \in Jobs, Failed(w) \/ UNCHANGED <<status, lease, live>>
  PROVE  /\ status' \in [Jobs -> {"none", "preparing", "ready", "failed", "expired"}]
         /\ lease' \in [Jobs -> Workers \cup {NoOne, Gone}] /\ live' \in [Jobs -> BOOLEAN]
         /\ \A j \in Jobs : \/ status'[j] = status[j]
                            \/ status[j] = "preparing" /\ status'[j] = "failed"
<1>1. live' \in [Jobs -> BOOLEAN]
  BY DEF IndInv, TypeOK, Flags, Failed
<1>2. CASE Holds(w) /\ Failed(w)
  BY <1>1, <1>2 DEF IndInv, TypeOK, RowTypes, Failed, Holds
<1>3. CASE UNCHANGED <<status, lease, live>>
  BY <1>3 DEF IndInv, TypeOK, RowTypes, Flags
<1> QED
  BY <1>2, <1>3 DEF Failed

LEMMA FailStep ==
  ASSUME IndInv, NEW w \in Workers, Fail(w) \/ FailFails(w)
  PROVE  IndInv'
<1>1. job[w] \in Jobs /\ job[w] <= next /\ pkg[job[w]] \in Packages
  BY DEF IndInv, TypeOK, RunTypes, Known, Fail, FailFails, Running
<1>2. /\ status' \in [Jobs -> {"none", "preparing", "ready", "failed", "expired"}]
      /\ lease' \in [Jobs -> Workers \cup {NoOne, Gone}] /\ live' \in [Jobs -> BOOLEAN]
      /\ \A j \in Jobs : \/ status'[j] = status[j]
                         \/ status[j] = "preparing" /\ status'[j] = "failed"
  BY <1>1, FailedKeeps DEF Fail, FailFails
<1>3. /\ UNCHANGED <<pkg, owners, refs, next, disk, torn, queued, cands, used>>
      /\ faults' \in 0..MaxFaults
  BY MaxJobsNat DEF Fail, FailFails, Over, Fault, IndInv, TypeOK
<1>4. todo' \in [Workers -> SUBSET Packages]
  <2>1. todo' = todo \/ todo' = [todo EXCEPT ![w] = @ \cup {pkg[job[w]]}]
    BY DEF Fail, FailFails
  <2> QED
    BY <1>1, <2>1 DEF IndInv, TypeOK, FileTypes
<1>5. RowTypes' /\ FileTypes'
  BY <1>2, <1>3, <1>4 DEF IndInv, TypeOK, RowTypes, FileTypes
<1>6. /\ RunTypes' /\ timer' \in [Workers -> BOOLEAN] /\ lost' \in [Workers -> BOOLEAN]
      /\ \A v \in Workers : pc'[v] = "complete" => pc[v] = "complete" /\ job'[v] = job[v]
      /\ \A v \in Workers : pc'[v] \in Running => job'[v] <= next
  <2>1. CASE Fail(w)
    <3>1. RunTypes'
      BY <1>1, <2>1 DEF IndInv, TypeOK, RunTypes, Fail, Goto, Running
    <3>2. timer' \in [Workers -> BOOLEAN] /\ lost' \in [Workers -> BOOLEAN]
      BY <2>1 DEF IndInv, TypeOK, Flags, Fail
    <3> QED
      BY <1>1, <2>1, <3>1, <3>2 DEF IndInv, TypeOK, RunTypes, Known, Fail, Goto, Running
  <2>2. CASE FailFails(w)
    <3>1. Over(w, TRUE)
      BY <2>2 DEF FailFails
    <3> QED
      BY <3>1, OverTypes, OverIsQuiet DEF IndInv
  <2> QED
    BY <2>1, <2>2
<1>7. Flags'
  BY <1>2, <1>6 DEF Flags
<1>8. Known'
  BY <1>2, <1>3, <1>6 DEF IndInv, Known
<1>9. AwaitsCompletion'
  <2> SUFFICES ASSUME NEW v \in Workers, pc'[v] = "complete", status'[job'[v]] = "preparing"
               PROVE  pkg'[job'[v]] \in disk'
    BY DEF AwaitsCompletion
  <2>1. pc[v] = "complete" /\ job'[v] = job[v] /\ job[v] \in Jobs
    BY <1>6, ZenonT(40) DEF IndInv, TypeOK, RunTypes
  <2>2. status[job[v]] = "preparing"
    BY <1>2, <2>1
  <2> QED
    BY <1>3, <2>1, <2>2 DEF IndInv, Kept, AwaitsCompletion
<1>10. ReferencedIsPublished' /\ ReadyIsPublished' /\ OneRowPerPackage'
  BY <1>2, <1>3 DEF IndInv, Kept, ReferencedIsPublished, ReadyIsPublished, OneRowPerPackage
<1> QED
  BY <1>3, <1>5, <1>6, <1>7, <1>8, <1>9, <1>10 DEF IndInv, TypeOK, Kept

-----------------------------------------------------------------------------
(* Admission and the removal of rows that are over *)

(* A new row is a known one. *)
LEMMA NewRowKnown ==
  ASSUME IndInv, NEW k \in Packages, next' = next + 1, next' \in Jobs,
         \A j \in Jobs \ {next'} : status'[j] # "none" => status[j] # "none",
         pkg' = [pkg EXCEPT ![next'] = k],
         \A w \in Workers : pc'[w] \in Running => pc[w] \in Running /\ job'[w] = job[w]
  PROVE  Known'
<1>1. next \in Nat /\ next' = next + 1
  BY MaxJobsNat DEF IndInv, TypeOK, RowTypes
<1>2. \A j \in Jobs : j \in Nat
  BY DEF Jobs
<1>3. ASSUME NEW j \in Jobs
      PROVE  (status'[j] # "none" => j <= next') /\ (j <= next' => pkg'[j] \in Packages)
  BY <1>1, <1>2, <1>3 DEF IndInv, TypeOK, RowTypes, Known
<1>4. ASSUME NEW w \in Workers, pc'[w] \in Running
      PROVE  job'[w] <= next'
  <2>0. pc[w] \in Running /\ job'[w] = job[w]
    BY <1>4
  <2>1. job[w] \in Jobs /\ job[w] <= next /\ job'[w] = job[w]
    BY <2>0 DEF IndInv, TypeOK, RunTypes, Known, Running
  <2>2. \A n, m \in Nat : n <= m => n <= m + 1
    OBVIOUS
  <2>3. job[w] \in Nat
    BY <1>2, <2>1
  <2>4. job[w] <= next + 1
    BY <1>1, <2>1, <2>2, <2>3
  <2> QED
    BY <1>1, <2>1, <2>4, Zenon
<1> QED
  BY <1>3, <1>4 DEF Known

LEMMA JoinStep ==
  ASSUME IndInv, NEW w \in Workers, NEW p \in Principals, NEW k \in Packages, Join(w, p, k)
  PROVE  IndInv'
<1>1. owners' \in [Jobs -> SUBSET Principals]
  BY DEF IndInv, TypeOK, RowTypes, Join, Preparing
<1>2. UNCHANGED <<status, pkg, lease, live, refs, next, disk, torn, run, timer, todo, queued, faults>>
  BY DEF Join
<1>3. RowTypes' /\ FileTypes' /\ RunTypes' /\ Flags'
  BY <1>1, <1>2 DEF IndInv, TypeOK, RowTypes, FileTypes, RunTypes, Flags, run
<1>4. Known' /\ Kept'
  BY <1>2, QuietStep DEF IndInv, Known, run
<1> QED
  BY <1>2, <1>3, <1>4 DEF IndInv, TypeOK

LEMMA RemoveTerminalStep ==
  ASSUME IndInv, NEW j \in Jobs, RemoveTerminal(j)
  PROVE  IndInv'
<1>1. /\ UNCHANGED <<pkg, lease, live, refs, next, disk, torn, run, timer, todo, queued, faults>>
      /\ status[j] # "preparing" /\ status' = [status EXCEPT ![j] = "none"]
      /\ owners' = [owners EXCEPT ![j] = {}]
  BY DEF RemoveTerminal
<1>2. RowTypes' /\ FileTypes' /\ RunTypes' /\ Flags'
  BY <1>1 DEF IndInv, TypeOK, RowTypes, FileTypes, RunTypes, Flags, run
<1>3. Known'
  BY <1>1 DEF IndInv, TypeOK, RowTypes, Known, run
<1>4. AwaitsCompletion'
  <2> SUFFICES ASSUME NEW v \in Workers, pc[v] = "complete", status'[job[v]] = "preparing"
               PROVE  pkg[job[v]] \in disk
    BY <1>1 DEF AwaitsCompletion, run
  <2>1. job[v] \in Jobs
    BY DEF IndInv, TypeOK, RunTypes
  <2>2. status[job[v]] = "preparing"
    BY <1>1, <2>1 DEF IndInv, TypeOK, RowTypes
  <2> QED
    BY <2>2 DEF IndInv, Kept, AwaitsCompletion
<1>5. ReferencedIsPublished' /\ ReadyIsPublished' /\ OneRowPerPackage'
  BY <1>1 DEF IndInv, TypeOK, RowTypes, Kept, ReferencedIsPublished, ReadyIsPublished, OneRowPerPackage
<1> QED
  BY <1>1, <1>2, <1>3, <1>4, <1>5 DEF IndInv, TypeOK, Kept

(* A package on the disk is handed out: under the row that promises it, or a new one. *)
LEMMA ReuseStep ==
  ASSUME IndInv, NEW w \in Workers, NEW p \in Principals, NEW k \in Packages, Reuse(w, p, k)
  PROVE  IndInv'
<1>1. /\ UNCHANGED <<lease, live, disk, torn, run, timer, queued, faults>> /\ k \in disk
      /\ todo' = [todo EXCEPT ![w] = @ \cup Orphaned]
      /\ \A j \in Jobs : status[j] = "preparing" => pkg[j] # k
  BY DEF Reuse, Protected, Preparing
<1>2. PICK r \in Retained(p, k) : refs' = [refs EXCEPT ![p] = r]
  BY DEF Reuse
<1>3. r \subseteq refs[p] \cup {k}
  BY <1>2, RetainedBound
<1>4. refs' \in [Principals -> SUBSET Packages] /\ todo' \in [Workers -> SUBSET Packages]
  <2>1. Orphaned \subseteq Packages
    BY DEF Orphaned
  <2> QED
    BY <1>1, <1>2, <1>3, <2>1 DEF IndInv, TypeOK, RowTypes, FileTypes
<1>5. FileTypes' /\ RunTypes' /\ Flags'
  BY <1>1, <1>4 DEF IndInv, TypeOK, FileTypes, RunTypes, Flags, run
<1>6. ReferencedIsPublished'
  BY <1>1, <1>2, <1>3 DEF IndInv, TypeOK, RowTypes, Kept, ReferencedIsPublished
<1>7. CASE /\ UNCHANGED <<status, pkg, next>>
           /\ \E j \in Jobs : owners' = [owners EXCEPT ![j] = @ \cup {p}]
  <2>1. RowTypes'
    BY <1>1, <1>4, <1>7 DEF IndInv, TypeOK, RowTypes
  <2>2. Known' /\ AwaitsCompletion' /\ ReadyIsPublished' /\ OneRowPerPackage'
    BY <1>1, <1>7 DEF IndInv, Known, Kept, AwaitsCompletion, ReadyIsPublished, OneRowPerPackage, run
  <2> QED
    BY <1>1, <1>5, <1>6, <2>1, <2>2 DEF IndInv, TypeOK, Kept
<1>8. CASE /\ ~\E j \in Jobs : status[j] = "ready" /\ pkg[j] = k
           /\ next < MaxJobs /\ next' = next + 1
           /\ status' = [status EXCEPT ![next'] = "ready"]
           /\ pkg' = [pkg EXCEPT ![next'] = k]
           /\ owners' = [owners EXCEPT ![next'] = {p}]
  <2>1. next' \in Jobs /\ next \in Nat
    BY <1>8, MaxJobsNat DEF IndInv, TypeOK, RowTypes, Jobs
  <2>2. RowTypes'
    BY <1>1, <1>4, <1>8, <2>1, MaxJobsNat DEF IndInv, TypeOK, RowTypes, Jobs
  <2>3. Known'
    BY <1>1, <1>8, <2>1, NewRowKnown DEF IndInv, TypeOK, RowTypes, run
  <2>4. AwaitsCompletion'
    <3> SUFFICES ASSUME NEW v \in Workers, pc[v] = "complete", status'[job[v]] = "preparing"
                 PROVE  pkg'[job[v]] \in disk
      BY <1>1 DEF AwaitsCompletion, run
    <3>1. job[v] \in Jobs /\ job[v] <= next
      BY DEF IndInv, TypeOK, RunTypes, Known, Running
    <3>2. job[v] # next'
      BY <1>8, <2>1, <3>1 DEF Jobs
    <3> QED
      BY <1>8, <3>1, <3>2 DEF IndInv, TypeOK, RowTypes, Kept, AwaitsCompletion
  <2>5. ReadyIsPublished'
    BY <1>1, <1>8, <2>1 DEF IndInv, TypeOK, RowTypes, Kept, ReadyIsPublished
  <2>6. OneRowPerPackage'
    BY <1>1, <1>8, <2>1 DEF IndInv, TypeOK, RowTypes, Kept, OneRowPerPackage
  <2> QED
    BY <1>1, <1>5, <1>6, <2>2, <2>3, <2>4, <2>5, <2>6 DEF IndInv, TypeOK, Kept
<1> QED
  BY <1>7, <1>8 DEF Reuse

(* A new row for a package that is not on the disk; nothing refers to the package or
   promises it afterwards. *)
LEMMA QueueStep ==
  ASSUME IndInv, NEW w \in Workers, NEW p \in Principals, NEW k \in Packages, Queue(w, p, k)
  PROVE  IndInv'
<1>1. /\ UNCHANGED <<lease, live, disk, lost, cands, used, timer, todo>>
      /\ next < MaxJobs /\ next' = next + 1
      /\ status' = [Invalidated(k) EXCEPT ![next'] = "preparing"]
      /\ refs' = Dropped(k) /\ torn' = torn \ {k}
      /\ pkg' = [pkg EXCEPT ![next'] = k] /\ owners' = [owners EXCEPT ![next'] = {p}]
      /\ \A j \in Jobs : status[j] = "preparing" => pkg[j] # k
  BY DEF Queue, Protected, Preparing
<1>2. next' \in Jobs /\ next \in Nat
  BY <1>1, MaxJobsNat DEF IndInv, TypeOK, RowTypes, Jobs
<1>3. status' \in [Jobs -> {"none", "preparing", "ready", "failed", "expired"}]
  BY <1>1, <1>2 DEF Invalidated, IndInv, TypeOK, RowTypes
<1>4. \A j \in Jobs \ {next'} :
        status'[j] = IF status[j] = "ready" /\ pkg[j] = k THEN "expired" ELSE status[j]
  BY <1>1, <1>2 DEF Invalidated
<1>5. status'[next'] = "preparing"
  BY <1>1, <1>2 DEF Invalidated
<1>6. refs' \in [Principals -> SUBSET Packages] /\ next' \in 0..MaxJobs
  BY <1>1, <1>2, MaxJobsNat DEF Dropped, IndInv, TypeOK, RowTypes, Jobs
<1>7. RowTypes' /\ FileTypes' /\ Flags'
  BY <1>1, <1>2, <1>3, <1>6 DEF IndInv, TypeOK, RowTypes, FileTypes, Flags
<1>8. RunTypes' /\ queued' \subseteq Jobs /\ faults' \in 0..MaxFaults
  <2>1. Append(pending[w], next') \in Seq(Jobs)
    BY <1>2 DEF IndInv, TypeOK, RunTypes
  <2>2. CASE /\ Schedule(w, Append(pending[w], next')) /\ queued' = queued \cup {next'}
             /\ UNCHANGED faults
    BY <1>2, <2>1, <2>2, ScheduleTypes DEF IndInv, TypeOK
  <2>3. CASE Fault /\ UNCHANGED <<pc, job, pending, queued>>
    BY <1>2, <2>3, MaxJobsNat DEF IndInv, TypeOK, RunTypes, Fault
  <2> QED
    BY <2>2, <2>3 DEF Queue
<1>9. /\ \A v \in Workers : pc'[v] \in Running => pc[v] \in Running /\ job'[v] = job[v]
      /\ \A v \in Workers : pc'[v] = "complete" => pc[v] = "complete"
  BY DEF Queue, Schedule, Drain, Running, IndInv, TypeOK, RunTypes
<1>10. Known'
  BY <1>1, <1>2, <1>4, <1>9, NewRowKnown DEF IndInv, TypeOK, RowTypes
<1>11. AwaitsCompletion'
  <2> SUFFICES ASSUME NEW v \in Workers, pc'[v] = "complete", status'[job'[v]] = "preparing"
               PROVE  pkg'[job'[v]] \in disk'
    BY DEF AwaitsCompletion
  <2>1. pc[v] = "complete" /\ job'[v] = job[v] /\ job[v] \in Jobs /\ job[v] <= next
    BY <1>9 DEF IndInv, TypeOK, RunTypes, Known, Running
  <2>2. job[v] # next'
    BY <1>1, <1>2, <2>1 DEF Jobs
  <2>3. status[job[v]] = "preparing" /\ pkg'[job[v]] = pkg[job[v]]
    BY <1>1, <1>2, <1>4, <2>1, <2>2 DEF IndInv, TypeOK, RowTypes
  <2> QED
    BY <1>1, <2>1, <2>3 DEF IndInv, Kept, AwaitsCompletion
<1>12. ReferencedIsPublished'
  BY <1>1 DEF IndInv, Kept, ReferencedIsPublished, Dropped
<1>13. ReadyIsPublished'
  BY <1>1, <1>2, <1>4, <1>5 DEF IndInv, TypeOK, RowTypes, Kept, ReadyIsPublished
<1>14. OneRowPerPackage'
  BY <1>1, <1>2, <1>4, <1>5 DEF IndInv, TypeOK, RowTypes, Kept, OneRowPerPackage
<1> QED
  BY <1>7, <1>8, <1>10, <1>11, <1>12, <1>13, <1>14 DEF IndInv, TypeOK, Kept

-----------------------------------------------------------------------------
(* The theorems *)

LEMMA InitInv == Init => IndInv
<1> SUFFICES ASSUME Init
             PROVE  IndInv
  OBVIOUS
<1>1. RowTypes /\ FileTypes
  BY MaxJobsNat DEF Init, RowTypes, FileTypes
<1>2. RunTypes
  BY DEF Init, RunTypes
<1>3. Flags
  BY DEF Init, Flags
<1>4. Known
  BY DEF Init, Known, Jobs, Running
<1>5. Kept
  BY DEF Init, Kept, AwaitsCompletion, ReferencedIsPublished, ReadyIsPublished, OneRowPerPackage
<1> QED
  BY <1>1, <1>2, <1>3, <1>4, <1>5, MaxJobsNat DEF Init, IndInv, TypeOK

LEMMA NextInv == IndInv /\ [Next]_vars => IndInv'
<1> SUFFICES ASSUME IndInv, [Next]_vars
             PROVE  IndInv'
  OBVIOUS
<1>1. CASE \E w \in Workers, p \in Principals, k \in Packages :
             Join(w, p, k) \/ Reuse(w, p, k) \/ Queue(w, p, k)
  BY <1>1, JoinStep, ReuseStep, QueueStep
<1>2. CASE \E w \in Workers : Step(w)
  BY <1>2, ClaimStep, RunStep, LeaseStep, PublishStep, CompleteStep, FailStep, RemoveStep, FinishStep
     DEF Step
<1>3. CASE \E w \in Workers : Renew(w) \/ RenewFails(w)
  BY <1>3, LeaseStep
<1>4. CASE \E w \in Workers : ReloadRunnableJobs(w) \/ Crash(w) \/ Initialize(w)
  BY <1>4, RestartStep
<1>5. CASE \E j \in Jobs : RemoveTerminal(j) \/ Lapse(j) \/ Stall(j)
  BY <1>5, RemoveTerminalStep, LeaseStep
<1>6. CASE UNCHANGED vars
  BY <1>6 DEF vars, store, rows, run, IndInv, TypeOK, RowTypes, FileTypes, RunTypes, Flags, Known,
              Kept, AwaitsCompletion, ReferencedIsPublished, ReadyIsPublished, OneRowPerPackage
<1> QED
  BY <1>1, <1>2, <1>3, <1>4, <1>5, <1>6 DEF Next

THEOREM Invariance == Spec => []IndInv
  BY InitInv, NextInv, PTL DEF Spec

(* The variables of the offline packages keep their types, for any number of data managers,
   requests and faults. *)
THEOREM TypesHold == Spec => []TypeOK
<1>1. IndInv => TypeOK
  BY DEF IndInv
<1> QED
  BY <1>1, Invariance, PTL

(* No reference outlives its package, although a package is published in one step, nobody's
   until its job completes in another, and deleted by any data manager that needs room
   (publishPackage, complete, removeUnreferencedArtifact). *)
THEOREM ReferencesHold == Spec => []ReferencedIsPublished
<1>1. IndInv => ReferencedIsPublished
  BY DEF IndInv, Kept
<1> QED
  BY <1>1, Invariance, PTL

(* A row that promises a download is withdrawn with its package, unless the transaction that
   withdraws it is lost (removeOfflineArtifact, invalidateArtifact). *)
THEOREM PromisesHold == Spec => []ReadyIsPublished
<1>1. IndInv => ReadyIsPublished
  BY DEF IndInv, Kept
<1> QED
  BY <1>1, Invariance, PTL

(* Whatever two data managers admit at the same time, a package has one row at most that is
   in preparation or ready (admit). *)
THEOREM RowsAreUnique == Spec => []OneRowPerPackage
<1>1. IndInv => OneRowPerPackage
  BY DEF IndInv, Kept
<1> QED
  BY <1>1, Invariance, PTL
=============================================================================
