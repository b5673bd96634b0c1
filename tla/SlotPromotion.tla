--------------------------- MODULE SlotPromotion ---------------------------
(***************************************************************************)
(* Building a transit dataset and putting it behind the stable MOTIS URL,  *)
(* with two slots (services/data-manager/src/jobs/transitous).  Two        *)
(* symbolic links, live and staging, name the slots; slot-state.json       *)
(* records the slot and the epoch that last passed every probe.  Docker    *)
(* resolves a link once, when a container is created, so the slot a        *)
(* container serves is state of its own.  The feed proxy is shared: its    *)
(* file holds the routes of some datasets and nginx serves what it loaded  *)
(* last.                                                                   *)
(*                                                                         *)
(* One run at a time holds the target lease: a sync (build and promote), a *)
(* catalog validation (build and probe) or a catalog activation (promote   *)
(* what was validated).  A run is one thread; pc is its next step, and     *)
(* each step is one host operation or one published change.  A run ends in *)
(* one of two ways: the worker is contained and the lease released, or an  *)
(* outcome stays unknown and the lease stays held ("fenced").  A host      *)
(* operation that was reserved and never carried out is waited for without *)
(* end: such a run keeps the lease and polls.                              *)
(***************************************************************************)
EXTENDS Integers, FiniteSets

CONSTANTS
  MaxRuns,     \* runs admitted
  MaxFaults    \* failures within one run

ASSUME BoundsAssumption == MaxRuns \in Nat /\ MaxFaults \in Nat

VARIABLES
  live, staging,     \* the slots the two links name
  rec,               \* slot-state.json: active slot and dataset epoch
  data,              \* the epoch of the dataset in each slot
  primary, stager,   \* the slot each container serves, or "down"
  conf, loaded,      \* datasets whose routes the proxy file holds, nginx serves
  validated,         \* epoch of the selected catalog validation
  pins,              \* epoch whose catalog pins are in effect
  lease,             \* "free", "held" by the run, or "fenced"
  kind, pc, epoch,   \* the run, its next step, the dataset it is about
  txn, backup,       \* its proxy transaction and the routes before it
  restore, obliged,  \* its restore of the routes, and whether one is owed
  child,             \* whether a host operation it reserved was never carried out
  changed, previous, \* whether it stopped the primary; the slot it replaces
  back,              \* where it continues after restoring the routes
  abort, out,        \* whether it is canceled; its result
  restarted,         \* whether the manager was restarted and has reconciled
  runs, faults,
  rough              \* history: whether an earlier run was canceled or failed twice

links == <<live, staging>>
store == <<rec, data, validated, pins>>
containers == <<primary, stager>>
routes == <<conf, loaded>>
owner == <<kind, epoch, abort, lease, restarted, runs, rough>>
proxy == <<txn, backup, restore, obliged, back>>
swap == <<changed, previous>>
vars == <<links, store, containers, routes, owner, proxy, swap, pc, out, faults, child>>

Slots == {"A", "B"}
Other(s) == IF s = "A" THEN "B" ELSE "A"

NoEpoch == 0      \* nothing recorded: the dataset from before the slots
Partial == -1     \* files of a build that did not finish
Epochs == Partial..MaxRuns
Kinds == {"sync", "validate", "activate"}
Steps ==
  {"idle", "stop-validation", "layout", "assemble", "verify", "write-union", "proxy-stage",
   "restart-staging", "health", "smoke", "stop-primary", "stop-staging", "recover-old",
   "flip", "promote-primary", "primary-health", "write-routes", "proxy-commit",
   "commit-record", "finish", "pin", "write-restore", "proxy-restore", "rollback",
   "recover-primary", "unwind", "unwind-again", "close", "contain", "settle"}

(* The steps that are host operations. *)
HostSteps ==
  {"stop-validation", "proxy-stage", "restart-staging", "stop-primary", "stop-staging",
   "recover-old", "promote-primary", "proxy-commit", "recover-primary", "proxy-restore",
   "pin", "close"}

Flags == obliged \in BOOLEAN /\ changed \in BOOLEAN /\ abort \in BOOLEAN /\ restarted \in BOOLEAN
         /\ rough \in BOOLEAN

TypeOK ==
  /\ live \in Slots /\ staging \in Slots /\ previous \in Slots
  /\ rec \in [active : Slots, epoch : Epochs] /\ data \in [Slots -> Epochs]
  /\ primary \in Slots \cup {"down"} /\ stager \in Slots \cup {"down"}
  /\ conf \subseteq Epochs /\ loaded \subseteq Epochs /\ backup \subseteq Epochs
  /\ validated \in Epochs /\ pins \in Epochs /\ epoch \in Epochs
  /\ lease \in {"free", "held", "fenced"}
  /\ kind \in Kinds /\ pc \in Steps /\ back \in {"rollback", "unwind", "unwind-again", "close"}
  /\ txn \in {"none", "staged", "committed", "rolled-back"}
  /\ restore \in {"none", "pending", "done"} /\ child \in {"settled", "stranded"}
  /\ Flags
  /\ out \in {"none", "ok", "error", "canceled"}
  /\ runs \in 0..MaxRuns /\ faults \in 0..MaxFaults

Init ==
  /\ live = "A" /\ staging = "B" /\ previous = "A"
  /\ rec = [active |-> "A", epoch |-> NoEpoch] /\ data = [s \in Slots |-> NoEpoch]
  /\ primary = "A" /\ stager = "down"
  /\ conf = {NoEpoch} /\ loaded = {NoEpoch} /\ backup = {}
  /\ validated = NoEpoch /\ pins = NoEpoch /\ epoch = NoEpoch
  /\ lease = "free" /\ kind = "sync" /\ pc = "idle" /\ back = "close"
  /\ txn = "none" /\ restore = "none" /\ obliged = FALSE /\ child = "settled"
  /\ changed = FALSE /\ abort = FALSE /\ restarted = FALSE
  /\ out = "none" /\ runs = 0 /\ faults = 0 /\ rough = FALSE

-----------------------------------------------------------------------------
(* A step of the run asserts first that it may go forward: not canceled, the lease its own. *)
At(p) == lease = "held" /\ ~abort /\ pc = p

Goto(p) == pc' = p /\ UNCHANGED <<owner, out, faults, child>>

(* A failure that leaves no effect: the run ends in error after going to p.  A host
   operation may fail between its reservation and its dispatch. *)
FailTo(p) ==
  /\ faults < MaxFaults /\ faults' = faults + 1
  /\ pc' = p /\ out' = "error"
  /\ child' \in {child} \cup (IF pc \in HostSteps THEN {"stranded"} ELSE {})
  /\ UNCHANGED owner

(* Admission: the lease, then the dispatcher.  An activation needs the selected
   validation, whose slot is not the active one. *)
Begin(k) ==
  /\ lease = "free" /\ runs < MaxRuns
  /\ k = "activate" => validated # NoEpoch /\ validated # rec.epoch
  /\ lease' = "held" /\ kind' = k /\ runs' = runs + 1 /\ abort' = FALSE
  /\ epoch' = IF k = "activate" THEN validated ELSE runs + 1
  /\ pc' = IF k = "validate" THEN "stop-validation" ELSE "layout"
  /\ txn' = "none" /\ restore' = "none" /\ obliged' = FALSE /\ changed' = FALSE
  /\ child' = "settled"
  /\ out' = "none" /\ faults' = 0 /\ rough' = (rough \/ abort \/ faults > 1)
  /\ UNCHANGED <<links, store, containers, routes, backup, back, previous, restarted>>

StopValidation ==
  /\ At("stop-validation")
  /\ stager' = "down" /\ Goto("layout")
  /\ UNCHANGED <<links, store, primary, routes, proxy, swap>>

(* The links as the last run left them. *)
EnsureLayoutKeepsLinks ==
  /\ At("layout")
  /\ validated' = IF kind = "activate" THEN validated ELSE NoEpoch
  /\ Goto(IF kind = "activate" THEN "verify" ELSE "assemble")
  /\ UNCHANGED <<links, rec, data, pins, containers, routes, proxy, swap>>

(* buildJobContext: a build first unselects the validation, then the record wins over the links. *)
EnsureLayout ==
  /\ At("layout")
  /\ validated' = IF kind = "activate" THEN validated ELSE NoEpoch
  /\ live' = rec.active /\ staging' = Other(rec.active)
  /\ Goto(IF kind = "activate" THEN "verify" ELSE "assemble")
  /\ UNCHANGED <<rec, data, pins, containers, routes, proxy, swap>>

(* The candidate is assembled where the staging link points.  A catalog without a MOTIS
   config has nothing to assemble, which a validation takes for a failure. *)
Assemble ==
  /\ At("assemble")
  /\ \/ data' = [data EXCEPT ![staging] = epoch] /\ Goto("write-union")
     \/ data' \in {data, [data EXCEPT ![staging] = Partial]} /\ FailTo("unwind")
  /\ UNCHANGED <<links, rec, validated, pins, containers, routes, proxy, swap>>

(* A sync goes on with the candidate an earlier run left in the staging slot.  Where there
   is none, the later stages are skipped as well, and a run without a failure is ok. *)
SkipAssembly ==
  /\ At("assemble") /\ kind = "sync" /\ data[staging] # Partial
  /\ epoch' = data[staging]
  /\ \/ data[staging] = NoEpoch /\ pc' = "finish" /\ out' = "ok"
     \/ data[staging] # NoEpoch /\ pc' = "write-union" /\ UNCHANGED out
  /\ UNCHANGED <<links, store, containers, routes, kind, abort, lease, restarted, runs, rough,
                 proxy, swap, faults, child>>

VerifyCandidate ==
  /\ At("verify")
  /\ \/ data[staging] = epoch /\ Goto("write-union")
     \/ data[staging] # epoch /\ pc' = "contain" /\ out' = "error"
                                  /\ UNCHANGED <<owner, faults, child>>
  /\ UNCHANGED <<links, store, containers, routes, proxy, swap>>

-----------------------------------------------------------------------------
(* The shared proxy *)

(* The routes of the candidate are added; the routes before it are kept aside. *)
WriteUnion ==
  /\ At("write-union")
  /\ backup' = conf /\ conf' = conf \cup {epoch} /\ txn' = "staged"
  /\ Goto("proxy-stage")
  /\ UNCHANGED <<links, store, containers, loaded, restore, obliged, back, swap>>

(* nginx -t and a reload.  A file nginx refuses is a contained failure, which obliges
   the run to restore; a refusal before the operation is reserved is not. *)
ReloadFails(return) ==
  /\ FailTo("write-restore")
  /\ obliged' \in {obliged, TRUE} /\ back' = return
  /\ UNCHANGED <<links, store, containers, routes, txn, backup, restore, swap>>

ReloadUnion ==
  /\ At("proxy-stage")
  /\ \/ loaded' = conf /\ Goto("restart-staging")
        /\ UNCHANGED <<links, store, containers, conf, proxy, swap>>
     \/ ReloadFails("unwind")

WriteRoutes ==
  /\ At("write-routes")
  /\ conf' = {epoch} /\ Goto("proxy-commit")
  /\ UNCHANGED <<links, store, containers, loaded, proxy, swap>>

(* A reload that failed is taken for done. *)
ReloadRoutesUnchecked ==
  /\ At("proxy-commit")
  /\ loaded' \in {conf, loaded} /\ txn' = "committed" /\ Goto("commit-record")
  /\ UNCHANGED <<links, store, containers, conf, backup, restore, obliged, back, swap>>

ReloadRoutes ==
  /\ At("proxy-commit")
  /\ \/ loaded' = conf /\ txn' = "committed" /\ Goto("commit-record")
        /\ UNCHANGED <<links, store, containers, conf, backup, restore, obliged, back, swap>>
     \/ ReloadFails("rollback")

(* Where a run goes when the restore throws: the pipeline catches it, the last restore of
   a validation or an activation is not caught. *)
Thrown == IF back = "close" THEN "contain" ELSE back

(* The restore is reserved, then the old file is written back. *)
WriteRestore ==
  /\ At("write-restore")
  /\ \/ conf' = backup /\ restore' = "pending" /\ Goto("proxy-restore")
     \/ UNCHANGED <<conf, restore>> /\ FailTo(Thrown)
  /\ UNCHANGED <<links, store, containers, loaded, txn, backup, obliged, back, swap>>

ReloadRestored ==
  /\ At("proxy-restore")
  /\ \/ loaded' = conf /\ txn' = "rolled-back" /\ restore' = "done" /\ Goto(back)
     \/ UNCHANGED <<loaded, txn, restore>> /\ FailTo(Thrown)
  /\ UNCHANGED <<links, store, containers, conf, backup, obliged, back, swap>>

(* The restore is tried until it succeeds. *)
UnwindRetries ==
  /\ At("unwind") \/ At("unwind-again")
  /\ \/ txn # "staged" /\ Goto("close") /\ UNCHANGED back
     \/ txn = "staged" /\ restore = "none" /\ back' = "unwind" /\ Goto("write-restore")
     \/ txn = "staged" /\ restore # "none" /\ Goto("unwind") /\ UNCHANGED back
  /\ UNCHANGED <<links, store, containers, routes, txn, backup, restore, obliged, swap>>

(* rollbackProxyTransaction: a staged transaction is restored, once: the restore
   already reserved is only observed. *)
Unwind ==
  /\ At("unwind") \/ At("unwind-again")
  /\ LET next == IF pc = "unwind" /\ kind = "validate" /\ out = "error"
                 THEN "unwind-again" ELSE "close"
     IN \/ txn # "staged" /\ Goto(next) /\ UNCHANGED back
        \/ txn = "staged" /\ restore = "none" /\ back' = next /\ Goto("write-restore")
        \/ txn = "staged" /\ restore # "none" /\ Goto("contain") /\ UNCHANGED back
  /\ UNCHANGED <<links, store, containers, routes, txn, backup, restore, obliged, swap>>

-----------------------------------------------------------------------------
(* The candidate behind the staging container *)

RestartStaging ==
  /\ At("restart-staging")
  /\ \/ stager' = staging /\ Goto("health")
     \/ UNCHANGED stager /\ FailTo("unwind")
  /\ UNCHANGED <<links, store, primary, routes, proxy, swap>>

(* Import, health and functional probes of the staging container. *)
Health ==
  /\ At("health")
  /\ \/ kind # "validate" /\ Goto("smoke")
     \/ kind = "validate" /\ pc' = "unwind" /\ out' = "ok" /\ UNCHANGED <<owner, faults, child>>
     \/ FailTo("unwind")
  /\ UNCHANGED <<links, store, containers, routes, proxy, swap>>

(* The promote stage verifies the manifest, refuses the recorded epoch and probes again. *)
Smoke ==
  /\ At("smoke")
  /\ \/ data[staging] = epoch /\ epoch # rec.epoch /\ Goto("stop-primary")
     \/ FailTo("unwind")
  /\ UNCHANGED <<links, store, containers, routes, proxy, swap>>

-----------------------------------------------------------------------------
(* The swap *)

StopPrimary ==
  /\ At("stop-primary")
  /\ \/ primary' = "down" /\ changed' = (primary # "down") /\ Goto("stop-staging")
     \/ UNCHANGED <<primary, changed>> /\ FailTo("unwind")
  /\ UNCHANGED <<links, store, stager, routes, proxy, previous>>

(* Staging is left running. *)
StopStagingSkipped ==
  /\ At("stop-staging") /\ Goto("flip")
  /\ UNCHANGED <<links, store, containers, routes, proxy, swap>>

(* When staging cannot be stopped, a primary this run stopped is started again. *)
StopStaging ==
  /\ At("stop-staging")
  /\ \/ stager' = "down" /\ Goto("flip")
     \/ UNCHANGED stager /\ FailTo(IF changed THEN "recover-old" ELSE "unwind")
  /\ UNCHANGED <<links, store, primary, routes, proxy, swap>>

(* The container is created anew, on the slot the live link names now. *)
StartPrimary(p, onFailure) ==
  /\ \/ primary' = live /\ Goto(p)
     \/ UNCHANGED primary /\ FailTo(onFailure)
  /\ UNCHANGED <<links, store, stager, routes, proxy, swap>>

RecoverOld == At("recover-old") /\ StartPrimary("unwind", "unwind")

(* The slot being replaced is taken from the container, which is stopped by now. *)
FlipFromPrimary ==
  /\ At("flip")
  /\ live' = staging /\ staging' = live /\ previous' = primary
  /\ Goto("promote-primary")
  /\ UNCHANGED <<store, containers, routes, proxy, changed>>

Flip ==
  /\ At("flip")
  /\ live' = staging /\ staging' = live /\ previous' = live
  /\ Goto("promote-primary")
  /\ UNCHANGED <<store, containers, routes, proxy, changed>>

PromotePrimary == At("promote-primary") /\ StartPrimary("primary-health", "rollback")

(* A failed probe ends the run without a rollback. *)
PrimaryHealthOnly ==
  /\ At("primary-health")
  /\ Goto("write-routes") \/ FailTo("unwind")
  /\ UNCHANGED <<links, store, containers, routes, proxy, swap>>

(* Health, then the same probes through the stable URL. *)
PrimaryHealth ==
  /\ At("primary-health")
  /\ Goto("write-routes") \/ FailTo("rollback")
  /\ UNCHANGED <<links, store, containers, routes, proxy, swap>>

Rollback ==
  /\ At("rollback")
  /\ live' = previous /\ staging' = Other(previous)
  /\ Goto("recover-primary")
  /\ UNCHANGED <<store, containers, routes, proxy, swap>>

RecoverPrimary == At("recover-primary") /\ StartPrimary("unwind", "unwind")

(* The last write: the slot is recorded once its probes passed and its routes are served. *)
CommitRecord ==
  /\ At("commit-record")
  /\ rec' = [active |-> Other(previous), epoch |-> epoch] /\ out' = "ok"
  /\ pc' = IF kind = "activate" THEN "pin" ELSE "finish"
  /\ UNCHANGED <<links, data, validated, pins, containers, routes, owner, proxy, swap, faults, child>>

(* An activation then commits the catalog pins. *)
CommitPins ==
  /\ At("pin")
  /\ \/ pins' = epoch /\ Goto("contain")
     \/ UNCHANGED pins /\ FailTo("contain")
  /\ UNCHANGED <<links, rec, data, validated, containers, routes, proxy, swap>>

Finish ==
  /\ At("finish") /\ Goto("contain")
  /\ UNCHANGED <<links, store, containers, routes, proxy, swap>>

(* A validation, and an activation that failed, stop staging; a validation that passed
   selects its evidence. *)
Close ==
  /\ At("close")
  /\ \/ kind = "sync" /\ Goto("contain") /\ UNCHANGED <<stager, validated>>
     \/ /\ kind # "sync" /\ stager' = "down" /\ Goto("contain")
        /\ validated' = IF kind = "validate" /\ out = "ok" THEN epoch ELSE validated
     \/ kind # "sync" /\ FailTo("contain") /\ UNCHANGED <<stager, validated>>
  /\ UNCHANGED <<links, rec, data, pins, primary, routes, proxy, swap>>

-----------------------------------------------------------------------------
(* The end of a run *)

(* A cancellation or the deadline. *)
Cancel ==
  /\ lease = "held" /\ ~abort /\ pc \notin {"contain", "settle"}
  /\ abort' = TRUE
  /\ UNCHANGED <<links, store, containers, routes, kind, epoch, lease, restarted, runs, rough,
                 proxy, swap, pc, out, faults, child>>

(* The next step of a canceled run throws; nothing is rolled back. *)
Abandon ==
  /\ lease = "held" /\ abort /\ pc \notin {"proxy-restore", "contain", "settle"}
  /\ pc' = "contain" /\ out' = "canceled"
  /\ UNCHANGED <<links, store, containers, routes, owner, proxy, swap, faults, child>>

(* It throws between the reservation of a host operation and its dispatch, or waits in vain
   for one whose dispatch was lost.  A restore is reserved before its file is written. *)
AbandonReserved ==
  /\ lease = "held" /\ abort /\ pc \in HostSteps \cup {"write-restore"}
  /\ pc' = "contain" /\ out' = "canceled" /\ child' = "stranded"
  /\ restore' = IF pc = "write-restore" THEN "pending" ELSE restore
  /\ UNCHANGED <<links, store, containers, routes, owner, txn, backup, obliged, back, swap, faults>>

(* The proof that the worker is contained.  Routes that are owed a restore keep the fence;
   while a host operation is stranded the run polls for its end. *)
Settled == restore # "pending" /\ (obliged => restore = "done")

Contain ==
  /\ lease = "held" /\ pc = "contain" /\ child = "settled"
  /\ lease' = IF Settled THEN "held" ELSE "fenced"
  /\ pc' = IF Settled THEN "settle" ELSE "contain"
  /\ UNCHANGED <<links, store, containers, routes, kind, epoch, abort, restarted, runs, rough,
                 proxy, swap, out, faults, child>>

Release ==
  /\ lease = "held" /\ pc = "settle"
  /\ lease' = "free" /\ pc' = "idle"
  /\ UNCHANGED <<links, store, containers, routes, kind, epoch, abort, restarted, runs, rough,
                 proxy, swap, out, faults, child>>

(* A crash, a published change whose write or receipt is lost, a host operation that
   fails without evidence, a cancellation between marking a change and writing it. *)
Lost ==
  /\ lease = "held"
  /\ lease' = "fenced"
  /\ UNCHANGED <<links, store, containers, routes, kind, epoch, abort, restarted, runs, rough,
                 proxy, swap, pc, out, faults, child>>

(* A crash between the two renames of a flip. *)
LostInFlip ==
  /\ At("flip")
  /\ live' = staging /\ previous' = live /\ lease' = "fenced"
  /\ UNCHANGED <<staging, store, containers, routes, kind, epoch, abort, restarted, runs, rough,
                 proxy, changed, pc, out, faults, child>>

(* An activation whose last effect, the pins, is committed: its containment is derived from
   that (repairCommittedCatalogActivation). *)
Repairable ==
  pc = "contain" /\ kind = "activate" /\ out = "ok" /\ child = "settled" /\ Settled

(* The restarted manager finishes a run whose containment was proved, or can be; any other
   stays fenced. *)
Reconcile ==
  /\ lease = "fenced" /\ ~restarted
  /\ \/ /\ pc = "settle" \/ Repairable
        /\ lease' = "free" /\ pc' = "idle" /\ UNCHANGED restarted
     \/ /\ pc # "settle" /\ ~Repairable
        /\ restarted' = TRUE /\ UNCHANGED <<lease, pc>>
  /\ UNCHANGED <<links, store, containers, routes, kind, epoch, abort, runs, rough,
                 proxy, swap, out, faults, child>>

-----------------------------------------------------------------------------
Prepare == StopValidation \/ EnsureLayout \/ Assemble \/ SkipAssembly \/ VerifyCandidate
Reload == WriteUnion \/ ReloadUnion \/ WriteRoutes \/ ReloadRoutes \/ WriteRestore
          \/ ReloadRestored \/ Unwind
Promote == RestartStaging \/ Health \/ Smoke \/ StopPrimary \/ StopStaging \/ RecoverOld
           \/ Flip \/ PromotePrimary \/ PrimaryHealth \/ Rollback \/ RecoverPrimary
           \/ CommitRecord \/ CommitPins \/ Finish \/ Close
Work == Prepare \/ Reload \/ Promote \/ Abandon \/ AbandonReserved \/ Contain \/ Release

Next ==
  \/ \E k \in Kinds : Begin(k)
  \/ Work \/ Cancel \/ Lost \/ LostInFlip \/ Reconcile

Spec == Init /\ [][Next]_vars

(* The worker goes on: a build, a probe and an operation of the agent have deadlines.  The
   wait for a stranded operation has none, and is not taken for a step (Contain). *)
FairSpec == Spec /\ WF_vars(Work)

-----------------------------------------------------------------------------
(* The dataset the record names is never overwritten, whatever run was canceled, lost or
   rolled back before: the slot that passed its probes is still there to return to. *)
RetainedSlotIntact == data[rec.active] = rec.epoch

(* The dataset the run is about is recorded and behind the stable URL, with its routes only. *)
Served ==
  /\ rec.epoch = epoch /\ primary = rec.active /\ live = rec.active
  /\ loaded = {epoch} /\ conf = {epoch}

(* A sync that had no candidate: it opened no proxy transaction, stopped no server and left
   the links on the recorded slot. *)
Untouched ==
  kind = "sync" /\ epoch = NoEpoch /\ txn = "none" /\ ~changed /\ live = rec.active

(* What a reported ok means: the candidate is served, or there was none and the run left the
   serving side alone.  A promotion half done is never ok. *)
OkIsServed ==
  out = "ok" /\ kind # "validate" /\ pc \in {"contain", "settle", "idle"} =>
    IF epoch = NoEpoch THEN Untouched ELSE Served

(* No run was canceled, and none failed more than once. *)
Smooth == ~rough /\ ~abort /\ faults <= 1

(* One failure in a run, wherever it strikes, heals: when the lease is free again the
   primary serves the recorded slot, through the links the next container will resolve,
   and the proxy has the routes of that dataset. *)
OneFailureHeals ==
  lease = "free" /\ Smooth =>
    /\ primary = rec.active /\ live = rec.active /\ staging = Other(rec.active)
    /\ rec.epoch \in loaded /\ loaded = conf

(* Two MOTIS processes never share a slot, as long as no run was canceled or failed twice. *)
SlotsDisjoint == Smooth /\ primary # "down" => primary # stager

(* Every run gives the lease back or leaves it fenced; none works forever, unless a host
   operation it reserved was never carried out: for that one it polls without a deadline. *)
RunSettles == (lease = "held") ~> (lease # "held" \/ child = "stranded")

-----------------------------------------------------------------------------
(* What the documentation and the comments say *)

(* "The inactive slot can import for as long as needed": no build writes into the slot
   the primary serves. *)
ImportsInactiveSlot == [][\A s \in Slots : data'[s] # data[s] => s # primary]_vars
=============================================================================
