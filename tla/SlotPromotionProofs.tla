------------------------ MODULE SlotPromotionProofs ------------------------
(***************************************************************************)
(* Proofs about the slot switch, for any number of runs and of failures,   *)
(* with cancellation and loss anywhere.  The candidate is only ever        *)
(* written through the staging link, so what has to be carried from the    *)
(* layout to the flip is that the links and the record agree, and from the *)
(* flip to the record which slot holds the candidate.                      *)
(***************************************************************************)
EXTENDS SlotPromotion, TLAPS

(* The steps between the layout and the flip, and from there to the record. *)
BeforeFlip ==
  {"assemble", "verify", "write-union", "proxy-stage", "restart-staging", "health", "smoke",
   "stop-primary", "stop-staging", "flip"}
AfterFlip == {"promote-primary", "primary-health", "write-routes", "proxy-commit", "commit-record"}

(* Until the flip the links say what the record says.  (A fenced run may have been lost
   in the middle of it.) *)
LinksFollowRecord ==
  lease = "held" /\ pc \in BeforeFlip => live = rec.active /\ staging = Other(rec.active)

(* A run on its way has a dataset of its own; where the checked candidate is, before the
   flip and after it. *)
CandidateKnown ==
  /\ pc \in {"stop-validation", "layout"} \cup BeforeFlip \cup AfterFlip => epoch # NoEpoch
  /\ pc \in {"stop-primary", "stop-staging", "flip"} => data[staging] = epoch
  /\ pc \in AfterFlip => data[Other(previous)] = epoch

(* What has been put behind the stable URL by each step after the flip. *)
SwitchedSoFar ==
  /\ pc \in AfterFlip => live = Other(previous)
  /\ pc \in AfterFlip \ {"promote-primary"} => primary = Other(previous)
  /\ pc \in {"proxy-commit", "commit-record"} => conf = {epoch}
  /\ pc = "commit-record" => loaded = {epoch}

(* Until the candidate is known the run has neither touched the proxy nor stopped a server. *)
NothingDone == pc \in {"stop-validation", "layout", "assemble"} => txn = "none" /\ changed = FALSE

(* A result of ok is the record's or that of a run without a candidate, and no later step of
   the run undoes it. *)
OkIsFinal ==
  out = "ok" /\ kind # "validate" =>
    /\ pc \in {"finish", "pin", "contain", "settle", "idle"}
    /\ IF epoch = NoEpoch THEN Untouched ELSE Served

(* What one failure leaves.  From the flip until its rollback is done the run replaces the
   recorded slot; a run that is not fenced can still give the lease back. *)
Restoring == pc \in {"write-restore", "proxy-restore"}
Undoing == pc \in {"rollback", "recover-primary"} \/ (Restoring /\ back = "rollback")
Switched == pc \in AfterFlip \/ Undoing
Returnable == lease # "fenced" \/ pc = "settle" \/ Repairable

PreviousIsRecorded == Switched => previous = rec.active

(* Staging never runs on the recorded slot, and not at all while the slots are switched. *)
ServersApart ==
  /\ stager \in {"down", Other(rec.active)}
  /\ pc = "flip" \/ Switched => stager = "down"
  /\ ~Switched => primary \in {"down", rec.active}

LinksHome ==
  /\ Returnable /\ (~Switched \/ pc = "recover-primary") =>
       live = rec.active /\ staging = Other(rec.active)
  /\ pc \in AfterFlip => staging = rec.active

PrimaryHome ==
  /\ Returnable /\ ~Switched /\ pc \notin {"stop-staging", "flip", "recover-old"} =>
       primary = rec.active
  /\ pc = "stop-staging" => changed

(* The proxy serves the recorded dataset except between a change of its file and the reload. *)
InChange ==
  \/ pc \in {"proxy-stage", "proxy-commit", "commit-record", "proxy-restore"}
  \/ pc = "write-restore" /\ faults > 0
  \/ pc = "contain" /\ restore = "pending"

Staged ==
  {"proxy-stage", "restart-staging", "health", "smoke", "stop-primary", "stop-staging", "flip",
   "promote-primary", "primary-health", "write-routes", "proxy-commit"}

RoutesHome ==
  /\ Returnable /\ ~InChange => loaded = conf /\ rec.epoch \in loaded
  /\ txn = "staged" => rec.epoch \in backup
  /\ Restoring \/ pc \in Staged => txn = "staged"
  /\ pc = "commit-record" => txn = "committed"
  /\ pc = "proxy-restore" => conf = backup /\ restore = "pending"
  /\ pc = "proxy-stage" => rec.epoch \in conf

(* Only a failure sends a run back; a validation that passed restores on its way out. *)
FailedOnce ==
  faults = 0 =>
    /\ pc \notin {"recover-old", "rollback", "recover-primary", "unwind-again"}
    /\ pc = "unwind" => out # "error"
    /\ Restoring => back = "close"

Home == PreviousIsRecorded /\ ServersApart /\ LinksHome /\ PrimaryHome /\ RoutesHome /\ FailedOnce
Healing == Smooth => Home

(* Nobody works without the lease. *)
FreeIsIdle == lease = "free" => pc = "idle"

Switch ==
  /\ FreeIsIdle /\ RetainedSlotIntact /\ LinksFollowRecord /\ CandidateKnown
  /\ SwitchedSoFar /\ NothingDone /\ OkIsFinal
IndInv == TypeOK /\ Switch

-----------------------------------------------------------------------------
(* Each step keeps the types. *)

(* What comes before the proxy. *)
LEMMA PrepareTypeOK ==
  ASSUME IndInv, Prepare
  PROVE  TypeOK'
<1> USE BoundsAssumption DEF IndInv, TypeOK, Goto, FailTo, HostSteps, Thrown, At, Slots, Other, Steps, Kinds,
    Epochs, NoEpoch, Partial, links, store, containers, routes, owner, proxy, swap
<1>1. CASE StopValidation
  BY <1>1 DEF Flags, StopValidation
<1>2. CASE EnsureLayout
  BY <1>2 DEF Flags, EnsureLayout
<1>3. CASE Assemble
  BY <1>3 DEF Flags, Assemble
<1>4. CASE SkipAssembly
  BY <1>4 DEF Flags, SkipAssembly
<1>5. CASE VerifyCandidate
  BY <1>5 DEF Flags, VerifyCandidate
<1> QED
  BY <1>1, <1>2, <1>3, <1>4, <1>5 DEF Prepare

(* The shared proxy. *)
LEMMA ReloadTypeOK ==
  ASSUME IndInv, Reload
  PROVE  TypeOK'
<1> USE BoundsAssumption DEF IndInv, TypeOK, Goto, FailTo, HostSteps, Thrown, At, Slots, Other, Steps, Kinds,
    Epochs, NoEpoch, Partial, links, store, containers, routes, owner, proxy, swap
<1>1. CASE WriteUnion
  BY <1>1 DEF Flags, WriteUnion
<1>2. CASE ReloadUnion
  <2>1. Flags'
    BY <1>2, Zenon DEF ReloadUnion, ReloadFails, Flags
  <2>2. CASE loaded' = conf /\ Goto("restart-staging")
             /\ UNCHANGED <<links, store, containers, conf, proxy, swap>>
    BY <1>2, <2>1, <2>2 DEF ReloadUnion
  <2>3. CASE ReloadFails("unwind")
    BY <1>2, <2>1, <2>3 DEF ReloadUnion, ReloadFails
  <2> QED
    BY <1>2, <2>2, <2>3 DEF ReloadUnion
<1>3. CASE WriteRoutes
  BY <1>3 DEF Flags, WriteRoutes
<1>4. CASE ReloadRoutes
  <2>1. Flags'
    BY <1>4, Zenon DEF ReloadRoutes, ReloadFails, Flags
  <2>2. CASE loaded' = conf /\ txn' = "committed" /\ Goto("commit-record")
             /\ UNCHANGED <<links, store, containers, conf, backup, restore, obliged, back, swap>>
    BY <1>4, <2>1, <2>2 DEF ReloadRoutes
  <2>3. CASE ReloadFails("rollback")
    BY <1>4, <2>1, <2>3 DEF ReloadRoutes, ReloadFails
  <2> QED
    BY <1>4, <2>2, <2>3 DEF ReloadRoutes
<1>5. CASE WriteRestore
  <2>1. Flags'
    BY <1>5, Zenon DEF WriteRestore, Flags
  <2>2. CASE conf' = backup /\ restore' = "pending" /\ Goto("proxy-restore")
    BY <1>5, <2>1, <2>2 DEF WriteRestore
  <2>3. CASE UNCHANGED <<conf, restore>> /\ FailTo(Thrown)
    BY <1>5, <2>1, <2>3 DEF WriteRestore
  <2> QED
    BY <1>5, <2>2, <2>3 DEF WriteRestore
<1>6. CASE ReloadRestored
  <2>1. Flags'
    BY <1>6, Zenon DEF ReloadRestored, Flags
  <2>2. CASE loaded' = conf /\ txn' = "rolled-back" /\ restore' = "done" /\ Goto(back)
    BY <1>6, <2>1, <2>2 DEF ReloadRestored
  <2>3. CASE UNCHANGED <<loaded, txn, restore>> /\ FailTo(Thrown)
    BY <1>6, <2>1, <2>3 DEF ReloadRestored
  <2> QED
    BY <1>6, <2>2, <2>3 DEF ReloadRestored
<1>7. CASE Unwind
  BY <1>7 DEF Flags, Unwind
<1> QED
  BY <1>1, <1>2, <1>3, <1>4, <1>5, <1>6, <1>7 DEF Reload

(* Probes, swap, record and pins. *)
LEMMA PromoteTypeOK ==
  ASSUME IndInv, Promote
  PROVE  TypeOK'
<1> USE BoundsAssumption DEF IndInv, TypeOK, Goto, FailTo, HostSteps, Thrown, At, Slots, Other, Steps, Kinds,
    Epochs, NoEpoch, Partial, links, store, containers, routes, owner, proxy, swap
<1>1. CASE RestartStaging
  BY <1>1 DEF Flags, RestartStaging
<1>2. CASE Health
  BY <1>2 DEF Flags, Health
<1>3. CASE Smoke
  BY <1>3 DEF Flags, Smoke
<1>4. CASE StopPrimary
  <2>1. Flags'
    BY <1>4, Zenon DEF StopPrimary, Flags
  <2> QED
    BY <1>4, <2>1 DEF StopPrimary
<1>5. CASE StopStaging
  BY <1>5 DEF Flags, StopStaging
<1>6. CASE RecoverOld
  BY <1>6 DEF Flags, RecoverOld, StartPrimary
<1>7. CASE Flip
  BY <1>7 DEF Flags, Flip
<1>8. CASE PromotePrimary
  BY <1>8 DEF Flags, PromotePrimary, StartPrimary
<1>9. CASE PrimaryHealth
  BY <1>9 DEF Flags, PrimaryHealth
<1>10. CASE Rollback
  BY <1>10 DEF Flags, Rollback
<1>11. CASE RecoverPrimary
  BY <1>11 DEF Flags, RecoverPrimary, StartPrimary
<1>12. CASE CommitRecord
  BY <1>12 DEF Flags, CommitRecord
<1>13. CASE CommitPins
  BY <1>13 DEF Flags, CommitPins
<1>14. CASE Finish
  BY <1>14 DEF Flags, Finish
<1>15. CASE Close
  BY <1>15 DEF Flags, Close
<1> QED
  BY <1>1, <1>2, <1>3, <1>4, <1>5, <1>6, <1>7, <1>8, <1>9, <1>10,
     <1>11, <1>12, <1>13, <1>14, <1>15 DEF Promote

(* Admission, and every way a run ends. *)
LEMMA EndsTypeOK ==
  ASSUME IndInv, (\E k \in Kinds : Begin(k)) \/ Abandon \/ AbandonReserved \/ Contain \/ Release \/ Cancel \/ Lost
                 \/ LostInFlip \/ Reconcile
  PROVE  TypeOK'
<1> USE BoundsAssumption DEF IndInv, TypeOK, Goto, FailTo, HostSteps, Thrown, At, Slots, Other, Steps, Kinds,
    Epochs, NoEpoch, Partial, links, store, containers, routes, owner, proxy, swap
<1>1. CASE \E k \in Kinds : Begin(k)
  <2>1. Flags'
    BY <1>1, Zenon DEF Begin, Flags
  <2> QED
    BY <1>1, <2>1 DEF Begin
<1>2. CASE Abandon
  BY <1>2 DEF Flags, Abandon
<1>3. CASE Contain
  BY <1>3 DEF Flags, Contain, Settled
<1>4. CASE Release
  BY <1>4 DEF Flags, Release
<1>5. CASE Cancel
  BY <1>5 DEF Flags, Cancel
<1>6. CASE Lost
  BY <1>6 DEF Flags, Lost
<1>7. CASE LostInFlip
  BY <1>7 DEF Flags, LostInFlip
<1>8. CASE Reconcile
  <2>1. Flags'
    BY <1>8, Zenon DEF Reconcile, Flags
  <2> QED
    BY <1>8, <2>1 DEF Reconcile
<1>9. CASE AbandonReserved
  BY <1>9 DEF Flags, AbandonReserved
<1> QED
  BY <1>1, <1>2, <1>3, <1>4, <1>5, <1>6, <1>7, <1>8, <1>9

-----------------------------------------------------------------------------
(* Each step keeps the rest. *)

(* What comes before the proxy. *)
LEMMA PrepareSwitch ==
  ASSUME IndInv, Prepare
  PROVE  Switch'
<1> USE BoundsAssumption DEF IndInv, TypeOK, Switch, FreeIsIdle, RetainedSlotIntact, LinksFollowRecord,
    CandidateKnown, SwitchedSoFar, NothingDone, OkIsFinal, Untouched, Served, BeforeFlip, AfterFlip, Goto, FailTo, HostSteps, Thrown, At,
    Slots, Other, Steps, Kinds, Epochs, NoEpoch, Partial, links, store, containers, routes,
    owner, proxy, swap
<1>1. CASE StopValidation
  BY <1>1 DEF StopValidation
<1>2. CASE EnsureLayout
  BY <1>2 DEF EnsureLayout
<1>3. CASE Assemble
  BY <1>3 DEF Assemble
<1>4. CASE SkipAssembly
  BY <1>4 DEF SkipAssembly
<1>5. CASE VerifyCandidate
  BY <1>5 DEF VerifyCandidate
<1> QED
  BY <1>1, <1>2, <1>3, <1>4, <1>5 DEF Prepare

(* The shared proxy. *)
LEMMA ReloadSwitch ==
  ASSUME IndInv, Reload
  PROVE  Switch'
<1> USE BoundsAssumption DEF IndInv, TypeOK, Switch, FreeIsIdle, RetainedSlotIntact, LinksFollowRecord,
    CandidateKnown, SwitchedSoFar, NothingDone, OkIsFinal, Untouched, Served, BeforeFlip, AfterFlip, Goto, FailTo, HostSteps, Thrown, At,
    Slots, Other, Steps, Kinds, Epochs, NoEpoch, Partial, links, store, containers, routes,
    owner, proxy, swap
<1>1. CASE WriteUnion
  BY <1>1 DEF WriteUnion
<1>2. CASE ReloadUnion
  BY <1>2 DEF ReloadUnion, ReloadFails
<1>3. CASE WriteRoutes
  BY <1>3 DEF WriteRoutes
<1>4. CASE ReloadRoutes
  BY <1>4 DEF ReloadRoutes, ReloadFails
<1>5. CASE WriteRestore
  BY <1>5, SMTT(30) DEF WriteRestore
<1>6. CASE ReloadRestored
  BY <1>6 DEF ReloadRestored
<1>7. CASE Unwind
  BY <1>7 DEF Unwind
<1> QED
  BY <1>1, <1>2, <1>3, <1>4, <1>5, <1>6, <1>7 DEF Reload

(* Probes, swap, record and pins. *)
LEMMA PromoteSwitch ==
  ASSUME IndInv, Promote
  PROVE  Switch'
<1> USE BoundsAssumption DEF IndInv, TypeOK, Switch, FreeIsIdle, RetainedSlotIntact, LinksFollowRecord,
    CandidateKnown, SwitchedSoFar, NothingDone, OkIsFinal, Untouched, Served, BeforeFlip, AfterFlip, Goto, FailTo, HostSteps, Thrown, At,
    Slots, Other, Steps, Kinds, Epochs, NoEpoch, Partial, links, store, containers, routes,
    owner, proxy, swap
<1>1. CASE RestartStaging
  BY <1>1 DEF RestartStaging
<1>2. CASE Health
  BY <1>2 DEF Health
<1>3. CASE Smoke
  BY <1>3 DEF Smoke
<1>4. CASE StopPrimary
  BY <1>4 DEF StopPrimary
<1>5. CASE StopStaging
  BY <1>5 DEF StopStaging
<1>6. CASE RecoverOld
  BY <1>6 DEF RecoverOld, StartPrimary
<1>7. CASE Flip
  BY <1>7 DEF Flip
<1>8. CASE PromotePrimary
  BY <1>8 DEF PromotePrimary, StartPrimary
<1>9. CASE PrimaryHealth
  BY <1>9 DEF PrimaryHealth
<1>10. CASE Rollback
  BY <1>10 DEF Rollback
<1>11. CASE RecoverPrimary
  BY <1>11 DEF RecoverPrimary, StartPrimary
<1>12. CASE CommitRecord
  BY <1>12 DEF CommitRecord
<1>13. CASE CommitPins
  BY <1>13 DEF CommitPins
<1>14. CASE Finish
  BY <1>14 DEF Finish
<1>15. CASE Close
  BY <1>15 DEF Close
<1> QED
  BY <1>1, <1>2, <1>3, <1>4, <1>5, <1>6, <1>7, <1>8, <1>9, <1>10,
     <1>11, <1>12, <1>13, <1>14, <1>15 DEF Promote

(* Admission, and every way a run ends. *)
LEMMA EndsSwitch ==
  ASSUME IndInv, (\E k \in Kinds : Begin(k)) \/ Abandon \/ AbandonReserved \/ Contain \/ Release \/ Cancel \/ Lost
                 \/ LostInFlip \/ Reconcile
  PROVE  Switch'
<1> USE BoundsAssumption DEF IndInv, TypeOK, Switch, FreeIsIdle, RetainedSlotIntact, LinksFollowRecord,
    CandidateKnown, SwitchedSoFar, NothingDone, OkIsFinal, Untouched, Served, BeforeFlip, AfterFlip, Goto, FailTo, HostSteps, Thrown, At,
    Slots, Other, Steps, Kinds, Epochs, NoEpoch, Partial, links, store, containers, routes,
    owner, proxy, swap
<1>1. CASE \E k \in Kinds : Begin(k)
  BY <1>1 DEF Begin
<1>2. CASE Abandon
  BY <1>2 DEF Abandon
<1>3. CASE Contain
  BY <1>3 DEF Contain, Settled
<1>4. CASE Release
  BY <1>4 DEF Release
<1>5. CASE Cancel
  BY <1>5 DEF Cancel
<1>6. CASE Lost
  BY <1>6 DEF Lost
<1>7. CASE LostInFlip
  BY <1>7 DEF LostInFlip
<1>8. CASE Reconcile
  BY <1>8 DEF Reconcile
<1>9. CASE AbandonReserved
  BY <1>9 DEF AbandonReserved
<1> QED
  BY <1>1, <1>2, <1>3, <1>4, <1>5, <1>6, <1>7, <1>8, <1>9

-----------------------------------------------------------------------------
(* Each step keeps what one failure leaves. *)

(* What comes before the proxy. *)
LEMMA PrepareHeals ==
  ASSUME IndInv, Healing, Prepare
  PROVE  Healing'
<1> USE BoundsAssumption DEF IndInv, TypeOK, Flags, Switch, FreeIsIdle, LinksFollowRecord,
    CandidateKnown, SwitchedSoFar, BeforeFlip, AfterFlip, Healing, Home, Smooth,
    PreviousIsRecorded, ServersApart, LinksHome, PrimaryHome, InChange, Staged, RoutesHome,
    FailedOnce, Restoring, Undoing, Switched, Returnable, Repairable, Settled, Goto, FailTo, HostSteps, Thrown, At, Slots, Other,
    Kinds, links, store, containers, routes, owner, proxy, swap
<1>1. CASE StopValidation
  BY <1>1 DEF StopValidation
<1>2. CASE EnsureLayout
  BY <1>2 DEF EnsureLayout
<1>3. CASE Assemble
  BY <1>3 DEF Assemble
<1>4. CASE SkipAssembly
  BY <1>4 DEF SkipAssembly
<1>5. CASE VerifyCandidate
  BY <1>5 DEF VerifyCandidate
<1> QED
  BY <1>1, <1>2, <1>3, <1>4, <1>5 DEF Prepare

(* The shared proxy. *)
LEMMA ReloadHeals ==
  ASSUME IndInv, Healing, Reload
  PROVE  Healing'
<1> USE BoundsAssumption DEF IndInv, TypeOK, Flags, Switch, FreeIsIdle, LinksFollowRecord,
    CandidateKnown, SwitchedSoFar, BeforeFlip, AfterFlip, Healing, Home, Smooth,
    PreviousIsRecorded, ServersApart, LinksHome, PrimaryHome, InChange, Staged, RoutesHome,
    FailedOnce, Restoring, Undoing, Switched, Returnable, Repairable, Settled, Goto, FailTo, HostSteps, Thrown, At, Slots, Other,
    Kinds, links, store, containers, routes, owner, proxy, swap
<1>1. CASE WriteUnion
  BY <1>1 DEF WriteUnion
<1>2. CASE ReloadUnion
  <2>1. CASE loaded' = conf /\ Goto("restart-staging")
             /\ UNCHANGED <<links, store, containers, conf, proxy, swap>>
    BY <1>2, <2>1 DEF ReloadUnion
  <2>2. CASE ReloadFails("unwind")
    BY <1>2, <2>2 DEF ReloadUnion, ReloadFails
  <2> QED
    BY <1>2, <2>1, <2>2 DEF ReloadUnion
<1>3. CASE WriteRoutes
  BY <1>3 DEF WriteRoutes
<1>4. CASE ReloadRoutes
  <2>1. CASE loaded' = conf /\ txn' = "committed" /\ Goto("commit-record")
             /\ UNCHANGED <<links, store, containers, conf, backup, restore, obliged, back, swap>>
    BY <1>4, <2>1 DEF ReloadRoutes
  <2>2. CASE ReloadFails("rollback")
    BY <1>4, <2>2 DEF ReloadRoutes, ReloadFails
  <2> QED
    BY <1>4, <2>1, <2>2 DEF ReloadRoutes
<1>5. CASE WriteRestore
  BY <1>5 DEF WriteRestore
<1>6. CASE ReloadRestored
  BY <1>6 DEF ReloadRestored
<1>7. CASE Unwind
  BY <1>7 DEF Unwind
<1> QED
  BY <1>1, <1>2, <1>3, <1>4, <1>5, <1>6, <1>7 DEF Reload

(* Probes, swap, record and pins. *)
LEMMA PromoteHeals ==
  ASSUME IndInv, Healing, Promote
  PROVE  Healing'
<1> USE BoundsAssumption DEF IndInv, TypeOK, Flags, Switch, FreeIsIdle, LinksFollowRecord,
    CandidateKnown, SwitchedSoFar, BeforeFlip, AfterFlip, Healing, Home, Smooth,
    PreviousIsRecorded, ServersApart, LinksHome, PrimaryHome, InChange, Staged, RoutesHome,
    FailedOnce, Restoring, Undoing, Switched, Returnable, Repairable, Settled, Goto, FailTo, HostSteps, Thrown, At, Slots, Other,
    Kinds, links, store, containers, routes, owner, proxy, swap
<1>1. CASE RestartStaging
  BY <1>1 DEF RestartStaging
<1>2. CASE Health
  BY <1>2 DEF Health
<1>3. CASE Smoke
  BY <1>3 DEF Smoke
<1>4. CASE StopPrimary
  <2>1. CASE primary' = "down" /\ changed' = (primary # "down") /\ Goto("stop-staging")
    <3>1. Smooth => primary # "down"
      BY <1>4 DEF StopPrimary
    <3>2. Smooth => changed'
      BY <2>1, <3>1, Zenon
    <3> QED
      BY <1>4, <2>1, <3>2 DEF StopPrimary
  <2>2. CASE UNCHANGED <<primary, changed>> /\ FailTo("unwind")
    BY <1>4, <2>2 DEF StopPrimary
  <2> QED
    BY <1>4, <2>1, <2>2 DEF StopPrimary
<1>5. CASE StopStaging
  BY <1>5 DEF StopStaging
<1>6. CASE RecoverOld
  BY <1>6 DEF RecoverOld, StartPrimary
<1>7. CASE Flip
  BY <1>7 DEF Flip
<1>8. CASE PromotePrimary
  BY <1>8 DEF PromotePrimary, StartPrimary
<1>9. CASE PrimaryHealth
  BY <1>9 DEF PrimaryHealth
<1>10. CASE Rollback
  BY <1>10 DEF Rollback
<1>11. CASE RecoverPrimary
  BY <1>11 DEF RecoverPrimary, StartPrimary
<1>12. CASE CommitRecord
  BY <1>12 DEF CommitRecord
<1>13. CASE CommitPins
  BY <1>13 DEF CommitPins
<1>14. CASE Finish
  BY <1>14 DEF Finish
<1>15. CASE Close
  BY <1>15 DEF Close
<1> QED
  BY <1>1, <1>2, <1>3, <1>4, <1>5, <1>6, <1>7, <1>8, <1>9, <1>10, <1>11, <1>12, <1>13, <1>14,
     <1>15 DEF Promote

(* Admission, and every way a run ends. *)
LEMMA EndsHeals ==
  ASSUME IndInv, Healing, (\E k \in Kinds : Begin(k)) \/ Abandon \/ AbandonReserved \/ Contain \/ Release \/ Cancel \/ Lost
                 \/ LostInFlip \/ Reconcile
  PROVE  Healing'
<1> USE BoundsAssumption DEF IndInv, TypeOK, Flags, Switch, FreeIsIdle, LinksFollowRecord,
    CandidateKnown, SwitchedSoFar, BeforeFlip, AfterFlip, Healing, Home, Smooth,
    PreviousIsRecorded, ServersApart, LinksHome, PrimaryHome, InChange, Staged, RoutesHome,
    FailedOnce, Restoring, Undoing, Switched, Returnable, Repairable, Settled, Goto, FailTo, HostSteps, Thrown, At, Slots, Other,
    Kinds, links, store, containers, routes, owner, proxy, swap
<1>1. CASE \E k \in Kinds : Begin(k)
  <2>1. PICK k \in Kinds : Begin(k)
    BY <1>1
  <2>2. Smooth' => ~rough /\ ~abort /\ ~(faults > 1)
    BY <2>1, Zenon DEF Begin
  <2>3. Smooth' => Smooth
    BY <2>2
  <2> QED
    BY <2>1, <2>3 DEF Begin
<1>2. CASE Abandon
  BY <1>2 DEF Abandon
<1>3. CASE Contain
  BY <1>3 DEF Contain, Settled
<1>4. CASE Release
  BY <1>4 DEF Release
<1>5. CASE Cancel
  BY <1>5 DEF Cancel
<1>6. CASE Lost
  BY <1>6 DEF Lost
<1>7. CASE LostInFlip
  BY <1>7 DEF LostInFlip
<1>8. CASE Reconcile
  BY <1>8 DEF Reconcile
<1>9. CASE AbandonReserved
  BY <1>9 DEF AbandonReserved
<1> QED
  BY <1>1, <1>2, <1>3, <1>4, <1>5, <1>6, <1>7, <1>8, <1>9

-----------------------------------------------------------------------------
(* The layout of a fresh installation satisfies the invariant. *)
LEMMA InitEstablishes ==
  ASSUME Init
  PROVE  IndInv
<1> USE BoundsAssumption DEF Init, Slots, Other, Epochs, NoEpoch, Partial
<1>1. rec \in [active : Slots, epoch : Epochs] /\ data \in [Slots -> Epochs]
  OBVIOUS
<1>2. conf \subseteq Epochs /\ loaded \subseteq Epochs /\ backup \subseteq Epochs
  OBVIOUS
<1>3. Flags
  BY DEF Flags
<1>4. TypeOK
  <2>1. validated \in Epochs /\ pins \in Epochs /\ epoch \in Epochs
    OBVIOUS
  <2>2. runs \in 0..MaxRuns /\ faults \in 0..MaxFaults
    OBVIOUS
  <2> QED
    BY <1>1, <1>2, <1>3, <2>1, <2>2 DEF TypeOK, Steps, Kinds
<1>5. Switch
  BY DEF Switch, FreeIsIdle, RetainedSlotIntact, LinksFollowRecord, CandidateKnown, SwitchedSoFar,
    NothingDone, OkIsFinal, BeforeFlip, AfterFlip
<1> QED
  BY <1>4, <1>5 DEF IndInv

(* Every step keeps it. *)
LEMMA NextKeeps ==
  ASSUME IndInv, [Next]_vars
  PROVE  IndInv'
<1>1. CASE UNCHANGED vars
  BY <1>1 DEF vars, Flags, IndInv, TypeOK, Switch, FreeIsIdle, RetainedSlotIntact, LinksFollowRecord,
    CandidateKnown, SwitchedSoFar, NothingDone, OkIsFinal, Untouched, Served, BeforeFlip, AfterFlip, Goto, FailTo, HostSteps, Thrown, At,
    Slots, Other, Steps, Kinds, Epochs, NoEpoch, Partial, links, store, containers, routes,
    owner, proxy, swap
<1>2. CASE Prepare
  BY <1>2, PrepareTypeOK, PrepareSwitch DEF IndInv
<1>3. CASE Reload
  BY <1>3, ReloadTypeOK, ReloadSwitch DEF IndInv
<1>4. CASE Promote
  BY <1>4, PromoteTypeOK, PromoteSwitch DEF IndInv
<1>5. CASE (\E k \in Kinds : Begin(k)) \/ Abandon \/ AbandonReserved \/ Contain \/ Release \/ Cancel \/ Lost
           \/ LostInFlip \/ Reconcile
  BY <1>5, EndsTypeOK, EndsSwitch DEF IndInv
<1> QED
  BY <1>1, <1>2, <1>3, <1>4, <1>5 DEF Next, Work

(* The invariant holds throughout. *)
LEMMA Inductive == Spec => []IndInv
<1>1. Init => IndInv
  BY InitEstablishes
<1>2. IndInv /\ [Next]_vars => IndInv'
  BY NextKeeps
<1> QED
  BY <1>1, <1>2, PTL DEF Spec

(* So does what one failure leaves. *)
LEMMA HealingHolds == Spec => []Healing
<1>1. Init => Healing
  BY DEF Init, Healing, Home, PreviousIsRecorded, ServersApart, LinksHome, PrimaryHome, InChange, Staged,
    RoutesHome, FailedOnce, Restoring, Undoing, Switched, AfterFlip, Other, NoEpoch
<1>2. IndInv /\ Healing /\ [Next]_vars => Healing'
  <2> SUFFICES ASSUME IndInv, Healing, [Next]_vars
               PROVE  Healing'
    OBVIOUS
  <2>1. CASE UNCHANGED vars
    BY <2>1 DEF vars, Healing, Home, Smooth, PreviousIsRecorded, ServersApart, LinksHome, PrimaryHome,
      InChange, Staged, RoutesHome, FailedOnce, Restoring, Undoing, Switched, Returnable, Repairable, Settled, AfterFlip,
      links, store, containers, routes, owner, proxy, swap
  <2>2. CASE Prepare
    BY <2>2, PrepareHeals
  <2>3. CASE Reload
    BY <2>3, ReloadHeals
  <2>4. CASE Promote
    BY <2>4, PromoteHeals
  <2>5. CASE (\E k \in Kinds : Begin(k)) \/ Abandon \/ AbandonReserved \/ Contain \/ Release \/ Cancel \/ Lost
             \/ LostInFlip \/ Reconcile
    BY <2>5, EndsHeals
  <2> QED
    BY <2>1, <2>2, <2>3, <2>4, <2>5 DEF Next, Work
<1> QED
  BY <1>1, <1>2, Inductive, PTL DEF Spec

(* The variables of the slot switch keep their types, however many runs and failures. *)
THEOREM SwitchTypes == Spec => []TypeOK
<1>1. IndInv => TypeOK
  BY DEF IndInv
<1> QED
  BY <1>1, Inductive, PTL

(* promoteTwoSlot and ensureMotisSlotLayout together: the dataset the record names is
   intact at every moment, whatever was canceled, lost or rolled back before. *)
THEOREM RecordedDatasetSurvives == Spec => []RetainedSlotIntact
<1>1. IndInv => RetainedSlotIntact
  BY DEF IndInv, Switch
<1> QED
  BY <1>1, Inductive, PTL

(* A sync or an activation that is reported as ok serves its candidate, with exactly its
   routes; a sync that found none to promote has left the serving side alone. *)
THEOREM ReportedIsServed == Spec => []OkIsServed
<1>1. IndInv => OkIsServed
  BY DEF IndInv, Switch, OkIsFinal, Served, OkIsServed
<1> QED
  BY <1>1, Inductive, PTL

(* promoteTwoSlot and rollbackProxyTransaction: wherever a run fails, as long as no run was
   canceled or failed twice, the lease is given back with the primary on the recorded slot,
   links and routes as that dataset needs them. *)
THEOREM FailureHeals == Spec => []OneFailureHeals
<1>1. IndInv /\ Healing => OneFailureHeals
  BY DEF IndInv, Switch, FreeIsIdle, Healing, Home, OneFailureHeals, LinksHome, PrimaryHome,
     RoutesHome, InChange, Switched, Undoing, Restoring, Returnable, AfterFlip
<1> QED
  BY <1>1, Inductive, HealingHolds, PTL

(* Docker binds a slot when a container is created: as long as no run was canceled or failed
   twice, no slot ever has two MOTIS processes. *)
THEOREM ServersNeverShare == Spec => []SlotsDisjoint
<1>1. IndInv /\ Healing => SlotsDisjoint
  BY DEF IndInv, TypeOK, Switch, SlotsDisjoint, Healing, Home, ServersApart, PreviousIsRecorded,
     Slots, Other
<1> QED
  BY <1>1, Inductive, HealingHolds, PTL
=============================================================================
