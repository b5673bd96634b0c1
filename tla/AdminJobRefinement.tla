------------------------- MODULE AdminJobRefinement -------------------------
(***************************************************************************)
(* AdminJob implements JobContract, for every set of processes and every   *)
(* bound.  A step shows in the contract only through the row's status, the *)
(* request, the canonical terminal or a cancellation request: StepKinds    *)
(* says which of them a step may change, and IndInv what they then mean.   *)
(***************************************************************************)
EXTENDS AdminJobProofs

(* A recorded cancellation was requested. *)
AskedInv == cancelReq => cancels > 0

(* The agent and the cancellations are left alone. *)
Aside == UNCHANGED <<kind, request, canon, cancels>>

(* The steps of a status that claims, containment and settlement take. *)
StatusStep ==
  \/ status' = status
  \/ status \in {"queued"} \cup Open /\ status' \in Open
  \/ status \in Open /\ status' \in {"success", "failed"}
  \/ status = "cancel_pending" /\ status' = "canceled"

ViewStep == Aside /\ StatusStep /\ cancelReq' = cancelReq

(* A request to cancel a queued or an open row. *)
RequestStep ==
  /\ UNCHANGED <<kind, request, canon>>
  /\ cancels' = cancels + 1
  /\ \/ status = "queued" /\ status' = "canceled"
     \/ status \in Open /\ status' \in Open

(* The POST leaves; the agent answers it or publishes a terminal. *)
EffectStep ==
  /\ UNCHANGED <<kind, status, cancels, cancelReq>>
  /\ \/ request = "none" /\ request' = "sent" /\ canon' = canon /\ phase = "admitting"
     \/ request = "sent" /\ request' \in {"accepted", "refused", "busy"} /\ canon' = canon
     \/ request' = request /\ canon = "none" /\ canon' = state /\ state \in AgentTerminal
     \/ UNCHANGED <<request, canon>>

StepKind ==
  \/ status = "none" /\ status' = "queued" /\ Aside /\ cancelReq' = cancelReq
  \/ ViewStep \/ RequestStep \/ EffectStep

LEMMA StepKinds ==
  ASSUME IndInv, [Next]_vars
  PROVE  StepKind
<1> USE DEF StepKind, ViewStep, StatusStep, Aside, rowVars, envVars, agentVars
<1>1. CASE Enqueue \/ LeaseExpires \/ CheckDue \/ UNCHANGED vars
  BY <1>1 DEF Enqueue, LeaseExpires, CheckDue, vars
<1>2. CASE AgentStep
  <2>1. EffectStep
    BY <1>2 DEF EffectStep, AgentStep, AgentNext, Admit, Refuse, Busy, Start, StartExpired,
       Deadline, Finish, Publish, DeadlineUnrecorded, FinishUnrecorded, ReleaseFails,
       JournalFails, AgentRestart, Conclusive
  <2> QED
    BY <2>1
<1>3. ASSUME NEW p \in Procs, Pump(p) \/ Reconcile(p) \/ RenewFails(p) \/ Crash(p) \/ Boot(p)
      PROVE  ViewStep
  BY <1>3 DEF Pump, Reconcile, RenewFails, Claim, Crash, Boot, Open
<1>4. ASSUME NEW p \in Procs, CancelQueued(p) \/ CancelOpen(p)
      PROVE  RequestStep
  BY <1>4 DEF RequestStep, CancelQueued, CancelOpen, MayCancel, Open
<1>5. ASSUME NEW t \in Threads, Step(t)
      PROVE  StepKind
  <2>1. CASE RejectPayload(t)
    BY <2>1 DEF RejectPayload, Owns, Open
  <2>2. CASE Submit(t)
    <3>1. phase = "admitting" /\ request = "none"
      BY <2>2 DEF Submit, IndInv, GlobalInv, HolderInv
    <3>2. EffectStep
      BY <2>2, <3>1 DEF EffectStep, Submit, SendPost
    <3> QED
      BY <3>2
  <2>3. CASE RunHandler(t) \/ HandlerFails(t) \/ Reserve(t) \/ Answer(t)
    BY <2>3 DEF RunHandler, HandlerFails, Reserve, Answer, MayReserve
  <2>4. CASE RecordRefusal(t) \/ Lookup(t) \/ Record(t) \/ Wait(t) \/ Retire(t)
    BY <2>4 DEF RecordRefusal, Lookup, Record, Wait, Retire, MergedPhase
  <2>5. CASE Copy(t) \/ Ack(t) \/ Confirm(t) \/ RemainingSteps(t)
    BY <2>5 DEF Copy, Ack, Confirm, RemainingSteps, GiveUpReceipt, Acknowledge
  <2>6. CASE Settle(t)
    <3>1. out[t] \in {"success", "failed"}
      BY <2>6 DEF Settle, IndInv, TypeOK, ThreadTypeOK, ThreadInv
    <3> QED
      BY <2>6, <3>1 DEF Settle, Owns, Open
  <2>7. CASE RetainOutcome(t) \/ Pending(t) \/ Interrupt(t) \/ Observe(t)
    BY <2>7 DEF RetainOutcome, Pending, Interrupt, Observe
  <2>8. CASE Contain(t) \/ Poll(t)
    BY <2>8 DEF Contain, Poll, CancelOperation
  <2>9. CASE Close(t) \/ Revert(t)
    BY <2>9 DEF Close, Revert, Owns, MayClose, Open
  <2> QED
    BY <1>5, <2>1, <2>2, <2>3, <2>4, <2>5, <2>6, <2>7, <2>8, <2>9 DEF Step
<1>6. ASSUME NEW t \in Threads, Failure(t)
      PROVE  ViewStep
  <2>1. CASE UpdateUnconfirmed(t)
    <3>1. pc[t] = "settle" => out[t] \in {"success", "failed"}
      BY DEF IndInv, TypeOK, ThreadTypeOK, ThreadInv
    <3> QED
      BY <2>1, <3>1 DEF UpdateUnconfirmed, Owns, MayClose, Open
  <2>2. CASE DatabaseFails(t) \/ CheckpointUnconfirmed(t) \/ ObserverTimeout(t)
    BY <2>2 DEF DatabaseFails, CheckpointUnconfirmed, ObserverTimeout, GiveUpReceipt
  <2>3. CASE Unreachable(t)
    BY <2>3 DEF Unreachable, GiveUpReceipt, Acknowledge
  <2> QED
    BY <1>6, <2>1, <2>2, <2>3 DEF Failure
<1> QED
  BY <1>1, <1>2, <1>3, <1>4, <1>5, <1>6 DEF Next

(* What the row's status says of the effect, in the contract's words. *)
StatusView ==
  /\ status = "success" => EffectView = "done"
  /\ status = "failed" => EffectView # "pending" /\ (kind = "single" => EffectView # "done")
  /\ status = "canceled" => EffectView \in {"none", "undone"}

LEMMA StatusMeans ==
  ASSUME IndInv
  PROVE  StatusView
<1> USE DEF IndInv, GlobalInv
<1>1. phase = "confirmed" => canon = rstate /\ rstate \in AgentTerminal /\ request = "accepted"
  BY DEF ReceiptInv, PhaseInv, RequestInv, AgentTerminal
<1>2. phase = "none" => request = "none"
  BY DEF PhaseInv
<1>3. phase = "refused" => request = "refused"
  BY DEF PhaseInv
<1>4. status = "success" => EffectView = "done"
  BY <1>1 DEF StatusInv, Succeeded, EffectView
<1>5. status = "failed" => EffectView # "pending" /\ (kind = "single" => EffectView # "done")
  BY <1>1, <1>2, <1>3 DEF StatusInv, Closable, NoSuccess, EffectView, AgentTerminal
<1>6. status = "canceled" => EffectView \in {"none", "undone"}
  BY <1>1, <1>2 DEF StatusInv, Contained, EffectView, AgentTerminal
<1> QED
  BY <1>4, <1>5, <1>6 DEF StatusView

(* While the effect is undecided the job is open. *)
LEMMA PendingIsOpen ==
  ASSUME IndInv, EffectView = "pending" \/ phase = "admitting"
  PROVE  status \in Open
<1> USE DEF IndInv, GlobalInv
<1>1. status \notin {"none", "queued"}
  BY DEF StatusInv, PhaseInv, EffectView
<1>2. status \notin Terminal
  BY StatusMeans DEF StatusView, StatusInv, Terminal, Succeeded, Closable
<1> QED
  BY <1>1, <1>2 DEF TypeOK, RowTypeOK, Open, Terminal

LEMMA AskedStep ==
  ASSUME TypeOK, AskedInv, StepKind
  PROVE  AskedInv'
<1>1. CASE RequestStep
  <2>1. cancels' > 0
    BY <1>1 DEF RequestStep, TypeOK, EnvTypeOK
  <2> QED
    BY <2>1 DEF AskedInv
<1>2. CASE UNCHANGED <<cancels, cancelReq>>
  BY <1>2 DEF AskedInv
<1> QED
  BY <1>1, <1>2 DEF StepKind, ViewStep, EffectStep, Aside

(* Every step is a step of the contract or does not show in it. *)
LEMMA StepImplements ==
  ASSUME IndInv, StatusView', AskedInv, StepKind
  PROVE  [Contract!Next]_(Contract!vars)
<1> USE DEF Contract!vars
<1>1. CASE status = "none" /\ status' = "queued" /\ Aside
  <2>1. JobView = "none" /\ JobView' = "open" /\ EffectView' = EffectView
    BY <1>1 DEF JobView, EffectView, Aside, Terminal
  <2> QED
    BY <1>1, <2>1 DEF Aside, Contract!Next, Contract!Accept
<1>2. CASE ViewStep
  <2>1. EffectView' = EffectView /\ cancels' = cancels /\ kind' = kind
    BY <1>2 DEF ViewStep, Aside, EffectView
  <2>2. CASE status' = status \/ (status \in {"queued"} \cup Open /\ status' \in Open)
    BY <2>1, <2>2 DEF JobView, Open, Terminal
  <2>3. CASE status \in Open /\ status' \in {"success", "failed"}
    <3>1. JobView = "open" /\ JobView' = status'
      BY <2>3 DEF JobView, Open, Terminal
    <3>2. status' = "success" => EffectView = "done"
      BY <2>1 DEF StatusView
    <3>3. status' = "failed" => EffectView # "pending" /\ (kind = "single" => EffectView # "done")
      BY <2>1 DEF StatusView
    <3> QED
      BY <2>1, <2>3, <3>1, <3>2, <3>3 DEF Contract!Next, Contract!Succeed, Contract!Fail
  <2>4. CASE status = "cancel_pending" /\ status' = "canceled"
    <3>1. JobView = "open" /\ JobView' = "canceled"
      BY <2>4 DEF JobView, Terminal
    <3>2. EffectView \in {"none", "undone"}
      BY <2>1, <2>4 DEF StatusView
    <3>3. cancels > 0
      BY <2>4 DEF AskedInv, IndInv, GlobalInv, StatusInv
    <3> QED
      BY <2>1, <3>1, <3>2, <3>3 DEF Contract!Next, Contract!Cancel
  <2> QED
    BY <1>2, <2>2, <2>3, <2>4 DEF ViewStep, StatusStep
<1>3. CASE RequestStep
  <2>1. EffectView' = EffectView /\ (cancels' > 0) = TRUE /\ kind' = kind
    BY <1>3 DEF RequestStep, EffectView, IndInv, TypeOK, EnvTypeOK
  <2>2. CASE status = "queued" /\ status' = "canceled"
    <3>1. JobView = "open" /\ JobView' = "canceled"
      BY <2>2 DEF JobView, Terminal
    <3>2. EffectView = "none"
      BY <2>2 DEF EffectView, IndInv, GlobalInv, StatusInv, PhaseInv
    <3> QED
      BY <2>1, <3>1, <3>2 DEF Contract!Next, Contract!Cancel
  <2>3. CASE status \in Open /\ status' \in Open
    <3>1. JobView = "open" /\ JobView' = "open"
      BY <2>3 DEF JobView, Open, Terminal
    <3> QED
      BY <2>1, <3>1 DEF Contract!Next, Contract!Ask
  <2> QED
    BY <1>3, <2>2, <2>3 DEF RequestStep
<1>4. CASE EffectStep
  <2>1. JobView' = JobView /\ cancels' = cancels /\ kind' = kind
    BY <1>4 DEF EffectStep, JobView
  <2>2. CASE request = "none" /\ request' = "sent" /\ canon' = canon /\ phase = "admitting"
    <3>1. canon = "none"
      BY <2>2 DEF IndInv, GlobalInv, ReceiptInv, RequestInv, TypeOK, AgentTypeOK, AgentTerminal
    <3>2. EffectView = "none" /\ EffectView' = "pending"
      BY <2>2, <3>1 DEF EffectView
    <3>3. JobView = "open"
      BY <2>2, PendingIsOpen DEF JobView, Open, Terminal
    <3> QED
      BY <2>1, <3>2, <3>3 DEF Contract!Next, Contract!Submit
  <2>3. CASE request = "sent" /\ request' \in {"accepted", "refused", "busy"} /\ canon' = canon
    <3>1. canon = "none"
      BY <2>3 DEF IndInv, GlobalInv, ReceiptInv, RequestInv, TypeOK, AgentTypeOK, AgentTerminal
    <3>2. EffectView = "pending" /\ EffectView' \in {"pending", "refused"}
      BY <2>3, <3>1 DEF EffectView
    <3>3. JobView = "open"
      BY <3>2, PendingIsOpen DEF JobView, Open, Terminal
    <3> QED
      BY <2>1, <3>2, <3>3 DEF Contract!Next, Contract!Conclude
  <2>4. CASE request' = request /\ canon = "none" /\ canon' = state /\ state \in AgentTerminal
    <3>1. request = "accepted"
      BY <2>4 DEF IndInv, GlobalInv, RequestInv, AgentTerminal
    <3>2. EffectView = "pending" /\ EffectView' \in {"done", "undone"}
      BY <2>4, <3>1 DEF EffectView, AgentTerminal
    <3>3. JobView = "open"
      BY <3>2, PendingIsOpen DEF JobView, Open, Terminal
    <3> QED
      BY <2>1, <3>2, <3>3 DEF Contract!Next, Contract!Conclude
  <2>5. CASE UNCHANGED <<request, canon>>
    BY <2>1, <2>5 DEF EffectView
  <2> QED
    BY <1>4, <2>2, <2>3, <2>4, <2>5 DEF EffectStep
<1> QED
  BY <1>1, <1>2, <1>3, <1>4 DEF StepKind

(* The API's promise: whatever processes crash, lose claims, retry or cancel, an
   administrative job carries out its effect at most once and ends once, with a
   status that is true of it. *)
THEOREM JobImplementsContract == Spec => ImplementsContract
<1>1. Init => Contract!Init /\ AskedInv
  BY DEF Init, AgentInit, JobView, EffectView, Contract!Init, AskedInv
<1>2. IndInv => StatusView
  BY StatusMeans
<1>3. IndInv /\ StatusView' /\ AskedInv /\ [Next]_vars
        => AskedInv' /\ [Contract!Next]_(Contract!vars)
  BY StepKinds, AskedStep, StepImplements DEF IndInv
<1> QED
  BY <1>1, <1>2, <1>3, Inductive, PTL DEF Spec, ImplementsContract, Contract!Spec
=============================================================================
