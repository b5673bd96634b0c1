------------------------------ MODULE AdminJob ------------------------------
(***************************************************************************)
(* One durable administrative job of the API: its admin_job row, the API   *)
(* processes that run, observe and cancel it (services/job-runner.ts,      *)
(* admin-job-state.ts, admin-job-checkpoint.ts, admin-job-ops.ts and       *)
(* ops-client.ts under apps/api/src) and the operations agent that carries *)
(* out its one effect (module OpsAgent).                                   *)
(*                                                                         *)
(* Rows never interact, so one row is modelled.  Every UPDATE of the row   *)
(* is fenced by the _execution member that the last claim wrote; the code  *)
(* only compares that member for equality, so the model keeps the set of   *)
(* threads that carry its current value instead of the value itself.       *)
(*                                                                         *)
(* An action is one database statement, one HTTP exchange with the agent,  *)
(* or one local decision: everything else may happen between two of them.  *)
(***************************************************************************)
EXTENDS OpsAgent

CONSTANTS Procs,        \* API processes that share the database
          MaxCancels    \* bound: cancellation requests by administrators

ASSUME MaxCancelsAssumption == MaxCancels \in Nat

VARIABLES
  \* the row
  status,     \* admin_job.status; "none" before the row exists
  kind,       \* what the handler does: one effect, more steps, bad payload
  cancelReq,  \* result._cancelRequestedAt is set
  lease,      \* result._observationLeaseUntil
  obs,        \* result.observation.nextCheckAt: absent, ahead or passed
  settled,    \* result._settled.status
  phase,      \* the projected operation: phase and receiptDelivery.state
  rstate,     \* receiptDelivery.terminalReceipt.state
  rterm,      \* ... and whether it has terminationRequestedAt
  \* the threads: a worker (executeJob) and a canceller (cancel) per process
  pc, goal,
  seen,       \* the terminal state a thread read from the agent
  out,        \* the status a thread settles with
  aborted,    \* threads whose abort signal fired
  holders,    \* threads whose execution is the row's _execution
  \* the environment
  up,         \* processes that run
  announced,  \* terminal statuses published on the job event bus
  cancels,    \* cancellation requests so far
  submits,    \* history: POSTs sent
  cancelHit   \* history: a cancellation request reached a running operation

rowVars == <<status, kind, cancelReq, lease, obs, settled, phase, rstate, rterm>>
threadVars == <<pc, goal, seen, out, aborted, holders>>
envVars == <<up, announced, cancels, submits, cancelHit>>
vars == <<rowVars, threadVars, envVars, agentVars, faults>>

W(p) == <<p, "worker">>
C(p) == <<p, "canceller">>
Workers == Procs \X {"worker"}
Threads == Procs \X {"worker", "canceller"}

Open == {"running", "cancel_pending"}
Terminal == {"success", "failed", "canceled"}
Phases == {"none", "admitting", "observing", "refused", "copied", "confirmed"}

(* Labels of executeJob, of observeOperation and of cancelAdminJobOperations. *)
Labels ==
  {"idle", "start", "handler", "post", "await", "refuse", "lookup", "record",
   "wait", "copy", "ack", "confirm", "steps", "settle", "late", "pend",
   "contain", "poll", "close", "revert"}

RowTypeOK ==
  /\ status \in {"none", "queued"} \cup Open \cup Terminal
  /\ kind \in {"single", "multi", "invalid"}
  /\ cancelReq \in BOOLEAN
  /\ lease \in {"null", "live", "expired"}
  /\ obs \in {"none", "later", "due"}
  /\ settled \in {"none", "success", "failed"}
  /\ phase \in Phases
  /\ rstate \in {"none"} \cup AgentTerminal
  /\ rterm \in BOOLEAN

ThreadTypeOK ==
  /\ pc \in [Threads -> Labels]
  /\ goal \in [Threads -> {"none", "run", "observe", "contain"}]
  /\ seen \in [Threads -> {"none"} \cup AgentTerminal]
  /\ out \in [Threads -> {"none", "success", "failed"}]
  /\ aborted \in SUBSET Threads
  /\ holders \in SUBSET Threads

EnvTypeOK ==
  /\ up \in SUBSET Procs
  /\ announced \in SUBSET Terminal
  /\ cancels \in 0..MaxCancels
  /\ submits \in Nat
  /\ cancelHit \in BOOLEAN

TypeOK == AgentTypeOK /\ RowTypeOK /\ ThreadTypeOK /\ EnvTypeOK

Init ==
  /\ AgentInit
  /\ status = "none"
  /\ kind \in {"single", "multi", "invalid"}
  /\ cancelReq = FALSE
  /\ lease = "null"
  /\ obs = "none"
  /\ settled = "none"
  /\ phase = "none"
  /\ rstate = "none"
  /\ rterm = FALSE
  /\ pc = [t \in Threads |-> "idle"]
  /\ goal = [t \in Threads |-> "none"]
  /\ seen = [t \in Threads |-> "none"]
  /\ out = [t \in Threads |-> "none"]
  /\ aborted = {}
  /\ holders = {}
  /\ up = Procs
  /\ announced = {}
  /\ cancels = 0
  /\ submits = 0
  /\ cancelHit = FALSE

-----------------------------------------------------------------------------
(* What a thread does with its own state. *)

Goto(t, l) ==
  /\ pc' = [pc EXCEPT ![t] = l]
  /\ UNCHANGED <<goal, seen, out, aborted, holders>>

Read(t, l) ==
  /\ pc' = [pc EXCEPT ![t] = l]
  /\ seen' = [seen EXCEPT ![t] = state]
  /\ UNCHANGED <<goal, out, aborted, holders>>

(* executeJob looks at the signal before it settles a failure. *)
Toward(t, l, o) ==
  IF l = "settle" /\ o = "failed" /\ t \in aborted THEN "pend" ELSE l

Decide(t, l, o) ==
  /\ pc' = [pc EXCEPT ![t] = Toward(t, l, o)]
  /\ out' = [out EXCEPT ![t] = o]
  /\ UNCHANGED <<goal, seen, aborted, holders>>

End(t) ==
  /\ pc' = [pc EXCEPT ![t] = "idle"]
  /\ goal' = [goal EXCEPT ![t] = "none"]
  /\ seen' = [seen EXCEPT ![t] = "none"]
  /\ out' = [out EXCEPT ![t] = "none"]
  /\ aborted' = aborted \ {t}
  /\ holders' = holders \ {t}

(* A worker that cannot tell the outcome records the observation as pending;
   a canceller leaves the row to the next reconciliation. *)
GiveUp(t) == IF t \in Workers THEN Goto(t, "pend") ELSE End(t)

(* The same for a receipt that could not be delivered: cancel() also
   schedules the next check. *)
ScheduleCheck(t) ==
  obs' = IF t \notin Workers /\ t \in holders /\ status = "cancel_pending"
           THEN "later" ELSE obs

GiveUpReceipt(t) ==
  /\ GiveUp(t)
  /\ ScheduleCheck(t)
  /\ UNCHANGED <<status, kind, cancelReq, lease, settled, phase, rstate, rterm>>

(* jobOwnership: the WHERE clause of every fenced UPDATE. *)
Owns(t, statuses) == t \in holders /\ status \in statuses

(* noPendingReceiptDelivery and noUnsettledManagedOperation. *)
Closable == phase \in {"none", "refused", "confirmed"}

Announce(s) == announced' = announced \cup {s}

-----------------------------------------------------------------------------
(* Admission, claims and time. *)

Enqueue ==
  /\ status = "none"
  /\ status' = "queued"
  /\ UNCHANGED <<kind, cancelReq, lease, obs, settled, phase, rstate, rterm,
                 threadVars, envVars, agentVars, faults>>

(* Mutant: the claim keeps the row's _execution, so its last owner stays one. *)
ClaimKeepsExecution(p, g) ==
  /\ p \in up
  /\ pc[W(p)] = "idle"
  /\ lease' = "live"
  /\ holders' = holders \cup {W(p)}
  /\ pc' = [pc EXCEPT ![W(p)] = "start"]
  /\ goal' = [goal EXCEPT ![W(p)] = g]
  /\ UNCHANGED <<kind, cancelReq, obs, settled, phase, rstate, rterm,
                 seen, out, aborted, envVars, agentVars, faults>>

(* claimAdminJob: a fresh _execution, so nobody else holds the row. *)
Claim(p, g) ==
  /\ p \in up
  /\ pc[W(p)] = "idle"
  /\ lease' = "live"
  /\ holders' = {W(p)}
  /\ pc' = [pc EXCEPT ![W(p)] = "start"]
  /\ goal' = [goal EXCEPT ![W(p)] = g]
  /\ UNCHANGED <<kind, cancelReq, obs, settled, phase, rstate, rterm,
                 seen, out, aborted, envVars, agentVars, faults>>

(* pump: take a queued row.  When pump() is called is the subject of JobQueue. *)
Pump(p) ==
  /\ status = "queued"
  /\ status' = "running"
  /\ Claim(p, "run")

(* adminJobObservationDue *)
Due ==
  /\ status \in Open
  /\ status = "cancel_pending" \/ obs # "none" \/ lease # "null"
  /\ obs # "later"
  /\ lease # "live"

(* reconcile: observe a row nobody looks after, never run its handler. *)
Reconcile(p) ==
  /\ Due
  /\ UNCHANGED status
  /\ Claim(p, "observe")

(* Workers that keep or outlast their lease: a runner renews it while the
   row is running, an observer ends long before it. *)
Attended ==
  \E t \in holders \cap Workers :
     pc[t] # "idle" /\ (status = "running" \/ goal[t] # "run")

LeaseExpires ==
  /\ lease = "live"
  /\ IF Attended THEN Fault ELSE UNCHANGED faults
  /\ lease' = "expired"
  /\ UNCHANGED <<status, kind, cancelReq, obs, settled, phase, rstate, rterm,
                 threadVars, envVars, agentVars>>

CheckDue ==
  /\ obs = "later"
  /\ obs' = "due"
  /\ UNCHANGED <<status, kind, cancelReq, lease, settled, phase, rstate, rterm,
                 threadVars, envVars, agentVars, faults>>

(* The heartbeat finds the claim lost, lapsed or canceled, or cannot tell. *)
RenewFails(p) ==
  LET t == W(p) IN
  /\ pc[t] # "idle"
  /\ goal[t] = "run"
  /\ t \notin aborted
  /\ IF Owns(t, {"running"}) /\ lease = "live" THEN Fault ELSE UNCHANGED faults
  /\ aborted' = aborted \cup {t}
  /\ UNCHANGED <<rowVars, pc, goal, seen, out, holders, envVars, agentVars>>

-----------------------------------------------------------------------------
(* executeJob: the fresh run. *)

(* normalizeExtensionInstallPayload throws: the status is announced whether
   or not the UPDATE found the row. *)
RejectPayload(t) ==
  /\ pc[t] = "start"
  /\ kind = "invalid"
  /\ status' = IF Owns(t, {"running"}) THEN "failed" ELSE status
  /\ Announce("failed")
  /\ End(t)
  /\ UNCHANGED <<kind, cancelReq, lease, obs, settled, phase, rstate, rterm,
                 up, cancels, submits, cancelHit, agentVars, faults>>

RunHandler(t) ==
  /\ pc[t] = "start"
  /\ kind # "invalid"
  /\ goal[t] = "run"
  /\ t \notin aborted
  /\ Goto(t, "handler")
  /\ UNCHANGED <<rowVars, envVars, agentVars, faults>>

(* The handler throws before it submits anything. *)
HandlerFails(t) ==
  /\ pc[t] = "handler"
  /\ Decide(t, "settle", "failed")
  /\ UNCHANGED <<rowVars, envVars, agentVars, faults>>

(* checkpointOwnedAdminJob with an admission key: refused once cancellation
   was asked for. *)
MayReserve(t) == Owns(t, {"running"}) /\ ~cancelReq /\ phase = "none"

(* executeAdminJobOperation: the write-ahead reservation of the operation. *)
Reserve(t) ==
  /\ pc[t] = "handler"
  /\ t \notin aborted
  /\ IF MayReserve(t)
       THEN phase' = "admitting" /\ Goto(t, "post")
       ELSE UNCHANGED phase /\ End(t)
  /\ UNCHANGED <<status, kind, cancelReq, lease, obs, settled, rstate, rterm,
                 envVars, agentVars, faults>>

Submit(t) ==
  /\ pc[t] = "post"
  /\ t \notin aborted
  /\ SendPost
  /\ submits' = submits + 1
  /\ Goto(t, "await")
  /\ UNCHANGED <<rowVars, up, announced, cancels, cancelHit, faults>>

(* Mutant: a transient answer is followed by another POST. *)
AnswerRetries(t) ==
  /\ pc[t] = "await"
  /\ \/ request = "accepted" /\ Goto(t, "record")
     \/ request = "refused" /\ Goto(t, "refuse")
     \/ request = "busy" /\ Goto(t, "post")
  /\ UNCHANGED <<rowVars, envVars, agentVars, faults>>

(* submitOpsOperationWithRecovery: a refusal is final, a transient answer
   is followed by a lookup of the key, never by a second POST. *)
Answer(t) ==
  /\ pc[t] = "await"
  /\ \/ request = "accepted" /\ Goto(t, "record")
     \/ request = "refused" /\ Goto(t, "refuse")
     \/ request = "busy" /\ Goto(t, "lookup")
  /\ UNCHANGED <<rowVars, envVars, agentVars, faults>>

RecordRefusal(t) ==
  /\ pc[t] = "refuse"
  /\ IF Owns(t, Open)
       THEN phase' = "refused" /\ Decide(t, "settle", "failed")
       ELSE UNCHANGED phase /\ End(t)
  /\ UNCHANGED <<status, kind, cancelReq, lease, obs, settled, rstate, rterm,
                 envVars, agentVars, faults>>

-----------------------------------------------------------------------------
(* observeOperation *)

Lookup(t) ==
  /\ pc[t] = "lookup"
  /\ Goto(t, IF state = "absent" THEN "pend" ELSE "record")
  /\ UNCHANGED <<rowVars, envVars, agentVars, faults>>

(* A checkpoint without an admission key merges: what the row already has of
   a later phase wins. *)
MergedPhase == IF phase = "admitting" THEN "observing" ELSE phase

(* The identity the agent gave the operation. *)
Record(t) ==
  /\ pc[t] = "record"
  /\ IF Owns(t, Open)
       THEN /\ phase' = MergedPhase
            /\ Goto(t, "wait")
       ELSE UNCHANGED phase /\ End(t)
  /\ UNCHANGED <<status, kind, cancelReq, lease, obs, settled, rstate, rterm,
                 envVars, agentVars, faults>>

(* waitForOpsResult: a conclusive terminal, or the observer gives up. *)
Wait(t) ==
  /\ pc[t] = "wait"
  /\ t \notin aborted
  /\ IF Conclusive THEN Read(t, "copy") ELSE Goto(t, "pend")
  /\ UNCHANGED <<rowVars, envVars, agentVars, faults>>

(* A mirrored log line finds the job no longer running under this claim. *)
Retire(t) ==
  /\ pc[t] = "wait"
  /\ ~Owns(t, {"running"})
  /\ End(t)
  /\ UNCHANGED <<rowVars, envVars, agentVars, faults>>

(* ensureAdminJobReceiptDelivery: retain the terminal receipt ... *)
Copy(t) ==
  /\ pc[t] = "copy"
  /\ IF Owns(t, Open) /\ phase \in {"admitting", "observing"}
       THEN /\ phase' = "copied"
            /\ rstate' = seen[t]
            /\ rterm' = termRequested
            /\ Goto(t, "ack")
            /\ UNCHANGED <<status, kind, cancelReq, lease, obs, settled>>
       ELSE GiveUpReceipt(t)
  /\ UNCHANGED <<envVars, agentVars, faults>>

(* ... then acknowledge it to the agent ... *)
Ack(t) ==
  /\ pc[t] = "ack"
  /\ \/ Acknowledge(rstate) /\ Goto(t, "confirm") /\ UNCHANGED rowVars
     \/ ~CanAcknowledge(rstate) /\ GiveUpReceipt(t) /\ UNCHANGED agentVars
  /\ UNCHANGED <<envVars, faults>>

(* Mutant: an operation that was asked to stop counts as stopped. *)
ContainedIfAsked == rterm

(* terminationRequestedAt on a failed receipt is taken as containment. *)
Contained == rterm /\ rstate # "succeeded"

(* Where a thread goes once the receipt is delivered, and with what. *)
After(g) ==
  IF g = "contain" THEN (IF Contained THEN "close" ELSE "revert")
  ELSE IF kind = "multi" /\ rstate = "succeeded" /\ g = "run" THEN "steps"
  ELSE IF kind = "multi" /\ rstate = "succeeded" /\ settled = "none" THEN "pend"
  ELSE "settle"

Result ==
  IF phase = "refused" \/ rstate # "succeeded" THEN "failed"
  ELSE IF settled # "none" THEN settled ELSE "success"

Proceed(t) ==
  IF goal[t] = "contain" /\ t \notin Workers /\ ~Contained
    THEN End(t)
    ELSE Decide(t, After(goal[t]), IF goal[t] = "contain" THEN "none" ELSE Result)

(* ... and retain that it was. *)
Confirm(t) ==
  /\ pc[t] = "confirm"
  /\ IF Owns(t, Open)
       THEN phase' = "confirmed" /\ Proceed(t)
       ELSE UNCHANGED phase /\ End(t)
  /\ UNCHANGED <<status, kind, cancelReq, lease, obs, settled, rstate, rterm,
                 envVars, agentVars, faults>>

(* The steps a multi-step handler takes after its effect. *)
RemainingSteps(t) ==
  /\ pc[t] = "steps"
  /\ \E o \in {"success", "failed"} : Decide(t, "settle", o)
  /\ UNCHANGED <<rowVars, envVars, agentVars, faults>>

-----------------------------------------------------------------------------
(* settle and pending *)

(* Mutant: the event is published before the UPDATE is known to have hit. *)
SettleAnnounces(t) ==
  /\ pc[t] = "settle"
  /\ Announce(out[t])
  /\ IF Owns(t, {"running"}) /\ Closable
       THEN status' = out[t] /\ obs' = "none" /\ End(t)
       ELSE UNCHANGED <<status, obs>> /\ Goto(t, "late")
  /\ UNCHANGED <<kind, cancelReq, lease, settled, phase, rstate, rterm,
                 up, cancels, submits, cancelHit, agentVars, faults>>

Settle(t) ==
  /\ pc[t] = "settle"
  /\ IF Owns(t, {"running"}) /\ Closable
       THEN /\ status' = out[t]
            /\ obs' = "none"
            /\ Announce(out[t])
            /\ End(t)
       ELSE UNCHANGED <<status, obs, announced>> /\ Goto(t, "late")
  /\ UNCHANGED <<kind, cancelReq, lease, settled, phase, rstate, rterm,
                 up, cancels, submits, cancelHit, agentVars, faults>>

(* Cancel intent wins: the late outcome is retained as evidence only. *)
RetainOutcome(t) ==
  /\ pc[t] = "late"
  /\ settled' = IF Owns(t, Open) THEN out[t] ELSE settled
  /\ Goto(t, "pend")
  /\ UNCHANGED <<status, kind, cancelReq, lease, obs, phase, rstate, rterm,
                 envVars, agentVars, faults>>

(* Mutant: the lease is given up without scheduling the next check. *)
PendingForgets(t) ==
  /\ pc[t] = "pend"
  /\ IF Owns(t, Open)
       THEN lease' = "null" /\ obs' = "none"
       ELSE UNCHANGED <<lease, obs>>
  /\ End(t)
  /\ UNCHANGED <<status, kind, cancelReq, settled, phase, rstate, rterm,
                 envVars, agentVars, faults>>

Pending(t) ==
  /\ pc[t] = "pend"
  /\ IF Owns(t, Open)
       THEN lease' = "null" /\ obs' = "later"
       ELSE UNCHANGED <<lease, obs>>
  /\ End(t)
  /\ UNCHANGED <<status, kind, cancelReq, settled, phase, rstate, rterm,
                 envVars, agentVars, faults>>

(* Where an aborted signal is looked at; receipt delivery and settlement
   are not interrupted. *)
Interruptible ==
  {"start", "handler", "post", "await", "lookup", "wait", "steps", "contain", "poll"}

Interrupt(t) ==
  /\ pc[t] \in Interruptible
  /\ kind # "invalid"
  /\ t \in aborted
  /\ GiveUp(t)
  /\ UNCHANGED <<rowVars, envVars, agentVars, faults>>

-----------------------------------------------------------------------------
(* executeJob: the observation of a claimed row. *)

(* Mutant: a refused operation is settled without an outcome. *)
ResumeUndecided(t) ==
  \/ phase = "none" /\ Goto(t, "pend")
  \/ phase = "refused" /\ Goto(t, "settle")
  \/ phase = "admitting" /\ Goto(t, "lookup")
  \/ phase = "observing" /\ Goto(t, "wait")
  \/ phase = "copied" /\ Goto(t, "ack")
  \/ phase = "confirmed" /\ Decide(t, After("observe"), Result)

(* Where resumeAdminJobObservation takes the row up. *)
Resume(t) ==
  \/ phase = "none" /\ Goto(t, "pend")
  \/ phase = "refused" /\ Decide(t, "settle", "failed")
  \/ phase = "admitting" /\ Goto(t, "lookup")
  \/ phase = "observing" /\ Goto(t, "wait")
  \/ phase = "copied" /\ Goto(t, "ack")
  \/ phase = "confirmed" /\ Decide(t, After("observe"), Result)

(* Where cancelAdminJobOperations takes it up. *)
ContainFrom ==
  IF phase = "none" THEN "pend"
  ELSE IF phase = "refused" THEN "revert"
  ELSE IF phase = "copied" THEN "ack"
  ELSE IF phase = "confirmed" THEN After("contain")
  ELSE "contain"

Observe(t) ==
  /\ pc[t] = "start"
  /\ kind # "invalid"
  /\ goal[t] = "observe"
  /\ t \notin aborted
  /\ \/ ~Owns(t, Open) /\ End(t)
     \/ Owns(t, {"running"}) /\ Resume(t)
     \/ /\ Owns(t, {"cancel_pending"})
        /\ pc' = [pc EXCEPT ![t] = ContainFrom]
        /\ goal' = [goal EXCEPT ![t] = "contain"]
        /\ UNCHANGED <<seen, out, aborted, holders>>
  /\ UNCHANGED <<rowVars, envVars, agentVars, faults>>

(* status, then DELETE unless the operation is over. *)
Contain(t) ==
  /\ pc[t] = "contain"
  /\ t \notin aborted
  /\ \/ state = "absent" /\ GiveUp(t) /\ UNCHANGED <<agentVars, cancelHit>>
     \/ /\ state # "absent"
        /\ CancelOperation
        /\ cancelHit' = (cancelHit \/ state \in {"running", "termination_pending"})
        /\ Goto(t, "poll")
  /\ UNCHANGED <<rowVars, up, announced, cancels, submits, faults>>

Poll(t) ==
  /\ pc[t] = "poll"
  /\ t \notin aborted
  /\ IF Conclusive THEN Read(t, "copy") ELSE GiveUp(t)
  /\ UNCHANGED <<rowVars, envVars, agentVars, faults>>

MayClose(t) == Owns(t, {"cancel_pending"}) /\ Closable

(* The UPDATE to canceled, from cancel() or from the observer. *)
Close(t) ==
  /\ pc[t] = "close"
  /\ IF MayClose(t)
       THEN status' = "canceled" /\ obs' = "none" /\ Announce("canceled")
       ELSE UNCHANGED <<status, obs, announced>>
  /\ End(t)
  /\ UNCHANGED <<kind, cancelReq, lease, settled, phase, rstate, rterm,
                 up, cancels, submits, cancelHit, agentVars, faults>>

(* Nothing was contained: the original outcome is observed under this claim,
   from what it read when it claimed the row or wrote since.  That may be
   older than a receipt which cancel() delivered in between. *)
Revert(t) ==
  LET l == IF phase = "refused" THEN "settle" ELSE After("observe") IN
  /\ pc[t] = "revert"
  /\ IF Owns(t, {"cancel_pending"})
       THEN /\ status' = "running"
            /\ \/ /\ pc' = [pc EXCEPT ![t] = Toward(t, l, Result)]
                  /\ out' = [out EXCEPT ![t] = Result]
               \/ /\ phase = "confirmed"
                  /\ pc' = [pc EXCEPT ![t] = "wait"]
                  /\ UNCHANGED out
            /\ goal' = [goal EXCEPT ![t] = "observe"]
            /\ UNCHANGED <<seen, aborted, holders>>
       ELSE UNCHANGED status /\ End(t)
  /\ UNCHANGED <<kind, cancelReq, lease, obs, settled, phase, rstate, rterm,
                 envVars, agentVars, faults>>

-----------------------------------------------------------------------------
(* cancel() *)

MayCancel(p) ==
  /\ p \in up
  /\ pc[C(p)] = "idle"
  /\ cancels < MaxCancels
  /\ cancels' = cancels + 1

(* Mutant: the UPDATE also takes a job that is over. *)
CancelSettled(p) ==
  /\ MayCancel(p)
  /\ status \in {"queued"} \cup Terminal
  /\ status' = "canceled"
  /\ Announce("canceled")
  /\ UNCHANGED <<kind, cancelReq, lease, obs, settled, phase, rstate, rterm,
                 threadVars, up, submits, cancelHit, agentVars, faults>>

CancelQueued(p) ==
  /\ MayCancel(p)
  /\ status = "queued"
  /\ status' = "canceled"
  /\ Announce("canceled")
  /\ UNCHANGED <<kind, cancelReq, lease, obs, settled, phase, rstate, rterm,
                 threadVars, up, submits, cancelHit, agentVars, faults>>

(* Record the intent, stop the local worker, then contain the operation the
   row showed; without one, or with nothing to contain, cancel() returns. *)
CancelOpen(p) ==
  LET stays == phase \in {"admitting", "observing", "copied"} \/ (phase = "confirmed" /\ Contained)
  IN
  /\ MayCancel(p)
  /\ status \in Open
  /\ status' = "cancel_pending"
  /\ cancelReq' = TRUE
  /\ aborted' = IF pc[W(p)] = "idle" THEN aborted ELSE aborted \cup {W(p)}
  /\ IF stays
       THEN /\ pc' = [pc EXCEPT ![C(p)] = ContainFrom]
            /\ goal' = [goal EXCEPT ![C(p)] = "contain"]
            /\ holders' = holders \cup {C(p)}
       ELSE UNCHANGED <<pc, goal, holders>>
  /\ UNCHANGED <<kind, lease, obs, settled, phase, rstate, rterm, seen, out,
                 up, announced, submits, cancelHit, agentVars, faults>>

-----------------------------------------------------------------------------
(* Failures *)

(* The process dies with its threads. *)
Crash(p) ==
  LET dead == {W(p), C(p)} IN
  /\ Fault
  /\ p \in up
  /\ up' = up \ {p}
  /\ pc' = [t \in Threads |-> IF t \in dead THEN "idle" ELSE pc[t]]
  /\ goal' = [t \in Threads |-> IF t \in dead THEN "none" ELSE goal[t]]
  /\ seen' = [t \in Threads |-> IF t \in dead THEN "none" ELSE seen[t]]
  /\ out' = [t \in Threads |-> IF t \in dead THEN "none" ELSE out[t]]
  /\ aborted' = aborted \ dead
  /\ holders' = holders \ dead
  /\ UNCHANGED <<rowVars, announced, cancels, submits, cancelHit, agentVars>>

(* initialize: interrupted rows become due, whoever holds them. *)
Boot(p) ==
  /\ p \notin up
  /\ up' = up \cup {p}
  /\ obs' = IF status \in Open THEN "due" ELSE obs
  /\ UNCHANGED <<status, kind, cancelReq, lease, settled, phase, rstate, rterm,
                 threadVars, announced, cancels, submits, cancelHit, agentVars, faults>>

(* A database statement fails.  Where the code cannot even record the
   uncertainty, the thread ends and its lease runs out. *)
DatabaseFails(t) ==
  /\ Fault
  /\ \/ /\ \/ pc[t] \in {"handler", "refuse", "pend"}
           \/ pc[t] \in {"settle", "late"} /\ out[t] = "failed"
           \/ pc[t] = "start" /\ kind = "invalid"
        /\ End(t)
        /\ UNCHANGED rowVars
     \/ /\ \/ pc[t] \in {"record", "close", "revert"}
           \/ pc[t] \in {"settle", "late"} /\ out[t] = "success"
           \/ pc[t] = "start" /\ goal[t] = "observe" /\ kind # "invalid"
        /\ GiveUp(t)
        /\ UNCHANGED rowVars
     \/ pc[t] \in {"copy", "confirm"} /\ GiveUpReceipt(t)
  /\ UNCHANGED <<envVars, agentVars>>

(* A checkpoint commits although the code sees it fail: its answer is lost,
   or the one in observeOperation's finally repeats it. *)
CheckpointUnconfirmed(t) ==
  /\ Fault
  /\ \/ /\ pc[t] = "handler" /\ t \notin aborted /\ MayReserve(t)
        /\ phase' = "admitting" /\ End(t)
        /\ UNCHANGED <<rstate, rterm, obs>>
     \/ /\ pc[t] = "refuse" /\ Owns(t, Open)
        /\ phase' = "refused" /\ End(t)
        /\ UNCHANGED <<rstate, rterm, obs>>
     \/ /\ pc[t] = "record" /\ Owns(t, Open) /\ phase = "admitting"
        /\ phase' = "observing" /\ GiveUp(t)
        /\ UNCHANGED <<rstate, rterm, obs>>
     \/ /\ pc[t] = "copy" /\ Owns(t, Open) /\ phase \in {"admitting", "observing"}
        /\ phase' = "copied" /\ rstate' = seen[t] /\ rterm' = termRequested
        /\ GiveUp(t) /\ ScheduleCheck(t)
     \/ /\ pc[t] = "confirm" /\ Owns(t, Open)
        /\ phase' = "confirmed" /\ GiveUp(t) /\ ScheduleCheck(t)
        /\ UNCHANGED <<rstate, rterm>>
  /\ UNCHANGED <<status, kind, cancelReq, lease, settled, envVars, agentVars>>

(* The same for an UPDATE of the status: nothing is announced. *)
UpdateUnconfirmed(t) ==
  /\ Fault
  /\ \/ /\ pc[t] = "settle" /\ Owns(t, {"running"}) /\ Closable
        /\ status' = out[t] /\ obs' = "none"
        /\ IF out[t] = "success" THEN Goto(t, "pend") ELSE End(t)
     \/ /\ pc[t] = "close" /\ MayClose(t)
        /\ status' = "canceled" /\ obs' = "none"
        /\ GiveUp(t)
     \/ /\ pc[t] = "revert" /\ Owns(t, {"cancel_pending"})
        /\ status' = "running" /\ UNCHANGED obs
        /\ GiveUp(t)
  /\ UNCHANGED <<kind, cancelReq, lease, settled, phase, rstate, rterm, envVars, agentVars>>

(* Mutant: an answer that was lost is taken for a refusal. *)
UnreachableRefuses(t) ==
  /\ Fault
  /\ \/ pc[t] = "await" /\ Goto(t, "refuse") /\ UNCHANGED <<rowVars, agentVars>>
     \/ pc[t] \in {"lookup", "wait", "poll"} /\ GiveUp(t) /\ UNCHANGED <<rowVars, agentVars>>
     \/ pc[t] = "contain" /\ Goto(t, "poll") /\ UNCHANGED <<rowVars, agentVars>>
     \/ pc[t] = "ack" /\ GiveUpReceipt(t) /\ UNCHANGED agentVars
     \/ pc[t] = "ack" /\ Acknowledge(rstate) /\ GiveUpReceipt(t)
  /\ UNCHANGED envVars

(* The agent cannot be reached, or its answer is lost. *)
Unreachable(t) ==
  /\ Fault
  /\ \/ pc[t] = "await" /\ Goto(t, "lookup") /\ UNCHANGED <<rowVars, agentVars>>
     \/ pc[t] \in {"lookup", "wait", "poll"} /\ GiveUp(t) /\ UNCHANGED <<rowVars, agentVars>>
     \/ pc[t] = "contain" /\ Goto(t, "poll") /\ UNCHANGED <<rowVars, agentVars>>
     \/ pc[t] = "ack" /\ GiveUpReceipt(t) /\ UNCHANGED agentVars
     \/ pc[t] = "ack" /\ Acknowledge(rstate) /\ GiveUpReceipt(t)
  /\ UNCHANGED envVars

(* The three seconds of an observation pass. *)
ObserverTimeout(t) ==
  /\ Fault
  /\ t \in Workers
  /\ goal[t] \in {"observe", "contain"}
  /\ pc[t] # "idle"
  /\ t \notin aborted
  /\ aborted' = aborted \cup {t}
  /\ UNCHANGED <<rowVars, pc, goal, seen, out, holders, envVars, agentVars>>

-----------------------------------------------------------------------------
Step(t) ==
  \/ RejectPayload(t) \/ RunHandler(t) \/ HandlerFails(t) \/ Reserve(t)
  \/ Submit(t) \/ Answer(t) \/ RecordRefusal(t) \/ Lookup(t) \/ Record(t)
  \/ Wait(t) \/ Retire(t) \/ Copy(t) \/ Ack(t) \/ Confirm(t)
  \/ RemainingSteps(t) \/ Settle(t) \/ RetainOutcome(t) \/ Pending(t)
  \/ Interrupt(t) \/ Observe(t) \/ Contain(t) \/ Poll(t) \/ Close(t) \/ Revert(t)

Failure(t) ==
  \/ DatabaseFails(t) \/ CheckpointUnconfirmed(t) \/ UpdateUnconfirmed(t)
  \/ Unreachable(t) \/ ObserverTimeout(t)

AgentStep == AgentNext /\ UNCHANGED <<rowVars, threadVars, envVars>>

Next ==
  \/ Enqueue \/ LeaseExpires \/ CheckDue \/ AgentStep
  \/ \E p \in Procs : \/ Pump(p) \/ Reconcile(p) \/ RenewFails(p)
                      \/ CancelQueued(p) \/ CancelOpen(p)
                      \/ Crash(p) \/ Boot(p)
  \/ \E t \in Threads : Step(t) \/ Failure(t)

Spec == Init /\ [][Next]_vars

(* The event loop runs every thread, the five-second reconciliation keeps
   firing, processes are restarted, and the agent answers and finishes what it
   started.  Nothing makes the pump take a queued row. *)
Fairness ==
  /\ \A t \in Threads : WF_vars(Step(t))
  /\ \A p \in Procs : WF_vars(Reconcile(p)) /\ WF_vars(Boot(p))
  /\ WF_vars(LeaseExpires /\ UNCHANGED faults)
  /\ WF_vars(CheckDue)
  /\ WF_vars(AgentStep /\ (Admit \/ Refuse \/ Busy))
  /\ WF_vars(AgentStep /\ (Start \/ StartExpired))
  /\ WF_vars(AgentStep /\ Finish)
  /\ WF_vars(AgentStep /\ Publish)

LiveSpec == Spec /\ Fairness

-----------------------------------------------------------------------------
(* The inductive invariant, part by part. *)

(* A POST is sent once, and what it found in the agent. *)
RequestInv ==
  /\ submits = IF request = "none" THEN 0 ELSE 1
  /\ request = "accepted" <=> state # "absent"

(* The row never claims more than the agent has done. *)
PhaseInv ==
  /\ phase = "none" => request = "none"
  /\ phase = "refused" => request = "refused"
  /\ phase = "observing" => state # "absent"
  /\ phase \in {"copied", "confirmed"} => rstate \in AgentTerminal /\ state \in AgentTerminal
  /\ rterm => termRequested
  /\ kind = "invalid" => phase = "none"

(* An acknowledged receipt is the agent's canonical, unchanging terminal. *)
ReceiptInv ==
  /\ canon # "none" => state = canon
  /\ acked => canon = rstate /\ phase \in {"copied", "confirmed"}
  /\ phase = "confirmed" => acked

Succeeded == phase = "confirmed" /\ rstate = "succeeded"
NoSuccess == phase \in {"none", "refused"} \/ (phase = "confirmed" /\ rstate # "succeeded")

(* What a status, or a retained outcome, says of the receipt. *)
StatusInv ==
  /\ status \in {"none", "queued"} => phase = "none"
  /\ status = "cancel_pending" => cancelReq
  /\ status = "success" => Succeeded
  /\ status = "failed" => Closable /\ (kind = "single" => NoSuccess)
  /\ status = "canceled" => phase = "none" \/ (phase = "confirmed" /\ Contained)
  /\ settled = "success" => Succeeded
  /\ settled = "failed" /\ kind = "single" => NoSuccess /\ (phase = "none" => cancelReq)

(* One worker holds the row, and one thread may be about to POST. *)
HolderInv ==
  /\ status \in {"none", "queued"} => holders = {}
  /\ \A t, u \in holders \cap Workers : t = u
  /\ \A t \in Threads :
       pc[t] = "post" => phase = "admitting" /\ request = "none"
  /\ \A t, u \in Threads : pc[t] = "post" /\ pc[u] = "post" => t = u

(* What a thread knows at each of its labels. *)
ThreadInv(t) ==
  /\ t \notin Workers =>
       /\ pc[t] \in {"idle", "contain", "poll", "copy", "ack", "confirm", "close"}
       /\ pc[t] # "idle" => goal[t] = "contain"
  /\ pc[t] \notin {"idle", "start"} => kind # "invalid"
  /\ pc[t] = "await" => request # "none"
  /\ pc[t] = "refuse" => request = "refused"
  /\ pc[t] = "record" => state # "absent"
  /\ pc[t] = "copy" => seen[t] \in AgentTerminal /\ state \in AgentTerminal
  /\ pc[t] = "ack" => phase \in {"copied", "confirmed"}
  /\ pc[t] = "confirm" => acked
  /\ pc[t] = "revert" => phase \in {"refused", "confirmed"}
  /\ pc[t] = "close" => phase = "confirmed" /\ Contained
  /\ pc[t] = "steps" => Succeeded /\ kind = "multi"
  /\ pc[t] \in {"settle", "late"} => out[t] # "none"
  /\ out[t] = "success" => Succeeded
  /\ t \in holders =>
       /\ pc[t] = "handler" \/ (pc[t] = "start" /\ goal[t] = "run") => phase = "none"
       /\ pc[t] \in {"settle", "late"} /\ out[t] = "failed" /\ kind = "single" => NoSuccess
       /\ pc[t] = "late" /\ phase = "none" => cancelReq \/ status \in Terminal

GlobalInv == RequestInv /\ PhaseInv /\ ReceiptInv /\ StatusInv /\ HolderInv

IndInv == TypeOK /\ GlobalInv /\ \A t \in Threads : ThreadInv(t)

-----------------------------------------------------------------------------
(* The effect of a job is submitted at most once, whatever crashes, claims
   and reconciliations happen: the reservation is written before the POST,
   and only the run that wrote it may send it. *)
AtMostOnce == submits <= 1

(* A job is only over when its effect is: no request is on its way, no
   operation runs in the agent, and no thread is about to submit one. *)
Quiescent ==
  status \in Terminal =>
     /\ request # "sent"
     /\ state \notin Live
     /\ \A t \in Threads : pc[t] # "post"

(* The final status tells what the agent did: success only for an effect
   that succeeded and whose receipt was acknowledged, failed (for a single
   effect) only if it did not succeed, canceled only if nothing was
   submitted or the agent was told to stop it and it did not succeed. *)
FaithfulOutcome ==
  /\ status = "success" => state = "succeeded" /\ acked
  /\ status = "failed" /\ kind = "single" => state # "succeeded"
  /\ status = "canceled" =>
       \/ submits = 0
       \/ state \in {"failed", "timed_out"} /\ termRequested /\ acked

(* A final status is final: no late settlement, cancellation, observation
   or restart changes it. *)
TerminalStable == [][(status \in Terminal) => (status' = status)]_vars

(* A terminal event on the bus is backed by the row (jobs with a valid
   payload): viewers that close their stream on it have seen the truth. *)
AnnouncedIsDurable == kind # "invalid" => \A s \in announced : status = s

(* A canceled job whose effect was submitted was stopped by a cancellation
   request, and not by something that predates it. *)
CanceledByRequest == status = "canceled" /\ submits > 0 => cancelHit

(* The job as whoever enqueued it sees it: claims and observations do not show,
   and what became of the effect is the agent's canonical terminal. *)
JobView == IF status \in Terminal \cup {"none"} THEN status ELSE "open"

EffectView ==
  CASE request = "none" -> "none"
    [] request = "refused" -> "refused"
    [] request \notin {"none", "refused"} /\ canon = "none" -> "pending"
    [] request \notin {"none", "refused"} /\ canon = "succeeded" -> "done"
    [] OTHER -> "undone"

Contract == INSTANCE JobContract
  WITH job <- JobView, effect <- EffectView, asked <- cancels > 0, sole <- kind = "single"

(* Rows, claims, checkpoints, receipts and the agent together implement the
   contract of JobContract: every step of them is a step of it or shows nothing. *)
ImplementsContract == Contract!Spec

(* An accepted single effect is settled, unless the agent itself declares
   that an operator must look at it. *)
EffectSettles ==
  (request = "accepted" /\ kind = "single") ~> (status \in Terminal \/ sticky)
=============================================================================
