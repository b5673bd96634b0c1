------------------------------ MODULE OpsAgent ------------------------------
(***************************************************************************)
(* The operations agent (apps/ops-agent/src/server.ts and journal.ts) as   *)
(* one administrative effect meets it: the effect has one operation key,   *)
(* is submitted by the API over HTTP, runs in the agent, and leaves a      *)
(* terminal receipt that the API acknowledges.                             *)
(*                                                                         *)
(* An action is the code between two awaits that other requests can        *)
(* observe; the journal is written before a state becomes visible, so      *)
(* `state` is both the journal's and the agent's view of the job.          *)
(***************************************************************************)
EXTENDS Naturals

CONSTANTS MaxFaults,    \* bound: crashes, losses and failed writes per behaviour
          CommitsLate   \* the kind keeps a commit that lands after a cancellation

ASSUME MaxFaultsAssumption == MaxFaults \in Nat
ASSUME CommitsLateAssumption == CommitsLate \in BOOLEAN

VARIABLES
  request,        \* the POST of the operation and the answer to it
  state,          \* job.state; "absent" when no job has the operation key
  termRequested,  \* job.terminationRequestedAt is set
  timedOut,       \* runAsync's deadline timer has fired
  sticky,         \* stickyRecoveryRequired has the job
  canon,          \* the canonical terminal of the retention family
  acked,          \* the API's receipt acknowledgement is recorded
  faults          \* faults so far

agentVars == <<request, state, termRequested, timedOut, sticky, canon, acked>>

Live == {"queued", "running", "termination_pending"}
AgentTerminal == {"succeeded", "failed", "timed_out"}
RequestStates == {"none", "sent", "accepted", "refused", "busy"}

AgentTypeOK ==
  /\ request \in RequestStates
  /\ state \in {"absent"} \cup Live \cup AgentTerminal
  /\ termRequested \in BOOLEAN
  /\ timedOut \in BOOLEAN
  /\ sticky \in BOOLEAN
  /\ canon \in {"none"} \cup AgentTerminal
  /\ acked \in BOOLEAN
  /\ faults \in 0..MaxFaults

AgentInit ==
  /\ request = "none"
  /\ state = "absent"
  /\ termRequested = FALSE
  /\ timedOut = FALSE
  /\ sticky = FALSE
  /\ canon = "none"
  /\ acked = FALSE
  /\ faults = 0

Fault == faults < MaxFaults /\ faults' = faults + 1

(* What the status route reports as errorClass recovery_required. *)
RecoveryRequired == state = "failed" /\ sticky

(* A terminal receipt the API may copy. *)
Conclusive == state \in AgentTerminal /\ ~RecoveryRequired

-----------------------------------------------------------------------------
(* POST /v1/operations *)

(* The job of the key is created, or found: a key never names two jobs. *)
Admit ==
  /\ request = "sent"
  /\ request' = "accepted"
  /\ state' = IF state = "absent" THEN "queued" ELSE state
  /\ UNCHANGED <<termRequested, timedOut, sticky, canon, acked, faults>>

(* Authentication, validation, authority: nothing is journaled. *)
Refuse ==
  /\ request = "sent"
  /\ state = "absent"
  /\ request' = "refused"
  /\ UNCHANGED <<state, termRequested, timedOut, sticky, canon, acked, faults>>

(* The job table is full, a replacement is in progress, or the deadline
   passed on the way: an answer the API takes for a transient error. *)
Busy ==
  /\ request = "sent"
  /\ state = "absent"
  /\ request' = "busy"
  /\ UNCHANGED <<state, termRequested, timedOut, sticky, canon, acked, faults>>

-----------------------------------------------------------------------------
(* runAsync *)

Start ==
  /\ state = "queued"
  /\ state' = "running"
  /\ UNCHANGED <<request, termRequested, timedOut, sticky, canon, acked, faults>>

(* The deadline timer: the operation is told to stop. *)
Deadline ==
  /\ state \in {"running", "termination_pending"}
  /\ ~timedOut
  /\ timedOut' = TRUE
  /\ state' = "termination_pending"
  /\ termRequested' = TRUE
  /\ UNCHANGED <<request, sticky, canon, acked, faults>>

(* The same when the journal cannot be written: the operation is told to
   stop, and nobody else learns of it. *)
DeadlineUnrecorded ==
  /\ Fault
  /\ state \in {"running", "termination_pending"}
  /\ ~timedOut
  /\ timedOut' = TRUE
  /\ UNCHANGED <<request, state, termRequested, sticky, canon, acked>>

(* runAsync finds the deadline already past and never calls the operation. *)
StartExpired ==
  /\ state = "queued"
  /\ state' = "timed_out"
  /\ timedOut' = TRUE
  /\ UNCHANGED <<request, termRequested, sticky, canon, acked, faults>>

(* The terminal state runAsync gives an operation that returned (ok) or threw. *)
Outcome(ok) ==
  IF sticky THEN "failed"
  ELSE IF ok /\ ((state = "running" /\ ~timedOut) \/ CommitsLate) THEN "succeeded"
  ELSE IF timedOut THEN "timed_out"
  ELSE "failed"

Finish ==
  /\ state \in {"running", "termination_pending"}
  /\ \E ok \in BOOLEAN : state' = Outcome(ok)
  /\ UNCHANGED <<request, termRequested, timedOut, sticky, canon, acked, faults>>

(* The result does not parse, or its terminal state cannot be journaled: the
   second attempt records a plain failure, whatever the operation did. *)
FinishUnrecorded ==
  /\ Fault
  /\ state \in {"running", "termination_pending"}
  /\ ~sticky
  /\ state' = "failed"
  /\ UNCHANGED <<request, termRequested, timedOut, sticky, canon, acked>>

(* retainControlTerminalStatus, once the claim is released (at startup:
   repairControlJournalTerminal).  A recovery_required status is never
   acknowledged, so its canonical is left out. *)
Publish ==
  /\ Conclusive
  /\ canon = "none"
  /\ canon' = state
  /\ UNCHANGED <<request, state, termRequested, timedOut, sticky, acked, faults>>

(* claimAdmission.release() throws after the terminal state was journaled. *)
ReleaseFails ==
  /\ Fault
  /\ Conclusive
  /\ canon = "none"
  /\ state' = "failed"
  /\ sticky' = TRUE
  /\ UNCHANGED <<request, termRequested, timedOut, canon, acked>>

(* forceRecoveryRequired: the journal could not be written. *)
JournalFails ==
  /\ Fault
  /\ state \in Live
  /\ sticky' = TRUE
  /\ state' = IF state = "queued" THEN "failed" ELSE "termination_pending"
  /\ UNCHANGED <<request, termRequested, timedOut, canon, acked>>

(* The agent dies and opens its journal again: an unfinished job is failed
   with recovery_required, its deadline possibly past. *)
AgentRestart ==
  /\ Fault
  /\ state \in Live
  /\ state' = "failed"
  /\ sticky' = TRUE
  /\ timedOut' = FALSE
  /\ termRequested' = TRUE \/ UNCHANGED termRequested
  /\ UNCHANGED <<request, canon, acked>>

AgentNext ==
  \/ Admit \/ Refuse \/ Busy
  \/ Start \/ StartExpired \/ Deadline \/ Finish \/ Publish
  \/ DeadlineUnrecorded \/ FinishUnrecorded \/ ReleaseFails \/ JournalFails \/ AgentRestart

-----------------------------------------------------------------------------
(* Steps the API takes part in; the caller says what happens to its thread. *)

(* The HTTP request leaves the API. *)
SendPost ==
  /\ request' = "sent"
  /\ UNCHANGED <<state, termRequested, timedOut, sticky, canon, acked>>

(* DELETE /v1/operations/:id.  Without a controller (queued, or gone) the
   answer is a conflict; a terminal job is reported as it is. *)
CancelOperation ==
  /\ IF state \in {"running", "termination_pending"}
       THEN state' = "termination_pending" /\ termRequested' = TRUE
       ELSE UNCHANGED <<state, termRequested>>
  /\ UNCHANGED <<request, timedOut, sticky, canon, acked>>

(* controlRetention.acknowledge: only the current, canonical terminal. *)
CanAcknowledge(copy) == canon = copy /\ state = copy

Acknowledge(copy) ==
  /\ CanAcknowledge(copy)
  /\ acked' = TRUE
  /\ UNCHANGED <<request, state, termRequested, timedOut, sticky, canon>>
=============================================================================
