---------------------------- MODULE JobContract ----------------------------
(***************************************************************************)
(* What the API promises whoever enqueues an administrative job, without   *)
(* processes, claims, checkpoints, receipts or retries: a job is accepted, *)
(* its effect is carried out at most once, and the job ends once, with a   *)
(* status that is true of the effect.  AdminJob implements it.             *)
(***************************************************************************)

VARIABLES
  job,      \* "none", "open", or the final status
  effect,   \* "none", "pending", or what became of it
  asked,    \* an administrator asked to cancel
  sole      \* the job is this one effect

vars == <<job, effect, asked, sole>>

Init ==
  /\ job = "none"
  /\ effect = "none"
  /\ asked = FALSE
  /\ sole \in BOOLEAN

Accept ==
  /\ job = "none"
  /\ job' = "open"
  /\ UNCHANGED <<effect, asked, sole>>

Ask ==
  /\ job = "open"
  /\ asked' = TRUE
  /\ UNCHANGED <<job, effect, sole>>

(* The effect is asked for once, and only for a job that is open. *)
Submit ==
  /\ job = "open"
  /\ effect = "none"
  /\ effect' = "pending"
  /\ UNCHANGED <<job, asked, sole>>

(* What became of the effect is decided once, while the job waits for it. *)
Conclude ==
  /\ job = "open"
  /\ effect = "pending"
  /\ effect' \in {"refused", "done", "undone"}
  /\ UNCHANGED <<job, asked, sole>>

Succeed ==
  /\ job = "open"
  /\ effect = "done"
  /\ job' = "success"
  /\ UNCHANGED <<effect, asked, sole>>

Fail ==
  /\ job = "open"
  /\ effect # "pending"
  /\ sole => effect # "done"
  /\ job' = "failed"
  /\ UNCHANGED <<effect, asked, sole>>

(* Only on request, and only if nothing was carried out. *)
Cancel ==
  /\ job = "open"
  /\ effect \in {"none", "undone"}
  /\ asked' = TRUE
  /\ job' = "canceled"
  /\ UNCHANGED <<effect, sole>>

Next == Accept \/ Ask \/ Submit \/ Conclude \/ Succeed \/ Fail \/ Cancel

Spec == Init /\ [][Next]_vars
=============================================================================
