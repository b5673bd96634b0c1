------------------------------ MODULE JobQueue ------------------------------
(***************************************************************************)
(* The queue of administrative jobs: the rows with status queued and the   *)
(* slots in which an API process runs them (enqueue, immediate, pump,      *)
(* launchJob, reconcile and initialize of                                  *)
(* apps/api/src/services/job-runner.ts).                                   *)
(*                                                                         *)
(* pump() is no loop that keeps polling.  It is called once for a new row, *)
(* once when a launched job ends and once at start, reads rows while the   *)
(* process has a free slot, and stops.  A queued row that no later call    *)
(* finds stays queued.  What a job does is module AdminJob.                *)
(***************************************************************************)
EXTENDS Integers, FiniteSets, FiniteSetsExt

CONSTANTS Procs,          \* API processes that share the database
          MaxJobs,        \* bound: rows
          MaxConcurrent,  \* maxConcurrent: slots of a process
          MaxImmediate,   \* bound: immediate jobs
          MaxCalls,       \* bound: calls that wait while another observation starts
          MaxFaults       \* bound: crashes and lost answers

ASSUME QueueBounds ==
  /\ MaxJobs \in Nat /\ MaxConcurrent \in Nat \ {0}
  /\ MaxImmediate \in Nat /\ MaxCalls \in Nat \ {0} /\ MaxFaults \in Nat

VARIABLES
  row,        \* status of each row; rows are numbered by createdAt
  next,       \* rows so far
  up,         \* processes that run
  calls,      \* process: calls of pump() its timers still have to make
  pump,       \* process: where its pump() is
  again,      \* process: pumpAgain
  cand,       \* process: the row its pump() read
  runs,       \* process: active, jobs the pump launched
  observers,  \* process: active, jobs reconcile() launched
  immediate,  \* process: active, how many jobs immediate() runs
  started,    \* immediate jobs so far
  faults,
  starts,     \* history: how often a row's handler was launched
  unheard     \* history: a slot or a row appeared and no call of pump() follows it

rowVars == <<row, next, starts>>
pumpVars == <<pump, again, cand>>
activeVars == <<runs, observers, immediate>>
vars == <<rowVars, up, calls, pumpVars, activeVars, started, faults, unheard>>

Jobs == 1..MaxJobs

TypeOK ==
  /\ row \in [Jobs -> {"none", "queued", "active", "open", "over"}]
  /\ next \in 0..MaxJobs /\ started \in 0..MaxImmediate /\ faults \in 0..MaxFaults
  /\ up \in SUBSET Procs /\ calls \in [Procs -> Nat]
  /\ pump \in [Procs -> {"idle", "select", "answered"}]
  /\ again \in [Procs -> BOOLEAN] /\ cand \in [Procs -> 0..MaxJobs]
  /\ runs \in [Procs -> SUBSET Jobs] /\ observers \in [Procs -> SUBSET Jobs]
  /\ immediate \in [Procs -> 0..MaxImmediate]
  /\ starts \in [Jobs -> Nat] /\ unheard \in BOOLEAN

Init ==
  /\ row = [j \in Jobs |-> "none"] /\ next = 0 /\ starts = [j \in Jobs |-> 0]
  /\ up = Procs /\ calls = [p \in Procs |-> 0]
  /\ pump = [p \in Procs |-> "idle"] /\ again = [p \in Procs |-> FALSE]
  /\ cand = [p \in Procs |-> 0]
  /\ runs = [p \in Procs |-> {}] /\ observers = [p \in Procs |-> {}]
  /\ immediate = [p \in Procs |-> 0]
  /\ started = 0 /\ faults = 0 /\ unheard = FALSE

(* active.size *)
Active(p) == Cardinality(runs[p]) + Cardinality(observers[p]) + immediate[p]

Queued == {j \in Jobs : row[j] = "queued"}

Fault == faults < MaxFaults /\ faults' = faults + 1

-----------------------------------------------------------------------------
(* What makes a row. *)

NewRow ==
  /\ next < MaxJobs
  /\ next' = next + 1
  /\ row' = [row EXCEPT ![next + 1] = "queued"]

(* enqueue, enqueueMaintenance, enqueueStandalone *)
Enqueue(p) ==
  /\ p \in up /\ NewRow
  /\ calls' = [calls EXCEPT ![p] = @ + 1]
  /\ UNCHANGED <<starts, up, pumpVars, activeVars, started, faults, unheard>>

(* The row is there, and its INSERT's answer is lost: the caller gets an error. *)
EnqueueUnconfirmed(p) ==
  /\ p \in up /\ NewRow /\ Fault
  /\ unheard' = TRUE
  /\ UNCHANGED <<starts, up, calls, pumpVars, activeVars, started>>

(* cancel() *)
CancelQueued(j) ==
  /\ row[j] = "queued"
  /\ row' = [row EXCEPT ![j] = "over"]
  /\ UNCHANGED <<next, starts, up, calls, pumpVars, activeVars, started, faults, unheard>>

-----------------------------------------------------------------------------
(* pump() *)

(* Mutant: a call that finds the pump running does nothing. *)
CallDropped(p) ==
  /\ calls[p] > 0
  /\ calls' = [calls EXCEPT ![p] = @ - 1]
  /\ IF pump[p] = "idle"
       THEN /\ again' = [again EXCEPT ![p] = FALSE]
            /\ pump' = [pump EXCEPT ![p] = IF Active(p) < MaxConcurrent THEN "select" ELSE "idle"]
       ELSE UNCHANGED <<again, pump>>
  /\ UNCHANGED <<rowVars, up, cand, activeVars, started, faults, unheard>>

(* One pump at a time: another call makes it go round once more. *)
Call(p) ==
  /\ calls[p] > 0
  /\ calls' = [calls EXCEPT ![p] = @ - 1]
  /\ IF pump[p] = "idle"
       THEN /\ again' = [again EXCEPT ![p] = FALSE]
            /\ pump' = [pump EXCEPT ![p] = IF Active(p) < MaxConcurrent THEN "select" ELSE "idle"]
       ELSE again' = [again EXCEPT ![p] = TRUE] /\ UNCHANGED pump
  /\ UNCHANGED <<rowVars, up, cand, activeVars, started, faults, unheard>>

(* The oldest queued row, if there is one, as the statement sees it. *)
Select(p) ==
  /\ pump[p] = "select"
  /\ cand' = [cand EXCEPT ![p] =
       IF Queued = {} THEN 0 ELSE Min(Queued)]
  /\ pump' = [pump EXCEPT ![p] = "answered"]
  /\ unheard' = FALSE
  /\ UNCHANGED <<rowVars, up, calls, again, activeVars, started, faults>>

(* No row: the loop ends unless pump() was called meanwhile. *)
Exhausted(p) ==
  /\ pump[p] = "answered" /\ cand[p] = 0
  /\ IF again[p] /\ Active(p) < MaxConcurrent
       THEN again' = [again EXCEPT ![p] = FALSE] /\ pump' = [pump EXCEPT ![p] = "select"]
       ELSE pump' = [pump EXCEPT ![p] = "idle"] /\ UNCHANGED again
  /\ UNCHANGED <<rowVars, up, calls, cand, activeVars, started, faults, unheard>>


(* claimAdminJob, which another process or cancel() may have forestalled, and
   launchJob.  The inner loop goes on while there is a free slot; without one
   pumpAgain is not looked at either. *)
Claim(p) ==
  /\ pump[p] = "answered" /\ cand[p] # 0
  /\ \/ /\ row[cand[p]] = "queued"
        /\ row' = [row EXCEPT ![cand[p]] = "active"]
        /\ runs' = [runs EXCEPT ![p] = @ \cup {cand[p]}]
        /\ starts' = [starts EXCEPT ![cand[p]] = @ + 1]
        /\ pump' = [pump EXCEPT ![p] = IF Active(p) + 1 < MaxConcurrent THEN "select" ELSE "idle"]
     \/ /\ row[cand[p]] # "queued"
        /\ pump' = [pump EXCEPT ![p] = IF Active(p) < MaxConcurrent THEN "select" ELSE "idle"]
        /\ UNCHANGED <<row, runs, starts>>
  /\ cand' = [cand EXCEPT ![p] = 0]
  /\ UNCHANGED <<next, up, calls, again, observers, immediate, started, faults, unheard>>

-----------------------------------------------------------------------------
(* What holds a slot. *)

(* launchJob's finally: the job is over, or left for an observation. *)
Finish(p, j) ==
  /\ j \in runs[p] \cup observers[p]
  /\ runs' = [runs EXCEPT ![p] = @ \ {j}]
  /\ observers' = [observers EXCEPT ![p] = @ \ {j}]
  /\ \E s \in {"open", "over"} : row' = [row EXCEPT ![j] = s]
  /\ calls' = [calls EXCEPT ![p] = @ + 1]
  /\ UNCHANGED <<next, starts, up, pumpVars, immediate, started, faults, unheard>>

(* reconcile(): one pass at a time, which awaits each observation.  One takes a
   slot whether or not a slot is free. *)
Observe(p, j) ==
  /\ p \in up /\ row[j] = "open" /\ observers[p] = {} /\ calls[p] < MaxCalls
  /\ row' = [row EXCEPT ![j] = "active"]
  /\ observers' = [observers EXCEPT ![p] = @ \cup {j}]
  /\ UNCHANGED <<next, starts, up, calls, pumpVars, runs, immediate, started, faults, unheard>>

(* immediate() does too, for a row that is never queued. *)
BeginImmediate(p) ==
  /\ p \in up /\ started < MaxImmediate
  /\ started' = started + 1
  /\ immediate' = [immediate EXCEPT ![p] = @ + 1]
  /\ UNCHANGED <<rowVars, up, calls, pumpVars, runs, observers, faults, unheard>>

(* Mutant: the slot is given back whether or not it was taken. *)
EndImmediateTwice(p) ==
  /\ p \in up
  /\ immediate' = [immediate EXCEPT ![p] = @ - 1]
  /\ unheard' = (unheard \/ (Active(p) = MaxConcurrent /\ runs[p] \cup observers[p] = {}))
  /\ UNCHANGED <<rowVars, up, calls, pumpVars, runs, observers, started, faults>>

(* Its finally gives the slot back and calls nothing.  Where a launched job
   still holds another slot, the end of that one is heard. *)
EndImmediate(p) ==
  /\ immediate[p] > 0
  /\ immediate' = [immediate EXCEPT ![p] = @ - 1]
  /\ unheard' = (unheard \/ (Active(p) = MaxConcurrent /\ runs[p] \cup observers[p] = {}))
  /\ UNCHANGED <<rowVars, up, calls, pumpVars, runs, observers, started, faults>>

-----------------------------------------------------------------------------
(* The process dies; a statement of pump() that fails is an unhandled rejection,
   on which it exits. *)
Crash(p) ==
  /\ Fault /\ p \in up
  /\ up' = up \ {p}
  /\ row' = [j \in Jobs |-> IF j \in runs[p] \cup observers[p] THEN "open" ELSE row[j]]
  /\ calls' = [calls EXCEPT ![p] = 0]
  /\ pump' = [pump EXCEPT ![p] = "idle"] /\ again' = [again EXCEPT ![p] = FALSE]
  /\ cand' = [cand EXCEPT ![p] = 0]
  /\ runs' = [runs EXCEPT ![p] = {}] /\ observers' = [observers EXCEPT ![p] = {}]
  /\ immediate' = [immediate EXCEPT ![p] = 0]
  /\ UNCHANGED <<next, starts, started, unheard>>

(* initialize() ends with a call. *)
Boot(p) ==
  /\ p \notin up
  /\ up' = up \cup {p}
  /\ calls' = [calls EXCEPT ![p] = 1]
  /\ UNCHANGED <<rowVars, pumpVars, activeVars, started, faults, unheard>>

Pump(p) == Call(p) \/ Select(p) \/ Exhausted(p) \/ Claim(p)

Next ==
  \/ \E j \in Jobs : CancelQueued(j)
  \/ \E p \in Procs :
       \/ Enqueue(p) \/ EnqueueUnconfirmed(p) \/ Pump(p)
       \/ BeginImmediate(p) \/ EndImmediate(p) \/ Crash(p) \/ Boot(p)
       \/ \E j \in Jobs : Finish(p, j) \/ Observe(p, j)

Spec == Init /\ [][Next]_vars

(* Timers fire and statements are answered, or the process exits and the
   container is restarted; a launched job and an immediate one end.  Nothing is
   assumed of reconcile(): rows of other types than the agent's it never takes. *)
Fairness ==
  \A p \in Procs :
    /\ WF_vars(Call(p)) /\ WF_vars(Select(p) \/ Exhausted(p) \/ Claim(p)) /\ WF_vars(Boot(p))
    /\ WF_vars(EndImmediate(p)) /\ \A j \in Jobs : WF_vars(Finish(p, j))

LiveSpec == Spec /\ Fairness

-----------------------------------------------------------------------------

(* No call of pump() is lost while one is running, while the slots are full, or
   with the process that owed it: a queued job is taken.  The code has two gaps,
   which unheard marks until some pump() reads the table again: the end of an
   immediate job frees the last slots of a process without a call, and a row
   whose INSERT's answer was lost has none. *)
QueueDrains == \A j \in Jobs : row[j] = "queued" ~> (row[j] # "queued" \/ unheard)
=============================================================================
