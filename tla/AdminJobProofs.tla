--------------------------- MODULE AdminJobProofs ---------------------------
(***************************************************************************)
(* Theorems about AdminJob, for every set of processes and every bound.    *)
(*                                                                         *)
(* IndInv is shown inductive action by action.  A step moves one thread t: *)
(* Moves(t) says that the others keep their place and that nobody else     *)
(* becomes a holder, Keeps that what another thread relies on still holds. *)
(***************************************************************************)
EXTENDS AdminJob, TLAPS

(* Thread u is where it was. *)
Same(u) ==
  /\ pc'[u] = pc[u]
  /\ goal'[u] = goal[u]
  /\ seen'[u] = seen[u]
  /\ out'[u] = out[u]

Moves(t) ==
  /\ \A u \in Threads : u # t => Same(u)
  /\ holders' \subseteq holders

(* Facts that, once a thread relies on them, no step takes back. *)
Grows ==
  /\ kind' = kind
  /\ request # "none" => request' # "none"
  /\ request = "refused" => request' = "refused"
  /\ state # "absent" => state' # "absent"
  /\ state \in AgentTerminal => state' \in AgentTerminal
  /\ acked => acked'
  /\ cancelReq => cancelReq'
  /\ status \in Terminal => status' \in Terminal
  /\ phase \in {"copied", "confirmed"} =>
        phase' \in {"copied", "confirmed"} /\ rstate' = rstate /\ rterm' = rterm
  /\ phase = "confirmed" => phase' = "confirmed"
  /\ phase = "refused" => phase' = "refused"
  /\ phase' = "none" => phase = "none"

(* Only a reservation leaves the phase none. *)
Keeps == Grows /\ (phase = "none" => phase' = "none")

-----------------------------------------------------------------------------
(* What each way of moving a thread does to the threads. *)

LEMMA Names ==
  ASSUME NEW p \in Procs
  PROVE  /\ W(p) \in Threads /\ W(p) \in Workers
         /\ C(p) \in Threads /\ C(p) \notin Workers
         /\ W(p) # C(p)
BY DEF W, C, Threads, Workers

LEMMA GotoFacts ==
  ASSUME ThreadTypeOK, NEW t \in Threads, NEW l \in Labels, Goto(t, l)
  PROVE  /\ ThreadTypeOK' /\ Moves(t)
         /\ pc'[t] = l /\ goal'[t] = goal[t] /\ seen'[t] = seen[t] /\ out'[t] = out[t]
         /\ holders' = holders
BY DEF ThreadTypeOK, Goto, Moves, Same

LEMMA ReadFacts ==
  ASSUME ThreadTypeOK, NEW t \in Threads, NEW l \in Labels, Read(t, l), Conclusive
  PROVE  /\ ThreadTypeOK' /\ Moves(t)
         /\ pc'[t] = l /\ goal'[t] = goal[t] /\ seen'[t] = state /\ out'[t] = out[t]
         /\ holders' = holders
BY DEF ThreadTypeOK, Read, Conclusive, Moves, Same

LEMMA DecideFacts ==
  ASSUME ThreadTypeOK, NEW t \in Threads, NEW l \in Labels,
         NEW o \in {"none", "success", "failed"}, Decide(t, l, o)
  PROVE  /\ ThreadTypeOK' /\ Moves(t)
         /\ pc'[t] = Toward(t, l, o)
         /\ goal'[t] = goal[t] /\ seen'[t] = seen[t] /\ out'[t] = o
         /\ holders' = holders
<1>1. Toward(t, l, o) \in Labels
  BY DEF Toward, Labels
<1> QED
  BY <1>1 DEF ThreadTypeOK, Decide, Moves, Same

LEMMA EndFacts ==
  ASSUME ThreadTypeOK, NEW t \in Threads, End(t)
  PROVE  ThreadTypeOK' /\ Moves(t) /\ pc'[t] = "idle" /\ ThreadInv(t)'
<1>1. ThreadTypeOK'
  BY DEF ThreadTypeOK, End, Labels
<1>2. Moves(t)
  BY DEF ThreadTypeOK, End, Moves, Same
<1>3. pc'[t] = "idle" /\ out'[t] = "none"
  BY DEF ThreadTypeOK, End
<1> QED
  BY <1>1, <1>2, <1>3 DEF ThreadInv

LEMMA AfterType == \A g : After(g) \in Labels
BY DEF After, Labels

LEMMA ResultType == RowTypeOK => Result \in {"success", "failed"}
BY DEF Result, RowTypeOK

LEMMA ContainFromType == ContainFrom \in Labels
BY AfterType DEF ContainFrom, Labels

-----------------------------------------------------------------------------
(* What the other threads know stays true. *)

LEMMA OthersKeep ==
  ASSUME TypeOK, NEW u \in Threads, ThreadInv(u), Keeps, Same(u),
         u \in holders' => u \in holders
  PROVE  ThreadInv(u)'
<1> USE DEF Same, Keeps, Grows, TypeOK, RowTypeOK, Phases
<1>1. /\ Succeeded => Succeeded'
      /\ NoSuccess => NoSuccess'
      /\ phase = "confirmed" /\ Contained => Contained'
  BY DEF Succeeded, NoSuccess, Contained
<1> HIDE DEF TypeOK, RowTypeOK, Phases
<1> QED
  BY <1>1 DEF ThreadInv

(* A thread that moves and knows enough, in a step that keeps the rest. *)
LEMMA ThreadStep ==
  ASSUME IndInv, NEW t \in Threads, Moves(t), Keeps, ThreadInv(t)'
  PROVE  \A u \in Threads : ThreadInv(u)'
<1> SUFFICES ASSUME NEW u \in Threads, u # t PROVE ThreadInv(u)'
  OBVIOUS
<1>1. Same(u) /\ (u \in holders' => u \in holders)
  BY DEF Moves
<1> QED
  BY <1>1, OthersKeep DEF IndInv

LEMMA GiveUpFacts ==
  ASSUME IndInv, NEW t \in Threads, GiveUp(t), Keeps, pc[t] # "idle", kind # "invalid"
  PROVE  ThreadTypeOK' /\ Moves(t) /\ ThreadInv(t)' /\ pc'[t] # "post"
<1> USE DEF IndInv, TypeOK
<1>1. CASE End(t)
  BY <1>1, EndFacts
<1>2. CASE t \in Workers /\ Goto(t, "pend")
  <2>1. /\ ThreadTypeOK' /\ Moves(t) /\ pc'[t] = "pend" /\ out'[t] = out[t]
    BY <1>2, GotoFacts DEF Labels
  <2>2. Succeeded => Succeeded'
    BY DEF Keeps, Grows, Succeeded
  <2>3. kind' # "invalid" /\ (out[t] = "success" => Succeeded)
    BY DEF Keeps, Grows, ThreadInv
  <2> QED
    BY <1>2, <2>1, <2>2, <2>3 DEF ThreadInv
<1> QED
  BY <1>1, <1>2 DEF GiveUp

(* A step of one thread that leaves the row, the agent and the environment. *)
LEMMA LocalStep ==
  ASSUME IndInv, NEW t \in Threads, Moves(t), ThreadTypeOK', ThreadInv(t)',
         pc'[t] # "post" \/ pc[t] = "post",
         UNCHANGED <<rowVars, envVars, agentVars>>, faults' \in 0..MaxFaults
  PROVE  IndInv'
<1> USE DEF IndInv, rowVars, envVars, agentVars
<1>1. TypeOK'
  BY DEF TypeOK, AgentTypeOK, RowTypeOK, EnvTypeOK
<1>2. RequestInv' /\ PhaseInv' /\ ReceiptInv'
  BY DEF GlobalInv, RequestInv, PhaseInv, ReceiptInv
<1>3. StatusInv'
  BY DEF GlobalInv, StatusInv, Succeeded, NoSuccess, Closable, Contained
<1>4. HolderInv'
  <2>1. (status \in {"none", "queued"} => holders = {})'
    BY DEF GlobalInv, HolderInv, Moves
  <2>2. (\A v, u \in holders \cap Workers : v = u)'
    BY DEF GlobalInv, HolderInv, Moves
  <2>3. \A u \in Threads : pc'[u] = "post" => pc[u] = "post"
    BY DEF Moves, Same
  <2> QED
    BY <2>1, <2>2, <2>3 DEF GlobalInv, HolderInv
<1>5. Keeps
  BY DEF Keeps, Grows
<1>6. \A u \in Threads : ThreadInv(u)'
  BY <1>5, ThreadStep
<1> QED
  BY <1>1, <1>2, <1>3, <1>4, <1>6 DEF GlobalInv

-----------------------------------------------------------------------------
(* Steps that only move the thread. *)

LEMMA LocalGoto ==
  ASSUME IndInv, NEW t \in Threads, NEW l \in Labels, Goto(t, l),
         l \notin {"post", "settle", "late", "handler", "start"},
         t \in Workers \/ (pc[t] # "idle" /\ l \in {"contain", "poll", "copy", "ack", "confirm"}),
         kind # "invalid",
         l = "await" => request # "none",
         l = "refuse" => request = "refused",
         l = "record" => state # "absent",
         l = "copy" => seen[t] \in AgentTerminal /\ state \in AgentTerminal,
         l = "ack" => phase \in {"copied", "confirmed"},
         l = "confirm" => acked,
         l = "revert" => phase \in {"refused", "confirmed"},
         l = "close" => phase = "confirmed" /\ Contained,
         l = "steps" => Succeeded /\ kind = "multi",
         UNCHANGED <<rowVars, envVars, agentVars>>, faults' \in 0..MaxFaults
  PROVE  IndInv'
<1>1. /\ ThreadTypeOK' /\ Moves(t) /\ pc'[t] = l
      /\ goal'[t] = goal[t] /\ out'[t] = out[t] /\ seen'[t] = seen[t]
  BY GotoFacts DEF IndInv, TypeOK
<1>2. ThreadInv(t)
  BY DEF IndInv
<1>3. ThreadInv(t)'
  BY <1>1, <1>2 DEF ThreadInv, Succeeded, Contained, rowVars, agentVars
<1> QED
  BY <1>1, <1>3, LocalStep

LEMMA LocalEnd ==
  ASSUME IndInv, NEW t \in Threads, End(t),
         UNCHANGED <<rowVars, envVars, agentVars>>, faults' \in 0..MaxFaults
  PROVE  IndInv'
<1>1. ThreadTypeOK' /\ Moves(t) /\ pc'[t] = "idle" /\ ThreadInv(t)'
  BY EndFacts DEF IndInv, TypeOK
<1> QED
  BY <1>1, LocalStep

LEMMA LocalGiveUp ==
  ASSUME IndInv, NEW t \in Threads, GiveUp(t), pc[t] # "idle", kind # "invalid",
         UNCHANGED <<rowVars, envVars, agentVars>>, faults' \in 0..MaxFaults
  PROVE  IndInv'
<1>1. Keeps
  BY DEF Keeps, Grows, rowVars, agentVars
<1>2. ThreadTypeOK' /\ Moves(t) /\ ThreadInv(t)' /\ pc'[t] # "post"
  BY <1>1, GiveUpFacts
<1> QED
  BY <1>2, LocalStep

(* A label beyond the first tells that the payload was accepted. *)
LEMMA Started ==
  ASSUME IndInv, NEW t \in Threads, pc[t] \notin {"idle", "start"}
  PROVE  kind # "invalid"
BY DEF IndInv, ThreadInv

(* The labels only a worker reaches. *)
LEMMA OnlyWorkers ==
  ASSUME IndInv, NEW t \in Threads,
         pc[t] \notin {"idle", "contain", "poll", "copy", "ack", "confirm", "close"}
  PROVE  t \in Workers
BY DEF IndInv, ThreadInv

LEMMA FaultsType ==
  ASSUME IndInv, Fault \/ faults' = faults
  PROVE  faults' \in 0..MaxFaults
BY MaxFaultsAssumption DEF IndInv, TypeOK, AgentTypeOK, Fault

LEMMA RunHandlerInv ==
  ASSUME IndInv, NEW t \in Threads, RunHandler(t)
  PROVE  IndInv'
<1>1. /\ ThreadTypeOK' /\ Moves(t) /\ pc'[t] = "handler" /\ out'[t] = out[t]
      /\ holders' = holders
  BY GotoFacts DEF IndInv, TypeOK, RunHandler, Labels
<1>2. ThreadInv(t) /\ t \in Workers
  BY OnlyWorkers DEF IndInv, RunHandler
<1>3. ThreadInv(t)'
  BY <1>1, <1>2 DEF ThreadInv, Succeeded, RunHandler, rowVars, agentVars
<1> QED
  BY <1>1, <1>3, LocalStep, FaultsType DEF RunHandler

LEMMA HandlerFailsInv ==
  ASSUME IndInv, NEW t \in Threads, HandlerFails(t)
  PROVE  IndInv'
<1>1. /\ ThreadTypeOK' /\ Moves(t) /\ pc'[t] \in {"settle", "pend"} /\ out'[t] = "failed"
      /\ holders' = holders
  BY DecideFacts DEF IndInv, TypeOK, HandlerFails, Labels, Toward
<1>2. ThreadInv(t) /\ t \in Workers /\ kind # "invalid"
  BY OnlyWorkers, Started DEF IndInv, HandlerFails
<1>3. ThreadInv(t)'
  BY <1>1, <1>2 DEF ThreadInv, NoSuccess, HandlerFails, rowVars, agentVars
<1> QED
  BY <1>1, <1>3, LocalStep, FaultsType DEF HandlerFails

LEMMA AnswerInv ==
  ASSUME IndInv, NEW t \in Threads, Answer(t)
  PROVE  IndInv'
<1> USE DEF Answer
<1>1. t \in Workers /\ kind # "invalid" /\ faults' \in 0..MaxFaults
  BY OnlyWorkers, Started, FaultsType
<1>2. request = "accepted" => state # "absent"
  BY DEF IndInv, GlobalInv, RequestInv
<1> QED
  BY <1>1, <1>2, LocalGoto DEF Labels

LEMMA LookupInv ==
  ASSUME IndInv, NEW t \in Threads, Lookup(t)
  PROVE  IndInv'
<1> USE DEF Lookup
<1>1. t \in Workers /\ kind # "invalid" /\ faults' \in 0..MaxFaults
  BY OnlyWorkers, Started, FaultsType
<1> QED
  BY <1>1, LocalGoto DEF Labels

(* Reading a conclusive terminal leads to the copy. *)
LEMMA ReadInv ==
  ASSUME IndInv, NEW t \in Threads, Read(t, "copy"), Conclusive,
         pc[t] \in {"wait", "poll"},
         UNCHANGED <<rowVars, envVars, agentVars, faults>>
  PROVE  IndInv'
<1>1. /\ ThreadTypeOK' /\ Moves(t) /\ pc'[t] = "copy" /\ seen'[t] = state
      /\ goal'[t] = goal[t] /\ out'[t] = out[t]
  BY ReadFacts DEF IndInv, TypeOK, Labels
<1>2. ThreadInv(t) /\ kind # "invalid" /\ faults' \in 0..MaxFaults
  BY Started, FaultsType DEF IndInv
<1>3. ThreadInv(t)'
  BY <1>1, <1>2 DEF ThreadInv, Succeeded, Conclusive, rowVars, agentVars
<1> QED
  BY <1>1, <1>2, <1>3, LocalStep

LEMMA WaitInv ==
  ASSUME IndInv, NEW t \in Threads, Wait(t)
  PROVE  IndInv'
<1> USE DEF Wait
<1>1. CASE Conclusive
  BY <1>1, ReadInv
<1>2. CASE ~Conclusive
  <2>1. t \in Workers /\ kind # "invalid" /\ faults' \in 0..MaxFaults
    BY OnlyWorkers, Started, FaultsType
  <2> QED
    BY <1>2, <2>1, LocalGoto DEF Labels
<1> QED
  BY <1>1, <1>2

LEMMA PollInv ==
  ASSUME IndInv, NEW t \in Threads, Poll(t)
  PROVE  IndInv'
<1> USE DEF Poll
<1>1. CASE Conclusive
  BY <1>1, ReadInv
<1>2. CASE ~Conclusive
  BY <1>2, Started, FaultsType, LocalGiveUp
<1> QED
  BY <1>1, <1>2

LEMMA RetireInv ==
  ASSUME IndInv, NEW t \in Threads, Retire(t)
  PROVE  IndInv'
BY LocalEnd, FaultsType DEF Retire

LEMMA InterruptInv ==
  ASSUME IndInv, NEW t \in Threads, Interrupt(t)
  PROVE  IndInv'
BY LocalGiveUp, FaultsType DEF Interrupt, Interruptible

LEMMA RemainingStepsInv ==
  ASSUME IndInv, NEW t \in Threads, RemainingSteps(t)
  PROVE  IndInv'
<1> USE DEF RemainingSteps
<1>1. PICK o \in {"success", "failed"} : Decide(t, "settle", o)
  OBVIOUS
<1>2. /\ ThreadTypeOK' /\ Moves(t) /\ pc'[t] \in {"settle", "pend"} /\ out'[t] = o
  BY <1>1, DecideFacts DEF IndInv, TypeOK, Labels, Toward
<1>3. t \in Workers /\ faults' \in 0..MaxFaults /\ ThreadInv(t)
  BY OnlyWorkers, FaultsType DEF IndInv
<1>4. ThreadInv(t)'
  BY <1>2, <1>3 DEF ThreadInv, Succeeded, rowVars, agentVars
<1> QED
  BY <1>2, <1>3, <1>4, LocalStep

-----------------------------------------------------------------------------
(* Taking up an observation. *)

(* The outcome an observer reports agrees with the retained receipt. *)
LEMMA ResultFacts ==
  ASSUME IndInv, phase \in {"copied", "confirmed"}
  PROVE  /\ Result \in {"success", "failed"}
         /\ Result = "success" => rstate = "succeeded"
         /\ Result = "failed" /\ kind = "single" => rstate # "succeeded"
BY DEF IndInv, TypeOK, RowTypeOK, GlobalInv, StatusInv, Result, NoSuccess

(* A decision to settle with what the row shows. *)
LEMMA LocalDecide ==
  ASSUME IndInv, NEW t \in Workers, NEW l \in {"settle", "pend", "steps"},
         NEW o \in {"success", "failed"}, Decide(t, l, o),
         kind # "invalid",
         o = "success" => Succeeded,
         o = "failed" /\ kind = "single" => NoSuccess,
         l = "steps" => Succeeded /\ kind = "multi",
         UNCHANGED <<rowVars, envVars, agentVars>>, faults' \in 0..MaxFaults
  PROVE  IndInv'
<1>1. t \in Threads
  BY DEF Workers, Threads
<1>2. ThreadTypeOK' /\ Moves(t) /\ pc'[t] \in {l, "pend"} /\ out'[t] = o
  BY <1>1, DecideFacts DEF IndInv, TypeOK, Labels, Toward
<1>3. ThreadInv(t)'
  BY <1>2 DEF ThreadInv, Succeeded, NoSuccess, rowVars, agentVars
<1> QED
  BY <1>1, <1>2, <1>3, LocalStep

LEMMA ResumeInv ==
  ASSUME IndInv, NEW t \in Threads, t \in Workers, Resume(t), kind # "invalid",
         UNCHANGED <<rowVars, envVars, agentVars, faults>>
  PROVE  IndInv'
<1>1. faults' \in 0..MaxFaults
  BY FaultsType
<1>2. CASE phase \in {"none", "admitting", "observing", "copied"}
  BY <1>1, <1>2, LocalGoto DEF Resume, Labels
<1>3. CASE phase = "refused"
  <2>1. Decide(t, "settle", "failed") /\ NoSuccess
    BY <1>3 DEF Resume, NoSuccess
  <2> QED
    BY <1>1, <2>1, LocalDecide
<1>4. CASE phase = "confirmed"
  <2>1. Decide(t, After("observe"), Result)
    BY <1>4 DEF Resume
  <2>2. After("observe") \in {"settle", "pend"}
    BY DEF After
  <2>3. /\ Result \in {"success", "failed"}
        /\ Result = "success" => Succeeded
        /\ Result = "failed" /\ kind = "single" => NoSuccess
    BY <1>4, ResultFacts DEF Succeeded, NoSuccess
  <2> QED
    BY <1>1, <2>1, <2>2, <2>3, LocalDecide
<1> QED
  BY <1>2, <1>3, <1>4 DEF IndInv, TypeOK, RowTypeOK, Phases

(* Where a containment starts. *)
LEMMA ContainFromFacts ==
  ASSUME IndInv
  PROVE  /\ ContainFrom \in {"pend", "revert", "ack", "close", "contain"}
         /\ ContainFrom = "ack" => phase \in {"copied", "confirmed"}
         /\ ContainFrom = "revert" => phase \in {"refused", "confirmed"}
         /\ ContainFrom = "close" => phase = "confirmed" /\ Contained
BY DEF ContainFrom, After

LEMMA ObserveInv ==
  ASSUME IndInv, NEW t \in Threads, Observe(t)
  PROVE  IndInv'
<1>1. t \in Workers /\ kind # "invalid" /\ faults' \in 0..MaxFaults /\ ThreadInv(t)
  BY OnlyWorkers, FaultsType DEF Observe, IndInv
<1>2. CASE End(t)
  BY <1>1, <1>2, LocalEnd DEF Observe
<1>3. CASE Resume(t)
  BY <1>1, <1>3, ResumeInv DEF Observe
<1>4. CASE /\ pc' = [pc EXCEPT ![t] = ContainFrom]
           /\ goal' = [goal EXCEPT ![t] = "contain"]
           /\ UNCHANGED <<seen, out, aborted, holders>>
  <2>1. ContainFrom \in Labels
    BY ContainFromType
  <2>2. ThreadTypeOK'
    BY <1>4, <2>1 DEF IndInv, TypeOK, ThreadTypeOK
  <2>3. Moves(t) /\ pc'[t] = ContainFrom /\ out'[t] = out[t]
    BY <1>4 DEF IndInv, TypeOK, ThreadTypeOK, Moves, Same
  <2>4. ThreadInv(t)'
    BY <1>1, <2>3, ContainFromFacts
    DEF ThreadInv, Succeeded, Contained, Observe, rowVars, agentVars
  <2> QED
    BY <1>1, <2>2, <2>3, <2>4, ContainFromFacts, LocalStep DEF Observe
<1> QED
  BY <1>2, <1>3, <1>4 DEF Observe

-----------------------------------------------------------------------------
(* Failures that only move the thread. *)

(* A signal is raised; no thread moves. *)
LEMMA SignalInv ==
  ASSUME IndInv, NEW t \in Threads, aborted' = aborted \cup {t},
         UNCHANGED <<rowVars, pc, goal, seen, out, holders, envVars, agentVars>>,
         faults' \in 0..MaxFaults
  PROVE  IndInv'
<1>1. ThreadTypeOK'
  BY DEF IndInv, TypeOK, ThreadTypeOK
<1>2. Keeps
  BY DEF Keeps, Grows, rowVars, agentVars
<1>3. Moves(t) /\ Same(t)
  BY DEF Moves, Same
<1>4. ThreadInv(t)'
  BY <1>2, <1>3, OthersKeep DEF IndInv
<1> QED
  BY <1>1, <1>3, <1>4, LocalStep DEF Same

LEMMA RenewFailsInv ==
  ASSUME IndInv, NEW p \in Procs, RenewFails(p)
  PROVE  IndInv'
<1>1. W(p) \in Threads /\ faults' \in 0..MaxFaults
  BY Names, FaultsType DEF RenewFails
<1> QED
  BY <1>1, SignalInv DEF RenewFails

LEMMA ObserverTimeoutInv ==
  ASSUME IndInv, NEW t \in Threads, ObserverTimeout(t)
  PROVE  IndInv'
BY SignalInv, FaultsType DEF ObserverTimeout

-----------------------------------------------------------------------------
(* Steps of a thread that change the row. *)

LEMMA RowStep ==
  ASSUME IndInv, NEW t \in Threads, Moves(t), Keeps, ThreadInv(t)', TypeOK',
         RequestInv', PhaseInv', ReceiptInv', StatusInv', HolderInv'
  PROVE  IndInv'
BY ThreadStep DEF IndInv, GlobalInv

LEMMA HolderStep ==
  ASSUME IndInv, NEW t \in Threads, Moves(t), pc'[t] # "post",
         status' \in {"none", "queued"} => status \in {"none", "queued"},
         request # "none" \/ (phase' = phase /\ request' = request)
  PROVE  HolderInv'
<1> USE DEF IndInv, GlobalInv, HolderInv
<1>1. (status \in {"none", "queued"} => holders = {})'
  BY DEF Moves
<1>2. (\A v, u \in holders \cap Workers : v = u)'
  BY DEF Moves
<1>3. \A u \in Threads : pc'[u] = "post" => pc[u] = "post"
  BY DEF Moves, Same
<1> QED
  BY <1>1, <1>2, <1>3

LEMMA RejectPayloadInv ==
  ASSUME IndInv, NEW t \in Threads, RejectPayload(t)
  PROVE  IndInv'
<1> USE DEF IndInv, RejectPayload
<1>1. ThreadTypeOK' /\ Moves(t) /\ pc'[t] = "idle" /\ ThreadInv(t)'
  BY EndFacts DEF TypeOK
<1>2. TypeOK'
  BY <1>1 DEF TypeOK, AgentTypeOK, RowTypeOK, EnvTypeOK, Announce, Terminal, agentVars
<1>3. phase = "none"
  BY DEF GlobalInv, PhaseInv
<1>4. Keeps
  BY DEF Keeps, Grows, Owns, Terminal, agentVars
<1>5. RequestInv' /\ PhaseInv' /\ ReceiptInv'
  BY DEF GlobalInv, RequestInv, PhaseInv, ReceiptInv, agentVars
<1>6. StatusInv'
  BY <1>3 DEF GlobalInv, StatusInv, Closable, Succeeded, NoSuccess, Contained
<1>7. HolderInv'
  BY <1>1, HolderStep DEF agentVars
<1> QED
  BY <1>1, <1>2, <1>4, <1>5, <1>6, <1>7, RowStep

(* The refusal is recorded, whatever the thread learns of it. *)
LEMMA RefusedInv ==
  ASSUME IndInv, NEW t \in Threads, pc[t] = "refuse", Owns(t, Open), phase' = "refused",
         UNCHANGED <<status, kind, cancelReq, lease, obs, settled, rstate, rterm>>,
         UNCHANGED <<envVars, agentVars>>, faults' \in 0..MaxFaults,
         Moves(t), ThreadTypeOK', pc'[t] # "post", ThreadInv(t)'
  PROVE  IndInv'
<1> USE DEF IndInv
<1>1. request = "refused" /\ phase \in {"admitting", "refused"}
  BY DEF ThreadInv, GlobalInv, RequestInv, PhaseInv, TypeOK, RowTypeOK, Phases, AgentTerminal
<1>2. TypeOK'
  BY DEF TypeOK, AgentTypeOK, RowTypeOK, EnvTypeOK, Phases, agentVars, envVars
<1>3. Keeps
  BY <1>1 DEF Keeps, Grows, agentVars
<1>4. RequestInv' /\ PhaseInv' /\ ReceiptInv'
  BY <1>1, Started DEF GlobalInv, RequestInv, PhaseInv, ReceiptInv, agentVars, envVars
<1>5. StatusInv'
  BY <1>1
  DEF GlobalInv, StatusInv, Closable, Succeeded, NoSuccess, Contained, Owns, Open
<1>6. HolderInv'
  BY <1>1, HolderStep
<1> QED
  BY <1>2, <1>3, <1>4, <1>5, <1>6, RowStep

LEMMA RecordRefusalInv ==
  ASSUME IndInv, NEW t \in Threads, RecordRefusal(t)
  PROVE  IndInv'
<1>1. CASE ~Owns(t, Open)
  BY <1>1, LocalEnd, FaultsType DEF RecordRefusal, rowVars
<1>2. CASE Owns(t, Open)
  <2>1. /\ ThreadTypeOK' /\ Moves(t) /\ pc'[t] \in {"settle", "pend"} /\ out'[t] = "failed"
        /\ phase' = "refused"
    BY <1>2, DecideFacts DEF IndInv, TypeOK, Labels, RecordRefusal, Toward
  <2>2. t \in Workers /\ kind # "invalid"
    BY OnlyWorkers, Started DEF RecordRefusal
  <2>3. ThreadInv(t)'
    BY <2>1, <2>2 DEF ThreadInv, NoSuccess, RecordRefusal
  <2> QED
    BY <1>2, <2>1, <2>3, RefusedInv, FaultsType DEF RecordRefusal
<1> QED
  BY <1>1, <1>2

LEMMA ObservingInv ==
  ASSUME IndInv, NEW t \in Threads, pc[t] = "record", Owns(t, Open),
         phase' = IF phase = "admitting" THEN "observing" ELSE phase,
         UNCHANGED <<status, kind, cancelReq, lease, obs, settled, rstate, rterm>>,
         UNCHANGED <<envVars, agentVars>>, faults' \in 0..MaxFaults,
         Moves(t), ThreadTypeOK', pc'[t] # "post", ThreadInv(t)'
  PROVE  IndInv'
<1> USE DEF IndInv
<1>1. state # "absent" /\ request = "accepted"
  BY DEF ThreadInv, GlobalInv, RequestInv
<1>2. TypeOK'
  BY DEF TypeOK, AgentTypeOK, RowTypeOK, EnvTypeOK, Phases, agentVars, envVars
<1>3. Keeps
  BY DEF Keeps, Grows, agentVars
<1>4. RequestInv' /\ PhaseInv' /\ ReceiptInv'
  BY <1>1 DEF GlobalInv, RequestInv, PhaseInv, ReceiptInv, agentVars, envVars
<1>5. StatusInv'
  BY DEF GlobalInv, StatusInv, Closable, Succeeded, NoSuccess, Contained, Owns, Open
<1>6. HolderInv'
  BY <1>1, HolderStep
<1> QED
  BY <1>2, <1>3, <1>4, <1>5, <1>6, RowStep

LEMMA RecordInv ==
  ASSUME IndInv, NEW t \in Threads, Record(t)
  PROVE  IndInv'
<1>1. CASE ~Owns(t, Open)
  BY <1>1, LocalEnd, FaultsType DEF Record, rowVars, MergedPhase
<1>2. CASE Owns(t, Open)
  <2>1. /\ ThreadTypeOK' /\ Moves(t) /\ pc'[t] = "wait" /\ out'[t] = out[t]
        /\ phase' = IF phase = "admitting" THEN "observing" ELSE phase
    BY <1>2, GotoFacts DEF IndInv, TypeOK, Labels, Record, MergedPhase
  <2>2. t \in Workers /\ kind # "invalid" /\ ThreadInv(t)
    BY OnlyWorkers, Started DEF IndInv, Record, MergedPhase
  <2>3. ThreadInv(t)'
    BY <2>1, <2>2 DEF ThreadInv, Succeeded, Record, MergedPhase
  <2> QED
    BY <1>2, <2>1, <2>3, ObservingInv, FaultsType DEF Record, MergedPhase
<1> QED
  BY <1>1, <1>2

(* Only times of the row change. *)
LEMMA TimesStep ==
  ASSUME IndInv, NEW t \in Threads, Moves(t), ThreadTypeOK', ThreadInv(t)',
         pc'[t] # "post" \/ Same(t),
         UNCHANGED <<status, kind, cancelReq, settled, phase, rstate, rterm, envVars, agentVars>>,
         lease' \in {"null", "live", "expired"}, obs' \in {"none", "later", "due"},
         faults' \in 0..MaxFaults
  PROVE  IndInv'
<1> USE DEF IndInv
<1>1. TypeOK'
  BY DEF TypeOK, AgentTypeOK, RowTypeOK, EnvTypeOK, agentVars, envVars
<1>2. Keeps
  BY DEF Keeps, Grows, agentVars
<1>3. RequestInv' /\ PhaseInv' /\ ReceiptInv'
  BY DEF GlobalInv, RequestInv, PhaseInv, ReceiptInv, agentVars, envVars
<1>4. StatusInv'
  BY DEF GlobalInv, StatusInv, Closable, Succeeded, NoSuccess, Contained
<1>5. HolderInv'
  <2>1. \A u \in Threads : pc'[u] = "post" => pc[u] = "post"
    BY DEF Moves, Same
  <2>2. (status \in {"none", "queued"} => holders = {})'
    BY DEF Moves, GlobalInv, HolderInv
  <2>3. (\A v, u \in holders \cap Workers : v = u)'
    BY DEF Moves, GlobalInv, HolderInv
  <2> QED
    BY <2>1, <2>2, <2>3 DEF GlobalInv, HolderInv, agentVars
<1> QED
  BY <1>1, <1>2, <1>3, <1>4, <1>5, RowStep

LEMMA PendingInv ==
  ASSUME IndInv, NEW t \in Threads, Pending(t)
  PROVE  IndInv'
<1>1. ThreadTypeOK' /\ Moves(t) /\ pc'[t] = "idle" /\ ThreadInv(t)'
  BY EndFacts DEF Pending, IndInv, TypeOK
<1>2. lease' \in {"null", "live", "expired"} /\ obs' \in {"none", "later", "due"}
  BY DEF Pending, IndInv, TypeOK, RowTypeOK
<1>3. faults' \in 0..MaxFaults
  BY FaultsType DEF Pending
<1> QED
  BY <1>1, <1>2, <1>3, TimesStep DEF Pending

LEMMA ReceiptFailsInv ==
  ASSUME IndInv, NEW t \in Threads, GiveUpReceipt(t), pc[t] \in {"copy", "ack", "confirm"},
         UNCHANGED <<envVars, agentVars>>, faults' \in 0..MaxFaults
  PROVE  IndInv'
<1> USE DEF GiveUpReceipt, ScheduleCheck
<1>1. Keeps
  BY DEF Keeps, Grows, agentVars
<1>2. ThreadTypeOK' /\ Moves(t) /\ ThreadInv(t)' /\ pc'[t] # "post"
  BY <1>1, Started, GiveUpFacts
<1>3. lease' \in {"null", "live", "expired"} /\ obs' \in {"none", "later", "due"}
  BY DEF IndInv, TypeOK, RowTypeOK
<1> QED
  BY <1>2, <1>3, TimesStep

LEMMA DatabaseFailsInv ==
  ASSUME IndInv, NEW t \in Threads, DatabaseFails(t)
  PROVE  IndInv'
<1> USE DEF DatabaseFails
<1>1. faults' \in 0..MaxFaults
  BY FaultsType
<1>2. CASE End(t) /\ UNCHANGED rowVars
  BY <1>1, <1>2, LocalEnd
<1>3. CASE GiveUp(t) /\ UNCHANGED rowVars /\ pc[t] # "idle" /\ kind # "invalid"
  BY <1>1, <1>3, LocalGiveUp
<1>4. CASE pc[t] \in {"copy", "confirm"} /\ GiveUpReceipt(t)
  BY <1>1, <1>4, ReceiptFailsInv
<1>5. pc[t] \in {"record", "close", "revert", "settle", "late"} => kind # "invalid"
  BY Started
<1> QED
  BY <1>2, <1>3, <1>4, <1>5

LEMMA CopiedInv ==
  ASSUME IndInv, NEW t \in Threads, pc[t] = "copy", Owns(t, Open),
         phase \in {"admitting", "observing"},
         phase' = "copied", rstate' = seen[t], rterm' = termRequested,
         UNCHANGED <<status, kind, cancelReq, lease, settled>>,
         obs' \in {"none", "later", "due"},
         UNCHANGED <<envVars, agentVars>>, faults' \in 0..MaxFaults,
         Moves(t), ThreadTypeOK', pc'[t] # "post", ThreadInv(t)'
  PROVE  IndInv'
<1> USE DEF IndInv
<1>1. /\ seen[t] \in AgentTerminal /\ state \in AgentTerminal
      /\ request = "accepted" /\ ~acked
  BY DEF ThreadInv, GlobalInv, RequestInv, ReceiptInv, AgentTerminal
<1>2. TypeOK'
  BY <1>1 DEF TypeOK, AgentTypeOK, RowTypeOK, EnvTypeOK, Phases, agentVars, envVars
<1>3. Keeps
  BY DEF Keeps, Grows, agentVars
<1>4. RequestInv' /\ PhaseInv' /\ ReceiptInv'
  BY <1>1 DEF GlobalInv, RequestInv, PhaseInv, ReceiptInv, agentVars, envVars
<1>5. StatusInv'
  BY DEF GlobalInv, StatusInv, Closable, Succeeded, NoSuccess, Contained, Owns, Open
<1>6. HolderInv'
  BY <1>1, HolderStep
<1> QED
  BY <1>2, <1>3, <1>4, <1>5, <1>6, RowStep

LEMMA CopyInv ==
  ASSUME IndInv, NEW t \in Threads, Copy(t)
  PROVE  IndInv'
<1>1. CASE ~(Owns(t, Open) /\ phase \in {"admitting", "observing"})
  BY <1>1, ReceiptFailsInv, FaultsType DEF Copy
<1>2. CASE Owns(t, Open) /\ phase \in {"admitting", "observing"}
  <2>1. /\ ThreadTypeOK' /\ Moves(t) /\ pc'[t] = "ack" /\ out'[t] = out[t]
        /\ goal'[t] = goal[t]
    BY <1>2, GotoFacts DEF IndInv, TypeOK, Labels, Copy
  <2>2. ThreadInv(t) /\ out[t] # "success" /\ kind # "invalid"
    BY <1>2, Started DEF IndInv, ThreadInv, Succeeded, Copy
  <2>3. ThreadInv(t)'
    BY <2>1, <2>2, <1>2 DEF ThreadInv, Copy
  <2>4. obs' \in {"none", "later", "due"}
    BY <1>2 DEF Copy, IndInv, TypeOK, RowTypeOK
  <2> QED
    BY <1>2, <2>1, <2>3, <2>4, CopiedInv, FaultsType DEF Copy
<1> QED
  BY <1>1, <1>2

(* The acknowledgement reaches the agent, whatever the thread learns of it. *)
LEMMA AcknowledgeInv ==
  ASSUME IndInv, NEW t \in Threads, pc[t] = "ack", Acknowledge(rstate),
         Moves(t), ThreadTypeOK', ThreadInv(t)', pc'[t] # "post", UNCHANGED envVars,
         UNCHANGED <<status, kind, cancelReq, settled, phase, rstate, rterm>>,
         lease' \in {"null", "live", "expired"}, obs' \in {"none", "later", "due"},
         faults' \in 0..MaxFaults
  PROVE  IndInv'
<1> USE DEF IndInv, Acknowledge, CanAcknowledge
<1>1. phase \in {"copied", "confirmed"} /\ rstate \in AgentTerminal
  BY DEF ThreadInv, GlobalInv, PhaseInv
<1>2. TypeOK'
  BY DEF TypeOK, AgentTypeOK, RowTypeOK, EnvTypeOK, envVars
<1>3. Keeps
  BY DEF Keeps, Grows
<1>4. RequestInv' /\ PhaseInv' /\ ReceiptInv'
  BY <1>1 DEF GlobalInv, RequestInv, PhaseInv, ReceiptInv, envVars
<1>5. StatusInv'
  BY DEF GlobalInv, StatusInv, Closable, Succeeded, NoSuccess, Contained
<1>6. HolderInv'
  BY HolderStep
<1> QED
  BY <1>2, <1>3, <1>4, <1>5, <1>6, RowStep

LEMMA AckInv ==
  ASSUME IndInv, NEW t \in Threads, Ack(t)
  PROVE  IndInv'
<1>1. faults' \in 0..MaxFaults
  BY FaultsType DEF Ack
<1>2. CASE Acknowledge(rstate) /\ Goto(t, "confirm") /\ UNCHANGED rowVars
  <2>1. /\ ThreadTypeOK' /\ Moves(t) /\ pc'[t] = "confirm" /\ out'[t] = out[t]
        /\ goal'[t] = goal[t]
    BY <1>2, GotoFacts DEF IndInv, TypeOK, Labels
  <2>2. ThreadInv(t) /\ pc[t] = "ack" /\ acked' /\ kind # "invalid"
    BY <1>2, Started DEF IndInv, Ack, Acknowledge
  <2>3. ThreadInv(t)'
    BY <1>2, <2>1, <2>2 DEF ThreadInv, Succeeded, rowVars
  <2>4. lease' \in {"null", "live", "expired"} /\ obs' \in {"none", "later", "due"}
    BY <1>2 DEF IndInv, TypeOK, RowTypeOK, rowVars
  <2> QED
    BY <1>1, <1>2, <2>1, <2>2, <2>3, <2>4, AcknowledgeInv DEF Ack, rowVars
<1>3. CASE ~CanAcknowledge(rstate) /\ GiveUpReceipt(t) /\ UNCHANGED agentVars
  BY <1>1, <1>3, ReceiptFailsInv DEF Ack
<1> QED
  BY <1>2, <1>3 DEF Ack

LEMMA UnreachableInv ==
  ASSUME IndInv, NEW t \in Threads, Unreachable(t)
  PROVE  IndInv'
<1> USE DEF Unreachable
<1>1. faults' \in 0..MaxFaults
  BY FaultsType
<1>2. CASE pc[t] = "await" /\ Goto(t, "lookup") /\ UNCHANGED <<rowVars, agentVars>>
  <2>1. t \in Workers /\ kind # "invalid"
    BY <1>2, OnlyWorkers, Started
  <2> QED
    BY <1>1, <1>2, <2>1, LocalGoto DEF Labels
<1>3. CASE pc[t] \in {"lookup", "wait", "poll"} /\ GiveUp(t) /\ UNCHANGED <<rowVars, agentVars>>
  BY <1>1, <1>3, Started, LocalGiveUp
<1>4. CASE pc[t] = "contain" /\ Goto(t, "poll") /\ UNCHANGED <<rowVars, agentVars>>
  BY <1>1, <1>4, Started, LocalGoto DEF Labels
<1>5. CASE pc[t] = "ack" /\ GiveUpReceipt(t) /\ UNCHANGED agentVars
  BY <1>1, <1>5, ReceiptFailsInv
<1>6. CASE pc[t] = "ack" /\ Acknowledge(rstate) /\ GiveUpReceipt(t)
  <2>1. Keeps
    BY <1>6 DEF Keeps, Grows, Acknowledge, GiveUpReceipt
  <2>2. ThreadTypeOK' /\ Moves(t) /\ ThreadInv(t)' /\ pc'[t] # "post"
    BY <1>6, <2>1, Started, GiveUpFacts DEF GiveUpReceipt
  <2>3. lease' \in {"null", "live", "expired"} /\ obs' \in {"none", "later", "due"}
    BY <1>6 DEF IndInv, TypeOK, RowTypeOK, GiveUpReceipt, ScheduleCheck
  <2> QED
    BY <1>1, <1>6, <2>2, <2>3, AcknowledgeInv DEF GiveUpReceipt
<1> QED
  BY <1>2, <1>3, <1>4, <1>5, <1>6

(* The delivery is recorded, whatever the thread learns of it. *)
LEMMA ConfirmedInv ==
  ASSUME IndInv, NEW t \in Threads, pc[t] = "confirm", Owns(t, Open), phase' = "confirmed",
         UNCHANGED <<status, kind, cancelReq, lease, settled, rstate, rterm>>,
         obs' \in {"none", "later", "due"},
         UNCHANGED <<envVars, agentVars>>, faults' \in 0..MaxFaults,
         Moves(t), ThreadTypeOK', pc'[t] # "post", ThreadInv(t)'
  PROVE  IndInv'
<1> USE DEF IndInv
<1>1. /\ acked /\ phase \in {"copied", "confirmed"} /\ kind # "invalid"
      /\ canon = rstate /\ request = "accepted" /\ rstate \in AgentTerminal
  BY Started DEF ThreadInv, GlobalInv, ReceiptInv, PhaseInv, RequestInv, AgentTerminal
<1>2. TypeOK'
  BY DEF TypeOK, AgentTypeOK, RowTypeOK, EnvTypeOK, Phases, agentVars, envVars
<1>3. Keeps
  BY <1>1 DEF Keeps, Grows, agentVars
<1>4. RequestInv' /\ PhaseInv' /\ ReceiptInv'
  BY <1>1 DEF GlobalInv, RequestInv, PhaseInv, ReceiptInv, agentVars, envVars
<1>5. StatusInv'
  BY <1>1 DEF GlobalInv, StatusInv, Closable, Succeeded, NoSuccess, Contained, Owns, Open
<1>6. HolderInv'
  BY <1>1, HolderStep
<1> QED
  BY <1>2, <1>3, <1>4, <1>5, <1>6, RowStep

LEMMA ConfirmInv ==
  ASSUME IndInv, NEW t \in Threads, Confirm(t)
  PROVE  IndInv'
<1>1. CASE ~Owns(t, Open)
  BY <1>1, LocalEnd, FaultsType DEF Confirm, rowVars
<1>2. CASE Owns(t, Open)
  <2> USE DEF IndInv, Confirm
  <2>1. phase' = "confirmed" /\ Proceed(t)
    BY <1>2
  <2>2. /\ ThreadInv(t) /\ acked /\ phase \in {"copied", "confirmed"} /\ kind # "invalid"
    BY Started DEF ThreadInv, GlobalInv, ReceiptInv
  <2>3. /\ ThreadTypeOK' /\ Moves(t) /\ pc'[t] # "post" /\ ThreadInv(t)'
    <3>1. CASE End(t)
      BY <3>1, EndFacts DEF TypeOK
    <3>2. CASE Decide(t, After(goal[t]), "none") /\ goal[t] = "contain"
               /\ (t \in Workers \/ Contained)
      <4>1. /\ ThreadTypeOK' /\ Moves(t) /\ pc'[t] = After(goal[t]) /\ out'[t] = "none"
            /\ goal'[t] = goal[t]
        BY <3>2, AfterType, DecideFacts DEF TypeOK, Toward
      <4>2. After(goal[t]) = IF Contained THEN "close" ELSE "revert"
        BY <3>2 DEF After
      <4> QED
        BY <2>1, <2>2, <3>2, <4>1, <4>2 DEF ThreadInv, Contained
    <3>3. CASE Decide(t, After(goal[t]), Result) /\ goal[t] # "contain"
      <4>1. /\ Result \in {"success", "failed"}
            /\ Result = "success" => rstate = "succeeded"
            /\ Result = "failed" /\ kind = "single" => rstate # "succeeded"
        BY <2>2, ResultFacts
      <4>2. /\ ThreadTypeOK' /\ Moves(t) /\ pc'[t] \in {After(goal[t]), "pend"}
            /\ out'[t] = Result
        BY <3>3, <4>1, AfterType, DecideFacts DEF TypeOK, Toward
      <4>3. /\ After(goal[t]) \in {"steps", "pend", "settle"}
            /\ After(goal[t]) = "steps" => kind = "multi" /\ rstate = "succeeded"
        BY <3>3 DEF After
      <4>4. t \in Workers
        BY <2>2, <3>3 DEF ThreadInv
      <4> QED
        BY <2>1, <2>2, <4>1, <4>2, <4>3, <4>4 DEF ThreadInv, Succeeded, NoSuccess
    <3> QED
      BY <2>1, <3>1, <3>2, <3>3 DEF Proceed
  <2>4. obs' \in {"none", "later", "due"} /\ faults' \in 0..MaxFaults
    BY FaultsType DEF TypeOK, RowTypeOK
  <2> QED
    BY <1>2, <2>1, <2>3, <2>4, ConfirmedInv
<1> QED
  BY <1>1, <1>2

(* The UPDATE of settle(), with or without its announcement. *)
LEMMA SettledInv ==
  ASSUME IndInv, NEW t \in Threads, pc[t] = "settle", Owns(t, {"running"}), Closable,
         status' = out[t], obs' = "none",
         UNCHANGED <<kind, cancelReq, lease, settled, phase, rstate, rterm,
                     up, cancels, submits, cancelHit, agentVars>>,
         announced' \subseteq announced \cup {out[t]},
         Moves(t), ThreadTypeOK', pc'[t] # "post", ThreadInv(t)',
         faults' \in 0..MaxFaults
  PROVE  IndInv'
<1> USE DEF IndInv
<1>1. ThreadInv(t) /\ out[t] \in {"success", "failed"}
  BY DEF ThreadInv, TypeOK, ThreadTypeOK
<1>2. TypeOK'
  BY <1>1 DEF TypeOK, AgentTypeOK, RowTypeOK, EnvTypeOK, Terminal, agentVars
<1>3. Keeps
  BY DEF Keeps, Grows, Owns, Terminal, agentVars
<1>4. RequestInv' /\ PhaseInv' /\ ReceiptInv'
  BY DEF GlobalInv, RequestInv, PhaseInv, ReceiptInv, agentVars
<1>5. StatusInv'
  <2>1. (out[t] = "success" => Succeeded) /\ (out[t] = "failed" /\ kind = "single" => NoSuccess)
    BY DEF ThreadInv, Owns
  <2> QED
    BY <1>1, <2>1 DEF GlobalInv, StatusInv, Closable, Succeeded, NoSuccess, Contained, Owns
<1>6. HolderInv'
  BY <1>1, HolderStep DEF agentVars
<1> QED
  BY <1>2, <1>3, <1>4, <1>5, <1>6, RowStep

LEMMA SettleInv ==
  ASSUME IndInv, NEW t \in Threads, Settle(t)
  PROVE  IndInv'
<1>1. faults' \in 0..MaxFaults
  BY FaultsType DEF Settle
<1>2. CASE Owns(t, {"running"}) /\ Closable
  <2>1. ThreadTypeOK' /\ Moves(t) /\ pc'[t] = "idle" /\ ThreadInv(t)'
    BY <1>2, EndFacts DEF Settle, IndInv, TypeOK
  <2> QED
    BY <1>1, <1>2, <2>1, SettledInv DEF Settle, Announce
<1>3. CASE ~(Owns(t, {"running"}) /\ Closable)
  <2>1. /\ ThreadTypeOK' /\ Moves(t) /\ pc'[t] = "late" /\ out'[t] = out[t]
        /\ holders' = holders /\ UNCHANGED <<rowVars, envVars, agentVars>>
    BY <1>3, GotoFacts DEF Settle, IndInv, TypeOK, Labels, rowVars, envVars
  <2>2. t \in Workers /\ ThreadInv(t) /\ kind # "invalid"
    BY OnlyWorkers, Started DEF Settle, IndInv
  <2>3. t \in holders /\ phase = "none" => cancelReq \/ status \in Terminal
    BY <1>3
    DEF IndInv, GlobalInv, StatusInv, HolderInv, TypeOK, RowTypeOK, Owns, Open, Closable
  <2>4. ThreadInv(t)'
    BY <2>1, <2>2, <2>3 DEF ThreadInv, Succeeded, NoSuccess, Settle, rowVars, agentVars
  <2> QED
    BY <1>1, <2>1, <2>4, LocalStep
<1> QED
  BY <1>2, <1>3

LEMMA RetainOutcomeInv ==
  ASSUME IndInv, NEW t \in Threads, RetainOutcome(t)
  PROVE  IndInv'
<1> USE DEF IndInv, RetainOutcome
<1>1. ThreadTypeOK' /\ Moves(t) /\ pc'[t] = "pend" /\ out'[t] = out[t]
  BY GotoFacts DEF TypeOK, Labels
<1>2. t \in Workers /\ kind # "invalid" /\ ThreadInv(t)
  BY OnlyWorkers, Started
<1>3. ThreadInv(t)'
  BY <1>1, <1>2 DEF ThreadInv, Succeeded
<1>4. TypeOK'
  BY <1>1 DEF TypeOK, ThreadTypeOK, AgentTypeOK, RowTypeOK, EnvTypeOK, agentVars, envVars
<1>5. Keeps
  BY DEF Keeps, Grows, agentVars
<1>6. RequestInv' /\ PhaseInv' /\ ReceiptInv'
  BY DEF GlobalInv, RequestInv, PhaseInv, ReceiptInv, agentVars, envVars
<1>7. StatusInv'
  <2>1. Owns(t, Open) =>
          /\ out[t] = "success" => Succeeded
          /\ out[t] = "failed" /\ kind = "single" => NoSuccess /\ (phase = "none" => cancelReq)
    BY DEF ThreadInv, Owns, Open, Terminal
  <2> QED
    BY <2>1 DEF GlobalInv, StatusInv, Closable, Succeeded, NoSuccess, Contained
<1>8. HolderInv'
  BY <1>1, HolderStep DEF agentVars
<1> QED
  BY <1>1, <1>3, <1>4, <1>5, <1>6, <1>7, <1>8, RowStep

LEMMA ContainInv ==
  ASSUME IndInv, NEW t \in Threads, Contain(t)
  PROVE  IndInv'
<1> USE DEF Contain
<1>1. kind # "invalid" /\ faults' \in 0..MaxFaults
  BY Started, FaultsType
<1>2. CASE GiveUp(t) /\ UNCHANGED <<agentVars, cancelHit>>
  BY <1>1, <1>2, LocalGiveUp DEF envVars
<1>3. CASE /\ state # "absent" /\ CancelOperation /\ Goto(t, "poll")
           /\ cancelHit' = (cancelHit \/ state \in {"running", "termination_pending"})
  <2> USE DEF IndInv, CancelOperation
  <2>1. /\ ThreadTypeOK' /\ Moves(t) /\ pc'[t] = "poll" /\ out'[t] = out[t]
        /\ goal'[t] = goal[t]
    BY <1>3, GotoFacts DEF TypeOK, Labels
  <2>2. ThreadInv(t)'
    BY <1>1, <2>1 DEF ThreadInv, Succeeded, rowVars
  <2>3. TypeOK'
    <3>1. AgentTypeOK'
      BY <1>1, <1>3 DEF TypeOK, AgentTypeOK, Live
    <3>2. cancelHit' \in BOOLEAN
      BY <1>3
    <3>3. EnvTypeOK' /\ RowTypeOK'
      BY <3>2 DEF TypeOK, RowTypeOK, EnvTypeOK, rowVars
    <3> QED
      BY <2>1, <3>1, <3>3 DEF TypeOK
  <2>4. Keeps
    BY <1>3 DEF Keeps, Grows, AgentTerminal, rowVars
  <2>5. RequestInv' /\ PhaseInv'
    BY <1>3 DEF GlobalInv, RequestInv, PhaseInv, AgentTerminal, rowVars
  <2>6. ReceiptInv'
    BY <1>3 DEF GlobalInv, ReceiptInv, TypeOK, AgentTypeOK, AgentTerminal, rowVars
  <2>7. StatusInv'
    BY <1>3 DEF GlobalInv, StatusInv, Closable, Succeeded, NoSuccess, Contained, rowVars
  <2>8. HolderInv'
    BY <1>3, <2>1, HolderStep DEF rowVars
  <2> QED
    BY <2>1, <2>2, <2>3, <2>4, <2>5, <2>6, <2>7, <2>8, RowStep
<1> QED
  BY <1>2, <1>3

(* The UPDATE to canceled, with or without its announcement. *)
LEMMA CanceledInv ==
  ASSUME IndInv, NEW t \in Threads, pc[t] = "close",
         Owns(t, {"cancel_pending"}), status' = "canceled", obs' = "none",
         UNCHANGED <<kind, cancelReq, lease, settled, phase, rstate, rterm,
                     up, cancels, submits, cancelHit, agentVars>>,
         announced' \subseteq announced \cup {"canceled"},
         Moves(t), ThreadTypeOK', pc'[t] # "post", ThreadInv(t)',
         faults' \in 0..MaxFaults
  PROVE  IndInv'
<1> USE DEF IndInv
<1>1. phase = "confirmed" /\ Contained
  BY DEF ThreadInv
<1>2. TypeOK'
  <2>1. AgentTypeOK' /\ RowTypeOK'
    BY DEF TypeOK, AgentTypeOK, RowTypeOK, Terminal, agentVars
  <2>2. EnvTypeOK'
    BY DEF TypeOK, EnvTypeOK, Terminal
  <2> QED
    BY <2>1, <2>2 DEF TypeOK
<1>3. Keeps
  BY DEF Keeps, Grows, Owns, Terminal, agentVars
<1>4. RequestInv' /\ PhaseInv' /\ ReceiptInv'
  BY DEF GlobalInv, RequestInv, PhaseInv, ReceiptInv, agentVars
<1>5. StatusInv'
  BY <1>1 DEF GlobalInv, StatusInv, Closable, Succeeded, NoSuccess, Contained
<1>6. HolderInv'
  BY HolderStep DEF agentVars
<1> QED
  BY <1>2, <1>3, <1>4, <1>5, <1>6, RowStep

LEMMA CloseInv ==
  ASSUME IndInv, NEW t \in Threads, Close(t)
  PROVE  IndInv'
<1> USE DEF Close, MayClose
<1>1. faults' \in 0..MaxFaults
  BY FaultsType
<1>2. CASE Owns(t, {"cancel_pending"}) /\ Closable
  <2>1. ThreadTypeOK' /\ Moves(t) /\ pc'[t] = "idle" /\ ThreadInv(t)'
    BY EndFacts DEF IndInv, TypeOK
  <2> QED
    BY <1>1, <1>2, <2>1, CanceledInv DEF Announce
<1>3. CASE ~(Owns(t, {"cancel_pending"}) /\ Closable)
  BY <1>1, <1>3, LocalEnd DEF rowVars, envVars
<1> QED
  BY <1>2, <1>3

(* The UPDATE back to running. *)
LEMMA RevertedInv ==
  ASSUME IndInv, NEW t \in Threads, Owns(t, {"cancel_pending"}), status' = "running",
         UNCHANGED <<kind, cancelReq, lease, obs, settled, phase, rstate, rterm>>,
         UNCHANGED <<envVars, agentVars>>, faults' \in 0..MaxFaults,
         Moves(t), ThreadTypeOK', pc'[t] # "post", ThreadInv(t)'
  PROVE  IndInv'
<1> USE DEF IndInv
<1>1. TypeOK'
  BY DEF TypeOK, AgentTypeOK, RowTypeOK, EnvTypeOK, Open, agentVars, envVars
<1>2. Keeps
  BY DEF Keeps, Grows, Owns, Terminal, agentVars
<1>3. RequestInv' /\ PhaseInv' /\ ReceiptInv'
  BY DEF GlobalInv, RequestInv, PhaseInv, ReceiptInv, agentVars, envVars
<1>4. StatusInv'
  BY DEF GlobalInv, StatusInv, Closable, Succeeded, NoSuccess, Contained
<1>5. HolderInv'
  BY HolderStep DEF agentVars
<1> QED
  BY <1>1, <1>2, <1>3, <1>4, <1>5, RowStep

LEMMA RevertInv ==
  ASSUME IndInv, NEW t \in Threads, Revert(t)
  PROVE  IndInv'
<1>0. faults' \in 0..MaxFaults
  BY FaultsType DEF Revert
<1>1. CASE ~Owns(t, {"cancel_pending"})
  BY <1>0, <1>1, LocalEnd DEF Revert, rowVars
<1>2. CASE Owns(t, {"cancel_pending"})
  <2> DEFINE l == IF phase = "refused" THEN "settle" ELSE After("observe")
  <2> DEFINE m == Toward(t, l, Result)
  <2>1. /\ m \in {"settle", "pend"}
        /\ Result \in {"success", "failed"}
        /\ Result = "success" => Succeeded
        /\ Result = "failed" /\ kind = "single" => NoSuccess
    <3>1. After("observe") \in {"settle", "pend"}
      BY DEF After
    <3>2. CASE phase = "refused"
      BY <3>1, <3>2 DEF Result, NoSuccess, Toward
    <3>3. CASE phase = "confirmed"
      BY <3>1, <3>3, ResultFacts DEF Succeeded, NoSuccess, Toward
    <3> QED
      BY <3>2, <3>3 DEF ThreadInv, IndInv, Revert
  <2>2. /\ \/ pc' = [pc EXCEPT ![t] = m] /\ out' = [out EXCEPT ![t] = Result]
           \/ pc' = [pc EXCEPT ![t] = "wait"] /\ UNCHANGED out
        /\ goal' = [goal EXCEPT ![t] = "observe"]
        /\ UNCHANGED <<seen, aborted, holders>> /\ status' = "running"
    BY <1>2 DEF Revert
  <2> HIDE DEF m
  <2>3. /\ ThreadTypeOK' /\ Moves(t)
        /\ \/ pc'[t] = m /\ out'[t] = Result
           \/ pc'[t] = "wait" /\ out'[t] = out[t]
    BY <2>1, <2>2 DEF IndInv, TypeOK, ThreadTypeOK, Labels, Moves, Same
  <2>4. t \in Workers /\ kind # "invalid" /\ ThreadInv(t)
    BY OnlyWorkers, Started DEF Revert, IndInv
  <2>5. ThreadInv(t)' /\ pc'[t] # "post"
    BY <2>1, <2>3, <2>4 DEF ThreadInv, Succeeded, NoSuccess, Revert
  <2> QED
    BY <1>0, <1>2, <2>2, <2>3, <2>5, RevertedInv DEF Revert
<1> QED
  BY <1>1, <1>2

LEMMA UpdateUnconfirmedInv ==
  ASSUME IndInv, NEW t \in Threads, UpdateUnconfirmed(t)
  PROVE  IndInv'
<1>1. faults' \in 0..MaxFaults /\ kind # "invalid" /\ pc[t] # "idle"
  BY FaultsType, Started DEF UpdateUnconfirmed, MayClose
<1>2. CASE /\ pc[t] = "settle" /\ Owns(t, {"running"}) /\ Closable
           /\ status' = out[t] /\ obs' = "none"
           /\ IF out[t] = "success" THEN Goto(t, "pend") ELSE End(t)
  <2>1. ThreadTypeOK' /\ Moves(t) /\ pc'[t] # "post" /\ ThreadInv(t)'
    <3>1. CASE End(t)
      BY <3>1, EndFacts DEF IndInv, TypeOK
    <3>2. CASE Goto(t, "pend")
      <4>1. ThreadTypeOK' /\ Moves(t) /\ pc'[t] = "pend" /\ out'[t] = out[t]
        BY <3>2, GotoFacts DEF IndInv, TypeOK, Labels
      <4>2. t \in Workers /\ ThreadInv(t)
        BY <1>2, OnlyWorkers DEF IndInv
      <4> QED
        BY <1>1, <4>1, <4>2 DEF ThreadInv, Succeeded, UpdateUnconfirmed, MayClose
    <3> QED
      BY <1>2, <3>1, <3>2
  <2> QED
    BY <1>1, <1>2, <2>1, SettledInv DEF UpdateUnconfirmed, envVars, MayClose
<1>3. CASE /\ pc[t] = "close" /\ Owns(t, {"cancel_pending"}) /\ Closable
           /\ status' = "canceled" /\ obs' = "none" /\ GiveUp(t)
  <2>1. Keeps
    BY <1>3 DEF Keeps, Grows, Owns, Terminal, agentVars, UpdateUnconfirmed, MayClose
  <2>2. ThreadTypeOK' /\ Moves(t) /\ pc'[t] # "post" /\ ThreadInv(t)'
    BY <1>1, <1>3, <2>1, GiveUpFacts
  <2> QED
    BY <1>1, <1>3, <2>2, CanceledInv DEF UpdateUnconfirmed, envVars, MayClose
<1>4. CASE /\ pc[t] = "revert" /\ Owns(t, {"cancel_pending"})
           /\ status' = "running" /\ UNCHANGED obs /\ GiveUp(t)
  <2>1. Keeps
    BY <1>4 DEF Keeps, Grows, Owns, Terminal, agentVars, UpdateUnconfirmed, MayClose
  <2>2. ThreadTypeOK' /\ Moves(t) /\ pc'[t] # "post" /\ ThreadInv(t)'
    BY <1>1, <1>4, <2>1, GiveUpFacts
  <2> QED
    BY <1>1, <1>4, <2>2, RevertedInv DEF UpdateUnconfirmed, MayClose
<1> QED
  BY <1>2, <1>3, <1>4 DEF UpdateUnconfirmed, MayClose

-----------------------------------------------------------------------------
(* The reservation and the POST. *)

(* The reservation is written, whatever the thread learns of it. *)
LEMMA ReservedInv ==
  ASSUME IndInv, NEW t \in Threads, pc[t] = "handler",
         Owns(t, {"running"}), ~cancelReq, phase = "none", phase' = "admitting",
         UNCHANGED <<status, kind, cancelReq, lease, obs, settled, rstate, rterm>>,
         UNCHANGED <<envVars, agentVars>>, faults' \in 0..MaxFaults,
         Moves(t), ThreadTypeOK', ThreadInv(t)'
  PROVE  IndInv'
<1> USE DEF IndInv
<1>1. /\ t \in Workers /\ kind # "invalid" /\ request = "none" /\ state = "absent" /\ ~acked
  BY OnlyWorkers, Started DEF GlobalInv, PhaseInv, RequestInv, ReceiptInv
<1>2. \A u \in Threads : pc[u] # "post" /\ out[u] # "success"
  BY DEF GlobalInv, HolderInv, ThreadInv, Succeeded
<1>3. TypeOK'
  BY DEF TypeOK, AgentTypeOK, RowTypeOK, EnvTypeOK, Phases, agentVars, envVars
<1>4. RequestInv' /\ PhaseInv' /\ ReceiptInv'
  BY <1>1 DEF GlobalInv, RequestInv, PhaseInv, ReceiptInv, agentVars, envVars
<1>5. StatusInv'
  BY DEF GlobalInv, StatusInv, Closable, Succeeded, NoSuccess, Contained, Owns
<1>6. HolderInv'
  <2>1. \A u \in Threads : pc'[u] = "post" => u = t
    BY <1>2 DEF Moves, Same
  <2>2. (status \in {"none", "queued"} => holders = {})'
    BY DEF GlobalInv, HolderInv, Owns
  <2>3. (\A v, u \in holders \cap Workers : v = u)'
    BY DEF Moves, GlobalInv, HolderInv
  <2> QED
    BY <1>1, <2>1, <2>2, <2>3 DEF HolderInv, agentVars
<1>7. ASSUME NEW u \in Threads, u # t
      PROVE  ThreadInv(u)'
  <2>1. Same(u) /\ ThreadInv(u) /\ out[u] # "success"
    BY <1>2, <1>7 DEF Moves
  <2>2. ~(u \in holders' /\ u \in Workers)
    BY <1>1, <1>7 DEF GlobalInv, HolderInv, Owns, Moves
  <2>3. Grows
    BY DEF Grows, agentVars
  <2> QED
    BY <2>1, <2>2, <2>3 DEF ThreadInv, Same, Grows, Succeeded
<1> QED
  BY <1>3, <1>4, <1>5, <1>6, <1>7 DEF GlobalInv

LEMMA ReserveInv ==
  ASSUME IndInv, NEW t \in Threads, Reserve(t)
  PROVE  IndInv'
<1>0. faults' \in 0..MaxFaults
  BY FaultsType DEF Reserve, MayReserve
<1>1. CASE ~(Owns(t, {"running"}) /\ ~cancelReq /\ phase = "none")
  BY <1>0, <1>1, LocalEnd DEF Reserve, rowVars, MayReserve
<1>2. CASE Owns(t, {"running"}) /\ ~cancelReq /\ phase = "none"
  <2>1. /\ ThreadTypeOK' /\ Moves(t) /\ pc'[t] = "post" /\ out'[t] = out[t]
        /\ phase' = "admitting"
    BY <1>2, GotoFacts DEF IndInv, TypeOK, Labels, Reserve, MayReserve
  <2>2. t \in Workers /\ kind # "invalid" /\ out[t] # "success"
    BY <1>2, OnlyWorkers, Started DEF IndInv, ThreadInv, Succeeded, Reserve, MayReserve
  <2>3. ThreadInv(t)'
    BY <2>1, <2>2 DEF ThreadInv, Reserve, MayReserve
  <2> QED
    BY <1>0, <1>2, <2>1, <2>3, ReservedInv DEF Reserve, MayReserve
<1> QED
  BY <1>1, <1>2

LEMMA CheckpointUnconfirmedInv ==
  ASSUME IndInv, NEW t \in Threads, CheckpointUnconfirmed(t)
  PROVE  IndInv'
<1>1. faults' \in 0..MaxFaults /\ kind # "invalid" /\ pc[t] # "idle"
  BY FaultsType, Started DEF CheckpointUnconfirmed, MayReserve
<1>2. /\ UNCHANGED <<status, kind, cancelReq, lease, settled, envVars, agentVars>>
      /\ ScheduleCheck(t) \/ UNCHANGED obs
  BY DEF CheckpointUnconfirmed, MayReserve
<1>3. obs' \in {"none", "later", "due"}
  BY <1>2 DEF ScheduleCheck, IndInv, TypeOK, RowTypeOK
<1>4. CASE /\ pc[t] = "handler" /\ Owns(t, {"running"}) /\ ~cancelReq /\ phase = "none"
           /\ phase' = "admitting" /\ End(t) /\ UNCHANGED <<rstate, rterm, obs>>
  <2>1. ThreadTypeOK' /\ Moves(t) /\ ThreadInv(t)'
    BY <1>4, EndFacts DEF IndInv, TypeOK
  <2> QED
    BY <1>1, <1>2, <1>4, <2>1, ReservedInv
<1>5. CASE /\ pc[t] = "refuse" /\ Owns(t, Open)
           /\ phase' = "refused" /\ End(t) /\ UNCHANGED <<rstate, rterm, obs>>
  <2>1. ThreadTypeOK' /\ Moves(t) /\ pc'[t] # "post" /\ ThreadInv(t)'
    BY <1>5, EndFacts DEF IndInv, TypeOK
  <2> QED
    BY <1>1, <1>2, <1>5, <2>1, RefusedInv
<1>6. CASE /\ pc[t] = "record" /\ Owns(t, Open) /\ phase = "admitting"
           /\ phase' = "observing" /\ GiveUp(t) /\ UNCHANGED <<rstate, rterm, obs>>
  <2>1. Keeps
    BY <1>2, <1>6 DEF Keeps, Grows, agentVars
  <2>2. ThreadTypeOK' /\ Moves(t) /\ pc'[t] # "post" /\ ThreadInv(t)'
    BY <1>1, <1>6, <2>1, GiveUpFacts
  <2> QED
    BY <1>1, <1>2, <1>6, <2>2, ObservingInv
<1>7. CASE /\ pc[t] = "copy" /\ Owns(t, Open) /\ phase \in {"admitting", "observing"}
           /\ phase' = "copied" /\ rstate' = seen[t] /\ rterm' = termRequested /\ GiveUp(t)
  <2>1. Keeps
    BY <1>2, <1>7 DEF Keeps, Grows, agentVars
  <2>2. ThreadTypeOK' /\ Moves(t) /\ pc'[t] # "post" /\ ThreadInv(t)'
    BY <1>1, <1>7, <2>1, GiveUpFacts
  <2> QED
    BY <1>1, <1>2, <1>3, <1>7, <2>2, CopiedInv
<1>8. CASE /\ pc[t] = "confirm" /\ Owns(t, Open) /\ phase' = "confirmed" /\ GiveUp(t)
           /\ UNCHANGED <<rstate, rterm>>
  <2>1. phase \in {"copied", "confirmed"}
    BY <1>8 DEF IndInv, ThreadInv, GlobalInv, ReceiptInv
  <2>2. Keeps
    BY <1>2, <1>8, <2>1 DEF Keeps, Grows, agentVars
  <2>3. ThreadTypeOK' /\ Moves(t) /\ pc'[t] # "post" /\ ThreadInv(t)'
    BY <1>1, <1>8, <2>2, GiveUpFacts
  <2> QED
    BY <1>1, <1>2, <1>3, <1>8, <2>3, ConfirmedInv
<1> QED
  BY <1>4, <1>5, <1>6, <1>7, <1>8 DEF CheckpointUnconfirmed, MayReserve

LEMMA SubmitInv ==
  ASSUME IndInv, NEW t \in Threads, Submit(t)
  PROVE  IndInv'
<1> USE DEF IndInv, Submit, SendPost
<1>1. ThreadTypeOK' /\ Moves(t) /\ pc'[t] = "await" /\ out'[t] = out[t]
  BY GotoFacts DEF TypeOK, Labels
<1>2. /\ t \in Workers /\ kind # "invalid" /\ ThreadInv(t)
      /\ request = "none" /\ phase = "admitting" /\ state = "absent" /\ submits = 0
  BY OnlyWorkers, Started DEF GlobalInv, HolderInv, RequestInv
<1>3. ThreadInv(t)'
  BY <1>1, <1>2 DEF ThreadInv, Succeeded, rowVars
<1>4. TypeOK'
  BY <1>1 DEF TypeOK, AgentTypeOK, RowTypeOK, EnvTypeOK, RequestStates, rowVars
<1>5. Keeps
  BY <1>2 DEF Keeps, Grows, rowVars
<1>6. RequestInv' /\ PhaseInv' /\ ReceiptInv'
  BY <1>2 DEF GlobalInv, RequestInv, PhaseInv, ReceiptInv, rowVars
<1>7. StatusInv'
  BY DEF GlobalInv, StatusInv, Closable, Succeeded, NoSuccess, Contained, rowVars
<1>8. HolderInv'
  <2>1. \A u \in Threads : pc'[u] # "post"
    BY <1>1 DEF GlobalInv, HolderInv, Moves, Same
  <2> QED
    BY <1>1, <2>1 DEF GlobalInv, HolderInv, Moves, rowVars
<1> QED
  BY <1>1, <1>3, <1>4, <1>5, <1>6, <1>7, <1>8, RowStep

-----------------------------------------------------------------------------
(* Steps that move no thread. *)

LEMMA QuietStep ==
  ASSUME IndInv, UNCHANGED threadVars, Keeps,
         status' \in {"none", "queued"} => status \in {"none", "queued"},
         request # "none" \/ (phase' = phase /\ request' = request),
         AgentTypeOK', RowTypeOK', EnvTypeOK',
         RequestInv', PhaseInv', ReceiptInv', StatusInv'
  PROVE  IndInv'
<1> USE DEF IndInv, threadVars
<1>1. TypeOK'
  BY DEF TypeOK, ThreadTypeOK
<1>2. HolderInv'
  BY DEF GlobalInv, HolderInv
<1>3. ASSUME NEW u \in Threads
      PROVE  ThreadInv(u)'
  BY <1>3, OthersKeep DEF Same
<1> QED
  BY <1>1, <1>2, <1>3 DEF GlobalInv

LEMMA EnqueueInv ==
  ASSUME IndInv, Enqueue
  PROVE  IndInv'
<1> USE DEF IndInv, Enqueue
<1>1. Keeps
  BY DEF Keeps, Grows, Terminal, agentVars
<1>2. AgentTypeOK' /\ RowTypeOK' /\ EnvTypeOK'
  BY DEF TypeOK, AgentTypeOK, RowTypeOK, EnvTypeOK, agentVars, envVars
<1>3. RequestInv' /\ PhaseInv' /\ ReceiptInv'
  BY DEF GlobalInv, RequestInv, PhaseInv, ReceiptInv, agentVars, envVars
<1>4. StatusInv'
  BY DEF GlobalInv, StatusInv, Succeeded, NoSuccess
<1> QED
  BY <1>1, <1>2, <1>3, <1>4, QuietStep DEF agentVars

(* Time passes, or a process comes back. *)
LEMMA TimeInv ==
  ASSUME IndInv, UNCHANGED threadVars,
         UNCHANGED <<status, kind, cancelReq, settled, phase, rstate, rterm>>,
         UNCHANGED <<announced, cancels, submits, cancelHit, agentVars>>,
         up' \subseteq up \cup Procs,
         lease' \in {"null", "live", "expired"}, obs' \in {"none", "later", "due"},
         faults' \in 0..MaxFaults
  PROVE  IndInv'
<1> USE DEF IndInv
<1>1. Keeps
  BY DEF Keeps, Grows, agentVars
<1>2. AgentTypeOK' /\ RowTypeOK' /\ EnvTypeOK'
  BY DEF TypeOK, AgentTypeOK, RowTypeOK, EnvTypeOK, agentVars
<1>3. RequestInv' /\ PhaseInv' /\ ReceiptInv'
  BY DEF GlobalInv, RequestInv, PhaseInv, ReceiptInv, agentVars
<1>4. StatusInv'
  BY DEF GlobalInv, StatusInv, Succeeded, NoSuccess, Closable, Contained
<1> QED
  BY <1>1, <1>2, <1>3, <1>4, QuietStep DEF agentVars

LEMMA LeaseExpiresInv ==
  ASSUME IndInv, LeaseExpires
  PROVE  IndInv'
<1>1. faults' \in 0..MaxFaults
  BY FaultsType DEF LeaseExpires
<1>2. obs' \in {"none", "later", "due"}
  BY DEF LeaseExpires, IndInv, TypeOK, RowTypeOK
<1> QED
  BY <1>1, <1>2, TimeInv DEF LeaseExpires, envVars

LEMMA CheckDueInv ==
  ASSUME IndInv, CheckDue
  PROVE  IndInv'
<1>1. faults' \in 0..MaxFaults
  BY FaultsType DEF CheckDue
<1>2. lease' \in {"null", "live", "expired"}
  BY DEF CheckDue, IndInv, TypeOK, RowTypeOK
<1> QED
  BY <1>1, <1>2, TimeInv DEF CheckDue, envVars

LEMMA BootInv ==
  ASSUME IndInv, NEW p \in Procs, Boot(p)
  PROVE  IndInv'
<1>1. faults' \in 0..MaxFaults
  BY FaultsType DEF Boot
<1>2. lease' \in {"null", "live", "expired"} /\ obs' \in {"none", "later", "due"}
  BY DEF Boot, IndInv, TypeOK, RowTypeOK
<1> QED
  BY <1>1, <1>2, TimeInv DEF Boot

LEMMA CancelQueuedInv ==
  ASSUME IndInv, NEW p \in Procs, CancelQueued(p)
  PROVE  IndInv'
<1> USE DEF IndInv, CancelQueued, MayCancel
<1>1. Keeps
  BY DEF Keeps, Grows, Terminal, agentVars
<1>2. AgentTypeOK' /\ RowTypeOK'
  BY DEF TypeOK, AgentTypeOK, RowTypeOK, Terminal, agentVars
<1>3. EnvTypeOK'
  BY MaxCancelsAssumption DEF TypeOK, EnvTypeOK, Announce, Terminal
<1>4. RequestInv' /\ PhaseInv' /\ ReceiptInv'
  BY DEF GlobalInv, RequestInv, PhaseInv, ReceiptInv, agentVars
<1>5. StatusInv'
  BY DEF GlobalInv, StatusInv, Succeeded, NoSuccess
<1> QED
  BY <1>1, <1>2, <1>3, <1>4, <1>5, QuietStep DEF agentVars

-----------------------------------------------------------------------------
(* The agent's own steps. *)

LEMMA AgentType ==
  ASSUME AgentTypeOK, AgentNext
  PROVE  AgentTypeOK'
<1>0. Fault => faults' \in 0..MaxFaults
  BY MaxFaultsAssumption DEF AgentTypeOK, Fault
<1> USE DEF AgentTypeOK, Live, AgentTerminal, RequestStates
<1>1. CASE Admit \/ Refuse \/ Busy
  BY <1>1 DEF Admit, Refuse, Busy
<1>2. CASE Start \/ StartExpired \/ Deadline
  BY <1>2 DEF Start, StartExpired, Deadline
<1>3. CASE Finish
  BY <1>3 DEF Finish, Outcome
<1>7. CASE DeadlineUnrecorded \/ FinishUnrecorded
  BY <1>0, <1>7 DEF DeadlineUnrecorded, FinishUnrecorded
<1>4. CASE Publish
  BY <1>4 DEF Publish, Conclusive
<1>5. CASE ReleaseFails \/ JournalFails
  BY <1>0, <1>5 DEF ReleaseFails, JournalFails
<1>6. CASE AgentRestart
  BY <1>0, <1>6 DEF AgentRestart
<1> QED
  BY <1>1, <1>2, <1>3, <1>4, <1>5, <1>6, <1>7 DEF AgentNext

(* What every step of the agent respects. *)
AgentMove ==
  /\ acked' = acked
  /\ request' = request \/ (request = "sent" /\ request' \in {"accepted", "refused", "busy"})
  /\ request' = "accepted" <=> state' # "absent"
  /\ state # "absent" => state' # "absent"
  /\ state \in AgentTerminal => state' \in AgentTerminal
  /\ termRequested => termRequested'
  /\ canon # "none" => canon' = canon
  /\ canon' # "none" => state' = canon'

LEMMA AgentFacts ==
  ASSUME AgentTypeOK, RequestInv, ReceiptInv, AgentNext
  PROVE  AgentMove
<1> USE DEF AgentTypeOK, RequestInv, ReceiptInv, AgentMove, Live, AgentTerminal
<1>1. CASE Admit \/ Refuse \/ Busy
  BY <1>1 DEF Admit, Refuse, Busy
<1>2. CASE Start \/ StartExpired \/ Deadline
  BY <1>2 DEF Start, StartExpired, Deadline
<1>3. CASE Finish
  BY <1>3 DEF Finish, Outcome
<1>7. CASE DeadlineUnrecorded \/ FinishUnrecorded
  BY <1>7 DEF DeadlineUnrecorded, FinishUnrecorded
<1>4. CASE Publish
  BY <1>4 DEF Publish, Conclusive
<1>5. CASE ReleaseFails \/ JournalFails
  BY <1>5 DEF ReleaseFails, JournalFails, Conclusive
<1>6. CASE AgentRestart
  BY <1>6 DEF AgentRestart
<1> QED
  BY <1>1, <1>2, <1>3, <1>4, <1>5, <1>6, <1>7 DEF AgentNext

LEMMA AgentStepInv ==
  ASSUME IndInv, AgentStep
  PROVE  IndInv'
<1> USE DEF IndInv, AgentStep
<1>1. AgentTypeOK' /\ AgentMove
  BY AgentType, AgentFacts DEF TypeOK, GlobalInv
<1>2. Keeps
  BY <1>1 DEF AgentMove, Keeps, Grows, rowVars
<1>3. RowTypeOK' /\ EnvTypeOK'
  BY DEF TypeOK, RowTypeOK, EnvTypeOK, rowVars, envVars
<1>4. RequestInv'
  BY <1>1 DEF AgentMove, GlobalInv, RequestInv, envVars
<1>5. PhaseInv'
  BY <1>1 DEF AgentMove, GlobalInv, PhaseInv, rowVars
<1>6. ReceiptInv'
  BY <1>1 DEF AgentMove, GlobalInv, ReceiptInv, PhaseInv, AgentTerminal, rowVars
<1>7. StatusInv'
  BY DEF GlobalInv, StatusInv, Closable, Succeeded, NoSuccess, Contained, rowVars
<1> QED
  BY <1>1, <1>2, <1>3, <1>4, <1>5, <1>6, <1>7, QuietStep DEF AgentMove, rowVars

-----------------------------------------------------------------------------
(* Claims, cancellations and crashes. *)

LEMMA ClaimInv ==
  ASSUME IndInv, NEW p \in Procs, NEW g \in {"run", "observe"}, Claim(p, g),
         status \in {"queued"} \cup Open, status' \in Open,
         status' = "cancel_pending" => status = "cancel_pending",
         g = "run" => phase = "none"
  PROVE  IndInv'
<1> USE DEF IndInv, Claim
<1>1. W(p) \in Threads /\ W(p) \in Workers
  BY Names
<1>2. /\ ThreadTypeOK' /\ holders' = {W(p)}
      /\ \A u \in Threads : u # W(p) => Same(u)
      /\ pc'[W(p)] = "start" /\ goal'[W(p)] = g /\ out'[W(p)] = out[W(p)]
  BY <1>1 DEF TypeOK, ThreadTypeOK, Labels, Same
<1>3. TypeOK'
  <2>1. AgentTypeOK' /\ RowTypeOK'
    BY DEF TypeOK, AgentTypeOK, RowTypeOK, agentVars
  <2>2. EnvTypeOK'
    BY DEF TypeOK, EnvTypeOK, envVars
  <2> QED
    BY <1>2, <2>1, <2>2 DEF TypeOK
<1>4. Keeps
  BY DEF Keeps, Grows, Open, Terminal, agentVars
<1>5. RequestInv' /\ PhaseInv' /\ ReceiptInv'
  BY DEF GlobalInv, RequestInv, PhaseInv, ReceiptInv, agentVars, envVars
<1>6. StatusInv'
  BY DEF GlobalInv, StatusInv, Succeeded, NoSuccess, Open
<1>7. HolderInv'
  <2>1. \A u \in Threads : pc'[u] = "post" => pc[u] = "post"
    BY <1>2 DEF Same
  <2> QED
    BY <1>2, <2>1 DEF GlobalInv, HolderInv, Open, agentVars
<1>8. ThreadInv(W(p))'
  BY <1>1, <1>2 DEF ThreadInv, Succeeded
<1>9. ASSUME NEW u \in Threads, u # W(p)
      PROVE  ThreadInv(u)'
  BY <1>2, <1>4, <1>9, OthersKeep
<1> QED
  BY <1>3, <1>5, <1>6, <1>7, <1>8, <1>9 DEF GlobalInv

LEMMA PumpInv ==
  ASSUME IndInv, NEW p \in Procs, Pump(p)
  PROVE  IndInv'
<1>1. phase = "none"
  BY DEF Pump, IndInv, GlobalInv, StatusInv
<1> QED
  BY <1>1, ClaimInv DEF Pump, Open

LEMMA ReconcileInv ==
  ASSUME IndInv, NEW p \in Procs, Reconcile(p)
  PROVE  IndInv'
BY ClaimInv DEF Reconcile, Due, Open

LEMMA CrashInv ==
  ASSUME IndInv, NEW p \in Procs, Crash(p)
  PROVE  IndInv'
<1> DEFINE dead == {W(p), C(p)}
<1> USE DEF IndInv, Crash
<1>1. /\ \A u \in Threads : u \notin dead => Same(u)
      /\ \A u \in Threads : u \in dead => pc'[u] = "idle" /\ out'[u] = "none"
      /\ holders' \subseteq holders
  BY DEF Same
<1>2. ThreadTypeOK'
  BY DEF TypeOK, ThreadTypeOK, Labels
<1>3. TypeOK'
  <2>1. faults' \in 0..MaxFaults
    BY FaultsType
  <2>2. AgentTypeOK' /\ RowTypeOK'
    BY <2>1 DEF TypeOK, AgentTypeOK, RowTypeOK, agentVars, rowVars
  <2>3. EnvTypeOK'
    BY DEF TypeOK, EnvTypeOK
  <2> QED
    BY <1>2, <2>2, <2>3 DEF TypeOK
<1>4. Keeps
  BY DEF Keeps, Grows, rowVars, agentVars
<1>5. RequestInv' /\ PhaseInv' /\ ReceiptInv'
  BY DEF GlobalInv, RequestInv, PhaseInv, ReceiptInv, agentVars, rowVars
<1>6. StatusInv'
  BY DEF GlobalInv, StatusInv, Closable, Succeeded, NoSuccess, Contained, rowVars
<1>7. HolderInv'
  <2>1. \A u \in Threads : pc'[u] = "post" => pc[u] = "post"
    BY <1>1 DEF Same
  <2>2. (status \in {"none", "queued"} => holders = {})'
    BY <1>1 DEF GlobalInv, HolderInv, rowVars
  <2>3. (\A v, u \in holders \cap Workers : v = u)'
    BY <1>1 DEF GlobalInv, HolderInv
  <2> QED
    BY <2>1, <2>2, <2>3 DEF GlobalInv, HolderInv, rowVars, agentVars
<1>8. ASSUME NEW u \in Threads
      PROVE  ThreadInv(u)'
  <2>1. CASE u \in dead
    BY <1>1, <2>1 DEF ThreadInv
  <2>2. CASE u \notin dead
    BY <1>1, <1>4, <2>2, OthersKeep
  <2> QED
    BY <2>1, <2>2
<1> QED
  BY <1>3, <1>5, <1>6, <1>7, <1>8 DEF GlobalInv

LEMMA CancelOpenInv ==
  ASSUME IndInv, NEW p \in Procs, CancelOpen(p)
  PROVE  IndInv'
<1> USE DEF IndInv
<1>1. C(p) \in Threads /\ C(p) \notin Workers /\ W(p) \in Threads
  BY Names
<1>2. /\ status \in Open /\ status' = "cancel_pending" /\ cancelReq' = TRUE
      /\ pc[C(p)] = "idle" /\ cancels' \in 0..MaxCancels
      /\ UNCHANGED <<kind, lease, obs, settled, phase, rstate, rterm, seen, out,
                     up, announced, submits, cancelHit, agentVars, faults>>
  BY MaxCancelsAssumption DEF CancelOpen, MayCancel, TypeOK, EnvTypeOK
<1>3. Keeps
  BY <1>2 DEF Keeps, Grows, Open, Terminal, agentVars
<1>4. AgentTypeOK' /\ RowTypeOK' /\ EnvTypeOK'
  BY <1>2 DEF TypeOK, AgentTypeOK, RowTypeOK, EnvTypeOK, Open, agentVars
<1>5. RequestInv' /\ PhaseInv' /\ ReceiptInv'
  BY <1>2 DEF GlobalInv, RequestInv, PhaseInv, ReceiptInv, agentVars
<1>6. StatusInv'
  BY <1>2 DEF GlobalInv, StatusInv, Closable, Succeeded, NoSuccess, Contained
<1>7. aborted' \in SUBSET Threads
  BY <1>1 DEF CancelOpen, TypeOK, ThreadTypeOK
<1>8. CASE UNCHANGED <<pc, goal, holders>>
  <2>1. ThreadTypeOK'
    BY <1>2, <1>7, <1>8 DEF TypeOK, ThreadTypeOK
  <2>2. HolderInv'
    BY <1>2, <1>8 DEF GlobalInv, HolderInv, agentVars
  <2>3. ASSUME NEW u \in Threads
        PROVE  ThreadInv(u)'
    BY <1>2, <1>3, <1>8, <2>3, OthersKeep DEF Same
  <2> QED
    BY <1>4, <1>5, <1>6, <2>1, <2>2, <2>3 DEF TypeOK, GlobalInv
<1>9. CASE /\ pc' = [pc EXCEPT ![C(p)] = ContainFrom]
           /\ goal' = [goal EXCEPT ![C(p)] = "contain"]
           /\ holders' = holders \cup {C(p)}
           /\ phase \in {"admitting", "observing", "copied"} \/ (phase = "confirmed" /\ Contained)
  <2>1. ContainFrom \in {"contain", "ack", "close"}
    BY <1>9 DEF ContainFrom, After
  <2>2. ThreadTypeOK'
    BY <1>1, <1>2, <1>7, <1>9, <2>1 DEF TypeOK, ThreadTypeOK, Labels
  <2>3. /\ pc'[C(p)] = ContainFrom /\ goal'[C(p)] = "contain" /\ out'[C(p)] = out[C(p)]
        /\ \A u \in Threads : u # C(p) => Same(u)
    BY <1>1, <1>2, <1>9 DEF TypeOK, ThreadTypeOK, Same
  <2>4. HolderInv'
    <3>1. holders' \cap Workers = holders \cap Workers
      BY <1>1, <1>9
    <3>2. \A u \in Threads : pc'[u] = "post" => pc[u] = "post"
      BY <2>1, <2>3 DEF Same
    <3> QED
      BY <1>2, <3>1, <3>2 DEF GlobalInv, HolderInv, agentVars
  <2>5. ThreadInv(C(p))'
    <3>1. kind # "invalid"
      BY <1>9 DEF GlobalInv, PhaseInv
    <3>2. ThreadInv(C(p))
      BY <1>1
    <3> QED
      BY <1>1, <1>2, <2>1, <2>3, <3>1, <3>2, ContainFromFacts
      DEF ThreadInv, Succeeded, Contained
  <2>6. ASSUME NEW u \in Threads, u # C(p)
        PROVE  ThreadInv(u)'
    BY <1>3, <1>9, <2>3, <2>6, OthersKeep
  <2> QED
    BY <1>4, <1>5, <1>6, <2>2, <2>4, <2>5, <2>6 DEF TypeOK, GlobalInv
<1> QED
  BY <1>8, <1>9 DEF CancelOpen

-----------------------------------------------------------------------------
(* The invariant holds initially and every step keeps it. *)

LEMMA InitInv ==
  ASSUME Init
  PROVE  IndInv
<1> USE DEF Init, AgentInit
<1>0. faults \in 0..MaxFaults /\ cancels \in 0..MaxCancels /\ submits \in Nat
  BY MaxFaultsAssumption, MaxCancelsAssumption
<1>1. AgentTypeOK
  BY <1>0 DEF AgentTypeOK, RequestStates
<1>2. RowTypeOK
  BY DEF RowTypeOK, Phases
<1>3. ThreadTypeOK
  BY DEF ThreadTypeOK, Labels
<1>4. EnvTypeOK
  BY <1>0 DEF EnvTypeOK
<1>5. RequestInv /\ PhaseInv /\ ReceiptInv
  BY DEF RequestInv, PhaseInv, ReceiptInv
<1>6. StatusInv /\ HolderInv
  BY DEF StatusInv, HolderInv
<1>7. ASSUME NEW t \in Threads
      PROVE  ThreadInv(t)
  BY <1>7 DEF ThreadInv
<1> QED
  BY <1>1, <1>2, <1>3, <1>4, <1>5, <1>6, <1>7 DEF IndInv, TypeOK, GlobalInv

LEMMA StepInv ==
  ASSUME IndInv, NEW t \in Threads, Step(t)
  PROVE  IndInv'
BY RejectPayloadInv, RunHandlerInv, HandlerFailsInv, ReserveInv, SubmitInv, AnswerInv,
   RecordRefusalInv, LookupInv, RecordInv, WaitInv, RetireInv, CopyInv, AckInv, ConfirmInv,
   RemainingStepsInv, SettleInv, RetainOutcomeInv, PendingInv, InterruptInv, ObserveInv,
   ContainInv, PollInv, CloseInv, RevertInv
DEF Step

LEMMA FailureInv ==
  ASSUME IndInv, NEW t \in Threads, Failure(t)
  PROVE  IndInv'
BY DatabaseFailsInv, CheckpointUnconfirmedInv, UpdateUnconfirmedInv, UnreachableInv,
   ObserverTimeoutInv
DEF Failure

LEMMA StutterInv ==
  ASSUME IndInv, UNCHANGED vars
  PROVE  IndInv'
<1> USE DEF IndInv, vars
<1>1. Keeps
  BY DEF Keeps, Grows, rowVars, agentVars
<1>2. AgentTypeOK' /\ RowTypeOK' /\ EnvTypeOK'
  BY DEF TypeOK, AgentTypeOK, RowTypeOK, EnvTypeOK, rowVars, envVars, agentVars
<1>3. RequestInv' /\ PhaseInv' /\ ReceiptInv'
  BY DEF GlobalInv, RequestInv, PhaseInv, ReceiptInv, rowVars, envVars, agentVars
<1>4. StatusInv'
  BY DEF GlobalInv, StatusInv, Succeeded, NoSuccess, Closable, Contained, rowVars
<1> QED
  BY <1>1, <1>2, <1>3, <1>4, QuietStep DEF rowVars, agentVars

LEMMA NextInv ==
  ASSUME IndInv, [Next]_vars
  PROVE  IndInv'
<1>1. CASE Enqueue \/ LeaseExpires \/ CheckDue \/ AgentStep
  BY <1>1, EnqueueInv, LeaseExpiresInv, CheckDueInv, AgentStepInv
<1>2. ASSUME NEW p \in Procs,
             \/ Pump(p) \/ Reconcile(p) \/ RenewFails(p)
             \/ CancelQueued(p) \/ CancelOpen(p) \/ Crash(p) \/ Boot(p)
      PROVE  IndInv'
  BY <1>2, PumpInv, ReconcileInv, RenewFailsInv, CancelQueuedInv, CancelOpenInv,
     CrashInv, BootInv
<1>3. ASSUME NEW t \in Threads, Step(t) \/ Failure(t)
      PROVE  IndInv'
  BY <1>3, StepInv, FailureInv
<1>4. CASE UNCHANGED vars
  BY <1>4, StutterInv
<1> QED
  BY <1>1, <1>2, <1>3, <1>4 DEF Next

(* Every reachable state satisfies the inductive invariant: the strengthening
   behind the theorems below. *)
THEOREM Inductive == Spec => []IndInv
<1>1. Init => IndInv
  BY InitInv
<1>2. IndInv /\ [Next]_vars => IndInv'
  BY NextInv
<1> QED
  BY <1>1, <1>2, PTL DEF Spec

(* The row, the threads and the agent stay within the values the code gives
   them, for any number of processes, crashes and cancellations. *)
THEOREM TypeCorrect == Spec => []TypeOK
<1>1. IndInv => TypeOK
  BY DEF IndInv
<1> QED
  BY <1>1, Inductive, PTL

(* The effect of a job is submitted at most once, however many processes
   claim, crash, retry or cancel it: executeAdminJobOperation reserves the
   operation before its POST and no observer ever submits. *)
THEOREM SubmittedAtMostOnce == Spec => []AtMostOnce
<1>1. IndInv => AtMostOnce
  BY DEF IndInv, GlobalInv, RequestInv, AtMostOnce
<1> QED
  BY <1>1, Inductive, PTL

(* settle() and cancel() close a row only when its effect is over: no POST on
   its way or still to come, no operation running in the agent. *)
THEOREM TerminalIsQuiescent == Spec => []Quiescent
<1>1. IndInv => Quiescent
  <2> SUFFICES ASSUME IndInv, status \in Terminal
               PROVE  /\ request # "sent" /\ state \notin Live
                      /\ \A t \in Threads : pc[t] # "post"
    BY DEF Quiescent
  <2> USE DEF IndInv, GlobalInv
  <2>1. phase \in {"none", "refused", "confirmed"}
    BY DEF StatusInv, Terminal, Closable, Succeeded
  <2>2. request # "sent" /\ state \notin Live
    BY <2>1 DEF PhaseInv, RequestInv, Live, AgentTerminal
  <2>3. \A t \in Threads : pc[t] # "post"
    BY <2>1 DEF HolderInv
  <2> QED
    BY <2>2, <2>3
<1> QED
  BY <1>1, Inductive, PTL

(* The final status of a job agrees with what the agent did and with the
   receipt it acknowledged. *)
THEOREM OutcomeIsFaithful == Spec => []FaithfulOutcome
<1>1. IndInv => FaithfulOutcome
  <2> SUFFICES ASSUME IndInv PROVE FaithfulOutcome
    OBVIOUS
  <2> USE DEF IndInv, GlobalInv
  <2>1. phase = "confirmed" => acked /\ state = rstate /\ rstate \in AgentTerminal
    BY DEF PhaseInv, ReceiptInv, AgentTerminal
  <2>2. phase \in {"none", "refused"} => state = "absent"
    BY DEF PhaseInv, RequestInv
  <2>3. status = "success" => state = "succeeded" /\ acked
    BY <2>1 DEF StatusInv, Succeeded
  <2>4. status = "failed" /\ kind = "single" => state # "succeeded"
    BY <2>1, <2>2 DEF StatusInv, NoSuccess
  <2>5. status = "canceled" =>
          submits = 0 \/ (state \in {"failed", "timed_out"} /\ termRequested /\ acked)
    BY <2>1 DEF StatusInv, Contained, PhaseInv, RequestInv, AgentTerminal
  <2> QED
    BY <2>3, <2>4, <2>5 DEF FaithfulOutcome
<1> QED
  BY <1>1, Inductive, PTL

-----------------------------------------------------------------------------
(* Statuses and announcements, from the guards of the UPDATEs alone. *)

StatusMove ==
  /\ kind' = kind
  /\ status \in Terminal => status' = status
  /\ kind # "invalid" => announced' \subseteq announced \cup {status'}

LEMMA StatusMoves ==
  ASSUME [Next]_vars
  PROVE  StatusMove
<1> USE DEF StatusMove, rowVars, envVars
<1>1. CASE Enqueue \/ LeaseExpires \/ CheckDue \/ AgentStep \/ UNCHANGED vars
  BY <1>1 DEF Enqueue, LeaseExpires, CheckDue, AgentStep, Terminal, vars
<1>2. ASSUME NEW p \in Procs, Pump(p) \/ Reconcile(p) \/ RenewFails(p)
      PROVE  StatusMove
  BY <1>2 DEF Pump, Reconcile, RenewFails, Claim, Terminal
<1>3. ASSUME NEW p \in Procs, CancelQueued(p) \/ CancelOpen(p)
      PROVE  StatusMove
  BY <1>3 DEF CancelQueued, CancelOpen, MayCancel, Announce, Open, Terminal
<1>4. ASSUME NEW p \in Procs, Crash(p) \/ Boot(p)
      PROVE  StatusMove
  BY <1>4 DEF Crash, Boot
<1>5. ASSUME NEW t \in Threads, Step(t)
      PROVE  StatusMove
  <2>1. CASE RejectPayload(t)
    BY <2>1 DEF RejectPayload, Owns, Announce, Terminal
  <2>2. CASE RunHandler(t) \/ HandlerFails(t) \/ Reserve(t) \/ Submit(t) \/ Answer(t)
    BY <2>2 DEF RunHandler, HandlerFails, Reserve, Submit, Answer, MayReserve
  <2>3. CASE RecordRefusal(t) \/ Lookup(t) \/ Record(t) \/ Wait(t) \/ Retire(t)
    BY <2>3 DEF RecordRefusal, Lookup, Record, Wait, Retire, MergedPhase
  <2>4. CASE Copy(t) \/ Ack(t) \/ Confirm(t) \/ RemainingSteps(t)
    BY <2>4 DEF Copy, Ack, Confirm, RemainingSteps, GiveUpReceipt
  <2>5. CASE Settle(t)
    BY <2>5 DEF Settle, Owns, Announce, Terminal
  <2>6. CASE RetainOutcome(t) \/ Pending(t) \/ Interrupt(t) \/ Observe(t)
    BY <2>6 DEF RetainOutcome, Pending, Interrupt, Observe
  <2>7. CASE Contain(t) \/ Poll(t)
    BY <2>7 DEF Contain, Poll
  <2>8. CASE Close(t) \/ Revert(t)
    BY <2>8 DEF Close, Revert, Owns, Announce, Terminal, MayClose
  <2> QED
    BY <1>5, <2>1, <2>2, <2>3, <2>4, <2>5, <2>6, <2>7, <2>8 DEF Step
<1>6. ASSUME NEW t \in Threads, Failure(t)
      PROVE  StatusMove
  <2>1. CASE UpdateUnconfirmed(t)
    BY <2>1 DEF UpdateUnconfirmed, Owns, Terminal, MayClose
  <2>2. CASE DatabaseFails(t) \/ CheckpointUnconfirmed(t) \/ Unreachable(t) \/ ObserverTimeout(t)
    BY <2>2 DEF DatabaseFails, CheckpointUnconfirmed, Unreachable, ObserverTimeout, GiveUpReceipt,
       MayReserve
  <2> QED
    BY <1>6, <2>1, <2>2 DEF Failure
<1> QED
  BY <1>1, <1>2, <1>3, <1>4, <1>5, <1>6 DEF Next

(* A final status never changes: a late settlement, a second cancellation, a
   reconciliation and a restart all leave it alone. *)
THEOREM FinalIsFinal == Spec => TerminalStable
<1>1. [Next]_vars => [(status \in Terminal) => (status' = status)]_vars
  BY StatusMoves DEF StatusMove
<1> QED
  BY <1>1, PTL DEF Spec, TerminalStable

(* A terminal event of a job with a valid payload is backed by its row, from
   the moment it is published and for ever. *)
THEOREM EventsAreDurable == Spec => []AnnouncedIsDurable
<1>1. Init => AnnouncedIsDurable
  BY DEF Init, AnnouncedIsDurable
<1>2. TypeOK /\ AnnouncedIsDurable /\ [Next]_vars => AnnouncedIsDurable'
  <2> SUFFICES ASSUME TypeOK, AnnouncedIsDurable, [Next]_vars, kind' # "invalid",
                      NEW s \in announced'
               PROVE  status' = s
    BY DEF AnnouncedIsDurable
  <2>1. StatusMove
    BY StatusMoves
  <2>2. CASE s \in announced
    BY <2>1, <2>2 DEF StatusMove, AnnouncedIsDurable, TypeOK, EnvTypeOK
  <2>3. CASE s = status'
    BY <2>3
  <2> QED
    BY <2>1, <2>2, <2>3 DEF StatusMove
<1> QED
  BY <1>1, <1>2, TypeCorrect, PTL DEF Spec
=============================================================================
