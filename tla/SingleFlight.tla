---------------------------- MODULE SingleFlight ----------------------------
(***************************************************************************)
(* The request coalescer of the API, apps/api/src/utils/                   *)
(* bounded-single-flight.ts, as used by integration-clients.ts.            *)
(*                                                                         *)
(* One caller is one call of run(): it either joins the flight its key     *)
(* already has, opens one, or, when the table is full, runs its operation  *)
(* alone.  A flight is named after the caller that opened it.  Everything  *)
(* happens on one event loop, so an action is a maximal piece of code with *)
(* no microtask boundary in it.                                            *)
(***************************************************************************)
EXTENDS Naturals, FiniteSets

CONSTANTS Callers,      \* calls of run()
          Keys,         \* request keys
          MaxFlights,   \* the constructor's bound on tracked keys
          None          \* "no entry" in the table of flights

ASSUME MaxFlightsAssumption == MaxFlights \in Nat \ {0}
ASSUME CallersAssumption == IsFiniteSet(Callers) /\ None \notin Callers
ASSUME KeysAssumption == IsFiniteSet(Keys)

VARIABLES
  pc,        \* caller: what its promise is doing
  key,       \* caller: the key it asked for
  flightOf,  \* caller: the flight it waits for
  flights,   \* the #flights map: key -> flight
  op,        \* flight: life of its promise
  waiters,   \* flight: the waiters counter
  aborted    \* flights whose controller was aborted

vars == <<pc, key, flightOf, flights, op, waiters, aborted>>

(* A promise is "resolved" once its operation settled, and "finished" once *)
(* #finish, the first reaction registered on it, has run.                  *)
OpStates == {"absent", "pending", "running", "resolved", "finished"}
CallerStates == {"idle", "waiting", "alone", "delivered", "rejected"}

TypeOK ==
  /\ pc \in [Callers -> CallerStates]
  /\ key \in [Callers -> Keys \cup {None}]
  /\ flightOf \in [Callers -> Callers \cup {None}]
  /\ flights \in [Keys -> Callers \cup {None}]
  /\ op \in [Callers -> OpStates]
  /\ waiters \in [Callers -> Nat]
  /\ aborted \in SUBSET Callers

Init ==
  /\ pc = [c \in Callers |-> "idle"]
  /\ key = [c \in Callers |-> None]
  /\ flightOf = [c \in Callers |-> None]
  /\ flights = [k \in Keys |-> None]
  /\ op = [c \in Callers |-> "absent"]
  /\ waiters = [c \in Callers |-> 0]
  /\ aborted = {}

Tracked == {k \in Keys : flights[k] # None}

(* callerSignal was aborted before the call. *)
RunAborted(c) ==
  /\ pc[c] = "idle"
  /\ pc' = [pc EXCEPT ![c] = "rejected"]
  /\ UNCHANGED <<key, flightOf, flights, op, waiters, aborted>>

(* Mutant: the caller is not counted. *)
WaitForUncounted(c, k, f) ==
  /\ pc' = [pc EXCEPT ![c] = "waiting"]
  /\ key' = [key EXCEPT ![c] = k]
  /\ flightOf' = [flightOf EXCEPT ![c] = f]
  /\ UNCHANGED waiters

(* #waitFor: count the caller in and subscribe it to the flight. *)
WaitFor(c, k, f) ==
  /\ pc' = [pc EXCEPT ![c] = "waiting"]
  /\ key' = [key EXCEPT ![c] = k]
  /\ flightOf' = [flightOf EXCEPT ![c] = f]
  /\ waiters' = [waiters EXCEPT ![f] = @ + 1]

RunJoin(c, k) ==
  /\ pc[c] = "idle"
  /\ flights[k] # None
  /\ WaitFor(c, k, flights[k])
  /\ UNCHANGED <<flights, op, aborted>>

RunOpen(c, k) ==
  /\ pc[c] = "idle"
  /\ flights[k] = None
  /\ Cardinality(Tracked) < MaxFlights
  /\ flights' = [flights EXCEPT ![k] = c]
  /\ op' = [op EXCEPT ![c] = "pending"]
  /\ WaitFor(c, k, c)
  /\ UNCHANGED aborted

(* The table is full: operation(callerSignal), tracked by nobody. *)
RunAlone(c, k) ==
  /\ pc[c] = "idle"
  /\ flights[k] = None
  /\ Cardinality(Tracked) >= MaxFlights
  /\ pc' = [pc EXCEPT ![c] = "alone"]
  /\ key' = [key EXCEPT ![c] = k]
  /\ UNCHANGED <<flightOf, flights, op, waiters, aborted>>

(* The deferred Promise.resolve().then(operation), aborted or not. *)
Start(f) ==
  /\ op[f] = "pending"
  /\ op' = [op EXCEPT ![f] = "running"]
  /\ UNCHANGED <<pc, key, flightOf, flights, waiters, aborted>>

(* The operation, which may ignore its signal, resolves or rejects. *)
Resolve(f) ==
  /\ op[f] = "running"
  /\ op' = [op EXCEPT ![f] = "resolved"]
  /\ UNCHANGED <<pc, key, flightOf, flights, waiters, aborted>>

(* Mutant: the entry is deleted without the identity test. *)
UntrackByKey(f) == [k \in Keys |-> IF k = key[f] THEN None ELSE flights[k]]

(* #flights.delete(key), only when the entry is still this flight. *)
Untrack(f) == [k \in Keys |-> IF flights[k] = f THEN None ELSE flights[k]]

(* Mutant: the table entry outlives its flight. *)
FinishKeepsEntry(f) ==
  /\ op[f] = "resolved"
  /\ op' = [op EXCEPT ![f] = "finished"]
  /\ UNCHANGED <<pc, key, flightOf, flights, waiters, aborted>>

(* #finish, registered on the promise before any waiter. *)
Finish(f) ==
  /\ op[f] = "resolved"
  /\ op' = [op EXCEPT ![f] = "finished"]
  /\ flights' = Untrack(f)
  /\ UNCHANGED <<pc, key, flightOf, waiters, aborted>>

(* Mutant: any caller that leaves aborts the flight. *)
ReleaseAborts(f) ==
  /\ waiters' = [waiters EXCEPT ![f] = @ - 1]
  /\ flights' = Untrack(f)
  /\ aborted' = aborted \cup {f}

(* #release: the last caller to leave an unsettled flight aborts it. *)
Release(f) ==
  /\ waiters' = [waiters EXCEPT ![f] = @ - 1]
  /\ IF waiters[f] = 1 /\ op[f] # "finished"
       THEN /\ flights' = Untrack(f)
            /\ aborted' = aborted \cup {f}
       ELSE UNCHANGED <<flights, aborted>>

(* Mutant: only the caller that opened the flight is answered. *)
DeliverToOpener(c) ==
  /\ pc[c] = "waiting"
  /\ flightOf[c] = c
  /\ op[c] = "finished"
  /\ pc' = [pc EXCEPT ![c] = "delivered"]
  /\ Release(c)
  /\ UNCHANGED <<key, flightOf, op>>

(* A waiter's own reaction on the promise: after #finish, in any order. *)
Deliver(c) ==
  /\ pc[c] = "waiting"
  /\ op[flightOf[c]] = "finished"
  /\ pc' = [pc EXCEPT ![c] = "delivered"]
  /\ Release(flightOf[c])
  /\ UNCHANGED <<key, flightOf, op>>

(* onAbort: the caller's own signal fires while it waits. *)
CallerAbort(c) ==
  /\ pc[c] = "waiting"
  /\ pc' = [pc EXCEPT ![c] = "rejected"]
  /\ Release(flightOf[c])
  /\ UNCHANGED <<key, flightOf, op>>

AloneSettles(c) ==
  /\ pc[c] = "alone"
  /\ pc' = [pc EXCEPT ![c] = "delivered"]
  /\ UNCHANGED <<key, flightOf, flights, op, waiters, aborted>>

Run(c) ==
  \/ RunAborted(c)
  \/ \E k \in Keys : RunJoin(c, k) \/ RunOpen(c, k) \/ RunAlone(c, k)

Next ==
  \/ \E c \in Callers : Run(c) \/ Deliver(c) \/ CallerAbort(c) \/ AloneSettles(c)
  \/ \E f \in Callers : Start(f) \/ Resolve(f) \/ Finish(f)

Spec == Init /\ [][Next]_vars

(* Microtasks run, and the coalesced upstream request settles (it carries   *)
(* the timeout of the integration's HTTP client).                           *)
Fairness ==
  \A c \in Callers : /\ WF_vars(Start(c)) /\ WF_vars(Resolve(c))
                     /\ WF_vars(Finish(c)) /\ WF_vars(Deliver(c))
                     /\ WF_vars(AloneSettles(c))

LiveSpec == Spec /\ Fairness

----------------------------------------------------------------------------
(* Callers waiting for the same key share one operation: a flight that was  *)
(* abandoned and settles late must not take its successor out of the table *)
(* (the identity test of #finish and #release).                            *)
Coalesced ==
  \A c, d \in Callers :
    /\ pc[c] = "waiting" /\ pc[d] = "waiting" /\ key[c] = key[d]
    /\ op[flightOf[c]] # "finished" /\ op[flightOf[d]] # "finished"
    => flightOf[c] = flightOf[d]

(* "Callers can cancel independently; the shared operation is aborted only *)
(* when its last waiter leaves": nobody waits for an aborted operation.    *)
NoWaiterAborted == \A c \in Callers : pc[c] = "waiting" => flightOf[c] \notin aborted

(* The table never tracks more keys than the constructor allows, and holds *)
(* no flight that already finished or was given up (no leaked slot).       *)
TableBounded ==
  /\ Cardinality(Tracked) <= MaxFlights
  /\ \A k \in Tracked : op[flights[k]] # "finished" /\ flights[k] \notin aborted

(* Every accepted call is answered, whoever else cancels meanwhile. *)
EveryCallerAnswered ==
  \A c \in Callers : pc[c] \in {"waiting", "alone"} ~> pc[c] \in {"delivered", "rejected"}

=============================================================================
