------------------------- MODULE SingleFlightProofs -------------------------
(***************************************************************************)
(* Proofs about the request coalescer, for any number of calls and keys.   *)
(* The code keeps a counter of waiters and a table entry per key; the      *)
(* inductive invariant ties both to the callers that are really waiting.   *)
(***************************************************************************)
EXTENDS SingleFlight, FiniteSetTheorems, TLAPS

WaitersOf(f) == {c \in Callers : pc[c] = "waiting" /\ flightOf[c] = f}

(* The counter is the number of callers whose promise is still open. *)
CountExact == \A f \in Callers : waiters[f] = Cardinality(WaitersOf(f))

(* A waiting caller waits for an existing flight of its own key, and until *)
(* that flight finishes it is the one in the table.                        *)
WaitersTracked ==
  \A c \in Callers : pc[c] = "waiting" =>
    /\ key[c] \in Keys
    /\ flightOf[c] \in Callers
    /\ key[flightOf[c]] = key[c]
    /\ op[flightOf[c]] # "absent"
    /\ op[flightOf[c]] # "finished" => flights[key[c]] = flightOf[c]

(* A table entry is an unfinished flight of that key nobody aborted. *)
EntriesLive ==
  \A k \in Keys : flights[k] # None =>
    /\ op[flights[k]] \in {"pending", "running", "resolved"}
    /\ flights[k] \notin aborted
    /\ key[flights[k]] = k

(* A call that has not run yet owns no flight. *)
IdleFresh == \A c \in Callers : pc[c] = "idle" => op[c] = "absent" /\ c \notin aborted

(* The operation is aborted by its last waiter, and nobody joins it then. *)
AbortedEmpty == \A c \in Callers : pc[c] = "waiting" => flightOf[c] \notin aborted

IndInv ==
  /\ TypeOK
  /\ CountExact
  /\ WaitersTracked
  /\ EntriesLive
  /\ IdleFresh
  /\ AbortedEmpty

----------------------------------------------------------------------------
(* The waiters of a flight are finitely many, and their number a natural. *)
LEMMA WaitersFinite ==
  ASSUME NEW f \in Callers
  PROVE  IsFiniteSet(WaitersOf(f)) /\ Cardinality(WaitersOf(f)) \in Nat
<1>1. WaitersOf(f) \in SUBSET Callers
  BY DEF WaitersOf
<1>2. IsFiniteSet(WaitersOf(f))
  BY <1>1, FS_Subset, CallersAssumption
<1> QED
  BY <1>2, FS_CardinalityType

(* #waitFor counts the new caller exactly once. *)
LEMMA WaitForCounts ==
  ASSUME IndInv, NEW c \in Callers, NEW k \in Keys, NEW f \in Callers,
         pc[c] = "idle", WaitFor(c, k, f)
  PROVE  CountExact'
<1>1. SUFFICES ASSUME NEW g \in Callers
               PROVE  waiters'[g] = Cardinality(WaitersOf(g)')
  BY DEF CountExact
<1>2. CASE g = f
  <2>1. WaitersOf(g)' = WaitersOf(g) \cup {c}
    BY <1>2 DEF WaitersOf, WaitFor, IndInv, TypeOK
  <2>2. c \notin WaitersOf(g)
    BY DEF WaitersOf
  <2>3. Cardinality(WaitersOf(g)') = Cardinality(WaitersOf(g)) + 1
    BY <2>1, <2>2, WaitersFinite, FS_AddElement
  <2> QED
    BY <2>3, <1>2 DEF WaitFor, IndInv, TypeOK, CountExact
<1>3. CASE g # f
  <2>1. WaitersOf(g)' = WaitersOf(g)
    BY <1>3 DEF WaitersOf, WaitFor, IndInv, TypeOK
  <2> QED
    BY <2>1, <1>3 DEF WaitFor, IndInv, TypeOK, CountExact
<1> QED
  BY <1>2, <1>3

(* #release takes exactly the leaving caller off the counter. *)
LEMMA ReleaseCounts ==
  ASSUME IndInv, NEW c \in Callers, NEW s \in CallerStates, s # "waiting",
         pc[c] = "waiting", pc' = [pc EXCEPT ![c] = s],
         Release(flightOf[c]), UNCHANGED <<key, flightOf, op>>
  PROVE  /\ CountExact'
         /\ waiters' \in [Callers -> Nat]
         /\ waiters[flightOf[c]] = 1 => WaitersOf(flightOf[c]) = {c}
<1> DEFINE f == flightOf[c]
<1>1. f \in Callers /\ c \in WaitersOf(f)
  BY DEF IndInv, WaitersTracked, WaitersOf
<1>2. /\ IsFiniteSet(WaitersOf(f) \ {c})
      /\ Cardinality(WaitersOf(f) \ {c}) = Cardinality(WaitersOf(f)) - 1
  BY <1>1, WaitersFinite, FS_RemoveElement
<1>3. Cardinality(WaitersOf(f) \ {c}) \in Nat
  BY <1>2, FS_CardinalityType
<1>4. waiters[f] = Cardinality(WaitersOf(f))
  BY <1>1 DEF IndInv, CountExact
<1>5. ASSUME NEW g \in Callers
      PROVE  waiters'[g] = Cardinality(WaitersOf(g)') /\ waiters'[g] \in Nat
  <2>1. CASE g = f
    <3>1. WaitersOf(g)' = WaitersOf(f) \ {c}
      BY <2>1 DEF WaitersOf, IndInv, TypeOK
    <3>2. waiters'[g] = waiters[f] - 1
      BY <2>1, <1>1 DEF Release, IndInv, TypeOK
    <3> QED
      BY <3>1, <3>2, <1>2, <1>3, <1>4
  <2>2. CASE g # f
    <3>1. WaitersOf(g)' = WaitersOf(g)
      BY <2>2, <1>1 DEF WaitersOf, IndInv, TypeOK
    <3>2. waiters'[g] = waiters[g]
      BY <2>2 DEF Release, IndInv, TypeOK
    <3> QED
      BY <3>1, <3>2 DEF IndInv, CountExact, TypeOK
  <2> QED
    BY <2>1, <2>2
<1>6. CountExact'
  BY <1>5 DEF CountExact
<1>7. waiters' \in [Callers -> Nat]
  <2>1. waiters' = [waiters EXCEPT ![f] = @ - 1]
    BY DEF Release
  <2>2. waiters' = [g \in Callers |-> waiters'[g]]
    BY <2>1 DEF IndInv, TypeOK
  <2> QED
    BY <2>2, <1>5
<1>8. ASSUME waiters[f] = 1
      PROVE  WaitersOf(f) = {c}
  <2>1. Cardinality(WaitersOf(f) \ {c}) = 0
    BY <1>2, <1>4, <1>8
  <2>2. WaitersOf(f) \ {c} = {}
    BY <2>1, <1>2, FS_EmptySet
  <2> QED
    BY <2>2, <1>1
<1> QED
  BY <1>6, <1>7, <1>8

----------------------------------------------------------------------------
LEMMA InitInd == Init => IndInv
<1> SUFFICES ASSUME Init PROVE IndInv
  OBVIOUS
<1>1. ASSUME NEW f \in Callers PROVE waiters[f] = Cardinality(WaitersOf(f))
  <2>1. WaitersOf(f) = {}
    BY DEF Init, WaitersOf
  <2> QED
    BY <2>1, FS_EmptySet DEF Init
<1> QED
  BY <1>1 DEF Init, IndInv, TypeOK, OpStates, CallerStates, CountExact,
              WaitersTracked, EntriesLive, IdleFresh, AbortedEmpty

(* A caller leaving its flight, whether answered or aborted, keeps the     *)
(* invariant: only the last waiter takes the entry out and aborts.         *)
LEMMA LeaveInd ==
  ASSUME IndInv, NEW c \in Callers, NEW s \in {"delivered", "rejected"},
         pc[c] = "waiting", pc' = [pc EXCEPT ![c] = s],
         Release(flightOf[c]), UNCHANGED <<key, flightOf, op>>
  PROVE  IndInv'
<1>1. s \in CallerStates /\ s # "waiting"
  BY DEF CallerStates
<1>2. /\ CountExact'
      /\ waiters' \in [Callers -> Nat]
      /\ waiters[flightOf[c]] = 1 => WaitersOf(flightOf[c]) = {c}
  BY <1>1, ReleaseCounts
<1>3. flightOf[c] \in Callers
  BY DEF IndInv, WaitersTracked
<1>4. CASE waiters[flightOf[c]] = 1 /\ op[flightOf[c]] # "finished"
  <2>1. \A d \in Callers : pc'[d] = "waiting" => pc[d] = "waiting" /\ flightOf[d] # flightOf[c]
    BY <1>1, <1>2, <1>4 DEF WaitersOf, IndInv, TypeOK
  <2>2. flights' = Untrack(flightOf[c]) /\ aborted' = aborted \cup {flightOf[c]}
    BY <1>4 DEF Release
  <2>3. TypeOK'
    BY <1>1, <1>2, <1>3, <2>2 DEF IndInv, TypeOK, Untrack
  <2>4. WaitersTracked'
    BY <2>1, <2>2 DEF IndInv, WaitersTracked, TypeOK, Untrack
  <2>5. EntriesLive'
    BY <2>2, <1>3, CallersAssumption DEF IndInv, EntriesLive, TypeOK, Untrack
  <2>6. IdleFresh' /\ AbortedEmpty'
    <3>1. op[flightOf[c]] # "absent"
      BY DEF IndInv, WaitersTracked
    <3> QED
      BY <3>1, <2>1, <2>2, <1>1 DEF IndInv, IdleFresh, AbortedEmpty, TypeOK
  <2> QED
    BY <1>2, <2>3, <2>4, <2>5, <2>6 DEF IndInv
<1>5. CASE ~(waiters[flightOf[c]] = 1 /\ op[flightOf[c]] # "finished")
  <2>1. UNCHANGED <<flights, aborted>>
    BY <1>5 DEF Release
  <2>2. TypeOK'
    BY <1>1, <1>2, <2>1 DEF IndInv, TypeOK
  <2> QED
    BY <1>1, <1>2, <2>1, <2>2
       DEF IndInv, TypeOK, WaitersTracked, EntriesLive, IdleFresh, AbortedEmpty
<1> QED
  BY <1>4, <1>5

(* Joining or opening: the caller is counted in and its flight is tracked. *)
LEMMA RunInd ==
  ASSUME IndInv, NEW c \in Callers, Run(c)
  PROVE  IndInv'
<1>1. CASE RunAborted(c)
  <2>1. \A f \in Callers : WaitersOf(f)' = WaitersOf(f)
    BY <1>1 DEF RunAborted, WaitersOf, IndInv, TypeOK
  <2> QED
    BY <1>1, <2>1 DEF RunAborted, IndInv, TypeOK, CallerStates, CountExact,
       WaitersTracked, EntriesLive, IdleFresh, AbortedEmpty
<1>2. ASSUME NEW k \in Keys, RunJoin(c, k)
      PROVE  IndInv'
  <2>1. flights[k] \in Callers /\ pc[c] = "idle" /\ WaitFor(c, k, flights[k])
    BY <1>2 DEF RunJoin, IndInv, TypeOK
  <2>2. CountExact'
    BY <2>1, WaitForCounts
  <2>3. TypeOK'
    BY <2>1, <1>2 DEF RunJoin, WaitFor, IndInv, TypeOK, CallerStates
  <2>4. op[c] = "absent" /\ flights[k] # c
    BY <2>1, CallersAssumption DEF IndInv, IdleFresh, EntriesLive, TypeOK
  <2>5. ASSUME NEW d \in Callers, flightOf[d] = c PROVE pc[d] # "waiting"
    BY <2>4, <2>5 DEF IndInv, WaitersTracked
  <2>6. WaitersTracked'
    <3>1. ASSUME NEW d \in Callers, pc'[d] = "waiting"
          PROVE  /\ key'[d] \in Keys /\ flightOf'[d] \in Callers
                 /\ key'[flightOf'[d]] = key'[d] /\ op'[flightOf'[d]] # "absent"
                 /\ op'[flightOf'[d]] # "finished" => flights'[key'[d]] = flightOf'[d]
      <4>1. CASE d = c
        BY <4>1, <2>1, <2>4, <1>2 DEF RunJoin, WaitFor, IndInv, TypeOK, EntriesLive
      <4>2. CASE d # c
        BY <4>2, <2>5, <3>1, <1>2 DEF RunJoin, WaitFor, IndInv, TypeOK, WaitersTracked
      <4> QED
        BY <4>1, <4>2
    <3> QED
      BY <3>1 DEF WaitersTracked
  <2>7. EntriesLive' /\ IdleFresh' /\ AbortedEmpty'
    BY <2>1, <2>4, <1>2
       DEF RunJoin, WaitFor, IndInv, TypeOK, EntriesLive, IdleFresh, AbortedEmpty
  <2> QED
    BY <2>2, <2>3, <2>6, <2>7 DEF IndInv
<1>3. ASSUME NEW k \in Keys, RunOpen(c, k)
      PROVE  IndInv'
  <2>1. pc[c] = "idle" /\ WaitFor(c, k, c) /\ flights[k] = None
    BY <1>3 DEF RunOpen
  <2>2. CountExact'
    BY <2>1, WaitForCounts
  <2>3. TypeOK'
    BY <2>1, <1>3 DEF RunOpen, WaitFor, IndInv, TypeOK, CallerStates, OpStates
  <2>4. op[c] = "absent" /\ c \notin aborted /\ \A j \in Keys : flights[j] # c
    BY <2>1, CallersAssumption DEF IndInv, IdleFresh, EntriesLive, TypeOK
  <2>5. ASSUME NEW d \in Callers, pc[d] = "waiting"
        PROVE  flightOf[d] # c /\ (op[flightOf[d]] # "finished" => key[d] # k)
    BY <2>1, <2>4, <2>5, CallersAssumption DEF IndInv, WaitersTracked
  <2>6. WaitersTracked'
    <3>1. ASSUME NEW d \in Callers, pc'[d] = "waiting"
          PROVE  /\ key'[d] \in Keys /\ flightOf'[d] \in Callers
                 /\ key'[flightOf'[d]] = key'[d] /\ op'[flightOf'[d]] # "absent"
                 /\ op'[flightOf'[d]] # "finished" => flights'[key'[d]] = flightOf'[d]
      <4>1. CASE d = c
        BY <4>1, <2>1, <1>3 DEF RunOpen, WaitFor, IndInv, TypeOK
      <4>2. CASE d # c
        BY <4>2, <2>5, <3>1, <1>3 DEF RunOpen, WaitFor, IndInv, TypeOK, WaitersTracked
      <4> QED
        BY <4>1, <4>2
    <3> QED
      BY <3>1 DEF WaitersTracked
  <2>7. EntriesLive'
    BY <2>1, <2>4, <1>3 DEF RunOpen, WaitFor, IndInv, TypeOK, EntriesLive
  <2>8. IdleFresh' /\ AbortedEmpty'
    BY <2>1, <2>4, <1>3 DEF RunOpen, WaitFor, IndInv, TypeOK, IdleFresh, AbortedEmpty
  <2> QED
    BY <2>2, <2>3, <2>6, <2>7, <2>8 DEF IndInv
<1>4. ASSUME NEW k \in Keys, RunAlone(c, k)
      PROVE  IndInv'
  <2>1. \A f \in Callers : WaitersOf(f)' = WaitersOf(f)
    BY <1>4 DEF RunAlone, WaitersOf, IndInv, TypeOK
  <2>2. op[c] = "absent"
    BY <1>4 DEF RunAlone, IndInv, IdleFresh
  <2> QED
    BY <1>4, <2>1, <2>2 DEF RunAlone, IndInv, TypeOK, CallerStates, CountExact,
       WaitersTracked, EntriesLive, IdleFresh, AbortedEmpty
<1> QED
  BY <1>1, <1>2, <1>3, <1>4 DEF Run

(* The promise's own steps touch no caller. *)
LEMMA FlightInd ==
  ASSUME IndInv, NEW f \in Callers, Start(f) \/ Resolve(f) \/ Finish(f)
  PROVE  IndInv'
<1>1. \A g \in Callers : WaitersOf(g)' = WaitersOf(g)
  BY DEF Start, Resolve, Finish, WaitersOf
<1>2. CASE Start(f) \/ Resolve(f)
  BY <1>1, <1>2 DEF Start, Resolve, IndInv, TypeOK, OpStates, CountExact,
     WaitersTracked, EntriesLive, IdleFresh, AbortedEmpty
<1>3. CASE Finish(f)
  <2>1. TypeOK' /\ CountExact' /\ IdleFresh' /\ AbortedEmpty'
    BY <1>1, <1>3 DEF Finish, Untrack, IndInv, TypeOK, OpStates, CountExact, IdleFresh, AbortedEmpty
  <2>2. WaitersTracked'
    BY <1>3 DEF Finish, Untrack, IndInv, TypeOK, WaitersTracked
  <2>3. EntriesLive'
    BY <1>3, CallersAssumption DEF Finish, Untrack, IndInv, TypeOK, EntriesLive
  <2> QED
    BY <2>1, <2>2, <2>3 DEF IndInv
<1> QED
  BY <1>2, <1>3

LEMMA NextInd == IndInv /\ [Next]_vars => IndInv'
<1> SUFFICES ASSUME IndInv, [Next]_vars PROVE IndInv'
  OBVIOUS
<1>1. ASSUME NEW c \in Callers, Run(c) PROVE IndInv'
  BY <1>1, RunInd
<1>2. ASSUME NEW c \in Callers, Deliver(c) PROVE IndInv'
  BY <1>2, LeaveInd DEF Deliver
<1>3. ASSUME NEW c \in Callers, CallerAbort(c) PROVE IndInv'
  BY <1>3, LeaveInd DEF CallerAbort
<1>4. ASSUME NEW c \in Callers, AloneSettles(c) PROVE IndInv'
  <2>1. \A f \in Callers : WaitersOf(f)' = WaitersOf(f)
    BY <1>4 DEF AloneSettles, WaitersOf, IndInv, TypeOK
  <2> QED
    BY <1>4, <2>1 DEF AloneSettles, IndInv, TypeOK, CallerStates, CountExact,
       WaitersTracked, EntriesLive, IdleFresh, AbortedEmpty
<1>5. ASSUME NEW f \in Callers, Start(f) \/ Resolve(f) \/ Finish(f) PROVE IndInv'
  BY <1>5, FlightInd
<1>6. CASE UNCHANGED vars
  BY <1>6 DEF vars, IndInv, TypeOK, CountExact, WaitersOf, WaitersTracked, EntriesLive,
     IdleFresh, AbortedEmpty
<1> QED
  BY <1>1, <1>2, <1>3, <1>4, <1>5, <1>6 DEF Next

(* Every counter, table entry and promise state of the coalescer stays in  *)
(* its type; in particular waiters never goes below zero.                  *)
THEOREM TypeCorrect == Spec => []TypeOK
<1>1. Spec => []IndInv
  BY InitInd, NextInd, PTL DEF Spec
<1>2. IndInv => TypeOK
  BY DEF IndInv
<1> QED
  BY <1>1, <1>2, PTL

(* Two callers waiting for one key share the operation, and the operation  *)
(* they wait for is not aborted under them, for any number of calls.       *)
THEOREM SharedUntilLastLeaves == Spec => [](Coalesced /\ NoWaiterAborted)
<1>1. Spec => []IndInv
  BY InitInd, NextInd, PTL DEF Spec
<1>2. IndInv => Coalesced /\ NoWaiterAborted
  BY DEF IndInv, WaitersTracked, AbortedEmpty, Coalesced, NoWaiterAborted
<1> QED
  BY <1>1, <1>2, PTL

(* Callers cancel independently: nobody waits for an operation that was    *)
(* aborted by another caller's departure.                                  *)
THEOREM NobodyWaitsForAborted == Spec => []NoWaiterAborted
<1>1. Coalesced /\ NoWaiterAborted => NoWaiterAborted
  OBVIOUS
<1> QED
  BY <1>1, SharedUntilLastLeaves, PTL

----------------------------------------------------------------------------
(* The keys in the table are finitely many. *)
LEMMA TrackedFinite == IsFiniteSet(Tracked) /\ Cardinality(Tracked) \in Nat
<1>1. Tracked \in SUBSET Keys
  BY DEF Tracked
<1>2. IsFiniteSet(Tracked)
  BY <1>1, FS_Subset, KeysAssumption
<1> QED
  BY <1>2, FS_CardinalityType

(* The number of tracked keys, the bound of the constructor. *)
Bounded == Cardinality(Tracked) <= MaxFlights

(* Only the opening of a flight adds an entry, and it looks at the bound.  *)
LEMMA BoundKept ==
  ASSUME IndInv, Bounded, [Next]_vars
  PROVE  Bounded'
<1> USE MaxFlightsAssumption DEF IndInv
<1>1. ASSUME NEW c \in Callers, NEW k \in Keys, RunOpen(c, k)
      PROVE  Bounded'
  <2>1. Tracked' = Tracked \cup {k}
    BY <1>1, CallersAssumption DEF RunOpen, Tracked, TypeOK
  <2>2. k \notin Tracked
    BY <1>1 DEF RunOpen, Tracked
  <2>3. Cardinality(Tracked') = Cardinality(Tracked) + 1
    BY <2>1, <2>2, TrackedFinite, FS_AddElement
  <2> QED
    BY <2>3, <1>1, TrackedFinite DEF RunOpen, Bounded
<1>2. ASSUME Tracked' \subseteq Tracked
      PROVE  Bounded'
  <2>1. /\ Cardinality(Tracked') \in Nat
        /\ Cardinality(Tracked') <= Cardinality(Tracked)
    BY <1>2, TrackedFinite, FS_Subset, FS_CardinalityType
  <2> QED
    BY <2>1, TrackedFinite DEF Bounded
<1>3. ASSUME NEW c \in Callers, Deliver(c) \/ CallerAbort(c)
      PROVE  Tracked' \subseteq Tracked
  <2>1. Release(flightOf[c])
    BY <1>3 DEF Deliver, CallerAbort
  <2>2. flights' = Untrack(flightOf[c]) \/ flights' = flights
    BY <2>1 DEF Release
  <2> QED
    BY <2>2 DEF Untrack, Tracked
<1>4. ASSUME NEW c \in Callers,
             AloneSettles(c) \/ RunAborted(c) \/ \E k \in Keys : RunJoin(c, k) \/ RunAlone(c, k)
      PROVE  Tracked' \subseteq Tracked
  BY <1>4 DEF AloneSettles, RunAborted, RunJoin, RunAlone, Tracked
<1>5. ASSUME NEW f \in Callers, Start(f) \/ Resolve(f) \/ Finish(f)
      PROVE  Tracked' \subseteq Tracked
  BY <1>5 DEF Start, Resolve, Finish, Untrack, Tracked, TypeOK
<1>6. CASE UNCHANGED vars
  BY <1>6, <1>2 DEF vars, Tracked
<1> QED
  BY <1>1, <1>2, <1>3, <1>4, <1>5, <1>6 DEF Next, Run

(* The constructor's bound holds for every number of callers and keys, and *)
(* no entry of the table is a flight that finished or was given up.        *)
THEOREM NoSlotLeaks == Spec => []TableBounded
<1>1. Init => Bounded
  <2> SUFFICES ASSUME Init PROVE Bounded
    OBVIOUS
  <2>1. Tracked = {}
    BY DEF Init, Tracked
  <2> QED
    BY <2>1, FS_EmptySet, MaxFlightsAssumption DEF Bounded
<1>2. IndInv /\ Bounded /\ [Next]_vars => Bounded'
  BY BoundKept
<1>3. IndInv /\ Bounded => TableBounded
  BY DEF IndInv, EntriesLive, Bounded, TableBounded, Tracked
<1>4. Spec => []IndInv
  BY InitInd, NextInd, PTL DEF Spec
<1> QED
  BY <1>1, <1>2, <1>3, <1>4, PTL DEF Spec
=============================================================================
