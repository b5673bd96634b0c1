------------------------ MODULE NavigationRefinement ------------------------
(***************************************************************************)
(* NavigationSession implements SessionContract, for any messages, kinds   *)
(* and bounds.  A step shows in the contract only through the record, the  *)
(* acknowledgements, the last session id or the driver: Shows lists what a *)
(* step may make of them, and the invariant of NavigationSessionProofs     *)
(* says what the task whose turn it is had read.                           *)
(***************************************************************************)
EXTENDS NavigationSessionProofs

(* What the status of a record may become in one commit. *)
MayBecome(old, new) == new \in {"active", old} \/ (old = "active" /\ new = "arrived")

Hides == (row' = row \/ Touches) /\ UNCHANGED <<acks, lastSid, driver>>

Ends ==
  /\ row # NoRow /\ row' = NoRow /\ acks' \in {acks, acks \cup {row.sid}}
  /\ UNCHANGED <<lastSid, driver>>

Advances ==
  /\ row # NoRow /\ row' \in Sessions
  /\ row'.sid = row.sid /\ row'.rev = row.rev + 1 /\ MayBecome(row.status, row'.status)
  /\ UNCHANGED <<acks, lastSid, driver>>

Opens ==
  /\ row = NoRow \/ row.status = "arrived"
  /\ lastSid' = lastSid + 1
  /\ row' \in Sessions /\ row'.sid = lastSid' /\ row'.rev = 1 /\ row'.status = "preparing"
  /\ UNCHANGED <<acks, driver>>

Tracks ==
  /\ driver' = FALSE \/ (driver' = TRUE /\ row # NoRow /\ row.status # "preparing")
  /\ UNCHANGED <<row, acks, lastSid>>

Shows == Hides \/ Ends \/ Advances \/ Opens \/ Tracks

-----------------------------------------------------------------------------
(* What a step shows is a step of the contract. *)

LEMMA Views ==
  ASSUME TypeOK
  PROVE  /\ row = NoRow => LiveView = Contract!None
         /\ row # NoRow => /\ LiveView = [sid |-> row.sid, rev |-> row.rev, status |-> row.status]
                           /\ LiveView # Contract!None
                           /\ row.status \in {"preparing", "active", "arrived"}
<1>1. row # NoRow => row.sid # 0 /\ row.status \in {"preparing", "active", "arrived"}
  BY RowValue DEF Sessions
<1> QED
  BY <1>1 DEF LiveView, Contract!None

LEMMA ShowsImplements ==
  ASSUME TypeOK, Shows
  PROVE  [Contract!Next]_(Contract!vars)
<1>0. /\ row' = NoRow => LiveView' = Contract!None
      /\ row' # NoRow => LiveView' = [sid |-> row'.sid, rev |-> row'.rev, status |-> row'.status]
  BY DEF LiveView, Contract!None
<1>1. CASE Hides
  <2>1. LiveView' = LiveView
    <3>1. CASE row' = row
      BY <3>1 DEF LiveView
    <3>2. CASE Touches
      <4>1. row' # NoRow
        BY <3>2, RowValue DEF Touches
      <4> QED
        BY <3>2, <4>1 DEF Touches, LiveView
    <3> QED
      BY <1>1, <3>1, <3>2 DEF Hides
  <2> QED
    BY <1>1, <2>1 DEF Hides, Contract!vars
<1>2. CASE Ends
  <2>1. LiveView # Contract!None /\ LiveView' = Contract!None /\ LiveView.sid = row.sid
    BY <1>0, <1>2, Views DEF Ends
  <2> QED
    BY <1>2, <2>1 DEF Ends, Contract!Next, Contract!End, Contract!Lose
<1>3. CASE Advances
  <2>1. row # NoRow /\ row' # NoRow /\ row'.sid = row.sid /\ row'.rev = row.rev + 1
    BY <1>3, RowValue DEF Advances
  <2>2. LiveView' = [sid |-> LiveView.sid, rev |-> LiveView.rev + 1, status |-> row'.status]
    <3>1. LiveView.sid = row.sid /\ LiveView.rev = row.rev
      BY <2>1, Views
    <3> QED
      BY <1>0, <2>1, <3>1
  <2>3. row'.status \in Contract!Moves[LiveView.status]
    <3>1. /\ LiveView.status = row.status /\ row.status \in {"preparing", "active", "arrived"}
          /\ MayBecome(row.status, row'.status)
      BY <1>3, <2>1, Views DEF Advances
    <3> QED
      BY <3>1 DEF MayBecome, Contract!Moves
  <2>4. LiveView # Contract!None
    BY <2>1, Views
  <2> QED
    BY <1>3, <2>2, <2>3, <2>4 DEF Advances, Contract!Next, Contract!Commit
<1>4. CASE Opens
  <2>1. row' # NoRow
    BY <1>4, RowValue DEF Opens
  <2>2. LiveView' = [sid |-> lastSid', rev |-> 1, status |-> "preparing"]
    BY <1>0, <1>4, <2>1 DEF Opens
  <2>3. LiveView = Contract!None \/ LiveView.status = "arrived"
    BY <1>4, Views DEF Opens
  <2> QED
    BY <1>4, <2>2, <2>3 DEF Opens, Contract!Next, Contract!Prepare
<1>5. CASE Tracks
  <2>1. LiveView' = LiveView
    BY <1>5 DEF Tracks, LiveView
  <2>2. CASE driver' = FALSE
    BY <1>5, <2>1, <2>2 DEF Tracks, Contract!Next, Contract!Rest
  <2>3. CASE driver' = TRUE /\ row # NoRow /\ row.status # "preparing"
    <3>1. LiveView.status \in {"active", "arrived"}
      BY <2>3, Views
    <3> QED
      BY <1>5, <2>1, <2>3, <3>1 DEF Tracks, Contract!Next, Contract!Track
  <2> QED
    BY <1>5, <2>2, <2>3 DEF Tracks
<1> QED
  BY <1>1, <1>2, <1>3, <1>4, <1>5 DEF Shows

-----------------------------------------------------------------------------
(* The steps of the task whose turn it is. *)

LEMMA TerminateShows ==
  ASSUME NEW sid, TerminateSession(sid), UNCHANGED <<lastSid, driver>>
  PROVE  Shows
BY DEF TerminateSession, Shows, Ends, Hides, db

LEMMA KeepShows ==
  ASSUME UNCHANGED db, UNCHANGED <<lastSid, driver>>
  PROVE  Shows
BY DEF Shows, Hides, db

(* A commit of what the task made of the record it read. *)
LEMMA SwapShows ==
  ASSUME IndInv, NEW pc \in {"act", "prompt"}, At(1, pc), NEW s, NEW effects,
         Swap(1, s, effects), UNCHANGED <<lastSid, driver>>,
         row # NoRow => Follows(s, queue[1].cur) /\ MayBecome(queue[1].cur.status, s.status)
  PROVE  Shows
<1>1. TypeOK /\ NoMutationAfterStop
  BY DEF IndInv
<1>2. CASE Current(queue[1].cur)
  <2>1. row # NoRow /\ row' = [s EXCEPT !.rev = @ + 1] /\ UNCHANGED <<acks, cmds, alertRows>>
    BY <1>2 DEF Swap, Current
  <2>2. Reads(queue[1].cur) /\ queue[1].cur.status = row.status
    BY <2>1, Acting
  <2>3. /\ row' \in Sessions /\ row'.sid = row.sid /\ row'.rev = row.rev + 1
        /\ row'.status = s.status
    BY <1>1, <2>1, <2>2, Swaps
  <2> QED
    BY <2>1, <2>2, <2>3 DEF Shows, Advances
<1>3. CASE ~Current(queue[1].cur)
  BY <1>3, KeepShows DEF Swap
<1> QED
  BY <1>2, <1>3

LEMMA PrepareShows ==
  ASSUME IndInv, NEW i, Prepare(i)
  PROVE  Shows
<1>1. /\ i = 1 /\ TypeOK /\ queue[1] \in Tasks /\ TaskFits(queue[1]) /\ Reads(queue[1].cur)
      /\ queue[1].type = "prepare"
  BY Acting DEF Prepare, Is
<1>2. driver' = driver
  BY DEF Prepare, os
<1>3. CASE Refuse(1) /\ lastSid' = lastSid
  BY <1>2, <1>3, KeepShows DEF Refuse
<1>4. CASE /\ ~(row # NoRow /\ row.ok /\ ~Terminal(row))
           /\ lastSid' = lastSid + 1 /\ row' = Session(lastSid', queue[1].arg) /\ acks' = acks
  <2>1. row = NoRow \/ row.status = "arrived"
    BY <1>1, <1>4 DEF Reads, Terminal
  <2>2. queue[1].arg \in Kinds
    BY <1>1 DEF IndInv, HistoryFits, SentFits, TaskFits, CommandFits, Commands
  <2>3. lastSid' \in Nat \ {0}
    BY <1>1, <1>4 DEF TypeOK
  <2>4. row' \in Sessions /\ row'.sid = lastSid' /\ row'.rev = 1 /\ row'.status = "preparing"
    BY <1>4, <2>2, <2>3 DEF Session, Sessions
  <2> QED
    BY <1>2, <1>4, <2>1, <2>4 DEF Shows, Opens
<1> QED
  BY <1>1, <1>3, <1>4 DEF Prepare

LEMMA DecideShows ==
  ASSUME IndInv, NEW i, Decide(i)
  PROVE  Shows
<1> DEFINE s == queue[1].cur
           n(mode) == [s EXCEPT !.status = "active", !.mode = mode]
<1>1. i = 1 /\ At(1, "prompt") /\ (row # NoRow => s \in Sessions) /\ UNCHANGED <<lastSid, driver>>
  BY Acting DEF Decide, env
<1>2. CASE TerminateSession(s.sid)
  BY <1>1, <1>2, TerminateShows
<1>3. ASSUME NEW mode \in {"foreground", "background"},
             Swap(1, n(mode), <<"start-location", "publish">>)
      PROVE  Shows
  <2>1. row # NoRow => /\ n(mode) \in Sessions /\ n(mode).sid = s.sid /\ n(mode).rev = s.rev
                       /\ n(mode).route = s.route /\ n(mode).req = s.req
                       /\ n(mode).status = "active"
    BY <1>1 DEF Sessions
  <2> HIDE DEF n
  <2> QED
    BY <1>1, <1>3, <2>1, SwapShows DEF Follows, MayBecome
<1> QED
  BY <1>1, <1>2, <1>3 DEF Decide

LEMMA ReplaceShows ==
  ASSUME IndInv, NEW i, Replace(i) \/ UpdateSettings(i)
  PROVE  Shows
<1> DEFINE s == queue[1].cur
<1>1. /\ i = 1 /\ At(1, "act") /\ (row # NoRow => s \in Sessions) /\ UNCHANGED <<lastSid, driver>>
  BY Acting DEF Replace, UpdateSettings, Is, os, env
<1>2. CASE Refuse(1)
  BY <1>1, <1>2, KeepShows DEF Refuse
<1>3. CASE Swap(1, Adopt(s), <<>>)
  BY <1>1, <1>3, AdoptFollows, SwapShows DEF MayBecome
<1>4. CASE Swap(1, s, <<>>)
  BY <1>1, <1>4, SwapShows DEF MayBecome, Follows
<1> QED
  BY <1>1, <1>2, <1>3, <1>4 DEF Replace, UpdateSettings

LEMMA TransitActionShows ==
  ASSUME IndInv, NEW i, TransitAction(i)
  PROVE  Shows
<1> DEFINE s == queue[1].cur
           t == queue[1]
           n(status, riding) == [s EXCEPT !.status = status, !.alert = riding, !.last = t.msg]
<1>1. /\ i = 1 /\ At(1, "act") /\ t \in Tasks /\ (row # NoRow => s \in Sessions)
      /\ UNCHANGED <<lastSid, driver>>
  BY Acting DEF TransitAction, Is, os, env
<1>2. CASE UNCHANGED db
  BY <1>1, <1>2, KeepShows
<1>3. ASSUME NEW status \in {"active", "arrived"}, NEW riding \in BOOLEAN, NEW effects,
             s.status = "active" \/ (s.status = "arrived" /\ status = "active"),
             Swap(1, n(status, riding), effects)
      PROVE  Shows
  <2>1. t.msg \in Msgs \cup {"none"}
    BY <1>1, TaskFields
  <2>2. row # NoRow => /\ n(status, riding) \in Sessions /\ n(status, riding).sid = s.sid
                       /\ n(status, riding).rev = s.rev /\ n(status, riding).route = s.route
                       /\ n(status, riding).req = s.req /\ n(status, riding).status = status
    BY <1>1, <2>1 DEF Sessions
  <2> HIDE DEF n
  <2> QED
    BY <1>1, <1>3, <2>2, SwapShows DEF Follows, MayBecome
<1> QED
  BY <1>1, <1>2, <1>3 DEF TransitAction, Refuse

LEMMA BatchShows ==
  ASSUME IndInv, NEW i, Batch(i)
  PROVE  Shows
<1> DEFINE s == queue[1].cur
<1>1. /\ i = 1 /\ At(1, "act") /\ (row # NoRow => s \in Sessions) /\ (s = NoRow <=> row = NoRow)
      /\ UNCHANGED <<lastSid, driver>>
  BY Acting DEF Batch, Is, os, env
<1>2. CASE Refuse(1)
  BY <1>1, <1>2, KeepShows DEF Refuse
<1>3. CASE TerminateSession(s.sid)
  BY <1>1, <1>3, TerminateShows
<1>4. ASSUME s # NoRow, s.status = "active", NEW next \in Advance(s), Swap(1, next.s, next.eff)
      PROVE  Shows
  <2>1. Follows(next.s, s) /\ next.s.status # "preparing"
    BY <1>1, <1>4, AdvanceFollows
  <2>2. next.s.status \in {"preparing", "active", "arrived"}
    BY <2>1 DEF Follows, Sessions
  <2> QED
    BY <1>1, <1>4, <2>1, <2>2, SwapShows DEF MayBecome
<1> QED
  BY <1>1, <1>2, <1>3, <1>4 DEF Batch

LEMMA AnswerShows ==
  ASSUME IndInv, NEW i, Answer(i)
  PROVE  Shows
<1> DEFINE s == queue[1].cur
           n == Applied(s, queue[1].arg.ok)
<1>1. /\ i = 1 /\ At(1, "act") /\ (row # NoRow => s \in Sessions) /\ UNCHANGED <<lastSid, driver>>
  BY Acting DEF Answer, Is, os, env
<1>2. CASE Refuse(1)
  BY <1>1, <1>2, KeepShows DEF Refuse
<1>3. ASSUME NEW effects, Swap(1, n, effects)
      PROVE  Shows
  <2>1. row # NoRow => Follows([s EXCEPT !.req = 0], s) /\ [s EXCEPT !.req = 0].status = s.status
    BY <1>1 DEF Follows, Sessions
  <2>2. n \in {Adopt(s), [s EXCEPT !.req = 0]}
    BY DEF Applied
  <2>3. row # NoRow => Follows(n, s) /\ n.status = s.status
    BY <1>1, <2>1, <2>2, AdoptFollows
  <2> HIDE DEF n
  <2> QED
    BY <1>1, <1>3, <2>3, SwapShows DEF MayBecome
<1> QED
  BY <1>1, <1>2, <1>3 DEF Answer

(* The steps that leave the record, end it, or only move the task on. *)
LEMMA PlainShows ==
  ASSUME IndInv, NEW i,
         \/ Lookup(i) \/ Start(i) \/ Stop(i) \/ Reconcile(i) \/ Resume(i) \/ EndSession(i)
         \/ EffectFails(i) \/ UndoStart(i) \/ Finish(i)
  PROVE  Shows
<1>1. CASE Lookup(i) \/ Resume(i) \/ EffectFails(i)
  BY <1>1, KeepShows DEF Lookup, Resume, EffectFails, os, env
<1>2. CASE Start(i)
  BY <1>2, KeepShows DEF Start, Refuse, os, env
<1>3. CASE Stop(i)
  BY <1>3, KeepShows, TerminateShows DEF Stop, os, env
<1>4. CASE Reconcile(i)
  BY <1>4, KeepShows, TerminateShows DEF Reconcile, os, env
<1>5. CASE EndSession(i) \/ UndoStart(i)
  BY <1>5, TerminateShows DEF EndSession, UndoStart, os, env
<1>6. CASE Finish(i)
  BY <1>6 DEF Finish, Shows, Hides, os, env
<1> QED
  BY <1>1, <1>2, <1>3, <1>4, <1>5, <1>6

LEMMA LoadShows ==
  ASSUME NEW i, Load(i)
  PROVE  Shows
<1>1. UNCHANGED <<lastSid, driver>>
  BY DEF Load, os, env
<1>2. CASE row # NoRow /\ ~row.ok
  BY <1>1, <1>2 DEF Load, Shows, Ends
<1>3. CASE ~(row # NoRow /\ ~row.ok)
  BY <1>1, <1>3, KeepShows DEF Load
<1> QED
  BY <1>2, <1>3

LEMMA EffectShows ==
  ASSUME IndInv, NEW i, Effect(i)
  PROVE  Shows
<1> DEFINE t == queue[1]
<1>1. i = 1 /\ t \in Tasks /\ TaskFits(t) /\ t.pc = "effects"
  BY Turns DEF Effect, IndInv
<1>2. t.eff \in Plans /\ t.eff # <<>>
  BY <1>1, TaskFields DEF Effect
<1>3. UNCHANGED <<row, acks, lastSid>>
  BY DEF Effect, env
<1>4. CASE Drives(Head(t.eff))
  <2>1. Driving(t.eff)
    BY <1>2, <1>4, TailPlans
  <2>2. row # NoRow /\ row.status # "preparing"
    BY <1>1, <2>1 DEF TaskFits, EffFits, Driving
  <2>3. driver' = TRUE
    BY <1>1, <1>4 DEF Effect
  <2> QED
    BY <1>3, <2>2, <2>3 DEF Shows, Tracks
<1>5. CASE ~Drives(Head(t.eff))
  BY <1>1, <1>3, <1>5 DEF Effect, Shows, Tracks, Hides
<1> QED
  BY <1>4, <1>5

-----------------------------------------------------------------------------
LEMMA WorldShows ==
  ASSUME IndInv,
         \/ Send \/ Resend \/ SignIn \/ Deliver \/ Respond
         \/ ChangeVisibility \/ Choose \/ StopFromSurface
         \/ Expire \/ Fire \/ Revoke \/ Crash \/ Open \/ Wake \/ UNCHANGED vars
  PROVE  Shows
<1>0. TypeOK
  BY DEF IndInv
<1>1. CASE Send \/ Resend
  BY <1>1, PageKeeps, KeepShows
<1>2. CASE SignIn \/ Deliver \/ Respond \/ ChangeVisibility \/ Choose \/ StopFromSurface
  BY <1>2, KeepShows DEF SignIn, Deliver, Respond, ChangeVisibility, Choose, StopFromSurface, os, env
<1>3. CASE Fire \/ Revoke \/ Wake \/ UNCHANGED vars
  BY <1>3, KeepShows DEF Fire, Revoke, Wake, vars, os, env
<1>4. CASE Crash
  BY <1>4 DEF Crash, Shows, Hides, Tracks, db
<1>5. CASE Expire \/ Open
  <2>1. \/ row' = row
        \/ row # NoRow /\ (row' = [row EXCEPT !.old = TRUE] \/ row' = [row EXCEPT !.ok = FALSE])
    BY <1>5 DEF Expire, Open
  <2>2. row' = row \/ Touches
    <3>1. row # NoRow => row \in Sessions
      BY <1>0, RowValue
    <3> QED
      BY <2>1, <3>1 DEF Touches, Sessions
  <2>3. UNCHANGED <<acks, lastSid, driver>>
    BY <1>5 DEF Expire, Open, os, env
  <2> QED
    BY <2>2, <2>3 DEF Shows, Hides
<1> QED
  BY <1>1, <1>2, <1>3, <1>4, <1>5

LEMMA StepShows ==
  ASSUME IndInv, [Next]_vars PROVE Shows
<1>1. CASE Work
  <2>1. PICK i \in 1..MaxQueue :
          \/ Lookup(i) \/ Load(i) \/ Prepare(i) \/ Start(i) \/ Replace(i)
          \/ UpdateSettings(i) \/ TransitAction(i) \/ Stop(i) \/ Batch(i) \/ Answer(i)
          \/ Reconcile(i) \/ Resume(i) \/ EndSession(i)
          \/ Effect(i) \/ EffectFails(i) \/ UndoStart(i) \/ Finish(i)
    BY <1>1 DEF Work
  <2> QED
    BY <2>1, PlainShows, LoadShows, PrepareShows, ReplaceShows, TransitActionShows, BatchShows,
       AnswerShows, EffectShows
<1>2. CASE Prompted
  <2>1. PICK i \in 1..MaxQueue : Decide(i) \/ SignedIn(i)
    BY <1>2 DEF Prompted
  <2>2. CASE SignedIn(i)
    BY <2>2, KeepShows DEF SignedIn, db, os, env
  <2> QED
    BY <2>1, <2>2, DecideShows
<1>3. CASE ~Work /\ ~Prompted
  BY <1>3, WorldShows DEF Next
<1> QED
  BY <1>1, <1>2, <1>3

(* The promise of the navigation authority (NavigationCoordinator.ts, SessionRepository.ts,
   NavigationRecoveryController.ts): whatever the page sends or repeats, whatever fails and
   wherever the process dies, the user has one session at a time, which moves by whole
   commits along its life cycle and never comes back once it ended, and tracking starts only
   from a session that was started. *)
THEOREM SessionImplementsContract == Spec => ImplementsSession
<1>1. Init => Contract!Init
  BY DEF Init, LiveView, Contract!Init, Contract!None
<1>2. IndInv /\ [Next]_vars => [Contract!Next]_(Contract!vars)
  BY StepShows, ShowsImplements DEF IndInv
<1> QED
  BY <1>1, <1>2, Invariance, PTL DEF Spec, ImplementsSession, Contract!Spec
=============================================================================
