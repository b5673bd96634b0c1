------------------------- MODULE NavigationSession -------------------------
(***************************************************************************)
(* The navigation authority of the mobile application: one durable session *)
(* (storage/SessionRepository.ts), the tasks that change it one at a time  *)
(* (navigation/serialExecutor.ts, NavigationCoordinator.ts and             *)
(* lifecycle/NavigationRecoveryController.ts), the effects a commit asks   *)
(* for (navigation/effects.ts) and what the operating system keeps on its  *)
(* own: the location driver, scheduled alerts, the permission and the      *)
(* visibility of the application.                                          *)
(*                                                                         *)
(* A task is a member of the executor's queue; an action is one read, one  *)
(* transaction or one effect of the task whose turn it is.  The process    *)
(* may die between any two of them.                                        *)
(***************************************************************************)
EXTENDS Integers, Sequences, FiniteSets, SequencesExt

CONSTANTS Msgs,       \* message ids of the page's mutating commands
          Kinds,      \* kinds of session: "ground", "transit"
          MaxSid,     \* bound: sessions ever prepared
          MaxRev,     \* bound: revisions of one session
          MaxQueue,   \* bound: tasks waiting in the executor
          MaxFaults   \* bound: crashes, failed effects, losses

ASSUME BoundsAssumption ==
  /\ Kinds \subseteq {"ground", "transit"}
  /\ MaxSid \in Nat /\ MaxRev \in Nat /\ MaxQueue \in Nat \ {0} /\ MaxFaults \in Nat

VARIABLES
  \* the database
  row,        \* active_navigation: the one session, or NoRow
  acks,       \* terminal_ack: sessions that ended
  cmds,       \* processed_commands: the session an answer belongs to
  alertRows,  \* scheduled_alerts
  \* the operating system
  driver,     \* the location task is registered
  osAlerts,   \* notifications it will show
  grant,      \* the location permission
  visible,    \* the application is in front
  \* the process
  proc,       \* "down", "ui" or, started by a location event, "headless"
  queue,      \* the executor: tasks in submission order
  inflight,   \* remote requests without an answer
  \* the environment and history
  sent,       \* commands the page has issued
  fired,      \* alerts that were shown
  runs,       \* how often a command changed the session
  lastSid,
  faults

db == <<row, acks, cmds, alertRows>>
os == <<driver, osAlerts, grant, visible, fired>>
env == <<proc, sent, lastSid, faults>>
vars == <<db, os, env, queue, inflight, runs>>

NoRow == [sid |-> 0, rev |-> 0]
None == -1            \* no answer is remembered

(* Mutant: a session that was never started may be replaced. *)
TerminalUnstarted(s) == s.status # "active"

Terminal(s) == s.status = "arrived"   \* the only terminal status ever stored

(* Mutant: a new record starts without a revision. *)
SessionUnversioned(sid, kind) ==
  [sid |-> sid, rev |-> 0, status |-> "preparing", kind |-> kind, mode |-> "foreground",
   route |-> 1, req |-> 0, last |-> "none", alert |-> FALSE, old |-> FALSE, ok |-> TRUE]

Session(sid, kind) ==
  [sid |-> sid, rev |-> 1, status |-> "preparing", kind |-> kind, mode |-> "foreground",
   route |-> 1, req |-> 0, last |-> "none", alert |-> FALSE, old |-> FALSE, ok |-> TRUE]

Commands == {"prepare", "start", "replace", "settings", "action", "stop"}

Task(type, msg, sid, rev, arg) ==
  [type |-> type, msg |-> msg, sid |-> sid, rev |-> rev, arg |-> arg,
   pc |-> IF type \in Commands THEN "lookup" ELSE IF type = "auth" THEN "browser" ELSE "load",
   cur |-> NoRow, eff |-> <<>>, res |-> 0, failed |-> FALSE]

(* The alert computeAlightAlert wants: at most one, for the ridden leg of the
   itinerary the session follows. *)
Alert(s) == [sid |-> s.sid, route |-> s.route]

Desired ==
  IF row # NoRow /\ row.kind = "transit" /\ row.alert /\ row.status = "active"
  THEN {Alert(row)} ELSE {}

Sessions ==
  [sid : Nat \ {0}, rev : Nat \ {0}, status : {"preparing", "active", "arrived"}, kind : Kinds,
   mode : {"foreground", "background"}, route : Nat \ {0}, req : Nat,
   last : Msgs \cup {"none"}, alert : BOOLEAN, old : BOOLEAN, ok : BOOLEAN]

Alerts == [sid : Nat \ {0}, route : Nat \ {0}]

(* Routes and requests are named by revisions the session has had. *)
RowTypeOK ==
  \/ row = NoRow
  \/ /\ row \in Sessions
     /\ row.sid <= lastSid /\ row.route <= row.rev /\ row.req <= row.rev

TypeOK ==
  /\ RowTypeOK
  /\ lastSid \in Nat /\ acks \subseteq 1..lastSid
  /\ cmds \in [Msgs -> {None} \cup Nat]
  /\ alertRows \subseteq Alerts /\ osAlerts \subseteq Alerts /\ fired \subseteq Alerts
  /\ driver \in BOOLEAN /\ visible \in BOOLEAN
  /\ grant \in {"none", "foreground", "background"}
  /\ proc \in {"down", "ui", "headless"}
  /\ Len(queue) <= MaxQueue
  /\ \A i \in DOMAIN queue : queue[i].cur = NoRow \/ queue[i].cur \in Sessions
  /\ DOMAIN sent \subseteq Msgs
  /\ runs \in [Msgs -> Nat]
  /\ faults \in 0..MaxFaults

Init ==
  /\ row = NoRow /\ acks = {} /\ cmds = [m \in Msgs |-> None] /\ alertRows = {}
  /\ driver = FALSE /\ osAlerts = {} /\ grant = "none" /\ visible = TRUE /\ fired = {}
  /\ proc = "ui" /\ queue = <<>> /\ inflight = {}
  /\ sent = <<>> /\ runs = [m \in Msgs |-> 0] /\ lastSid = 0 /\ faults = 0

-----------------------------------------------------------------------------
(* The executor. *)

Room == proc # "down" /\ Len(queue) < MaxQueue

Submit(t) == queue' = Append(queue, t)

(* Mutant: a task runs as soon as it is submitted. *)
TurnAlways(i) == i \in Nat

(* One task at a time, in submission order. *)
Turn(i) == i = 1

At(i, pc) == i \in DOMAIN queue /\ Turn(i) /\ queue[i].pc = pc

Is(i, type) == At(i, "act") /\ queue[i].type = type

Goto(i, pc) == queue' = [queue EXCEPT ![i].pc = pc]

(* The transaction is done: what is left are its effects and the answer. *)
Then(i, sid, effects) ==
  queue' = [queue EXCEPT ![i].pc = "effects", ![i].res = sid, ![i].eff = effects]

Refuse(i) == Then(i, 0, <<>>) /\ UNCHANGED <<db, runs>>

-----------------------------------------------------------------------------
(* The repository. *)

ForgetSession(sid) ==
  /\ alertRows' = {a \in alertRows : a.sid # sid}
  /\ cmds' = [m \in Msgs |-> IF sid # 0 /\ cmds[m] = sid THEN None ELSE cmds[m]]

Current(s) == row # NoRow /\ row.ok /\ row.sid = s.sid /\ row.rev = s.rev

Ran(i) == IF queue[i].type \in Commands THEN [runs EXCEPT ![queue[i].msg] = @ + 1] ELSE runs

(* compareAndSwap; a batch that loses the race is processed once more. *)
Swap(i, s, effects) ==
  IF Current(queue[i].cur)
  THEN /\ row' = [s EXCEPT !.rev = @ + 1]
       /\ runs' = Ran(i)
       /\ Then(i, s.sid, effects)
       /\ UNCHANGED <<acks, cmds, alertRows>>
  ELSE /\ queue' = IF queue[i].type = "batch" /\ queue[i].arg = "first"
                   THEN [queue EXCEPT ![i].pc = "load", ![i].arg = "retry"]
                   ELSE [queue EXCEPT ![i].pc = "effects", ![i].res = 0, ![i].eff = <<>>]
       /\ UNCHANGED <<db, runs>>

(* Mutant: the acknowledgement is written and the record stays. *)
TerminateKeepsRow(sid) ==
  IF row # NoRow /\ row.sid = sid
  THEN row' = row /\ acks' = acks \cup {sid} /\ ForgetSession(sid)
  ELSE UNCHANGED db

(* terminate: the acknowledgement and the deletion in one transaction; the
   intents exist only if there was something to end. *)
TerminateSession(sid) ==
  IF row # NoRow /\ row.sid = sid
  THEN row' = NoRow /\ acks' = acks \cup {sid} /\ ForgetSession(sid)
  ELSE UNCHANGED db

Cleanup == <<"stop-location", "cancel-alerts", "forget-alerts">>

(* loadActive: a record that cannot be read is removed by the read. *)
Load(i) ==
  /\ At(i, "load")
  /\ IF row # NoRow /\ ~row.ok
     THEN row' = NoRow /\ ForgetSession(row.sid) /\ acks' = acks
     ELSE UNCHANGED db
  /\ queue' = [queue EXCEPT ![i].pc = "act", ![i].cur = row']
  /\ UNCHANGED <<os, env, inflight, runs>>

-----------------------------------------------------------------------------
(* Commands of the page. *)

(* A command the table knows is answered from it. *)
Lookup(i) ==
  /\ At(i, "lookup")
  /\ IF cmds[queue[i].msg] # None THEN queue' = RemoveAt(queue, i) ELSE Goto(i, "load")
  /\ UNCHANGED <<db, os, env, inflight, runs>>

(* Mutant: the session is enough, whatever its revision. *)
MatchesSession(t, s) == t.sid \in {0, s.sid}

(* assertExpected: a command refuses a session or a revision other than it names. *)
Matches(t, s) == t.sid \in {0, s.sid} /\ t.rev \in {0, s.rev}

Prepare(i) ==
  LET s == queue[i].cur IN
  /\ Is(i, "prepare")
  /\ IF \/ s # NoRow /\ ~Terminal(s) /\ ~s.old
        \/ row # NoRow /\ row.ok /\ ~Terminal(row)
     THEN Refuse(i) /\ lastSid' = lastSid
     ELSE /\ lastSid' = lastSid + 1
          /\ row' = Session(lastSid', queue[i].arg)
          /\ ForgetSession(row.sid)
          /\ runs' = Ran(i)
          /\ Then(i, lastSid', <<>>)
          /\ acks' = acks
  /\ UNCHANGED <<os, proc, sent, faults, inflight>>

(* start: the checks before the permission prompt, which waits for the user
   inside the task. *)
Start(i) ==
  LET s == queue[i].cur IN
  /\ Is(i, "start")
  /\ IF s = NoRow \/ ~Matches(queue[i], s) \/ s.status # "preparing" \/ ~visible
     THEN Refuse(i)
     ELSE Goto(i, "prompt") /\ UNCHANGED <<db, runs>>
  /\ UNCHANGED <<os, env, inflight>>

(* Mutant: the driver starts before the session is committed as active. *)
DecideDriverFirst(i) ==
  LET s == queue[i].cur IN
  /\ At(i, "prompt")
  /\ \E decision \in {"foreground", "background"} :
       /\ grant' = decision
       /\ driver' = TRUE
       /\ Swap(i, [s EXCEPT !.status = "active", !.mode = decision], <<>>)
  /\ UNCHANGED <<osAlerts, visible, fired, env, inflight>>

(* The prompt is answered; consent, then commit, then the driver. *)
Decide(i) ==
  LET s == queue[i].cur IN
  /\ At(i, "prompt")
  /\ \E decision \in {"none", "foreground", "background"} :
       /\ grant' = decision
       /\ IF decision = "none"
          THEN TerminateSession(s.sid) /\ Then(i, 0, <<>>) /\ runs' = Ran(i)
          ELSE Swap(i, [s EXCEPT !.status = "active", !.mode = decision],
                    <<"start-location", "publish">>)
  /\ UNCHANGED <<driver, osAlerts, visible, fired, env, inflight>>

(* A new route resets what the old one owned, a request in flight included.
   The effects of this commit are not run. *)
Adopt(s) == [s EXCEPT !.route = s.rev + 1, !.req = 0, !.last = "none", !.alert = FALSE]

(* A replacement of an itinerary may name the itinerary instead of the revision. *)
Names(t, s) == s.kind = "transit" /\ t.sid = s.sid /\ t.arg = s.route

Replace(i) ==
  LET s == queue[i].cur IN
  /\ Is(i, "replace")
  /\ IF \/ s = NoRow \/ s.status # "active"
        \/ ~Names(queue[i], s) /\ ~Matches(queue[i], s)
     THEN Refuse(i)
     ELSE Swap(i, Adopt(s), <<>>)
  /\ UNCHANGED <<os, env, inflight>>

UpdateSettings(i) ==
  LET s == queue[i].cur IN
  /\ Is(i, "settings")
  /\ IF s = NoRow \/ ~Matches(queue[i], s) THEN Refuse(i) ELSE Swap(i, s, <<>>)
  /\ UNCHANGED <<os, env, inflight>>

SyncAlerts == <<"record-alerts", "schedule-alerts">>

(* A rider's action: board, alight, continue, or undo, which may take back an
   arrival.  The processor may reject it for the phase it finds. *)
TransitAction(i) ==
  LET s == queue[i].cur
      t == queue[i] IN
  /\ Is(i, "action")
  /\ IF s = NoRow \/ s.kind # "transit" \/ t.sid # s.sid \/ t.arg # s.route
     THEN Refuse(i)
     ELSE IF s.last = t.msg THEN Then(i, s.sid, <<>>) /\ UNCHANGED <<db, runs>>
     ELSE \/ Refuse(i)
          \/ \E status \in {"active", "arrived"}, riding \in BOOLEAN,
                pace \in {<<>>, <<"update-profile">>} :
               /\ s.status = "active" \/ (s.status = "arrived" /\ status = "active")
               /\ Swap(i, [s EXCEPT !.status = status, !.alert = riding, !.last = t.msg],
                       pace \o SyncAlerts)
  /\ UNCHANGED <<os, env, inflight>>

(* session.stop, session.complete and a confirmed action of an OS surface. *)
Stop(i) ==
  LET s == queue[i].cur IN
  /\ Is(i, "stop") \/ Is(i, "surface")
  /\ IF s = NoRow \/ queue[i].sid \notin {0, s.sid}
     THEN Then(i, IF s = NoRow THEN queue[i].sid ELSE 0, <<>>) /\ UNCHANGED <<db, runs>>
     ELSE /\ TerminateSession(s.sid)
          /\ runs' = Ran(i)
          /\ Then(i, s.sid, Cleanup)
  /\ UNCHANGED <<os, env, inflight>>

-----------------------------------------------------------------------------
(* Location batches and answers of remote work. *)

(* What a processor may make of a batch: move on, arrive, ask for a route or a
   refresh (a request is named by the revision that asks), give one up. *)
Asks(s) == [s EXCEPT !.req = s.rev + 1]
Arrives(s) == [s EXCEPT !.status = "arrived"]

AdvanceGround(s) ==
  {[s |-> s, eff |-> <<>>], [s |-> Asks(s), eff |-> <<"ask">>], [s |-> Arrives(s), eff |-> <<>>]}

Ridden(s, t, riding, pace) ==
  [s |-> [t EXCEPT !.alert = riding],
   eff |-> pace \o SyncAlerts \o (IF t = Asks(s) THEN <<"ask">> ELSE <<>>)]

AdvanceTransit(s) ==
  {Ridden(s, t, riding, pace) :
     t \in {s, Arrives(s), IF s.req = 0 THEN Asks(s) ELSE [s EXCEPT !.req = 0]},
     riding \in BOOLEAN, pace \in {<<>>, <<"update-profile">>}}

Advance(s) == IF s.kind = "ground" THEN AdvanceGround(s) ELSE AdvanceTransit(s)

Batch(i) ==
  LET s == queue[i].cur IN
  /\ Is(i, "batch")
  /\ IF s = NoRow \/ (~s.old /\ s.status # "active") THEN Refuse(i)
     ELSE IF s.old
     THEN TerminateSession(s.sid) /\ Then(i, 0, Cleanup) /\ UNCHANGED runs
     ELSE \/ s.kind = "ground" /\ Refuse(i)        \* no usable fix
          \/ \E next \in Advance(s) : Swap(i, next.s, next.eff)
  /\ UNCHANGED <<os, env, inflight>>

(* Mutant: any answer of the session is taken for the one it waits for. *)
ExpectedSession(t, s) == s # NoRow /\ s.status = "active" /\ s.sid = t.sid

(* An answer is applied only to the session and the request it belongs to. *)
Expected(t, s) == s # NoRow /\ s.status = "active" /\ s.sid = t.sid /\ s.req = t.rev

Applied(s, ok) ==
  IF s.kind = "ground" /\ ok THEN Adopt(s) ELSE [s EXCEPT !.req = 0]

Answer(i) ==
  LET s == queue[i].cur IN
  /\ Is(i, "answer")
  /\ IF Expected(queue[i], s)
     THEN Swap(i, Applied(s, queue[i].arg.ok),
               IF s.kind = "transit" THEN SyncAlerts ELSE <<>>)
     ELSE Refuse(i)
  /\ UNCHANGED <<os, env, inflight>>

-----------------------------------------------------------------------------
(* Recovery: what the shell does on creation and when visibility changes, and
   what the user may ask of it. *)

(* Mutant: alerts that no session owns are not released. *)
ReleaseDriver == <<"stop-location">>

Release == <<"stop-location", "clear-alerts">>

PermissionAllows(s) == grant = "background" \/ (grant = "foreground" /\ s.mode = "foreground")

Reconcile(i) ==
  LET s == queue[i].cur IN
  /\ Is(i, "reconcile")
  /\ IF s = NoRow THEN Then(i, 0, Release) /\ UNCHANGED db
     ELSE IF s.status # "active" \/ s.old
     THEN TerminateSession(s.sid) /\ Then(i, 0, Release)
     ELSE /\ Then(i, 0, IF ~PermissionAllows(s) THEN Release
                        ELSE IF s.mode = "foreground" /\ ~queue[i].arg
                        THEN <<"stop-location">> ELSE <<>>)
          /\ UNCHANGED db
  /\ UNCHANGED <<os, env, inflight, runs>>

Resume(i) ==
  LET s == queue[i].cur IN
  /\ Is(i, "resume")
  /\ Then(i, 0, IF s = NoRow \/ s.status # "active" THEN Release
                ELSE IF ~visible THEN <<>>
                ELSE IF ~PermissionAllows(s) THEN Release ELSE <<"start-location">>)
  /\ UNCHANGED <<db, os, env, inflight, runs>>

EndSession(i) ==
  /\ Is(i, "end")
  /\ TerminateSession(queue[i].cur.sid)
  /\ Then(i, 0, Release)
  /\ UNCHANGED <<os, env, inflight, runs>>

-----------------------------------------------------------------------------
(* Effects, in the runner's fixed order.  A process without an interface has
   no alert port and sends no reroute. *)

Drives(e) == e \in {"start-location", "update-profile"}
AlertEffects == {"cancel-alerts", "forget-alerts", "record-alerts", "schedule-alerts"}

Recorded(sid) == {a \in alertRows : a.sid = sid}

Request == [sid |-> row.sid, id |-> row.req, base |-> row.route]

(* remote.reroute drops what is open before it asks; the effect asks nothing
   if the session has moved on. *)
Ask ==
  IF row = NoRow \/ row.status # "active" \/ row.req = 0
     \/ (row.kind = "ground" /\ proc = "headless")
  THEN inflight
  ELSE (IF row.kind = "ground" THEN {} ELSE inflight) \cup {Request}

Effect(i) ==
  LET t == queue[i]
      e == Head(t.eff)
      live == e \notin AlertEffects \/ proc = "ui" IN
  /\ At(i, "effects")
  /\ t.eff # <<>>
  /\ Drives(e) => grant # "none"
  /\ queue' = [queue EXCEPT ![i].eff = Tail(@)]
  /\ driver' = IF Drives(e) THEN TRUE ELSE IF e = "stop-location" THEN FALSE ELSE driver
  /\ osAlerts' = CASE e = "cancel-alerts" /\ live -> osAlerts \ Recorded(t.res)
                   [] e = "schedule-alerts" /\ live -> Desired
                   [] e = "clear-alerts" -> {}
                   [] OTHER -> osAlerts
  /\ alertRows' = CASE e = "forget-alerts" /\ live -> alertRows \ Recorded(t.res)
                    [] e = "record-alerts" /\ live -> Desired
                    [] OTHER -> alertRows
  /\ inflight' = IF e = "ask" THEN Ask ELSE inflight
  /\ UNCHANGED <<row, acks, cmds, grant, visible, fired, env, runs>>

(* A failed effect does not stop the others; only its own second half. *)
EffectFails(i) ==
  LET t == queue[i]
      rest == Tail(t.eff)
      half == Head(t.eff) \in {"cancel-alerts", "record-alerts"} IN
  /\ At(i, "effects")
  /\ t.eff # <<>>
  /\ IF Drives(Head(t.eff)) /\ grant = "none" THEN faults' = faults
     ELSE faults < MaxFaults /\ faults' = faults + 1
  /\ queue' = [queue EXCEPT ![i].eff = IF half THEN Tail(rest) ELSE rest, ![i].failed = TRUE]
  /\ UNCHANGED <<db, os, proc, sent, lastSid, inflight, runs>>

(* The driver could not be started, or the page not told of it: the session must
   not claim to track. *)
UndoStart(i) ==
  LET t == queue[i] IN
  /\ At(i, "effects")
  /\ t.eff = <<>> /\ t.type = "start" /\ t.failed
  /\ TerminateSession(t.cur.sid)
  /\ queue' = [queue EXCEPT ![i].eff = Cleanup, ![i].failed = FALSE, ![i].type = "undo"]
  /\ UNCHANGED <<os, env, inflight, runs>>

(* Mutant: a task whose effect failed never ends. *)
FinishUnlessFailed(i) ==
  LET t == queue[i] IN
  /\ At(i, "effects")
  /\ t.eff = <<>> /\ ~t.failed
  /\ cmds' = IF t.type \in Commands \cup {"undo"} /\ cmds[t.msg] = None
             THEN [cmds EXCEPT ![t.msg] = IF t.type = "undo" THEN 0 ELSE t.res] ELSE cmds
  /\ queue' = RemoveAt(queue, i)
  /\ UNCHANGED <<row, acks, alertRows, os, env, inflight, runs>>

(* rememberCommand and the reply: the first answer to a message stays. *)
Finish(i) ==
  LET t == queue[i] IN
  /\ At(i, "effects")
  /\ t.eff = <<>> /\ ~(t.type = "start" /\ t.failed)
  /\ cmds' = IF t.type \in Commands \cup {"undo"} /\ cmds[t.msg] = None
             THEN [cmds EXCEPT ![t.msg] = IF t.type = "undo" THEN 0 ELSE t.res] ELSE cmds
  /\ queue' = RemoveAt(queue, i)
  /\ UNCHANGED <<row, acks, alertRows, os, env, inflight, runs>>

-----------------------------------------------------------------------------
(* auth.open: the system browser is open inside the task until the user is done
   there, with no deadline; the answer changes no session. *)
SignedIn(i) ==
  /\ At(i, "browser")
  /\ queue' = RemoveAt(queue, i)
  /\ UNCHANGED <<db, os, env, inflight, runs>>

-----------------------------------------------------------------------------
(* The page, the operating system and the user. *)

(* What a page may have rendered: the session as it is now, an earlier
   revision of it, or no session. *)
Stamps ==
  {[sid |-> 0, rev |-> 0]}
  \cup (IF row = NoRow THEN {}
        ELSE {[sid |-> row.sid, rev |-> r] : r \in {row.rev, row.rev - 1} \ {0}})

(* Bounds: revisions and sessions the queued tasks may still create. *)
Quota == row.rev + Len(queue) < MaxRev
Fresh == lastSid + Cardinality({i \in DOMAIN queue : queue[i].type = "prepare"}) < MaxSid

Issue(m, t) ==
  /\ proc = "ui" /\ Room /\ Quota
  /\ t.type = "prepare" => Fresh
  /\ sent' = [n \in DOMAIN sent \cup {m} |-> IF n = m THEN t ELSE sent[n]]
  /\ Submit(t)
  /\ UNCHANGED <<db, os, proc, lastSid, faults, inflight, runs>>

Arguments(type) ==
  CASE type = "prepare" -> Kinds
    [] type \in {"replace", "action"} /\ row # NoRow /\ row.kind = "transit" -> {0, row.route}
    [] OTHER -> {0}

(* Message ids are fresh; which one is taken makes no difference. *)
NewMsg == CHOOSE m \in Msgs : m \notin DOMAIN sent

(* Rider actions are offered for itineraries only.  An action names an itinerary
   and a stop the session; neither looks at the revision. *)
Send ==
  \E m \in Msgs \ DOMAIN sent, type \in Commands, stamp \in Stamps :
    \E arg \in Arguments(type) :
      /\ m = NewMsg
      /\ type \in {"prepare", "start"} => stamp.sid = 0
      /\ type = "action" => "transit" \in Kinds
      /\ Issue(m, Task(type, m, stamp.sid,
                       IF type \in {"action", "stop"} THEN 0 ELSE stamp.rev, arg))

(* A page that timed out sends the same message again. *)
Resend == \E m \in DOMAIN sent : Issue(m, sent[m])

(* A sign-in enters the same queue; nothing remembers its answer. *)
SignIn ==
  /\ proc = "ui" /\ Room
  /\ Submit(Task("auth", "none", 0, 0, "none"))
  /\ UNCHANGED <<db, os, env, inflight, runs>>

Deliver ==
  /\ driver /\ Room /\ Quota
  /\ Submit(Task("batch", "none", 0, 0, "first"))
  /\ UNCHANGED <<db, os, env, inflight, runs>>

(* An answer re-enters through the executor; only one that the record expects
   makes a revision. *)
Respond ==
  /\ Room
  /\ \E q \in inflight, ok \in BOOLEAN :
       /\ row # NoRow /\ q.id = row.req => Quota
       /\ Submit(Task("answer", "none", q.sid, q.id, [ok |-> ok, base |-> q.base]))
       /\ inflight' = inflight \ {q}
  /\ UNCHANGED <<db, os, env, runs>>

(* Every change of visibility makes the shell reconcile. *)
ChangeVisibility ==
  /\ proc = "ui" /\ Room
  /\ visible' = ~visible
  /\ Submit(Task("reconcile", "none", 0, 0, visible'))
  /\ UNCHANGED <<db, driver, osAlerts, grant, fired, env, inflight, runs>>

(* The user's choices in the shell, and on a surface of the system. *)
Choose ==
  /\ proc = "ui" /\ visible /\ Room
  /\ \E type \in {"resume", "end"} : Submit(Task(type, "none", 0, 0, "none"))
  /\ UNCHANGED <<db, os, env, inflight, runs>>

StopFromSurface ==
  /\ Room /\ row # NoRow
  /\ Submit(Task("surface", "none", row.sid, 0, "none"))
  /\ UNCHANGED <<db, os, env, inflight, runs>>

Expire ==
  /\ row # NoRow /\ ~row.old
  /\ row' = [row EXCEPT !.old = TRUE]
  /\ UNCHANGED <<acks, cmds, alertRows, os, env, queue, inflight, runs>>

Fire ==
  /\ \E a \in osAlerts : osAlerts' = osAlerts \ {a} /\ fired' = fired \cup {a}
  /\ UNCHANGED <<db, driver, grant, visible, env, queue, inflight, runs>>

Fault == faults < MaxFaults /\ faults' = faults + 1

Revoke ==
  /\ grant # "none" /\ Fault
  /\ grant' = "none"
  /\ UNCHANGED <<db, driver, osAlerts, visible, fired, proc, sent, lastSid, queue, inflight, runs>>

(* The process dies; a force-stop or a reboot takes the driver with it. *)
Crash ==
  /\ proc # "down" /\ Fault
  /\ proc' = "down" /\ visible' = FALSE /\ queue' = <<>> /\ inflight' = {}
  /\ driver' \in {driver, FALSE}
  /\ UNCHANGED <<db, osAlerts, grant, fired, sent, lastSid, runs>>

(* The user opens the application; after an update the record may no longer
   be readable. *)
Open ==
  /\ proc # "ui" /\ Len(queue) < MaxQueue
  /\ proc' = "ui" /\ visible' = TRUE
  /\ Submit(Task("reconcile", "none", 0, 0, TRUE))
  /\ \/ UNCHANGED <<row, faults>>
     \/ row # NoRow /\ proc = "down" /\ row' = [row EXCEPT !.ok = FALSE] /\ Fault
  /\ UNCHANGED <<acks, cmds, alertRows, driver, osAlerts, grant, fired, sent, lastSid,
                 inflight, runs>>

(* A location event starts the process without an interface. *)
Wake ==
  /\ proc = "down" /\ driver /\ Quota
  /\ proc' = "headless"
  /\ Submit(Task("batch", "none", 0, 0, "first"))
  /\ UNCHANGED <<db, os, sent, lastSid, faults, inflight, runs>>

-----------------------------------------------------------------------------
Work ==
  \E i \in 1..MaxQueue :
    \/ Lookup(i) \/ Load(i) \/ Prepare(i) \/ Start(i) \/ Replace(i)
    \/ UpdateSettings(i) \/ TransitAction(i) \/ Stop(i) \/ Batch(i) \/ Answer(i)
    \/ Reconcile(i) \/ Resume(i) \/ EndSession(i)
    \/ Effect(i) \/ EffectFails(i) \/ UndoStart(i) \/ Finish(i)

(* What waits for the user inside a task. *)
Prompted == \E i \in 1..MaxQueue : Decide(i) \/ SignedIn(i)

Next ==
  \/ Work \/ Prompted
  \/ Send \/ Resend \/ SignIn \/ Deliver \/ Respond
  \/ ChangeVisibility \/ Choose \/ StopFromSurface
  \/ Expire \/ Fire \/ Revoke \/ Crash \/ Open \/ Wake

Spec == Init /\ [][Next]_vars

(* The JavaScript event loop runs what is queued, and a registered location task
   keeps delivering.  Nothing makes a user answer a prompt or close a browser. *)
FairSpec == Spec /\ WF_vars(Work) /\ WF_vars(Deliver)

-----------------------------------------------------------------------------
(* Properties. *)

(* The executor is the primary defence and the compare-and-swap a backstop
   (serialExecutor.ts): what a task read is still the record when it commits,
   also across the permission prompt, so no commit ever meets a conflict. *)
SerialBackstop ==
  \A i \in DOMAIN queue :
    queue[i].pc \in {"act", "prompt"} =>
      /\ queue[i].cur.sid = row.sid
      /\ row # NoRow => Current(queue[i].cur)

(* A session that ended stays ended: no late batch, answer, command or effect
   writes its record again (terminate, compareAndSwap). *)
NoMutationAfterStop == row # NoRow => row.sid \notin acks

(* A command that names the revision it was issued against changes the session
   at most once, however often it is delivered and wherever the process dies:
   the revision refuses what the table of answers has forgotten. *)
StampedOnce == \A m \in DOMAIN sent : sent[m].rev # 0 => runs[m] <= 1

(* An answer from outside the executor is applied only while the route it was
   computed for is followed (commitReroute, applyTransitRefresh): a replacement
   or a newer request in between makes it stale. *)
AnswerFitsRoute ==
  [][\A i \in DOMAIN queue :
       Is(i, "answer") /\ row # NoRow /\ row' # NoRow /\ row'.rev # row.rev
         => row.sid = queue[i].sid /\ row.route = queue[i].arg.base]_vars

(* Tracking starts only for a session that is on record (start: consent, then
   commit, then the driver), so a crash never leaves the system tracking a
   session the user cannot discover. *)
TrackingIsRecorded ==
  [][~driver /\ driver' => row # NoRow /\ row.status # "preparing"]_vars

(* What the user sees of the record. *)
LiveView ==
  IF row = NoRow THEN [sid |-> 0, rev |-> 0, status |-> "none"]
  ELSE [sid |-> row.sid, rev |-> row.rev, status |-> row.status]

Contract == INSTANCE SessionContract
            WITH live <- LiveView, ended <- acks, issued <- lastSid, tracking <- driver

(* The page, the executor, the recovery, the system and any crash between two of
   their steps keep the contract of SessionContract: one session at a time, whole
   commits along its life cycle, no return of what ended (NavigationCoordinator.ts,
   SessionRepository.ts). *)
ImplementsSession == Contract!Spec

(* Nothing the system does for a session that is not active survives for ever
   if the shell reconciles again and again: a driver or an alert left behind by
   a crash, a failed effect, an unreadable record or an arrival is released. *)
Orphan == (driver \/ osAlerts # {}) /\ (row = NoRow \/ row.status # "active")

OrphansReleased ==
  []<>(\E i \in DOMAIN queue : Is(i, "reconcile")) => (Orphan ~> ~Orphan)

(* A failing task never strands the ones behind it (serialExecutor.ts): unless a
   permission prompt or the browser of a sign-in stays open for ever, both of
   which the executor waits for without a deadline, tasks leave the queue again
   and again, or it is empty. *)
Prompting == queue # <<>> /\ queue[1].pc \in {"prompt", "browser"}

TurnsEnd ==
  []<>~Prompting => []<>(queue = <<>>) \/ []<><<Len(queue') < Len(queue)>>_vars

(* qa/beta/transit-scenarios.md A-4, "Stop navigation before the alert is due:
   No alert fires": once the stop and its effects are done, the system holds no
   alert of a session that has ended. *)
StopCancelsAlerts == queue = <<>> => \A a \in osAlerts : a.sid \notin acks
=============================================================================
