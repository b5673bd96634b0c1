----------------------------- MODULE JobEvents -----------------------------
(***************************************************************************)
(* Live views of one administrative job: the in-process event bus          *)
(* (apps/api/src/services/job-events.ts), the SSE route that reads it      *)
(* (apps/api/src/routes/admin-job-events.ts) and the browser's EventSource *)
(* (apps/web/src/components/admin/activity/useJobEventStream.ts), which    *)
(* reconnects with the last event id it received.                          *)
(*                                                                         *)
(* The job is the sequence of its durable changes 1, 2, ... (a status, a   *)
(* progress value or a log line).  A change is committed to the database   *)
(* and published on the bus later, by code that awaited the commit, so     *)
(* publications may overtake each other, and some never come.  The bus and *)
(* the route run on one event loop: an action is the code between two      *)
(* awaits.                                                                 *)
(***************************************************************************)
EXTENDS Naturals, Sequences

CONSTANTS Viewers,         \* browser tabs that show the job
          RingSize,        \* events the bus retains for a reconnect
          MaxPending,      \* MAX_PENDING_EVENTS: events held back for a snapshot
          MaxChanges,      \* bound: changes of the job
          MaxRestarts,     \* bound: restarts of the API process
          MaxDisconnects   \* bound: lost connections

ASSUME RingAssumption == RingSize \in Nat \ {0}
ASSUME PendingAssumption == MaxPending \in Nat
ASSUME BoundsAssumption ==
  MaxChanges \in Nat /\ MaxRestarts \in Nat /\ MaxDisconnects \in Nat

VARIABLES
  committed,    \* changes in the database
  final,        \* the last of them made the job's status terminal
  unpublished,  \* committed, still to be published
  silent,       \* history: committed, and nothing in the process publishes it
  bus,          \* the bus has a JobState for the job
  log,          \* what that JobState published; the index is the cursor
  timer,        \* its dropTimer is set
  listeners,    \* viewers subscribed to it
  epoch,        \* history: which JobState this is
  restarts, disconnects,
  vpc,          \* viewer: where its connection is
  vid,          \* viewer: its last event id, 0 when it has none
  known,        \* viewer: changes its page shows
  readFinal,    \* viewer: the route's last read had a terminal status
  snap,         \* viewer: changes in the snapshot the route read
  snapCursor,   \* viewer: latestCursor before that read
  backlog,      \* viewer: events held back meanwhile
  base,         \* history: changes in the last snapshot its page was sent
  vepoch,       \* history: the JobState its event id belongs to
  stale         \* history: viewers served from an event id of another JobState

jobVars == <<committed, final, unpublished, silent>>
busVars == <<bus, log, timer, listeners, epoch>>
faultVars == <<restarts, disconnects>>
viewerVars == <<vpc, vid, known, readFinal, snap, snapCursor, backlog, base, vepoch, stale>>
vars == <<jobVars, busVars, faultVars, viewerVars>>

Changes == 1..MaxChanges
Events == [cursor : Nat, change : Changes]
Connected == {"lookup", "snapshot", "reread", "live", "closing"}

TypeOK ==
  /\ committed \in 0..MaxChanges
  /\ final \in BOOLEAN
  /\ unpublished \in SUBSET Changes
  /\ silent \in SUBSET Changes
  /\ bus \in BOOLEAN
  /\ log \in Seq(Changes)
  /\ timer \in BOOLEAN
  /\ listeners \in SUBSET Viewers
  /\ epoch \in Nat
  /\ restarts \in 0..MaxRestarts
  /\ disconnects \in 0..MaxDisconnects
  /\ vpc \in [Viewers -> {"away", "ended"} \cup Connected]
  /\ vid \in [Viewers -> Nat]
  /\ known \in [Viewers -> SUBSET Changes]
  /\ readFinal \in [Viewers -> BOOLEAN]
  /\ snap \in [Viewers -> 0..MaxChanges]
  /\ snapCursor \in [Viewers -> Nat]
  /\ backlog \in [Viewers -> Seq(Events)]
  /\ \A v \in Viewers : Len(backlog[v]) <= MaxPending
  /\ base \in [Viewers -> 0..MaxChanges]
  /\ vepoch \in [Viewers -> Nat]
  /\ stale \in SUBSET Viewers

Init ==
  /\ committed = 0 /\ final = FALSE /\ unpublished = {} /\ silent = {}
  /\ bus = FALSE /\ log = <<>> /\ timer = FALSE /\ listeners = {}
  /\ epoch = 0
  /\ restarts = 0 /\ disconnects = 0
  /\ vpc = [v \in Viewers |-> "away"]
  /\ vid = [v \in Viewers |-> 0]
  /\ known = [v \in Viewers |-> {}]
  /\ readFinal = [v \in Viewers |-> FALSE]
  /\ snap = [v \in Viewers |-> 0]
  /\ snapCursor = [v \in Viewers |-> 0]
  /\ backlog = [v \in Viewers |-> <<>>]
  /\ base = [v \in Viewers |-> 0]
  /\ vepoch = [v \in Viewers |-> 0]
  /\ stale = {}

-----------------------------------------------------------------------------
(* The job runner: commit, then publish. *)

NewChange(last) ==
  /\ ~final
  /\ committed < MaxChanges
  /\ committed' = committed + 1
  /\ final' = last

Commit(last) ==
  /\ NewChange(last)
  /\ unpublished' = unpublished \cup {committed + 1}
  /\ UNCHANGED <<silent, busVars, faultVars, viewerVars>>

(* A change nobody publishes: an observer sets a canceled job back to running, or
   the UPDATE of a status or of the progress commits and its answer is lost. *)
CommitUnannounced(last) ==
  /\ NewChange(last)
  /\ silent' = silent \cup {committed + 1}
  /\ UNCHANGED <<unpublished, busVars, faultVars, viewerVars>>

(* The change after which nothing changes any more. *)
Ends(change) == final /\ change = committed

(* The signal fired while a log line was inserted: it is not published. *)
Abandon(change) ==
  /\ change \in unpublished /\ ~Ends(change)
  /\ unpublished' = unpublished \ {change}
  /\ silent' = silent \cup {change}
  /\ UNCHANGED <<committed, final, busVars, faultVars, viewerVars>>

(* Mutant: the backlog of a viewer that is being primed is not bounded. *)
OverflowsNever(v) == FALSE

(* deliver, for a viewer whose snapshot is not written yet. *)
Overflows(v) == vpc[v] \in {"snapshot", "reread"} /\ Len(backlog[v]) >= MaxPending

(* publish and, for a terminal status, markTerminal: every listener is
   called before the function returns. *)
Publish(change) ==
  LET event == [cursor |-> Len(log) + 1, change |-> change]
      live == {v \in listeners : vpc[v] = "live"}
      held == {v \in listeners : vpc[v] \in {"snapshot", "reread"}}
      over == {v \in held : Overflows(v)}
  IN
  /\ change \in unpublished
  /\ unpublished' = unpublished \ {change}
  /\ bus' = TRUE
  /\ log' = Append(log, change)
  /\ timer' = (timer \/ Ends(change))
  /\ known' = [v \in Viewers |-> IF v \in live THEN known[v] \cup {change} ELSE known[v]]
  /\ vid' = [v \in Viewers |-> IF v \in live THEN event.cursor ELSE vid[v]]
  /\ backlog' = [v \in Viewers |->
       IF v \in over THEN <<>>
       ELSE IF v \in held THEN Append(backlog[v], event) ELSE backlog[v]]
  /\ vpc' = [v \in Viewers |->
       IF v \in over THEN "away"
       ELSE IF v \in live /\ Ends(change) THEN "closing" ELSE vpc[v]]
  /\ listeners' = listeners \ (over \cup (IF Ends(change) THEN live ELSE {}))
  /\ UNCHANGED <<committed, final, silent, epoch, faultVars,
                 readFinal, snap, snapCursor, base, vepoch, stale>>

(* The retention timer: minutes after the last publication. *)
Drop ==
  /\ bus /\ timer
  /\ unpublished = {}
  /\ bus' = FALSE
  /\ log' = <<>>
  /\ timer' = FALSE
  /\ listeners' = {}
  /\ epoch' = epoch + 1
  /\ UNCHANGED <<jobVars, faultVars, viewerVars>>

-----------------------------------------------------------------------------
(* The route *)

(* The browser connects, and the route reads the job. *)
Open(v) ==
  /\ vpc[v] = "away"
  /\ vpc' = [vpc EXCEPT ![v] = "lookup"]
  /\ readFinal' = [readFinal EXCEPT ![v] = final]
  /\ UNCHANGED <<jobVars, busVars, faultVars, vid, known, snap, snapCursor,
                 backlog, base, vepoch, stale>>

(* The cursor of ring[0]. *)
Oldest == IF Len(log) > RingSize THEN Len(log) - RingSize + 1 ELSE 1

(* Cursors of the events that are still in the ring. *)
Ring == Oldest..Len(log)

(* Mutant: the event before the ring's first is taken to be in the ring. *)
ReplayableTooFar(cursor) ==
  /\ bus
  /\ cursor \in 1..Len(log)
  /\ cursor + 2 >= Oldest

(* history: whether the events after a cursor are still in the ring. *)
Replayable(cursor) ==
  /\ bus
  /\ cursor \in 1..Len(log)
  /\ cursor + 1 >= Oldest

(* Mutant: a replay never looks at the status the route read. *)
AttachReplayForgets(v) ==
  LET replay == {c \in Ring : c > vid[v]}
      over == \E c \in replay : Ends(log[c])
  IN
  /\ vpc[v] = "lookup"
  /\ Replayable(vid[v])
  /\ known' = [known EXCEPT ![v] = @ \cup {log[c] : c \in replay}]
  /\ vid' = [vid EXCEPT ![v] = Len(log)]
  /\ stale' = IF vepoch[v] = epoch THEN stale ELSE stale \cup {v}
  /\ vpc' = [vpc EXCEPT ![v] = IF over THEN "closing" ELSE "live"]
  /\ listeners' = IF over THEN listeners ELSE listeners \cup {v}
  /\ UNCHANGED <<jobVars, bus, log, timer, epoch, faultVars,
                 readFinal, snap, snapCursor, backlog, base, vepoch>>

(* The cursor is known: replay what the ring has after it, up to a terminal
   status, then end the stream of a job that was already over. *)
AttachReplay(v) ==
  LET replay == {c \in Ring : c > vid[v]}
      ending == {c \in replay : Ends(log[c])}
      last == IF ending = {} THEN Len(log) ELSE CHOOSE c \in ending : TRUE
      over == ending # {} \/ readFinal[v]
  IN
  /\ vpc[v] = "lookup"
  /\ Replayable(vid[v])
  /\ known' = [known EXCEPT ![v] = @ \cup {log[c] : c \in {r \in replay : r <= last}}]
  /\ vid' = [vid EXCEPT ![v] = last]
  /\ stale' = IF vepoch[v] = epoch THEN stale ELSE stale \cup {v}
  /\ vpc' = [vpc EXCEPT ![v] = IF over THEN "closing" ELSE "live"]
  /\ listeners' = IF over THEN listeners ELSE listeners \cup {v}
  /\ UNCHANGED <<jobVars, bus, log, timer, epoch, faultVars,
                 readFinal, snap, snapCursor, backlog, base, vepoch>>

(* It is not, or there is none: subscribe, and read the job once more. *)
AttachSnapshot(v) ==
  /\ vpc[v] = "lookup"
  /\ ~Replayable(vid[v])
  /\ bus' = TRUE
  /\ listeners' = listeners \cup {v}
  /\ snapCursor' = [snapCursor EXCEPT ![v] = Len(log)]
  /\ vpc' = [vpc EXCEPT ![v] = "snapshot"]
  /\ UNCHANGED <<jobVars, log, timer, epoch, faultVars,
                 vid, known, readFinal, snap, backlog, base, vepoch, stale>>

Reread(v) ==
  /\ vpc[v] = "snapshot"
  /\ vpc' = [vpc EXCEPT ![v] = "reread"]
  /\ snap' = [snap EXCEPT ![v] = committed]
  /\ readFinal' = [readFinal EXCEPT ![v] = final]
  /\ UNCHANGED <<jobVars, busVars, faultVars, vid, known, snapCursor, backlog,
                 base, vepoch, stale>>

(* The places of the events held back that the snapshot's cursor does not cover. *)
HeldBack(v) == {i \in DOMAIN backlog[v] : backlog[v][i].cursor > snapCursor[v]}

(* Write the snapshot, then the backlog, up to a terminal status. *)
Prime(v) ==
  LET ending == {i \in HeldBack(v) : Ends(backlog[v][i].change)}
      over == readFinal[v] \/ ending # {}
      sent == IF readFinal[v] THEN {} ELSE {i \in HeldBack(v) : \A j \in ending : i <= j}
      last == CHOOSE i \in sent : \A j \in sent : j <= i
  IN
  /\ vpc[v] = "reread"
  /\ known' = [known EXCEPT ![v] = (1..snap[v]) \cup {backlog[v][i].change : i \in sent}]
  /\ vid' = [vid EXCEPT ![v] = IF sent = {} THEN snapCursor[v] ELSE backlog[v][last].cursor]
  /\ backlog' = [backlog EXCEPT ![v] = <<>>]
  /\ base' = [base EXCEPT ![v] = snap[v]]
  /\ vepoch' = [vepoch EXCEPT ![v] = epoch]
  /\ stale' = stale \ {v}
  /\ vpc' = [vpc EXCEPT ![v] = IF over THEN "closing" ELSE "live"]
  /\ listeners' = IF over THEN listeners \ {v} ELSE listeners
  /\ UNCHANGED <<jobVars, bus, log, timer, epoch, faultVars,
                 readFinal, snap, snapCursor>>

(* The end frame reaches the browser, which does not reconnect. *)
End(v) ==
  /\ vpc[v] = "closing"
  /\ vpc' = [vpc EXCEPT ![v] = "ended"]
  /\ UNCHANGED <<jobVars, busVars, faultVars, vid, known, readFinal, snap,
                 snapCursor, backlog, base, vepoch, stale>>

(* The connection is lost, or closed for a slow reader: the browser keeps
   the last event id it received. *)
Disconnect(v) ==
  /\ disconnects < MaxDisconnects
  /\ vpc[v] \in Connected
  /\ disconnects' = disconnects + 1
  /\ vpc' = [vpc EXCEPT ![v] = "away"]
  /\ listeners' = listeners \ {v}
  /\ backlog' = [backlog EXCEPT ![v] = <<>>]
  /\ UNCHANGED <<jobVars, bus, log, timer, epoch, restarts,
                 vid, known, readFinal, snap, snapCursor, base, vepoch, stale>>

(* The API process restarts: the bus is gone, and what was not published
   never will be. *)
Restart ==
  /\ restarts < MaxRestarts
  /\ restarts' = restarts + 1
  /\ unpublished' = {}
  /\ bus' = FALSE
  /\ log' = <<>>
  /\ timer' = FALSE
  /\ listeners' = {}
  /\ epoch' = epoch + 1
  /\ vpc' = [v \in Viewers |-> IF vpc[v] \in Connected THEN "away" ELSE vpc[v]]
  /\ backlog' = [v \in Viewers |-> <<>>]
  /\ UNCHANGED <<committed, final, silent, disconnects, vid, known, readFinal, snap,
                 snapCursor, base, vepoch, stale>>

-----------------------------------------------------------------------------
Route(v) == AttachReplay(v) \/ AttachSnapshot(v) \/ Reread(v) \/ Prime(v) \/ End(v)

Next ==
  \/ \E last \in BOOLEAN : Commit(last) \/ CommitUnannounced(last)
  \/ \E change \in Changes : Publish(change) \/ Abandon(change)
  \/ Drop
  \/ \E v \in Viewers : Open(v) \/ Route(v) \/ Disconnect(v)
  \/ Restart

Spec == Init /\ [][Next]_vars

(* A publication follows its commit in the same function, unless the signal has
   fired; the route's awaited reads return, and EventSource reconnects by itself. *)
Fairness ==
  /\ \A change \in Changes : WF_vars(Publish(change) \/ Abandon(change))
  /\ \A v \in Viewers : WF_vars(Open(v)) /\ WF_vars(Route(v))

LiveSpec == Spec /\ Fairness

-----------------------------------------------------------------------------
(* What a page can lack for good: a change that the job runner never publishes,
   committed after the last snapshot the page was sent. *)
Untold(v) == {c \in silent : c > base[v]}

(* A live page shows the whole job but for those: every other committed change is
   on it or will be published to it, whatever was committed or published between
   the route's reads, its subscription and the priming of the stream.  Pages
   served from an event id of a JobState that is gone are left out: once the
   new process has issued as many events, such an id passes for its own. *)
LiveIsComplete ==
  \A v \in Viewers :
     vpc[v] = "live" /\ v \notin stale =>
        /\ 1..committed \subseteq known[v] \cup unpublished \cup Untold(v)
        /\ v \in listeners

(* The stream of a finished job ends for every page and stays ended, also for one
   that lost its connection between the terminal status and the end frame, or
   whose terminal status a restart kept from being published.  A terminal status
   that was committed and never published leaves open the streams that were live
   when it was, and only those: the next connection reads it.  A page served from
   an event id of a JobState that is gone is left out: its id may be the
   new cursor of the terminal status, which then is never sent to it. *)
ViewersEnd ==
  final ~> [](\A v \in Viewers :
                 \/ vpc[v] = "ended" \/ v \in stale
                 \/ vpc[v] = "live" /\ committed \in Untold(v))
=============================================================================
