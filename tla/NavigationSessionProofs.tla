---------------------- MODULE NavigationSessionProofs ----------------------
(***************************************************************************)
(* Proofs about the navigation authority, for any number of messages,      *)
(* sessions, revisions and faults.  The executor makes the task whose turn *)
(* it is the only one that changes the record, so what that task has read  *)
(* is the record (but for its age); revisions only grow, and a session id  *)
(* is never used again, so whatever was named by an earlier one is told    *)
(* apart for ever.                                                         *)
(***************************************************************************)
EXTENDS NavigationSession, SequenceTheorems, TLAPS

Rows == Sessions \cup {NoRow}

Types == Commands \cup {"undo", "batch", "answer", "reconcile", "resume", "end", "surface", "auth"}

Effects == {"start-location", "update-profile", "stop-location", "cancel-alerts",
            "forget-alerts", "record-alerts", "schedule-alerts", "clear-alerts", "ask", "publish"}

(* The first half of an effect on the alerts never comes without the second. *)
Halves == {"cancel-alerts", "record-alerts"}

Plans == {p \in Seq(Effects) : \A k \in 1..Len(p) : p[k] \in Halves => k < Len(p)}

Answers == [ok : BOOLEAN, base : Nat]

Args == Kinds \cup {"first", "retry", "none"} \cup BOOLEAN \cup Nat \cup Answers

Tasks == [type : Types, msg : Msgs \cup {"none"}, sid : Nat, rev : Nat, arg : Args,
          pc : {"lookup", "load", "browser", "act", "prompt", "effects"},
          cur : Rows, eff : Plans, res : Nat, failed : BOOLEAN]

(* What a task read is the record, readable, which may have expired meanwhile. *)
Reads(s) ==
  /\ row # NoRow => row.ok
  /\ s = row \/ (row # NoRow /\ s = [row EXCEPT !.old = FALSE])

CurFits(t) ==
  /\ t.pc \in {"act", "prompt"} => Reads(t.cur)
  /\ t.pc = "prompt" => t.type = "start"

(* Effects that start or pace the driver are left only while the session is on record. *)
EffFits(t) ==
  t.pc = "effects" /\ (\E k \in 1..Len(t.eff) : Drives(t.eff[k])) =>
    row # NoRow /\ row.status # "preparing"

(* A request is named by a revision of its session; the one the record still expects was
   made for the route it follows. *)
RequestFits(sid, id, base) ==
  /\ id # 0 /\ sid <= lastSid
  /\ row # NoRow /\ sid = row.sid => id <= row.rev /\ (id = row.req => base = row.route)

AnswerFits(t) ==
  t.type = "answer" => t.arg \in Answers /\ RequestFits(t.sid, t.rev, t.arg.base)

CommandFits(t) ==
  t.type \in Commands =>
    /\ t.msg \in DOMAIN sent
    /\ t.type = sent[t.msg].type /\ t.sid = sent[t.msg].sid
    /\ t.rev = sent[t.msg].rev /\ t.arg = sent[t.msg].arg

TaskFits(t) == CurFits(t) /\ EffFits(t) /\ AnswerFits(t) /\ CommandFits(t)

(* Only the task whose turn it is has read anything. *)
Waits(t) == t.pc \in {"lookup", "load", "browser"}

QueueFits ==
  /\ queue \in Seq(Tasks) /\ Len(queue) <= MaxQueue
  /\ proc = "down" => queue = <<>>
  /\ \A i \in 1..Len(queue) : TaskFits(queue[i]) /\ (i # 1 => Waits(queue[i]))

(* The session is not again what a stamped command that was carried out asks for. *)
Spent(c) ==
  \/ row = NoRow
  \/ row.sid # c.sid
  \/ row.rev > c.rev /\ c.type # "stop" /\ (c.type = "replace" => row.route > c.arg)

SentFits(m) ==
  /\ sent[m] \in Tasks /\ sent[m].type \in Commands /\ sent[m].msg = m /\ Waits(sent[m])
  /\ sent[m].type = "prepare" => sent[m].arg \in Kinds
  /\ sent[m].sid <= lastSid
  /\ row # NoRow /\ row.sid = sent[m].sid => sent[m].rev <= row.rev
  /\ sent[m].rev # 0 => sent[m].sid # 0 /\ sent[m].type \in {"replace", "settings", "stop"}
  /\ sent[m].type = "replace" =>
       sent[m].arg \in Nat /\ (row # NoRow /\ row.sid = sent[m].sid => sent[m].arg <= row.rev)
  /\ sent[m].rev # 0 => runs[m] <= 1 /\ (runs[m] = 1 => Spent(sent[m]))

HistoryFits ==
  /\ \A m \in DOMAIN sent : SentFits(m)
  /\ \A m \in Msgs \ DOMAIN sent : runs[m] = 0

RequestsFit ==
  \A q \in inflight : q \in [sid : Nat, id : Nat, base : Nat] /\ RequestFits(q.sid, q.id, q.base)

IndInv == TypeOK /\ QueueFits /\ NoMutationAfterStop /\ HistoryFits /\ RequestsFit

(* The ways a step changes the record: not at all, its end, its age or readability, a
   commit of the same session, a new session. *)
Touches ==
  /\ row # NoRow /\ row' \in Sessions
  /\ row'.sid = row.sid /\ row'.rev = row.rev /\ row'.status = row.status
  /\ row'.route = row.route /\ row'.req = row.req

Commits ==
  /\ row # NoRow /\ row' \in Sessions
  /\ row'.sid = row.sid /\ row'.rev = row.rev + 1
  /\ row'.route \in {row.route, row.rev + 1}
  /\ \/ row'.req \in {row.req, row.rev + 1} /\ row'.route = row.route
     \/ row'.req = 0

Begins == row' \in Sessions /\ row'.sid = lastSid + 1

RowStep ==
  \/ lastSid' = lastSid /\ (row' = row \/ row' = NoRow \/ Touches \/ Commits)
  \/ lastSid' = lastSid + 1 /\ Begins

-----------------------------------------------------------------------------
(* What is said of requests and commands outlives every change of the record. *)

LEMMA RowValue ==
  ASSUME TypeOK
  PROVE  /\ lastSid \in Nat
         /\ row # NoRow => /\ row \in Sessions /\ row.sid \in Nat \ {0} /\ row.rev \in Nat \ {0}
                           /\ row.route \in Nat \ {0} /\ row.req \in Nat
                           /\ row.sid <= lastSid /\ row.route <= row.rev /\ row.req <= row.rev
         /\ NoRow.sid = 0 /\ NoRow.rev = 0 /\ NoRow \notin Sessions
BY DEF TypeOK, RowTypeOK, Sessions, NoRow

LEMMA RequestStays ==
  ASSUME TypeOK, RowStep, NEW a \in Nat, NEW b \in Nat, NEW c, RequestFits(a, b, c)
  PROVE  RequestFits(a, b, c)'
<1> USE RowValue
<1>1. CASE lastSid' = lastSid /\ (row' = row \/ row' = NoRow)
  BY <1>1 DEF RequestFits
<1>2. CASE lastSid' = lastSid /\ Touches
  BY <1>2 DEF RequestFits, Touches
<1>3. CASE lastSid' = lastSid /\ Commits
  BY <1>3 DEF RequestFits, Commits
<1>4. CASE lastSid' = lastSid + 1 /\ Begins
  BY <1>4 DEF RequestFits, Begins
<1> QED
  BY <1>1, <1>2, <1>3, <1>4 DEF RowStep

LEMMA TaskFields ==
  ASSUME NEW t \in Tasks
  PROVE  /\ t.type \in Types /\ t.msg \in Msgs \cup {"none"} /\ t.sid \in Nat /\ t.rev \in Nat
         /\ t.arg \in Args /\ t.pc \in {"lookup", "load", "browser", "act", "prompt", "effects"}
         /\ t.cur \in Rows /\ t.eff \in Plans /\ t.res \in Nat /\ t.failed \in BOOLEAN
BY DEF Tasks

LEMMA SpentStays ==
  ASSUME TypeOK, RowStep, NEW c \in Tasks, c.sid <= lastSid, Spent(c),
         c.type = "replace" => c.arg \in Nat
  PROVE  Spent(c)'
<1> USE RowValue, TaskFields
<1>1. CASE lastSid' = lastSid /\ (row' = row \/ row' = NoRow)
  BY <1>1 DEF Spent
<1>2. CASE lastSid' = lastSid /\ Touches
  BY <1>2 DEF Spent, Touches
<1>3. CASE lastSid' = lastSid /\ Commits
  BY <1>3 DEF Spent, Commits
<1>4. CASE lastSid' = lastSid + 1 /\ Begins
  BY <1>4 DEF Spent, Begins
<1> QED
  BY <1>1, <1>2, <1>3, <1>4 DEF RowStep

(* All but the count of runs. *)
LEMMA SentStays ==
  ASSUME TypeOK, RowStep, NEW m \in DOMAIN sent, SentFits(m), sent'[m] = sent[m],
         runs'[m] = runs[m] \/ (sent[m].rev # 0 => runs'[m] = 1 /\ Spent(sent[m])')
  PROVE  SentFits(m)'
<1> USE RowValue
<1> DEFINE c == sent[m]
<1>1. /\ c \in Tasks /\ c.sid <= lastSid
      /\ row # NoRow /\ row.sid = c.sid => c.rev <= row.rev
      /\ c.type = "replace" =>
            c.arg \in Nat /\ (row # NoRow /\ row.sid = c.sid => c.arg <= row.rev)
      /\ c.rev # 0 => runs[m] <= 1 /\ (runs[m] = 1 => Spent(c))
  BY DEF SentFits
<1>2. c.sid \in Nat /\ c.rev \in Nat
  BY <1>1, TaskFields
<1>3. /\ c.sid <= lastSid'
      /\ row' # NoRow /\ row'.sid = c.sid =>
           row # NoRow /\ row.sid = c.sid /\ row'.rev \in {row.rev, row.rev + 1}
  BY <1>1, <1>2 DEF RowStep, Touches, Commits, Begins
<1>4. /\ row' # NoRow /\ row'.sid = c.sid => c.rev <= row'.rev
      /\ c.type = "replace" /\ row' # NoRow /\ row'.sid = c.sid => c.arg <= row'.rev
  BY <1>1, <1>2, <1>3
<1>5. c.rev # 0 => runs'[m] <= 1 /\ (runs'[m] = 1 => Spent(c)')
  <2>1. c.rev # 0 /\ Spent(c) => Spent(c)'
    BY <1>1, SpentStays
  <2> QED
    BY <1>1, <2>1
<1> QED
  BY <1>1, <1>3, <1>4, <1>5 DEF SentFits, Waits, Spent

-----------------------------------------------------------------------------
(* The queue. *)

(* The page's commands are kept. *)
SentGrows ==
  /\ DOMAIN sent \subseteq DOMAIN sent'
  /\ \A m \in DOMAIN sent : sent'[m] = sent[m]

LEMMA AnswerStays ==
  ASSUME TypeOK, RowStep, SentGrows, NEW t \in Tasks, AnswerFits(t), CommandFits(t)
  PROVE  AnswerFits(t)' /\ CommandFits(t)'
<1>1. AnswerFits(t)'
  <2> SUFFICES ASSUME t.type = "answer"
               PROVE  t.arg \in Answers /\ RequestFits(t.sid, t.rev, t.arg.base)'
    BY DEF AnswerFits
  <2>1. t.arg \in Answers /\ RequestFits(t.sid, t.rev, t.arg.base)
    BY DEF AnswerFits
  <2>2. t.sid \in Nat /\ t.rev \in Nat
    BY TaskFields
  <2> QED
    BY <2>1, <2>2, RequestStays
<1>2. CommandFits(t)'
  BY DEF CommandFits, SentGrows
<1> QED
  BY <1>1, <1>2

LEMMA WaiterStays ==
  ASSUME TypeOK, RowStep, SentGrows, NEW t \in Tasks, TaskFits(t), Waits(t)
  PROVE  TaskFits(t)'
<1>1. AnswerFits(t)' /\ CommandFits(t)'
  BY AnswerStays DEF TaskFits
<1> QED
  BY <1>1 DEF TaskFits, CurFits, EffFits, Waits

(* The record stays, or only its age changes. *)
LEMMA TaskStays ==
  ASSUME TypeOK, SentGrows, NEW t \in Tasks, TaskFits(t), lastSid' = lastSid, row' = row
  PROVE  TaskFits(t)'
<1>1. AnswerFits(t)' /\ CommandFits(t)'
  BY AnswerStays DEF TaskFits, RowStep
<1>2. CurFits(t)' /\ EffFits(t)'
  BY DEF TaskFits, CurFits, EffFits, Reads
<1> QED
  BY <1>1, <1>2 DEF TaskFits

LEMMA TaskPlaced ==
  ASSUME NEW i, NEW t, queue'[i] = t, TaskFits(t)'
  PROVE  TaskFits(queue[i])'
BY DEF TaskFits, CurFits, EffFits, AnswerFits, CommandFits, RequestFits, Reads

LEMMA HeadMoves ==
  ASSUME TypeOK, QueueFits, RowStep, queue # <<>>, NEW u \in Tasks,
         queue' = [queue EXCEPT ![1] = u], TaskFits(u)', proc' = proc, sent' = sent
  PROVE  QueueFits'
<1>1. queue \in Seq(Tasks) /\ Len(queue) \in Nat /\ Len(queue) # 0
  BY EmptySeq DEF QueueFits
<1>2. queue' \in Seq(Tasks) /\ Len(queue') = Len(queue)
      /\ \A i \in 1..Len(queue) : queue'[i] = IF i = 1 THEN u ELSE queue[i]
  BY <1>1, ExceptSeq
<1>3. ASSUME NEW i \in 1..Len(queue)
      PROVE  TaskFits(queue[i])' /\ (i # 1 => Waits(queue[i])')
  <2>1. CASE i = 1
    <3>1. queue'[i] = u
      BY <1>2, <2>1
    <3> QED
      BY <2>1, <3>1, TaskPlaced
  <2>2. CASE i # 1
    <3>1. PICK t \in Tasks : queue[i] = t /\ queue'[i] = t /\ TaskFits(t) /\ Waits(t)
      BY <1>1, <1>2, <2>2, ElementOfSeq DEF QueueFits
    <3>2. TaskFits(t)'
      BY <3>1, WaiterStays DEF SentGrows
    <3> QED
      BY <3>1, <3>2, TaskPlaced DEF Waits
  <2> QED
    BY <2>1, <2>2
<1>4. proc' # "down"
  BY DEF QueueFits
<1> QED
  BY <1>1, <1>2, <1>3, <1>4 DEF QueueFits

(* A new task joins the queue; the record may change only while the queue is empty. *)
LEMMA TaskJoins ==
  ASSUME TypeOK, QueueFits, RowStep, SentGrows, NEW u \in Tasks, Waits(u), TaskFits(u)',
         queue' = Append(queue, u), proc' # "down",
         queue = <<>> \/ (Len(queue) < MaxQueue /\ lastSid' = lastSid /\ row' = row)
  PROVE  QueueFits'
<1>1. queue \in Seq(Tasks) /\ Len(queue) \in Nat /\ (queue = <<>> => Len(queue) = 0)
  BY EmptySeq, LenProperties DEF QueueFits
<1>2. /\ queue' \in Seq(Tasks) /\ Len(queue') = Len(queue) + 1 /\ queue'[Len(queue) + 1] = u
      /\ \A i \in 1..Len(queue) : queue'[i] = queue[i]
  BY <1>1, AppendProperties
<1>3. Len(queue') <= MaxQueue
  BY <1>1, <1>2, BoundsAssumption
<1>4. ASSUME NEW i \in 1..Len(queue')
      PROVE  TaskFits(queue[i])' /\ (i # 1 => Waits(queue[i])')
  <2>1. CASE i = Len(queue) + 1
    <3>1. queue'[i] = u
      BY <1>2, <2>1
    <3> QED
      BY <3>1, TaskPlaced DEF Waits
  <2>2. CASE i # Len(queue) + 1
    <3>1. i \in 1..Len(queue)
      BY <1>1, <1>2, <2>2
    <3>2. PICK t \in Tasks :
            queue[i] = t /\ queue'[i] = t /\ TaskFits(t) /\ (i # 1 => Waits(t))
      BY <1>1, <1>2, <3>1, ElementOfSeq DEF QueueFits
    <3>3. lastSid' = lastSid /\ row' = row
      BY <1>1, <3>1
    <3>4. TaskFits(t)'
      BY <3>2, <3>3, TaskStays
    <3> QED
      BY <3>2, <3>4, TaskPlaced DEF Waits
  <2> QED
    BY <2>1, <2>2
<1> QED
  BY <1>2, <1>3, <1>4 DEF QueueFits

LEMMA HeadLeaves ==
  ASSUME TypeOK, QueueFits, queue # <<>>, queue' = RemoveAt(queue, 1),
         lastSid' = lastSid, row' = row, proc' = proc, sent' = sent
  PROVE  QueueFits'
<1>1. queue \in Seq(Tasks) /\ Len(queue) \in Nat /\ Len(queue) # 0
  BY EmptySeq, LenProperties DEF QueueFits
<1>2. /\ queue' \in Seq(Tasks) /\ Len(queue') = Len(queue) - 1
      /\ \A i \in 1..(Len(queue) - 1) : queue'[i] = queue[i + 1]
  <2> DEFINE rest == SubSeq(queue, 2, Len(queue))
             none == SubSeq(queue, 1, 0)
  <2>1. /\ rest \in Seq(Tasks) /\ Len(rest) = Len(queue) - 1
        /\ \A i \in 1..(Len(queue) - 1) : rest[i] = queue[i + 1]
    <3>1. /\ rest \in Seq(Tasks)
          /\ Len(rest) = IF 2 <= Len(queue) THEN Len(queue) - 2 + 1 ELSE 0
          /\ \A i \in 1..(Len(queue) - 2 + 1) : rest[i] = queue[2 + i - 1]
      <4>1. 2 \in 1..(Len(queue) + 1) /\ Len(queue) \in 2 - 1 .. Len(queue)
        BY <1>1
      <4> QED
        BY <1>1, <4>1, SubSeqProperties
    <3>2. Len(queue) - 2 + 1 = Len(queue) - 1
          /\ \A i \in 1..(Len(queue) - 1) : 2 + i - 1 = i + 1
      BY <1>1
    <3> QED
      BY <1>1, <3>1, <3>2
  <2>2. none = <<>>
    BY <1>1, SubSeqProperties, EmptySeq
  <2>3. queue' = none \o rest
    BY <1>1 DEF RemoveAt
  <2> HIDE DEF rest, none
  <2>4. queue' = rest
    BY <2>1, <2>2, <2>3, ConcatEmptySeq
  <2> QED
    BY <2>1, <2>4
<1>3. ASSUME NEW i \in 1..Len(queue')
      PROVE  TaskFits(queue[i])' /\ Waits(queue[i])'
  <2>1. i + 1 \in 1..Len(queue) /\ i + 1 # 1 /\ queue'[i] = queue[i + 1]
    BY <1>1, <1>2
  <2>2. PICK t \in Tasks : queue'[i] = t /\ TaskFits(t) /\ Waits(t)
    BY <1>1, <2>1, ElementOfSeq DEF QueueFits
  <2>3. TaskFits(t)'
    BY <2>2, TaskStays DEF SentGrows
  <2> QED
    BY <2>2, <2>3, TaskPlaced DEF Waits
<1>4. proc' # "down" /\ Len(queue') <= MaxQueue
  BY <1>1, <1>2, BoundsAssumption DEF QueueFits
<1> QED
  BY <1>2, <1>3, <1>4 DEF QueueFits

-----------------------------------------------------------------------------
(* The task whose turn it is. *)

LEMMA Turns ==
  ASSUME QueueFits, NEW i, NEW pc, At(i, pc)
  PROVE  /\ i = 1 /\ queue # <<>> /\ queue \in Seq(Tasks) /\ Len(queue) \in Nat /\ 1 \in 1..Len(queue)
         /\ DOMAIN queue = 1..Len(queue)
         /\ queue[1] \in Tasks /\ TaskFits(queue[1]) /\ queue[1].pc = pc /\ proc # "down"
<1>1. queue \in Seq(Tasks) /\ Len(queue) \in Nat /\ DOMAIN queue = 1..Len(queue)
  BY LenProperties DEF QueueFits
<1>2. i = 1 /\ 1 \in 1..Len(queue) /\ queue[1].pc = pc
  BY <1>1 DEF At, Turn
<1>3. queue # <<>>
  BY <1>1, <1>2, EmptySeq
<1>4. queue[1] \in Tasks
  BY <1>1, <1>2, ElementOfSeq
<1> QED
  BY <1>1, <1>2, <1>3, <1>4 DEF QueueFits

(* The same task, at its effects. *)
Done(t, sid, effects) == [t EXCEPT !.pc = "effects", !.res = sid, !.eff = effects]

LEMMA ThenIsDone ==
  ASSUME queue \in Seq(Tasks), 1 \in 1..Len(queue), NEW sid, NEW effects, Then(1, sid, effects)
  PROVE  queue' = [queue EXCEPT ![1] = Done(queue[1], sid, effects)]
<1>1. DOMAIN queue = 1..Len(queue)
  BY LenProperties
<1> QED
  BY <1>1 DEF Then, Done

LEMMA DoneFields ==
  ASSUME NEW t \in Tasks, NEW sid \in Nat, NEW effects \in Plans
  PROVE  /\ Done(t, sid, effects) \in Tasks
         /\ Done(t, sid, effects).pc = "effects" /\ Done(t, sid, effects).eff = effects
         /\ Done(t, sid, effects).type = t.type /\ Done(t, sid, effects).msg = t.msg
         /\ Done(t, sid, effects).sid = t.sid /\ Done(t, sid, effects).rev = t.rev
         /\ Done(t, sid, effects).arg = t.arg
BY DEF Tasks, Done

(* Whether a plan starts or paces the driver. *)
Driving(p) == \E k \in 1..Len(p) : Drives(p[k])

LEMMA DoneFits ==
  ASSUME TypeOK, RowStep, sent' = sent, NEW t \in Tasks, TaskFits(t), NEW sid \in Nat,
         NEW effects \in Plans,
         Driving(effects) => row' # NoRow /\ row'.status # "preparing"
  PROVE  TaskFits(Done(t, sid, effects))'
<1> DEFINE u == Done(t, sid, effects)
<1>1. AnswerFits(t)' /\ CommandFits(t)'
  BY AnswerStays DEF TaskFits, SentGrows
<1>2. /\ u.pc = "effects" /\ u.eff = effects /\ u.type = t.type /\ u.msg = t.msg
      /\ u.sid = t.sid /\ u.rev = t.rev /\ u.arg = t.arg
  BY DoneFields
<1> HIDE DEF u
<1> SUFFICES TaskFits(u)'
  BY DEF u
<1>3. AnswerFits(u)' /\ CommandFits(u)'
  BY <1>1, <1>2 DEF AnswerFits, CommandFits
<1>4. CurFits(u)' /\ EffFits(u)'
  BY <1>2 DEF CurFits, EffFits, Driving, Drives
<1> QED
  BY <1>3, <1>4 DEF TaskFits

(* The plans of the commits, and which of them concern the driver. *)
LEMMA ShortPlans ==
  /\ <<>> \in Plans /\ ~Driving(<<>>)
  /\ Cleanup \in Plans /\ ~Driving(Cleanup)
  /\ Release \in Plans /\ ~Driving(Release)
  /\ SyncAlerts \in Plans /\ ~Driving(SyncAlerts)
  /\ <<"stop-location">> \in Plans /\ ~Driving(<<"stop-location">>)
  /\ <<"ask">> \in Plans
  /\ <<"start-location">> \in Plans /\ <<"update-profile">> \in Plans
  /\ <<"start-location", "publish">> \in Plans
BY DEF Plans, Driving, Drives, Effects, Halves, Cleanup, Release, SyncAlerts

LEMMA LongPlans ==
  ASSUME NEW p \in Plans, NEW q \in Plans
  PROVE  p \o q \in Plans
<1>1. p \in Seq(Effects) /\ q \in Seq(Effects) /\ Len(p) \in Nat /\ Len(q) \in Nat
  BY LenProperties DEF Plans
<1>2. /\ p \o q \in Seq(Effects) /\ Len(p \o q) = Len(p) + Len(q)
      /\ \A k \in 1..(Len(p) + Len(q)) :
            (p \o q)[k] = IF k <= Len(p) THEN p[k] ELSE q[k - Len(p)]
  BY <1>1, ConcatProperties
<1>3. ASSUME NEW k \in 1..Len(p \o q), (p \o q)[k] \in Halves
      PROVE  k < Len(p \o q)
  <2>1. CASE k <= Len(p)
    <3>1. k \in 1..Len(p) /\ p[k] \in Halves
      BY <1>1, <1>2, <1>3, <2>1
    <3>2. k < Len(p)
      BY <3>1 DEF Plans
    <3> QED
      BY <1>1, <1>2, <3>2
  <2>2. CASE ~(k <= Len(p))
    <3>1. k - Len(p) \in 1..Len(q) /\ q[k - Len(p)] \in Halves
      BY <1>1, <1>2, <1>3, <2>2
    <3>2. k - Len(p) < Len(q)
      BY <3>1 DEF Plans
    <3> QED
      BY <1>1, <1>2, <3>2
  <2> QED
    BY <2>1, <2>2
<1> QED
  BY <1>2, <1>3 DEF Plans

-----------------------------------------------------------------------------
(* The history. *)

LEMMA HistoryStays ==
  ASSUME TypeOK, HistoryFits, RowStep, sent' = sent, runs' = runs
  PROVE  HistoryFits'
<1>1. ASSUME NEW m \in DOMAIN sent PROVE SentFits(m)'
  BY SentStays DEF HistoryFits
<1> QED
  BY <1>1 DEF HistoryFits

(* A stamped command that runs has not run before, and will not run again. *)
LEMMA HistoryRuns ==
  ASSUME TypeOK, HistoryFits, RowStep, sent' = sent, queue[1] \in Tasks, TaskFits(queue[1]),
         runs' = Ran(1),
         \A m \in DOMAIN sent :
           queue[1].type \in Commands /\ m = queue[1].msg /\ sent[m].rev # 0 =>
             ~Spent(sent[m]) /\ Spent(sent[m])'
  PROVE  HistoryFits' /\ runs' \in [Msgs -> Nat]
<1> DEFINE n == queue[1].msg
<1>1. runs \in [Msgs -> Nat] /\ DOMAIN sent \subseteq Msgs
  BY DEF TypeOK
<1>2. CASE queue[1].type \notin Commands
  BY <1>1, <1>2, HistoryStays DEF Ran
<1>3. CASE queue[1].type \in Commands
  <2>1. n \in DOMAIN sent /\ queue[1].rev = sent[n].rev /\ SentFits(n)
    BY <1>3 DEF TaskFits, CommandFits, HistoryFits
  <2>2. runs' = [runs EXCEPT ![n] = @ + 1]
    BY <1>3 DEF Ran
  <2>3. sent[n].rev # 0 => runs'[n] = 1
    <3>1. sent[n].rev # 0 => runs[n] \in Nat /\ runs[n] <= 1 /\ runs[n] # 1
      BY <1>1, <1>3, <2>1 DEF SentFits
    <3>2. runs'[n] = runs[n] + 1
      BY <1>1, <2>1, <2>2
    <3> QED
      BY <3>1, <3>2
  <2>4. PICK k : k = n
    OBVIOUS
  <2>5. sent[k].rev # 0 => Spent(sent[k])'
    BY <1>3, <2>1, <2>4
  <2>6. SentFits(k)'
    BY <2>1, <2>3, <2>4, <2>5, SentStays
  <2>7. ASSUME NEW m \in DOMAIN sent, m # k PROVE SentFits(m)'
    <3>1. runs'[m] = runs[m]
      BY <1>1, <2>2, <2>4, <2>7
    <3> QED
      BY <3>1, SentStays DEF HistoryFits
  <2>8. \A m \in Msgs \ DOMAIN sent : runs'[m] = 0
    BY <1>1, <2>1, <2>2 DEF HistoryFits
  <2>9. runs' \in [Msgs -> Nat]
    BY <1>1, <2>2
  <2> QED
    BY <2>4, <2>6, <2>7, <2>8, <2>9 DEF HistoryFits
<1> QED
  BY <1>2, <1>3

-----------------------------------------------------------------------------
(* The steps of the task whose turn it is, by what they do to the record. *)

LEMMA QueueTyped ==
  ASSUME NEW q \in Seq(Tasks)
  PROVE  \A i \in DOMAIN q : q[i].cur = NoRow \/ q[i].cur \in Sessions
<1>1. \A i \in DOMAIN q : q[i] \in Tasks
  BY LenProperties, ElementOfSeq
<1> QED
  BY <1>1, TaskFields DEF Rows

RecordTyped ==
  /\ RowTypeOK /\ acks \subseteq 1..lastSid
  /\ cmds \in [Msgs -> {None} \cup Nat] /\ alertRows \subseteq Alerts

LEMMA ActFits ==
  ASSUME IndInv, RowStep, queue # <<>>, NEW u \in Tasks, queue' = [queue EXCEPT ![1] = u],
         TaskFits(u)', RecordTyped', NoMutationAfterStop', HistoryFits',
         runs' \in [Msgs -> Nat], grant' \in {"none", "foreground", "background"},
         UNCHANGED <<driver, osAlerts, visible, fired, proc, sent, faults, inflight>>
  PROVE  IndInv'
<1>0. TypeOK /\ QueueFits /\ RequestsFit
  BY DEF IndInv
<1>1. QueueFits'
  BY <1>0, HeadMoves
<1>2. lastSid' \in Nat
  BY <1>0 DEF TypeOK, RowStep
<1>3. /\ Len(queue') <= MaxQueue
      /\ \A i \in DOMAIN queue' : queue'[i].cur = NoRow \/ queue'[i].cur \in Sessions
  BY <1>1, QueueTyped DEF QueueFits
<1>4. TypeOK'
  BY <1>0, <1>2, <1>3 DEF TypeOK, RecordTyped
<1>5. RequestsFit'
  <2>1. ASSUME NEW q \in inflight
        PROVE  q \in [sid : Nat, id : Nat, base : Nat] /\ RequestFits(q.sid, q.id, q.base)'
    BY <1>0, RequestStays DEF RequestsFit
  <2> QED
    BY <2>1 DEF RequestsFit
<1> QED
  BY <1>1, <1>4, <1>5 DEF IndInv

(* The task goes on without a change of the record. *)
LEMMA KeepFits ==
  ASSUME IndInv, queue # <<>>, NEW u \in Tasks, queue' = [queue EXCEPT ![1] = u], TaskFits(u)',
         grant' \in {"none", "foreground", "background"},
         UNCHANGED <<db, runs, env, driver, osAlerts, visible, fired, inflight>>
  PROVE  IndInv'
<1>1. RowStep /\ TypeOK /\ HistoryFits
  BY DEF RowStep, db, env, IndInv
<1>2. RecordTyped'
  BY <1>1 DEF TypeOK, RecordTyped, RowTypeOK, db, env
<1>3. HistoryFits'
  BY <1>1, HistoryStays DEF env
<1>4. NoMutationAfterStop'
  BY DEF IndInv, NoMutationAfterStop, db
<1>5. runs' \in [Msgs -> Nat]
  BY <1>1 DEF TypeOK
<1> QED
  BY <1>1, <1>2, <1>3, <1>4, <1>5, ActFits DEF env

LEMMA ThenKeepFits ==
  ASSUME IndInv, NEW pc, At(1, pc), NEW sid \in Nat, NEW effects \in Plans,
         Then(1, sid, effects), Driving(effects) => row # NoRow /\ row.status # "preparing",
         UNCHANGED <<db, runs, os, env, inflight>>
  PROVE  IndInv'
<1>0. TypeOK /\ QueueFits
  BY DEF IndInv
<1>1. PICK t : t = queue[1]
  OBVIOUS
<1>2. t \in Tasks /\ TaskFits(t) /\ queue \in Seq(Tasks) /\ 1 \in 1..Len(queue) /\ queue # <<>>
  BY <1>0, <1>1, Turns
<1>3. queue' = [queue EXCEPT ![1] = Done(t, sid, effects)]
  BY <1>1, <1>2, ThenIsDone
<1>4. TaskFits(Done(t, sid, effects))' /\ Done(t, sid, effects) \in Tasks
  BY <1>0, <1>2, DoneFits, DoneFields DEF RowStep, db, env
<1>5. grant' \in {"none", "foreground", "background"}
  BY <1>0 DEF TypeOK, os
<1> QED
  BY <1>2, <1>3, <1>4, <1>5, KeepFits DEF os

LEMMA RefuseFits ==
  ASSUME IndInv, NEW pc, At(1, pc), Refuse(1), UNCHANGED <<os, env, inflight>>
  PROVE  IndInv'
<1>1. UNCHANGED <<db, runs, os, env, inflight>> /\ Then(1, 0, <<>>)
  BY DEF Refuse
<1> QED
  BY <1>1, ThenKeepFits, ShortPlans

(* What a task has read, against the record. *)
LEMMA ReadsRow ==
  ASSUME TypeOK, NEW s, Reads(s)
  PROVE  /\ s.sid = row.sid /\ s.rev = row.rev /\ (s = NoRow <=> row = NoRow)
         /\ row # NoRow => /\ s \in Sessions /\ row \in Sessions
                           /\ s.route = row.route /\ s.req = row.req
                           /\ s.status = row.status /\ s.kind = row.kind
<1>1. CASE s = row
  BY <1>1, RowValue
<1>2. CASE row # NoRow /\ s = [row EXCEPT !.old = FALSE]
  <2>1. row \in Sessions
    BY <1>2, RowValue
  <2>2. /\ s \in Sessions /\ s.sid = row.sid /\ s.rev = row.rev /\ s.route = row.route
        /\ s.req = row.req /\ s.status = row.status /\ s.kind = row.kind
    BY <1>2, <2>1 DEF Sessions
  <2> QED
    BY <1>2, <2>1, <2>2, RowValue
<1> QED
  BY <1>1, <1>2 DEF Reads

LEMMA ForgetTyped ==
  ASSUME TypeOK, NEW sid, ForgetSession(sid)
  PROVE  cmds' \in [Msgs -> {None} \cup Nat] /\ alertRows' \subseteq Alerts
BY DEF TypeOK, ForgetSession

(* terminate: the record stays as it is or ends for ever. *)
LEMMA Terminates ==
  ASSUME TypeOK, NoMutationAfterStop, NEW sid, TerminateSession(sid), lastSid' = lastSid
  PROVE  /\ RowStep /\ RecordTyped' /\ NoMutationAfterStop'
         /\ row' = row \/ row' = NoRow
         /\ row # NoRow /\ row.sid = sid => row' = NoRow
<1>1. CASE row # NoRow /\ row.sid = sid
  <2>1. row' = NoRow /\ acks' = acks \cup {sid} /\ ForgetSession(sid)
    BY <1>1 DEF TerminateSession
  <2>2. acks' \subseteq 1..lastSid'
    <3>1. sid \in 1..lastSid
      BY <1>1, RowValue
    <3> QED
      BY <2>1, <3>1 DEF TypeOK
  <2> QED
    BY <2>1, <2>2, ForgetTyped DEF RecordTyped, RowTypeOK, RowStep, NoMutationAfterStop
<1>2. CASE ~(row # NoRow /\ row.sid = sid)
  <2>1. UNCHANGED <<row, acks, cmds, alertRows>>
    BY <1>2 DEF TerminateSession, db
  <2> QED
    BY <1>2, <2>1 DEF TypeOK, RecordTyped, RowTypeOK, RowStep, NoMutationAfterStop
<1> QED
  BY <1>1, <1>2

(* A task that ends the session, and counts as a run of its command or not. *)
LEMMA ThenEndFits ==
  ASSUME IndInv, NEW pc, At(1, pc), NEW sid \in Nat, NEW effects \in Plans, ~Driving(effects),
         Then(1, sid, effects), NEW gone, TerminateSession(gone),
         \/ runs' = runs
         \/ runs' = Ran(1) /\ queue[1].type = "start"
         \/ /\ runs' = Ran(1)
            /\ row # NoRow /\ row.sid = gone
            /\ queue[1].sid \in {0, row.sid} /\ queue[1].type \notin {"replace", "settings"},
         grant' \in {"none", "foreground", "background"},
         UNCHANGED <<driver, osAlerts, visible, fired, env, inflight>>
  PROVE  IndInv'
<1>0. TypeOK /\ QueueFits /\ NoMutationAfterStop /\ HistoryFits /\ lastSid' = lastSid /\ sent' = sent
  BY DEF IndInv, env
<1>1. PICK t : t = queue[1]
  OBVIOUS
<1>2. t \in Tasks /\ TaskFits(t) /\ queue \in Seq(Tasks) /\ 1 \in 1..Len(queue) /\ queue # <<>>
  BY <1>0, <1>1, Turns
<1>3. /\ RowStep /\ RecordTyped' /\ NoMutationAfterStop'
      /\ row # NoRow /\ row.sid = gone => row' = NoRow
  BY <1>0, Terminates
<1>4. queue' = [queue EXCEPT ![1] = Done(t, sid, effects)]
  BY <1>1, <1>2, ThenIsDone
<1>5. TaskFits(Done(t, sid, effects))' /\ Done(t, sid, effects) \in Tasks
  BY <1>0, <1>2, <1>3, DoneFits, DoneFields
<1>6. HistoryFits' /\ runs' \in [Msgs -> Nat]
  <2>1. CASE runs' = runs
    BY <1>0, <1>3, <2>1, HistoryStays DEF TypeOK
  <2>2. CASE runs' # runs
    <3>1. ASSUME NEW m \in DOMAIN sent, queue[1].type \in Commands, m = queue[1].msg, sent[m].rev # 0
          PROVE  ~Spent(sent[m]) /\ Spent(sent[m])'
      <4>1. sent[m].sid # 0 /\ sent[m].type \in {"replace", "settings", "stop"}
        BY <1>0, <3>1 DEF HistoryFits, SentFits
      <4>2. /\ queue[1].type = sent[m].type /\ queue[1].sid = sent[m].sid
        BY <1>1, <1>2, <3>1 DEF TaskFits, CommandFits
      <4>3. /\ row # NoRow /\ row.sid = gone /\ sent[m].sid = row.sid /\ sent[m].type = "stop"
        BY <2>2, <4>1, <4>2
      <4> QED
        BY <1>3, <4>3 DEF Spent
    <3> QED
      BY <1>0, <1>1, <1>2, <1>3, <2>2, <3>1, HistoryRuns
  <2> QED
    BY <2>1, <2>2
<1> QED
  BY <1>2, <1>3, <1>4, <1>5, <1>6, ActFits DEF env

(* compareAndSwap: s is what the task made of the record it read. *)
Follows(s, cur) ==
  /\ s \in Sessions /\ s.sid = cur.sid /\ s.rev = cur.rev
  /\ \/ s.route = cur.route /\ s.req \in {cur.req, cur.rev + 1, 0}
     \/ s.route = cur.rev + 1 /\ s.req = 0

(* The stamp of a command that commits is the revision it read, or it names the itinerary
   it replaces. *)
Stamped(t, cur, s) ==
  t.type \in Commands /\ t.rev # 0 =>
    /\ t.type # "stop" /\ t.sid = cur.sid
    /\ t.rev = cur.rev \/ (t.type = "replace" /\ t.arg = cur.route)
    /\ t.type = "replace" => s.route = cur.rev + 1

LEMMA Swaps ==
  ASSUME TypeOK, NoMutationAfterStop, NEW cur, Reads(cur), row # NoRow, NEW s, Follows(s, cur),
         row' = [s EXCEPT !.rev = @ + 1], lastSid' = lastSid, UNCHANGED <<acks, cmds, alertRows>>
  PROVE  /\ RowStep /\ RecordTyped' /\ NoMutationAfterStop'
         /\ row' \in Sessions /\ row' # NoRow /\ row'.sid = row.sid /\ row'.rev = row.rev + 1
         /\ row'.route = s.route /\ row'.status = s.status
<1>1. /\ cur.sid = row.sid /\ cur.rev = row.rev /\ cur.route = row.route /\ cur.req = row.req
      /\ s \in Sessions /\ s.sid = row.sid /\ s.rev = row.rev
  BY ReadsRow DEF Follows
<1>2. /\ row.sid \in Nat \ {0} /\ row.rev \in Nat \ {0} /\ row.route \in Nat /\ row.req \in Nat
      /\ row.route <= row.rev /\ row.req <= row.rev /\ row.sid <= lastSid
  BY RowValue
<1>3. /\ row' \in Sessions /\ row'.sid = row.sid /\ row'.rev = row.rev + 1
      /\ row'.route = s.route /\ row'.status = s.status /\ row'.req = s.req
  BY <1>1, <1>2 DEF Sessions
<1>4. row' # NoRow
  BY <1>3, RowValue
<1>5. Commits
  BY <1>1, <1>3 DEF Commits, Follows
<1>6. row'.sid <= lastSid' /\ row'.route <= row'.rev /\ row'.req <= row'.rev
  BY <1>1, <1>2, <1>3 DEF Follows
<1>7. RecordTyped'
  BY <1>3, <1>6 DEF RecordTyped, RowTypeOK, TypeOK
<1> QED
  BY <1>3, <1>4, <1>5, <1>7 DEF RowStep, NoMutationAfterStop

LEMMA SwapFits ==
  ASSUME IndInv, NEW pc \in {"act", "prompt"}, At(1, pc), NEW s, NEW effects \in Plans,
         Swap(1, s, effects),
         row # NoRow => /\ Follows(s, queue[1].cur) /\ Stamped(queue[1], queue[1].cur, s)
                        /\ Driving(effects) => s.status # "preparing",
         grant' \in {"none", "foreground", "background"},
         UNCHANGED <<driver, osAlerts, visible, fired, env, inflight>>
  PROVE  IndInv'
<1>0. TypeOK /\ QueueFits /\ NoMutationAfterStop /\ HistoryFits /\ lastSid' = lastSid /\ sent' = sent
  BY DEF IndInv, env
<1>1. PICK t : t = queue[1]
  OBVIOUS
<1>2. /\ t \in Tasks /\ TaskFits(t) /\ queue \in Seq(Tasks) /\ 1 \in 1..Len(queue) /\ queue # <<>>
      /\ Reads(t.cur)
  BY <1>0, <1>1, Turns DEF TaskFits, CurFits
<1>3. CASE Current(t.cur)
  <2>1. /\ row # NoRow /\ row' = [s EXCEPT !.rev = @ + 1] /\ runs' = Ran(1)
        /\ Then(1, s.sid, effects) /\ UNCHANGED <<acks, cmds, alertRows>>
    BY <1>1, <1>3 DEF Swap, Current
  <2>2. Follows(s, t.cur) /\ Stamped(t, t.cur, s)
    BY <1>1, <2>1
  <2>3. /\ RowStep /\ RecordTyped' /\ NoMutationAfterStop'
        /\ row' # NoRow /\ row'.sid = row.sid /\ row'.rev = row.rev + 1
        /\ row'.route = s.route /\ row'.status = s.status
    BY <1>0, <1>2, <2>1, <2>2, Swaps
  <2>4. s.sid \in Nat
    BY <2>2 DEF Follows, Sessions
  <2>5. queue' = [queue EXCEPT ![1] = Done(t, s.sid, effects)]
    BY <1>1, <1>2, <2>1, ThenIsDone
  <2>6. PICK sid \in Nat : sid = s.sid
    BY <2>4
  <2>7. TaskFits(Done(t, sid, effects))' /\ Done(t, sid, effects) \in Tasks
    BY <1>0, <1>2, <2>1, <2>3, DoneFits, DoneFields
  <2>8. HistoryFits' /\ runs' \in [Msgs -> Nat]
    <3>1. ASSUME NEW m \in DOMAIN sent, queue[1].type \in Commands, m = queue[1].msg, sent[m].rev # 0
          PROVE  ~Spent(sent[m]) /\ Spent(sent[m])'
      <4> DEFINE c == sent[m]
      <4>1. /\ c.type = t.type /\ c.sid = t.sid /\ c.rev = t.rev /\ c.arg = t.arg
        BY <1>1, <1>2, <3>1 DEF TaskFits, CommandFits
      <4>2. /\ t.cur.sid = row.sid /\ t.cur.rev = row.rev /\ t.cur.route = row.route
            /\ row.rev \in Nat /\ row.route \in Nat
        BY <1>0, <1>2, <2>1, ReadsRow, RowValue
      <4>3. /\ c \in Tasks /\ c.rev <= row.rev
            /\ c.type = "replace" => c.arg \in Nat /\ c.arg <= row.rev
        BY <1>0, <1>1, <2>1, <2>2, <3>1, <4>1, <4>2 DEF HistoryFits, SentFits, Stamped
      <4>4. c.rev \in Nat
        BY <4>3, TaskFields
      <4>5. /\ c.type # "stop" /\ c.sid = row.sid
            /\ c.rev = row.rev \/ (c.type = "replace" /\ c.arg = row.route)
            /\ c.type = "replace" => row'.route = row.rev + 1
        BY <1>1, <2>2, <2>3, <3>1, <4>1, <4>2 DEF Stamped
      <4>6. ~Spent(c)
        BY <2>1, <4>2, <4>3, <4>4, <4>5 DEF Spent
      <4>7. Spent(c)'
        BY <1>0, <2>3, <4>2, <4>3, <4>4, <4>5 DEF Spent
      <4> QED
        BY <4>6, <4>7
    <3> QED
      BY <1>0, <1>1, <1>2, <2>1, <2>3, <3>1, HistoryRuns
  <2> QED
    BY <1>2, <2>3, <2>5, <2>6, <2>7, <2>8, ActFits DEF env
<1>4. CASE ~Current(t.cur)
  <2>1. /\ UNCHANGED <<db, runs>>
        /\ queue' = IF queue[1].type = "batch" /\ queue[1].arg = "first"
                    THEN [queue EXCEPT ![1].pc = "load", ![1].arg = "retry"]
                    ELSE [queue EXCEPT ![1].pc = "effects", ![1].res = 0, ![1].eff = <<>>]
    BY <1>1, <1>4 DEF Swap
  <2>2. CASE t.type = "batch" /\ t.arg = "first"
    <3> DEFINE u == [t EXCEPT !.pc = "load", !.arg = "retry"]
    <3>1. DOMAIN queue = 1..Len(queue)
      BY <1>2, LenProperties
    <3>2. queue' = [queue EXCEPT ![1] = u]
      BY <1>1, <1>2, <2>1, <2>2, <3>1
    <3>3. u \in Tasks /\ u.pc = "load" /\ u.type = "batch"
      BY <1>2, <2>2 DEF Tasks, Args
    <3> HIDE DEF u
    <3>4. TaskFits(u)'
      BY <3>3 DEF TaskFits, CurFits, EffFits, AnswerFits, CommandFits, Commands
    <3> QED
      BY <1>2, <2>1, <3>2, <3>3, <3>4, KeepFits
  <2>3. CASE ~(t.type = "batch" /\ t.arg = "first")
    <3>1. Then(1, 0, <<>>)
      BY <1>1, <2>1, <2>3 DEF Then
    <3>2. queue' = [queue EXCEPT ![1] = Done(t, 0, <<>>)]
      BY <1>1, <1>2, <3>1, ThenIsDone
    <3>3. TaskFits(Done(t, 0, <<>>))' /\ Done(t, 0, <<>>) \in Tasks
      BY <1>0, <1>2, <2>1, DoneFits, DoneFields, ShortPlans DEF RowStep, db
    <3> QED
      BY <1>2, <2>1, <3>2, <3>3, KeepFits
  <2> QED
    BY <2>2, <2>3
<1> QED
  BY <1>3, <1>4

(* A task leaves the queue, with or without an answer that is remembered. *)
LEMMA LeaveFits ==
  ASSUME IndInv, queue # <<>>, queue' = RemoveAt(queue, 1),
         cmds' \in [Msgs -> {None} \cup Nat],
         UNCHANGED <<row, acks, alertRows, os, env, inflight, runs>>
  PROVE  IndInv'
<1>0. TypeOK /\ QueueFits /\ HistoryFits /\ RequestsFit /\ NoMutationAfterStop
  BY DEF IndInv
<1>1. RowStep /\ row' = row /\ lastSid' = lastSid /\ proc' = proc /\ sent' = sent
  BY DEF RowStep, env
<1>2. QueueFits'
  BY <1>0, <1>1, HeadLeaves
<1>3. /\ Len(queue') <= MaxQueue
      /\ \A i \in DOMAIN queue' : queue'[i].cur = NoRow \/ queue'[i].cur \in Sessions
  BY <1>2, QueueTyped DEF QueueFits
<1>4. TypeOK'
  BY <1>0, <1>3 DEF TypeOK, RowTypeOK, os, env
<1>5. HistoryFits'
  BY <1>0, <1>1, HistoryStays
<1>6. RequestsFit' /\ NoMutationAfterStop'
  BY <1>0, <1>1 DEF RequestsFit, RequestFits, NoMutationAfterStop
<1> QED
  BY <1>2, <1>4, <1>5, <1>6 DEF IndInv

-----------------------------------------------------------------------------
(* The steps of a task. *)

LEMMA LookupFits ==
  ASSUME IndInv, NEW i, Lookup(i)
  PROVE  IndInv'
<1>0. TypeOK /\ QueueFits /\ HistoryFits /\ RequestsFit /\ NoMutationAfterStop
  BY DEF IndInv
<1>1. /\ i = 1 /\ queue # <<>> /\ queue \in Seq(Tasks) /\ 1 \in 1..Len(queue)
      /\ DOMAIN queue = 1..Len(queue) /\ queue[1] \in Tasks /\ TaskFits(queue[1])
  BY <1>0, Turns DEF Lookup
<1>2. CASE cmds[queue[i].msg] # None
  <2>1. queue' = RemoveAt(queue, 1) /\ UNCHANGED <<db, os, env, inflight, runs>>
    BY <1>1, <1>2 DEF Lookup
  <2> QED
    BY <1>0, <1>1, <2>1, LeaveFits DEF db, TypeOK
<1>3. CASE cmds[queue[i].msg] = None
  <2>1. PICK t \in Tasks : t = queue[1]
    BY <1>1
  <2>2. PICK u : u = [t EXCEPT !.pc = "load"]
    OBVIOUS
  <2>3. queue' = [queue EXCEPT ![1] = u]
    BY <1>1, <1>3, <2>1, <2>2 DEF Lookup, Goto
  <2>4. /\ u \in Tasks /\ u.pc = "load" /\ u.type = t.type /\ u.msg = t.msg
        /\ u.sid = t.sid /\ u.rev = t.rev /\ u.arg = t.arg
    BY <2>2 DEF Tasks
  <2>5. AnswerFits(t)' /\ CommandFits(t)'
    BY <1>0, <1>1, <2>1, AnswerStays DEF TaskFits, SentGrows, RowStep, Lookup, db, env
  <2>6. TaskFits(u)'
    BY <2>4, <2>5 DEF TaskFits, CurFits, EffFits, AnswerFits, CommandFits
  <2> QED
    BY <1>0, <1>1, <2>3, <2>4, <2>6, KeepFits DEF Lookup, os, TypeOK
<1> QED
  BY <1>2, <1>3

LEMMA LoadFits ==
  ASSUME IndInv, NEW i, Load(i)
  PROVE  IndInv'
<1>0. TypeOK /\ QueueFits /\ HistoryFits /\ NoMutationAfterStop
  BY DEF IndInv
<1>1. /\ i = 1 /\ queue # <<>> /\ queue \in Seq(Tasks) /\ 1 \in 1..Len(queue)
      /\ DOMAIN queue = 1..Len(queue) /\ queue[1] \in Tasks /\ TaskFits(queue[1])
  BY <1>0, Turns DEF Load
<1>2. /\ row' = row \/ row' = NoRow
      /\ row' # NoRow => row'.ok
      /\ acks' = acks /\ lastSid' = lastSid /\ sent' = sent /\ runs' = runs
      /\ cmds' \in [Msgs -> {None} \cup Nat] /\ alertRows' \subseteq Alerts
  <2>1. CASE row # NoRow /\ ~row.ok
    BY <1>0, <2>1, ForgetTyped DEF Load, env
  <2>2. CASE ~(row # NoRow /\ ~row.ok)
    BY <1>0, <2>2 DEF Load, db, env, TypeOK
  <2> QED
    BY <2>1, <2>2
<1>3. RowStep /\ RecordTyped' /\ NoMutationAfterStop'
  BY <1>0, <1>2 DEF RowStep, RecordTyped, RowTypeOK, TypeOK, NoMutationAfterStop
<1>4. PICK t \in Tasks : t = queue[1]
  BY <1>1
<1>5. PICK u : u = [t EXCEPT !.pc = "act", !.cur = row']
  OBVIOUS
<1>6. row' \in Rows
  BY <1>0, <1>2, RowValue DEF Rows
<1>7. queue' = [queue EXCEPT ![1] = u]
  BY <1>1, <1>4, <1>5 DEF Load
<1>8. /\ u \in Tasks /\ u.pc = "act" /\ u.cur = row' /\ u.type = t.type /\ u.msg = t.msg
      /\ u.sid = t.sid /\ u.rev = t.rev /\ u.arg = t.arg
  BY <1>5, <1>6 DEF Tasks
<1>9. AnswerFits(t)' /\ CommandFits(t)'
  BY <1>0, <1>1, <1>2, <1>3, <1>4, AnswerStays DEF TaskFits, SentGrows
<1>10. TaskFits(u)'
  BY <1>2, <1>8, <1>9 DEF TaskFits, CurFits, EffFits, AnswerFits, CommandFits, Reads
<1>11. HistoryFits'
  BY <1>0, <1>2, <1>3, HistoryStays
<1> QED
  BY <1>0, <1>1, <1>2, <1>3, <1>7, <1>8, <1>10, <1>11, ActFits DEF Load, os, env, TypeOK

(* Every command and every batch begins with what the task read. *)
LEMMA Acting ==
  ASSUME IndInv, NEW i, NEW pc \in {"act", "prompt"}, At(i, pc)
  PROVE  /\ i = 1 /\ At(1, pc) /\ TypeOK /\ queue[1] \in Tasks /\ queue # <<>> /\ 1 \in DOMAIN queue
         /\ TaskFits(queue[1]) /\ Reads(queue[1].cur)
         /\ queue[1].cur.sid = row.sid /\ queue[1].cur.rev = row.rev
         /\ queue[1].cur = NoRow <=> row = NoRow
         /\ row # NoRow =>
              /\ queue[1].cur \in Sessions /\ row \in Sessions
              /\ queue[1].cur.route = row.route /\ queue[1].cur.req = row.req
              /\ queue[1].cur.status = row.status /\ queue[1].cur.kind = row.kind
<1>1. TypeOK /\ QueueFits
  BY DEF IndInv
<1>2. /\ i = 1 /\ queue[1] \in Tasks /\ queue # <<>> /\ 1 \in DOMAIN queue
      /\ TaskFits(queue[1]) /\ queue[1].pc = pc
  BY <1>1, Turns
<1>3. Reads(queue[1].cur)
  BY <1>2 DEF TaskFits, CurFits
<1> QED
  BY <1>1, <1>2, <1>3, ReadsRow

LEMMA PrepareFits ==
  ASSUME IndInv, NEW i, Prepare(i)
  PROVE  IndInv'
<1>1. i = 1 /\ At(1, "act") /\ TypeOK /\ queue[1] \in Tasks /\ queue # <<>> /\ TaskFits(queue[1])
  BY Acting DEF Prepare, Is
<1>2. CASE Refuse(1) /\ lastSid' = lastSid
  BY <1>1, <1>2, RefuseFits DEF Prepare, env
<1>3. CASE /\ lastSid' = lastSid + 1 /\ row' = Session(lastSid', queue[1].arg)
           /\ ForgetSession(row.sid) /\ runs' = Ran(1) /\ Then(1, lastSid', <<>>) /\ acks' = acks
  <2>1. /\ queue[1].type = "prepare" /\ queue[1].msg \in DOMAIN sent
        /\ queue[1].arg \in Kinds /\ queue[1].rev = 0 /\ sent[queue[1].msg].rev = 0
    <3>1. queue[1].type = "prepare"
      BY <1>1 DEF Prepare, Is
    <3>2. /\ queue[1].msg \in DOMAIN sent /\ sent[queue[1].msg].type = "prepare"
          /\ queue[1].arg = sent[queue[1].msg].arg /\ queue[1].rev = sent[queue[1].msg].rev
      BY <1>1, <3>1 DEF TaskFits, CommandFits, Commands
    <3> QED
      BY <3>1, <3>2 DEF IndInv, HistoryFits, SentFits
  <2>2. lastSid \in Nat /\ lastSid' \in Nat \ {0}
    BY <1>1, <1>3 DEF TypeOK
  <2>3. /\ row' \in Sessions /\ row'.sid = lastSid + 1 /\ row'.rev = 1
        /\ row'.route = 1 /\ row'.req = 0
    BY <1>3, <2>1, <2>2 DEF Session, Sessions
  <2>4. RowStep
    BY <1>3, <2>3 DEF RowStep, Begins
  <2>5. acks' \subseteq 1..lastSid' /\ row'.sid \notin acks'
    BY <1>1, <1>3, <2>2, <2>3 DEF TypeOK
  <2>6. RecordTyped' /\ NoMutationAfterStop'
    <3>1. RowTypeOK'
      BY <1>3, <2>2, <2>3 DEF RowTypeOK
    <3> QED
      BY <1>1, <1>3, <2>5, <3>1, ForgetTyped DEF RecordTyped, NoMutationAfterStop
  <2>7. sent' = sent
    BY DEF Prepare
  <2>8. HistoryFits' /\ runs' \in [Msgs -> Nat]
    BY <1>1, <1>3, <2>1, <2>4, <2>7, HistoryRuns DEF IndInv
  <2>9. PICK t \in Tasks, sid \in Nat : t = queue[1] /\ sid = lastSid'
    BY <1>1, <2>2
  <2>10. queue' = [queue EXCEPT ![1] = Done(t, sid, <<>>)]
    <3>1. queue \in Seq(Tasks) /\ 1 \in 1..Len(queue)
      BY <1>1, Turns DEF IndInv
    <3> QED
      BY <1>3, <2>9, <3>1, ThenIsDone
  <2>11. TaskFits(Done(t, sid, <<>>))' /\ Done(t, sid, <<>>) \in Tasks
    BY <1>1, <2>4, <2>7, <2>9, DoneFits, DoneFields, ShortPlans
  <2> QED
    BY <1>1, <2>4, <2>6, <2>8, <2>10, <2>11, ActFits DEF Prepare, os, TypeOK
<1> QED
  BY <1>1, <1>2, <1>3 DEF Prepare

(* Only three commands carry the revision they were issued against. *)
LEMMA Unstamped ==
  ASSUME IndInv, NEW t, TaskFits(t), t.type \in Commands, t.rev # 0
  PROVE  t.sid # 0 /\ t.type \in {"replace", "settings", "stop"}
BY DEF IndInv, HistoryFits, SentFits, TaskFits, CommandFits

LEMMA StartFits ==
  ASSUME IndInv, NEW i, Start(i)
  PROVE  IndInv'
<1>1. /\ i = 1 /\ At(1, "act") /\ TypeOK /\ queue[1] \in Tasks /\ queue # <<>> /\ TaskFits(queue[1])
      /\ 1 \in DOMAIN queue /\ Reads(queue[1].cur) /\ queue[1].type = "start"
  BY Acting DEF Start, Is
<1>2. CASE Refuse(1)
  BY <1>1, <1>2, RefuseFits DEF Start
<1>3. CASE Goto(1, "prompt") /\ UNCHANGED <<db, runs>>
  <2>1. PICK t \in Tasks : t = queue[1]
    BY <1>1
  <2>2. PICK u : u = [t EXCEPT !.pc = "prompt"]
    OBVIOUS
  <2>3. queue' = [queue EXCEPT ![1] = u]
    BY <1>1, <1>3, <2>1, <2>2 DEF Goto
  <2>4. /\ u \in Tasks /\ u.pc = "prompt" /\ u.type = t.type /\ u.msg = t.msg /\ u.cur = t.cur
        /\ u.sid = t.sid /\ u.rev = t.rev /\ u.arg = t.arg
    BY <2>2 DEF Tasks
  <2>5. AnswerFits(t)' /\ CommandFits(t)'
    BY <1>1, <1>3, <2>1, AnswerStays DEF TaskFits, SentGrows, RowStep, Start, db, env
  <2>6. TaskFits(u)'
    BY <1>1, <1>3, <2>1, <2>4, <2>5 DEF TaskFits, CurFits, EffFits, AnswerFits, CommandFits, Reads, db
  <2> QED
    BY <1>1, <1>3, <2>3, <2>4, <2>6, KeepFits DEF Start, os, TypeOK
<1> QED
  BY <1>1, <1>2, <1>3 DEF Start

LEMMA DecideFits ==
  ASSUME IndInv, NEW i, Decide(i)
  PROVE  IndInv'
<1> DEFINE s == queue[1].cur
<1>1. /\ i = 1 /\ At(1, "prompt") /\ TypeOK /\ queue[1] \in Tasks /\ TaskFits(queue[1])
      /\ s.sid = row.sid /\ s.rev = row.rev /\ (row # NoRow => s \in Sessions)
  BY Acting DEF Decide
<1>2. queue[1].type = "start"
  BY <1>1 DEF At, TaskFits, CurFits
<1>3. PICK decision \in {"none", "foreground", "background"} :
        /\ grant' = decision
        /\ IF decision = "none"
           THEN TerminateSession(s.sid) /\ Then(1, 0, <<>>) /\ runs' = Ran(1)
           ELSE Swap(1, [s EXCEPT !.status = "active", !.mode = decision],
                     <<"start-location", "publish">>)
  BY <1>1 DEF Decide
<1>4. CASE decision = "none"
  <2>1. grant' \in {"none", "foreground", "background"}
    BY <1>3
  <2> QED
    BY <1>1, <1>2, <1>3, <1>4, <2>1, ThenEndFits, ShortPlans DEF Decide
<1>5. CASE decision # "none"
  <2> DEFINE n == [s EXCEPT !.status = "active", !.mode = decision]
  <2>1. row # NoRow =>
          /\ n \in Sessions /\ n.sid = s.sid /\ n.rev = s.rev /\ n.route = s.route /\ n.req = s.req
    BY <1>1, <1>5 DEF Sessions
  <2>2. Swap(1, n, <<"start-location", "publish">>) /\ grant' \in {"none", "foreground", "background"}
    BY <1>3, <1>5
  <2>3. Stamped(queue[1], s, n)
    BY <1>1, <1>2, Unstamped DEF Stamped
  <2>4. row # NoRow => n.status # "preparing"
    BY <1>1, <1>5 DEF Sessions
  <2> QED
    BY <1>1, <2>1, <2>2, <2>3, <2>4, SwapFits, ShortPlans DEF Decide, Follows
<1> QED
  BY <1>4, <1>5

LEMMA AdoptFollows ==
  ASSUME NEW s \in Sessions
  PROVE  Follows(Adopt(s), s) /\ Adopt(s).route = s.rev + 1 /\ Adopt(s).status = s.status
<1>1. s.rev + 1 \in Nat \ {0}
  BY DEF Sessions
<1>2. /\ Adopt(s) \in Sessions /\ Adopt(s).sid = s.sid /\ Adopt(s).rev = s.rev
      /\ Adopt(s).route = s.rev + 1 /\ Adopt(s).req = 0 /\ Adopt(s).status = s.status
  BY <1>1 DEF Adopt, Sessions
<1> QED
  BY <1>2 DEF Follows

LEMMA ReplaceFits ==
  ASSUME IndInv, NEW i, Replace(i)
  PROVE  IndInv'
<1> DEFINE s == queue[1].cur
           t == queue[1]
<1>1. /\ i = 1 /\ At(1, "act") /\ TypeOK /\ t \in Tasks /\ TaskFits(t)
      /\ t.type = "replace" /\ (row # NoRow => s \in Sessions)
  BY Acting DEF Replace, Is
<1>2. CASE Refuse(1)
  BY <1>1, <1>2, RefuseFits DEF Replace
<1>3. CASE Swap(1, Adopt(s), <<>>) /\ (Names(t, s) \/ Matches(t, s))
  <2>1. Stamped(t, s, Adopt(s)) \/ row = NoRow
    BY <1>1, <1>3, Unstamped, AdoptFollows DEF Stamped, Names, Matches
  <2>2. grant' \in {"none", "foreground", "background"}
    BY <1>1 DEF Replace, os, TypeOK
  <2> QED
    BY <1>1, <1>3, <2>1, <2>2, AdoptFollows, SwapFits, ShortPlans DEF Replace, os
<1> QED
  BY <1>1, <1>2, <1>3 DEF Replace

LEMMA UpdateSettingsFits ==
  ASSUME IndInv, NEW i, UpdateSettings(i)
  PROVE  IndInv'
<1> DEFINE s == queue[1].cur
           t == queue[1]
<1>1. /\ i = 1 /\ At(1, "act") /\ TypeOK /\ t \in Tasks /\ TaskFits(t)
      /\ t.type = "settings" /\ (row # NoRow => s \in Sessions)
  BY Acting DEF UpdateSettings, Is
<1>2. CASE Refuse(1)
  BY <1>1, <1>2, RefuseFits DEF UpdateSettings
<1>3. CASE Swap(1, s, <<>>) /\ Matches(t, s)
  <2>1. Stamped(t, s, s)
    BY <1>1, <1>3, Unstamped DEF Stamped, Matches
  <2>2. grant' \in {"none", "foreground", "background"}
    BY <1>1 DEF UpdateSettings, os, TypeOK
  <2>3. row # NoRow => Follows(s, s)
    BY <1>1 DEF Follows
  <2> QED
    BY <1>1, <1>3, <2>1, <2>2, <2>3, SwapFits, ShortPlans DEF UpdateSettings, os
<1> QED
  BY <1>1, <1>2, <1>3 DEF UpdateSettings

LEMMA TransitActionFits ==
  ASSUME IndInv, NEW i, TransitAction(i)
  PROVE  IndInv'
<1> DEFINE s == queue[1].cur
           t == queue[1]
           n(status, riding) == [s EXCEPT !.status = status, !.alert = riding, !.last = t.msg]
<1>1. /\ i = 1 /\ At(1, "act") /\ TypeOK /\ t \in Tasks /\ TaskFits(t)
      /\ t.type = "action" /\ (row # NoRow => s \in Sessions) /\ (s = NoRow <=> row = NoRow)
      /\ UNCHANGED <<os, env, inflight>>
  BY Acting DEF TransitAction, Is
<1>2. CASE Refuse(1)
  BY <1>1, <1>2, RefuseFits
<1>3. CASE Then(1, s.sid, <<>>) /\ UNCHANGED <<db, runs>> /\ s # NoRow
  <2>1. s.sid \in Nat
    BY <1>1, <1>3 DEF Sessions
  <2> QED
    BY <1>1, <1>3, <2>1, ThenKeepFits, ShortPlans
<1>4. ASSUME NEW status \in {"active", "arrived"}, NEW riding \in BOOLEAN,
             NEW pace \in {<<>>, <<"update-profile">>},
             Swap(1, n(status, riding), pace \o SyncAlerts)
      PROVE  IndInv'
  <2>1. pace \o SyncAlerts \in Plans
    BY LongPlans, ShortPlans
  <2>2. t.msg \in Msgs \cup {"none"}
    BY <1>1, TaskFields
  <2>3. row # NoRow => /\ n(status, riding) \in Sessions /\ n(status, riding).sid = s.sid
                       /\ n(status, riding).rev = s.rev /\ n(status, riding).route = s.route
                       /\ n(status, riding).req = s.req /\ n(status, riding).status # "preparing"
    BY <1>1, <2>2 DEF Sessions
  <2>4. Stamped(t, s, n(status, riding))
    BY <1>1, Unstamped DEF Stamped
  <2>5. grant' \in {"none", "foreground", "background"}
    BY <1>1 DEF os, TypeOK
  <2> HIDE DEF n
  <2> QED
    BY <1>1, <1>4, <2>1, <2>3, <2>4, <2>5, SwapFits DEF Follows, os
<1> QED
  BY <1>1, <1>2, <1>3, <1>4 DEF TransitAction

LEMMA StopFits ==
  ASSUME IndInv, NEW i, Stop(i)
  PROVE  IndInv'
<1> DEFINE s == queue[1].cur
           t == queue[1]
<1>1. /\ i = 1 /\ At(1, "act") /\ TypeOK /\ t \in Tasks /\ TaskFits(t)
      /\ t.type \in {"stop", "surface"}
      /\ s.sid = row.sid /\ (s = NoRow <=> row = NoRow)
      /\ UNCHANGED <<os, env, inflight>>
  BY Acting DEF Stop, Is
<1>2. CASE /\ Then(1, IF s = NoRow THEN t.sid ELSE 0, <<>>) /\ UNCHANGED <<db, runs>>
  <2>1. (IF s = NoRow THEN t.sid ELSE 0) \in Nat
    BY <1>1, TaskFields
  <2> QED
    BY <1>1, <1>2, <2>1, ThenKeepFits, ShortPlans
<1>3. CASE /\ s # NoRow /\ t.sid \in {0, s.sid} /\ TerminateSession(s.sid) /\ runs' = Ran(1)
           /\ Then(1, s.sid, Cleanup)
  <2>1. s.sid \in Nat /\ grant' \in {"none", "foreground", "background"}
    BY <1>1, <1>3, RowValue DEF os, TypeOK
  <2> QED
    BY <1>1, <1>3, <2>1, ThenEndFits, ShortPlans DEF os
<1> QED
  BY <1>1, <1>2, <1>3 DEF Stop

(* Whatever a processor makes of a batch follows the record it read. *)
LEMMA AdvanceFollows ==
  ASSUME NEW s \in Sessions, s.status = "active", NEW next \in Advance(s)
  PROVE  Follows(next.s, s) /\ next.eff \in Plans /\ next.s.status # "preparing"
<1>1. s.rev + 1 \in Nat
  BY DEF Sessions
<1>2. ASSUME NEW x \in {s, Asks(s), Arrives(s), [s EXCEPT !.req = 0]}
      PROVE  /\ x \in Sessions /\ x.sid = s.sid /\ x.rev = s.rev /\ x.route = s.route
             /\ x.req \in {s.req, s.rev + 1, 0} /\ x.status # "preparing"
  BY <1>1 DEF Asks, Arrives, Sessions
<1>3. CASE s.kind = "ground"
  <2>1. /\ next.s \in {s, Asks(s), Arrives(s)} /\ next.eff \in {<<>>, <<"ask">>}
    BY <1>3 DEF Advance, AdvanceGround
  <2> QED
    BY <1>2, <2>1, ShortPlans DEF Follows
<1>4. CASE s.kind # "ground"
  <2>1. PICK x \in {s, Arrives(s), IF s.req = 0 THEN Asks(s) ELSE [s EXCEPT !.req = 0]},
             riding \in BOOLEAN, pace \in {<<>>, <<"update-profile">>} :
               next = Ridden(s, x, riding, pace)
    BY <1>4 DEF Advance, AdvanceTransit
  <2>2. x \in {s, Asks(s), Arrives(s), [s EXCEPT !.req = 0]}
    BY <2>1
  <2>3. /\ x \in Sessions /\ x.sid = s.sid /\ x.rev = s.rev /\ x.route = s.route
        /\ x.req \in {s.req, s.rev + 1, 0} /\ x.status # "preparing"
    BY <1>2, <2>2
  <2>4. next.s = [x EXCEPT !.alert = riding]
    BY <2>1 DEF Ridden
  <2>5. /\ next.s \in Sessions /\ next.s.sid = s.sid /\ next.s.rev = s.rev
        /\ next.s.route = s.route /\ next.s.req \in {s.req, s.rev + 1, 0}
        /\ next.s.status # "preparing"
    BY <2>3, <2>4 DEF Sessions
  <2>6. next.eff \in Plans
    <3>1. pace \o SyncAlerts \in Plans
      BY LongPlans, ShortPlans
    <3>2. (IF x = Asks(s) THEN <<"ask">> ELSE <<>>) \in Plans
      BY ShortPlans
    <3>3. next.eff = pace \o SyncAlerts \o (IF x = Asks(s) THEN <<"ask">> ELSE <<>>)
      BY <2>1 DEF Ridden
    <3> QED
      BY <3>1, <3>2, <3>3, LongPlans
  <2> QED
    BY <2>5, <2>6 DEF Follows
<1> QED
  BY <1>3, <1>4

LEMMA BatchFits ==
  ASSUME IndInv, NEW i, Batch(i)
  PROVE  IndInv'
<1> DEFINE s == queue[1].cur
           t == queue[1]
<1>1. /\ i = 1 /\ At(1, "act") /\ TypeOK /\ t \in Tasks /\ TaskFits(t) /\ t.type = "batch"
      /\ (row # NoRow => s \in Sessions) /\ (s = NoRow <=> row = NoRow)
      /\ UNCHANGED <<os, env, inflight>>
  BY Acting DEF Batch, Is
<1>2. grant' \in {"none", "foreground", "background"}
  BY <1>1 DEF os, TypeOK
<1>3. CASE Refuse(1)
  BY <1>1, <1>3, RefuseFits
<1>4. CASE TerminateSession(s.sid) /\ Then(1, 0, Cleanup) /\ UNCHANGED runs
  BY <1>1, <1>2, <1>4, ThenEndFits, ShortPlans DEF os
<1>5. ASSUME s # NoRow, s.status = "active", NEW next \in Advance(s), Swap(1, next.s, next.eff)
      PROVE  IndInv'
  <2>1. Follows(next.s, s) /\ next.eff \in Plans /\ next.s.status # "preparing"
    BY <1>1, <1>5, AdvanceFollows
  <2>2. Stamped(t, s, next.s)
    BY <1>1 DEF Stamped, Commands
  <2> QED
    BY <1>1, <1>2, <1>5, <2>1, <2>2, SwapFits DEF os
<1> QED
  BY <1>1, <1>3, <1>4, <1>5 DEF Batch

LEMMA AnswerStepFits ==
  ASSUME IndInv, NEW i, Answer(i)
  PROVE  IndInv'
<1> DEFINE s == queue[1].cur
           t == queue[1]
           n == Applied(s, t.arg.ok)
           effects == IF s.kind = "transit" THEN SyncAlerts ELSE <<>>
<1>1. /\ i = 1 /\ At(1, "act") /\ TypeOK /\ t \in Tasks /\ TaskFits(t) /\ t.type = "answer"
      /\ (row # NoRow => s \in Sessions) /\ (s = NoRow <=> row = NoRow)
      /\ UNCHANGED <<os, env, inflight>>
  BY Acting DEF Answer, Is
<1>2. grant' \in {"none", "foreground", "background"}
  BY <1>1 DEF os, TypeOK
<1>3. CASE Refuse(1)
  BY <1>1, <1>3, RefuseFits
<1>4. CASE Swap(1, n, effects) /\ Expected(t, s)
  <2>1. s \in Sessions /\ s.status = "active"
    BY <1>1, <1>4 DEF Expected
  <2>2. Follows([s EXCEPT !.req = 0], s) /\ [s EXCEPT !.req = 0].status = s.status
    BY <2>1 DEF Follows, Sessions
  <2>3. n \in {Adopt(s), [s EXCEPT !.req = 0]}
    BY DEF Applied
  <2>4. Follows(n, s) /\ n.status # "preparing"
    BY <2>1, <2>2, <2>3, AdoptFollows
  <2>5. Stamped(t, s, n)
    BY <1>1 DEF Stamped, Commands
  <2>6. effects \in Plans
    BY ShortPlans
  <2> HIDE DEF n, effects
  <2> QED
    BY <1>1, <1>2, <1>4, <2>4, <2>5, <2>6, SwapFits DEF os
<1> QED
  BY <1>1, <1>3, <1>4 DEF Answer

LEMMA ReconcileFits ==
  ASSUME IndInv, NEW i, Reconcile(i)
  PROVE  IndInv'
<1> DEFINE s == queue[1].cur
<1>1. i = 1 /\ At(1, "act") /\ TypeOK /\ UNCHANGED <<os, env, inflight, runs>>
  BY Acting DEF Reconcile, Is
<1>2. grant' \in {"none", "foreground", "background"}
  BY <1>1 DEF os, TypeOK
<1>3. ASSUME NEW effects \in {<<>>, <<"stop-location">>, Release}, Then(1, 0, effects), UNCHANGED db
      PROVE  IndInv'
  <2>1. effects \in Plans /\ ~Driving(effects)
    BY ShortPlans
  <2> QED
    BY <1>1, <1>3, <2>1, ThenKeepFits
<1>4. CASE TerminateSession(s.sid) /\ Then(1, 0, Release)
  BY <1>1, <1>2, <1>4, ThenEndFits, ShortPlans DEF os
<1> QED
  BY <1>1, <1>3, <1>4 DEF Reconcile

LEMMA ResumeFits ==
  ASSUME IndInv, NEW i, Resume(i)
  PROVE  IndInv'
<1> DEFINE s == queue[1].cur
<1>1. /\ i = 1 /\ At(1, "act") /\ TypeOK /\ UNCHANGED <<db, os, env, inflight, runs>>
      /\ (s = NoRow <=> row = NoRow) /\ (row # NoRow => s.status = row.status)
  BY Acting DEF Resume, Is
<1>2. PICK effects :
        /\ Then(1, 0, effects)
        /\ \/ effects \in {<<>>, Release}
           \/ effects = <<"start-location">> /\ s # NoRow /\ s.status = "active"
  BY <1>1 DEF Resume
<1>3. effects \in Plans /\ (Driving(effects) => row # NoRow /\ row.status # "preparing")
  BY <1>1, <1>2, ShortPlans
<1> QED
  BY <1>1, <1>2, <1>3, ThenKeepFits

LEMMA EndSessionFits ==
  ASSUME IndInv, NEW i, EndSession(i)
  PROVE  IndInv'
<1>1. i = 1 /\ At(1, "act") /\ TypeOK
  BY Acting DEF EndSession, Is
<1>2. grant' \in {"none", "foreground", "background"}
  BY <1>1 DEF EndSession, os, TypeOK
<1> QED
  BY <1>1, <1>2, ThenEndFits, ShortPlans DEF EndSession, os

-----------------------------------------------------------------------------
(* The effects, and the end of a task. *)

OsTyped ==
  /\ driver \in BOOLEAN /\ visible \in BOOLEAN /\ osAlerts \subseteq Alerts /\ fired \subseteq Alerts
  /\ grant \in {"none", "foreground", "background"} /\ proc \in {"down", "ui", "headless"}

LEMMA PartsFit ==
  ASSUME QueueFits', RecordTyped', OsTyped', NoMutationAfterStop', HistoryFits', RequestsFit',
         lastSid' \in Nat, runs' \in [Msgs -> Nat], DOMAIN sent' \subseteq Msgs,
         faults' \in 0..MaxFaults
  PROVE  IndInv'
<1>1. /\ Len(queue') <= MaxQueue
      /\ \A i \in DOMAIN queue' : queue'[i].cur = NoRow \/ queue'[i].cur \in Sessions
  BY QueueTyped DEF QueueFits
<1>2. TypeOK'
  BY <1>1 DEF TypeOK, RecordTyped, OsTyped
<1> QED
  BY <1>2 DEF IndInv

LEMMA TailPlans ==
  ASSUME NEW p \in Plans, p # <<>>
  PROVE  /\ Tail(p) \in Plans /\ (Driving(Tail(p)) => Driving(p))
         /\ Head(p) \in Effects /\ (Drives(Head(p)) => Driving(p))
         /\ Head(p) \in Halves => Tail(p) # <<>>
<1>1. p \in Seq(Effects) /\ Len(p) \in Nat /\ Len(p) # 0
  BY EmptySeq, LenProperties DEF Plans
<1>2. /\ Head(p) \in Effects /\ Head(p) = p[1]
      /\ Tail(p) \in Seq(Effects) /\ Len(Tail(p)) = Len(p) - 1
      /\ \A k \in 1..Len(Tail(p)) : Tail(p)[k] = p[k + 1]
  BY <1>1, HeadTailProperties DEF Plans
<1>3. \A k \in 1..Len(Tail(p)) : k + 1 \in 1..Len(p)
  BY <1>1, <1>2
<1>4. ASSUME NEW k \in 1..Len(Tail(p)), Tail(p)[k] \in Halves PROVE k < Len(Tail(p))
  <2>1. k + 1 < Len(p)
    BY <1>2, <1>3, <1>4 DEF Plans
  <2> QED
    BY <1>1, <1>2, <2>1
<1>5. Driving(Tail(p)) => Driving(p)
  BY <1>2, <1>3 DEF Driving
<1>6. Drives(Head(p)) => Driving(p)
  <2>1. 1 \in 1..Len(p)
    BY <1>1
  <2> QED
    BY <1>2, <2>1 DEF Driving
<1>7. Head(p) \in Halves => Tail(p) # <<>>
  <2>1. Head(p) \in Halves => 1 < Len(p)
    BY <1>1, <1>2 DEF Plans
  <2>2. Tail(p) = <<>> => Len(Tail(p)) = 0
    BY EmptySeq
  <2> QED
    BY <1>1, <1>2, <2>1, <2>2
<1> QED
  BY <1>2, <1>4, <1>5, <1>6, <1>7 DEF Plans

(* An effect leaves the task at its effects, with fewer of them. *)
LEMMA PlanMoves ==
  ASSUME IndInv, At(1, "effects"), NEW plan \in Plans, NEW failed \in BOOLEAN,
         Driving(plan) => Driving(queue[1].eff),
         queue' = [queue EXCEPT ![1] = [queue[1] EXCEPT !.eff = plan, !.failed = failed]],
         UNCHANGED <<row, proc, sent, lastSid>>
  PROVE  QueueFits'
<1>0. TypeOK /\ QueueFits /\ RowStep
  BY DEF IndInv, RowStep
<1>1. PICK t : t = queue[1]
  OBVIOUS
<1>2. t \in Tasks /\ TaskFits(t) /\ t.pc = "effects" /\ queue # <<>>
  BY <1>0, <1>1, Turns
<1>3. PICK u : u = [t EXCEPT !.eff = plan, !.failed = failed]
  OBVIOUS
<1>4. /\ u \in Tasks /\ u.pc = "effects" /\ u.eff = plan /\ u.type = t.type /\ u.msg = t.msg
      /\ u.sid = t.sid /\ u.rev = t.rev /\ u.arg = t.arg
  BY <1>2, <1>3 DEF Tasks
<1>5. AnswerFits(t)' /\ CommandFits(t)'
  BY <1>0, <1>2, AnswerStays DEF TaskFits, SentGrows
<1>6. AnswerFits(u)' /\ CommandFits(u)' /\ CurFits(u)'
  BY <1>4, <1>5 DEF AnswerFits, CommandFits, CurFits
<1>7. EffFits(u)'
  BY <1>1, <1>2, <1>4 DEF EffFits, TaskFits, Driving, Drives
<1>8. TaskFits(u)'
  BY <1>6, <1>7 DEF TaskFits
<1> QED
  BY <1>0, <1>1, <1>2, <1>3, <1>4, <1>8, HeadMoves

LEMMA DesiredTyped ==
  ASSUME TypeOK PROVE Desired \subseteq Alerts
<1>1. row # NoRow => [sid |-> row.sid, route |-> row.route] \in Alerts
  BY RowValue DEF Alerts
<1> QED
  BY <1>1 DEF Desired, Alert

(* A request that is made now fits the record. *)
LEMMA AskFits ==
  ASSUME TypeOK, RequestsFit, NEW q \in Ask
  PROVE  q \in [sid : Nat, id : Nat, base : Nat] /\ RequestFits(q.sid, q.id, q.base)
<1>1. CASE q \in inflight
  BY <1>1 DEF RequestsFit
<1>2. CASE q \notin inflight
  <2>1. row # NoRow /\ row.req # 0 /\ q = [sid |-> row.sid, id |-> row.req, base |-> row.route]
    BY <1>2 DEF Ask, Request
  <2>2. q.sid = row.sid /\ q.id = row.req /\ q.base = row.route
    BY <2>1
  <2> QED
    BY <2>1, <2>2, RowValue DEF RequestFits
<1> QED
  BY <1>1, <1>2

LEMMA EffectFits ==
  ASSUME IndInv, NEW i, Effect(i)
  PROVE  IndInv'
<1> DEFINE t == queue[1]
           e == Head(t.eff)
<1>0. TypeOK /\ QueueFits /\ HistoryFits /\ RequestsFit /\ NoMutationAfterStop
  BY DEF IndInv
<1>1. /\ i = 1 /\ At(1, "effects") /\ t \in Tasks /\ queue \in Seq(Tasks)
      /\ 1 \in 1..Len(queue) /\ DOMAIN queue = 1..Len(queue)
  BY <1>0, Turns DEF Effect
<1>2. t.eff \in Plans /\ t.eff # <<>> /\ t.failed \in BOOLEAN
  BY <1>1, TaskFields DEF Effect
<1>3. Tail(t.eff) \in Plans /\ (Driving(Tail(t.eff)) => Driving(t.eff))
  BY <1>2, TailPlans
<1>4. /\ UNCHANGED <<row, acks, cmds, grant, visible, fired, proc, sent, lastSid, faults, runs>>
  BY DEF Effect, env
<1>5. QueueFits'
  <2>1. queue' = [queue EXCEPT ![1].eff = Tail(t.eff)]
    BY <1>1 DEF Effect
  <2>2. [t EXCEPT !.eff = Tail(t.eff)] = [t EXCEPT !.eff = Tail(t.eff), !.failed = t.failed]
    BY <1>1 DEF Tasks
  <2>3. queue' = [queue EXCEPT ![1] = [queue[1] EXCEPT !.eff = Tail(t.eff), !.failed = t.failed]]
    BY <1>1, <2>1, <2>2
  <2> QED
    BY <1>1, <1>2, <1>3, <1>4, <2>3, PlanMoves
<1>6. driver' \in BOOLEAN /\ osAlerts' \subseteq Alerts /\ alertRows' \subseteq Alerts
  <2>1. driver' \in BOOLEAN
    BY <1>0, <1>1 DEF Effect, TypeOK
  <2>2. osAlerts \subseteq Alerts /\ alertRows \subseteq Alerts /\ Desired \subseteq Alerts
    BY <1>0, DesiredTyped DEF TypeOK
  <2>3. osAlerts' \subseteq osAlerts \cup Desired /\ alertRows' \subseteq alertRows \cup Desired
    BY <1>1 DEF Effect
  <2> QED
    BY <2>1, <2>2, <2>3
<1>7. RecordTyped' /\ OsTyped' /\ NoMutationAfterStop'
  BY <1>0, <1>4, <1>6 DEF TypeOK, RecordTyped, RowTypeOK, OsTyped, NoMutationAfterStop
<1>8. RowStep
  BY <1>4 DEF RowStep
<1>9. HistoryFits'
  BY <1>0, <1>4, <1>8, HistoryStays
<1>10. RequestsFit'
  <2>1. inflight' = inflight \/ inflight' = Ask
    BY DEF Effect
  <2>2. \A q \in inflight' : q \in [sid : Nat, id : Nat, base : Nat] /\ RequestFits(q.sid, q.id, q.base)
    BY <1>0, <2>1, AskFits DEF RequestsFit
  <2> QED
    BY <1>4, <2>2 DEF RequestsFit, RequestFits
<1>11. /\ lastSid' \in Nat /\ runs' \in [Msgs -> Nat] /\ DOMAIN sent' \subseteq Msgs
       /\ faults' \in 0..MaxFaults
  BY <1>0, <1>4 DEF TypeOK
<1> QED
  BY <1>5, <1>7, <1>9, <1>10, <1>11, PartsFit

LEMMA EffectFailsFits ==
  ASSUME IndInv, NEW i, EffectFails(i)
  PROVE  IndInv'
<1> DEFINE t == queue[1]
           rest == Tail(t.eff)
           plan == IF Head(t.eff) \in Halves THEN Tail(rest) ELSE rest
<1>0. TypeOK /\ QueueFits /\ HistoryFits /\ RequestsFit /\ NoMutationAfterStop
  BY DEF IndInv
<1>1. /\ i = 1 /\ At(1, "effects") /\ t \in Tasks /\ queue \in Seq(Tasks)
      /\ 1 \in 1..Len(queue) /\ DOMAIN queue = 1..Len(queue)
  BY <1>0, Turns DEF EffectFails
<1>2. t.eff \in Plans /\ t.eff # <<>>
  BY <1>1, TaskFields DEF EffectFails
<1>3. plan \in Plans /\ (Driving(plan) => Driving(t.eff))
  BY <1>2, TailPlans
<1>4. UNCHANGED <<row, acks, cmds, alertRows, driver, osAlerts, grant, visible, fired, proc, sent,
                  lastSid, inflight, runs>>
  BY DEF EffectFails, db, os
<1>5. QueueFits'
  <2>1. queue' = [queue EXCEPT ![1].eff = plan, ![1].failed = TRUE]
    BY <1>1 DEF EffectFails, Halves
  <2> HIDE DEF plan
  <2>2. queue' = [queue EXCEPT ![1] = [queue[1] EXCEPT !.eff = plan, !.failed = TRUE]]
    BY <1>1, <2>1
  <2> QED
    BY <1>1, <1>3, <1>4, <2>2, PlanMoves
<1>6. faults' \in 0..MaxFaults
  BY <1>0, BoundsAssumption DEF EffectFails, TypeOK
<1>7. RecordTyped' /\ OsTyped' /\ NoMutationAfterStop'
  BY <1>0, <1>4 DEF TypeOK, RecordTyped, RowTypeOK, OsTyped, NoMutationAfterStop
<1>8. HistoryFits'
  BY <1>0, <1>4, HistoryStays DEF RowStep
<1>9. RequestsFit'
  BY <1>0, <1>4 DEF RequestsFit, RequestFits
<1>10. lastSid' \in Nat /\ runs' \in [Msgs -> Nat] /\ DOMAIN sent' \subseteq Msgs
  BY <1>0, <1>4 DEF TypeOK
<1> QED
  BY <1>5, <1>6, <1>7, <1>8, <1>9, <1>10, PartsFit

LEMMA UndoStartFits ==
  ASSUME IndInv, NEW i, UndoStart(i)
  PROVE  IndInv'
<1>0. TypeOK /\ QueueFits /\ HistoryFits /\ NoMutationAfterStop
  BY DEF IndInv
<1>1. /\ i = 1 /\ queue # <<>> /\ queue[1] \in Tasks /\ queue \in Seq(Tasks)
      /\ 1 \in 1..Len(queue) /\ DOMAIN queue = 1..Len(queue) /\ queue[1].pc = "effects"
  BY <1>0, Turns DEF UndoStart
<1>2. TerminateSession(queue[1].cur.sid) /\ UNCHANGED <<os, env, inflight, runs>>
  BY <1>1 DEF UndoStart
<1>3. RowStep /\ RecordTyped' /\ NoMutationAfterStop'
  BY <1>0, <1>2, Terminates DEF env
<1>4. PICK t \in Tasks : t = queue[1]
  BY <1>1
<1>5. PICK u : u = [t EXCEPT !.eff = Cleanup, !.failed = FALSE, !.type = "undo"]
  OBVIOUS
<1>6. queue' = [queue EXCEPT ![1] = u]
  BY <1>1, <1>4, <1>5 DEF UndoStart
<1>7. u \in Tasks /\ u.pc = "effects" /\ u.eff = Cleanup /\ u.type = "undo"
  BY <1>1, <1>4, <1>5, ShortPlans DEF Tasks, Types
<1>8. TaskFits(u)'
  BY <1>7, ShortPlans DEF TaskFits, CurFits, EffFits, AnswerFits, CommandFits, Commands, Driving, Drives
<1>9. HistoryFits' /\ runs' \in [Msgs -> Nat]
  BY <1>0, <1>2, <1>3, HistoryStays DEF env, TypeOK
<1> QED
  BY <1>0, <1>1, <1>2, <1>3, <1>6, <1>7, <1>8, <1>9, ActFits DEF os, env, TypeOK

LEMMA FinishFits ==
  ASSUME IndInv, NEW i, Finish(i)
  PROVE  IndInv'
<1>0. TypeOK /\ QueueFits
  BY DEF IndInv
<1>1. i = 1 /\ queue # <<>> /\ queue[1] \in Tasks
  BY <1>0, Turns DEF Finish
<1>2. queue[1].res \in Nat
  BY <1>1, TaskFields
<1>3. cmds' \in [Msgs -> {None} \cup Nat]
  BY <1>0, <1>1, <1>2 DEF Finish, TypeOK
<1> QED
  BY <1>1, <1>3, LeaveFits DEF Finish

-----------------------------------------------------------------------------
(* The page, the operating system and the user. *)

LEMMA TaskTyped ==
  ASSUME NEW type \in Types, NEW msg \in Msgs \cup {"none"}, NEW sid \in Nat, NEW rev \in Nat,
         NEW arg \in Args
  PROVE  /\ Task(type, msg, sid, rev, arg) \in Tasks
         /\ Waits(Task(type, msg, sid, rev, arg))
         /\ Task(type, msg, sid, rev, arg).type = type /\ Task(type, msg, sid, rev, arg).msg = msg
         /\ Task(type, msg, sid, rev, arg).sid = sid /\ Task(type, msg, sid, rev, arg).rev = rev
         /\ Task(type, msg, sid, rev, arg).arg = arg
         /\ (type \in Commands => Task(type, msg, sid, rev, arg).pc = "lookup")
BY ShortPlans DEF Task, Tasks, Waits, Rows

LEMMA ArgValues ==
  /\ "first" \in Args /\ "none" \in Args /\ BOOLEAN \subseteq Args /\ Nat \subseteq Args
  /\ Answers \subseteq Args /\ Kinds \subseteq Args
  /\ {"batch", "answer", "reconcile", "resume", "end", "surface", "auth"} \subseteq Types
  /\ Commands \subseteq Types /\ 0 \in Nat
BY DEF Args, Types

(* A task that is no command of the page. *)
LEMMA OwnTask ==
  ASSUME NEW type \in {"batch", "answer", "reconcile", "resume", "end", "surface", "auth"},
         NEW sid \in Nat, NEW rev \in Nat, NEW arg \in Args, NEW u,
         u = Task(type, "none", sid, rev, arg)
  PROVE  /\ u \in Tasks /\ Waits(u) /\ u.type = type /\ u.sid = sid /\ u.rev = rev /\ u.arg = arg
<1>1. type \in Types /\ "none" \in Msgs \cup {"none"}
  BY DEF Types
<1> QED
  BY <1>1, TaskTyped

(* A task that neither answers nor commands fits whatever the state. *)
LEMMA PlainFits ==
  ASSUME NEW u, Waits(u), u.type \notin Commands, u.type # "answer"
  PROVE  TaskFits(u)'
BY DEF Waits, TaskFits, CurFits, EffFits, AnswerFits, CommandFits

LEMMA JoinFits ==
  ASSUME IndInv, NEW u \in Tasks, Waits(u), TaskFits(u)', queue' = Append(queue, u),
         queue = <<>> \/ (Len(queue) < MaxQueue /\ row' = row),
         row' = row \/ Touches, RowTypeOK', lastSid' = lastSid,
         UNCHANGED <<acks, cmds, alertRows, driver, osAlerts, grant, fired, runs>>,
         proc' \in {"ui", "headless"}, visible' \in BOOLEAN, faults' \in 0..MaxFaults,
         inflight' \subseteq inflight, SentGrows, HistoryFits', DOMAIN sent' \subseteq Msgs
  PROVE  IndInv'
<1>0. TypeOK /\ QueueFits /\ RequestsFit /\ NoMutationAfterStop
  BY DEF IndInv
<1>1. RowStep
  BY DEF RowStep
<1>2. QueueFits'
  BY <1>0, <1>1, TaskJoins
<1>3. NoMutationAfterStop'
  BY <1>0 DEF NoMutationAfterStop, Touches
<1>4. RequestsFit'
  <2>1. ASSUME NEW q \in inflight
        PROVE  q \in [sid : Nat, id : Nat, base : Nat] /\ RequestFits(q.sid, q.id, q.base)'
    BY <1>0, <1>1, RequestStays DEF RequestsFit
  <2> QED
    BY <2>1 DEF RequestsFit
<1>5. RecordTyped' /\ OsTyped' /\ lastSid' \in Nat /\ runs' \in [Msgs -> Nat]
  BY <1>0 DEF TypeOK, RecordTyped, OsTyped
<1> QED
  BY <1>2, <1>3, <1>4, <1>5, PartsFit

(* A task of the shell, the system or the user joins an unchanged world. *)
LEMMA SubmitFits ==
  ASSUME IndInv, NEW u \in Tasks, Waits(u), TaskFits(u)', Submit(u),
         queue = <<>> \/ Len(queue) < MaxQueue, proc' \in {"ui", "headless"},
         inflight' \subseteq inflight, visible' \in BOOLEAN,
         UNCHANGED <<db, driver, osAlerts, grant, fired, sent, lastSid, faults, runs>>
  PROVE  IndInv'
<1>0. TypeOK /\ HistoryFits
  BY DEF IndInv
<1>1. RowStep /\ SentGrows
  BY DEF RowStep, SentGrows, db
<1>2. HistoryFits'
  BY <1>0, <1>1, HistoryStays
<1>3. RowTypeOK' /\ DOMAIN sent' \subseteq Msgs /\ faults' \in 0..MaxFaults
  BY <1>0 DEF TypeOK, RowTypeOK, db
<1> QED
  BY <1>1, <1>2, <1>3, JoinFits DEF Submit, db

LEMMA RoomHolds ==
  ASSUME IndInv, Room
  PROVE  proc \in {"ui", "headless"} /\ Len(queue) < MaxQueue
BY DEF IndInv, TypeOK, Room

LEMMA DeliverFits ==
  ASSUME IndInv, Deliver PROVE IndInv'
<1>1. PICK u : u = Task("batch", "none", 0, 0, "first")
  OBVIOUS
<1>2. u \in Tasks /\ Waits(u) /\ u.type = "batch"
  <2>1. "first" \in Args
    BY ArgValues
  <2> QED
    BY <1>1, <2>1, OwnTask
<1>3. TaskFits(u)'
  BY <1>2, PlainFits DEF Commands
<1> QED
  BY <1>1, <1>2, <1>3, RoomHolds, SubmitFits DEF Deliver, os, env, IndInv, TypeOK

LEMMA ChangeVisibilityFits ==
  ASSUME IndInv, ChangeVisibility PROVE IndInv'
<1>0. visible' \in BOOLEAN
  BY DEF ChangeVisibility, IndInv, TypeOK
<1>1. PICK arg : arg = visible'
  OBVIOUS
<1>2. arg \in Args
  BY <1>0, <1>1, ArgValues, Zenon
<1>3. PICK u : u = Task("reconcile", "none", 0, 0, arg)
  OBVIOUS
<1>4. Submit(u)
  BY <1>1, <1>3, Zenon DEF ChangeVisibility
<1>5. u \in Tasks /\ Waits(u) /\ u.type = "reconcile"
  BY <1>2, <1>3, OwnTask
<1>6. TaskFits(u)'
  BY <1>5, PlainFits DEF Commands
<1> QED
  BY <1>0, <1>4, <1>5, <1>6, RoomHolds, SubmitFits DEF ChangeVisibility, env

LEMMA ChooseFits ==
  ASSUME IndInv, Choose PROVE IndInv'
<1>1. PICK type \in {"resume", "end"} : Submit(Task(type, "none", 0, 0, "none"))
  BY DEF Choose
<1>2. PICK u : u = Task(type, "none", 0, 0, "none")
  OBVIOUS
<1>3. u \in Tasks /\ Waits(u) /\ u.type = type
  <2>1. "none" \in Args
    BY ArgValues
  <2> QED
    BY <1>1, <1>2, <2>1, OwnTask
<1>4. TaskFits(u)'
  BY <1>3, PlainFits DEF Commands
<1> QED
  BY <1>1, <1>2, <1>3, <1>4, RoomHolds, SubmitFits DEF Choose, os, env, IndInv, TypeOK

LEMMA SignInFits ==
  ASSUME IndInv, SignIn PROVE IndInv'
<1>1. PICK u : u = Task("auth", "none", 0, 0, "none")
  OBVIOUS
<1>2. u \in Tasks /\ Waits(u) /\ u.type = "auth"
  <2>1. "none" \in Args
    BY ArgValues
  <2> QED
    BY <1>1, <2>1, OwnTask
<1>3. TaskFits(u)'
  BY <1>2, PlainFits DEF Commands
<1> QED
  BY <1>1, <1>2, <1>3, RoomHolds, SubmitFits DEF SignIn, os, env, IndInv, TypeOK

LEMMA StopFromSurfaceFits ==
  ASSUME IndInv, StopFromSurface PROVE IndInv'
<1>0. row.sid \in Nat
  BY RowValue DEF StopFromSurface, IndInv
<1>1. PICK u : u = Task("surface", "none", row.sid, 0, "none")
  OBVIOUS
<1>2. u \in Tasks /\ Waits(u) /\ u.type = "surface"
  <2>1. "none" \in Args
    BY ArgValues
  <2> QED
    BY <1>0, <1>1, <2>1, OwnTask
<1>3. TaskFits(u)'
  BY <1>2, PlainFits DEF Commands
<1> QED
  BY <1>1, <1>2, <1>3, RoomHolds, SubmitFits DEF StopFromSurface, os, env, IndInv, TypeOK

LEMMA WakeFits ==
  ASSUME IndInv, Wake PROVE IndInv'
<1>0. queue = <<>>
  BY DEF Wake, IndInv, QueueFits
<1>1. PICK u : u = Task("batch", "none", 0, 0, "first")
  OBVIOUS
<1>2. u \in Tasks /\ Waits(u) /\ u.type = "batch"
  <2>1. "first" \in Args
    BY ArgValues
  <2> QED
    BY <1>1, <2>1, OwnTask
<1>3. TaskFits(u)'
  BY <1>2, PlainFits DEF Commands
<1> QED
  BY <1>0, <1>1, <1>2, <1>3, SubmitFits DEF Wake, os, IndInv, TypeOK

LEMMA RespondFits ==
  ASSUME IndInv, Respond PROVE IndInv'
<1>0. TypeOK /\ RequestsFit
  BY DEF IndInv
<1>1. PICK q \in inflight, ok \in BOOLEAN :
        /\ Submit(Task("answer", "none", q.sid, q.id, [ok |-> ok, base |-> q.base]))
        /\ inflight' = inflight \ {q}
  BY DEF Respond
<1>2. q \in [sid : Nat, id : Nat, base : Nat] /\ RequestFits(q.sid, q.id, q.base)
  BY <1>0 DEF RequestsFit
<1>3. PICK arg : arg = [ok |-> ok, base |-> q.base]
  OBVIOUS
<1>4. arg \in Answers /\ arg.base = q.base /\ arg \in Args /\ q.sid \in Nat /\ q.id \in Nat
  BY <1>2, <1>3 DEF Answers, Args
<1>5. PICK u : u = Task("answer", "none", q.sid, q.id, arg)
  OBVIOUS
<1>6. /\ u \in Tasks /\ Waits(u) /\ u.type = "answer" /\ u.sid = q.sid /\ u.rev = q.id
      /\ u.arg = arg
  BY <1>4, <1>5, OwnTask
<1>7. RequestFits(q.sid, q.id, q.base)'
  BY <1>2 DEF RequestFits, Respond, db, env
<1>8. TaskFits(u)'
  BY <1>4, <1>6, <1>7 DEF TaskFits, CurFits, EffFits, AnswerFits, CommandFits, Commands, Waits
<1> QED
  BY <1>0, <1>1, <1>3, <1>5, <1>6, <1>8, RoomHolds, SubmitFits DEF Respond, os, env, TypeOK

(* What the page stamps on a command: no session, or a revision the session has had. *)
LEMMA StampsFit ==
  ASSUME TypeOK, NEW stamp \in Stamps
  PROVE  /\ stamp.sid \in Nat /\ stamp.rev \in Nat /\ stamp.sid <= lastSid
         /\ stamp.sid = 0 => stamp.rev = 0
         /\ row # NoRow /\ row.sid = stamp.sid => stamp.rev <= row.rev
<1>1. CASE stamp = [sid |-> 0, rev |-> 0]
  <2>1. stamp.sid = 0 /\ stamp.rev = 0
    BY <1>1
  <2> QED
    BY <2>1, RowValue
<1>2. CASE stamp # [sid |-> 0, rev |-> 0]
  <2>1. /\ row # NoRow
        /\ stamp \in {[sid |-> row.sid, rev |-> r] : r \in {row.rev, row.rev - 1} \ {0}}
    BY <1>2 DEF Stamps
  <2>2. PICK r \in {row.rev, row.rev - 1} \ {0} : stamp = [sid |-> row.sid, rev |-> r]
    BY <2>1
  <2>3. stamp.sid = row.sid /\ stamp.rev = r
    BY <2>2
  <2> QED
    BY <2>1, <2>2, <2>3, RowValue
<1> QED
  BY <1>1, <1>2

LEMMA ArgumentsFit ==
  ASSUME TypeOK, NEW type \in Commands, NEW arg \in Arguments(type)
  PROVE  /\ arg \in Args /\ (type = "prepare" => arg \in Kinds)
         /\ type = "replace" => arg \in Nat /\ (row # NoRow => arg <= row.rev)
<1>1. CASE type = "prepare"
  BY <1>1, ArgValues DEF Arguments
<1>2. CASE type \in {"replace", "action"} /\ row # NoRow /\ row.kind = "transit"
  <2>1. arg \in {0, row.route}
    BY <1>2 DEF Arguments
  <2>2. arg \in Nat /\ arg <= row.rev
    BY <1>2, <2>1, RowValue
  <2> QED
    BY <1>2, <2>2, ArgValues
<1>3. CASE type # "prepare" /\ ~(type \in {"replace", "action"} /\ row # NoRow /\ row.kind = "transit")
  <2>1. arg = 0
    BY <1>3 DEF Arguments
  <2>2. arg \in Nat /\ (row # NoRow => arg <= row.rev)
    BY <2>1, RowValue
  <2> QED
    BY <1>3, <2>2, ArgValues
<1> QED
  BY <1>1, <1>2, <1>3

LEMMA SendFits ==
  ASSUME IndInv, Send PROVE IndInv'
<1>0. TypeOK /\ HistoryFits
  BY DEF IndInv
<1>a. PICK m \in Msgs \ DOMAIN sent, type \in Commands, stamp \in Stamps :
        \E arg \in Arguments(type) :
          /\ type \in {"prepare", "start"} => stamp.sid = 0
          /\ Issue(m, Task(type, m, stamp.sid, IF type \in {"action", "stop"} THEN 0 ELSE stamp.rev, arg))
  BY DEF Send
<1>1. PICK arg \in Arguments(type) :
        /\ type \in {"prepare", "start"} => stamp.sid = 0
        /\ Issue(m, Task(type, m, stamp.sid, IF type \in {"action", "stop"} THEN 0 ELSE stamp.rev, arg))
  BY <1>a
<1>2. PICK rev : rev = IF type \in {"action", "stop"} THEN 0 ELSE stamp.rev
  OBVIOUS
<1>3. /\ stamp.sid \in Nat /\ stamp.sid <= lastSid /\ rev \in Nat
      /\ rev # 0 => stamp.sid # 0 /\ type \in {"replace", "settings", "stop"}
      /\ row # NoRow /\ row.sid = stamp.sid => rev <= row.rev
  <2>1. /\ stamp.sid \in Nat /\ stamp.rev \in Nat /\ stamp.sid <= lastSid
        /\ stamp.sid = 0 => stamp.rev = 0
        /\ row # NoRow /\ row.sid = stamp.sid => stamp.rev <= row.rev
    BY <1>0, StampsFit
  <2>2. row # NoRow => row.rev \in Nat
    BY <1>0, RowValue
  <2> QED
    BY <1>1, <1>2, <2>1, <2>2 DEF Commands
<1>4. PICK u : u = Task(type, m, stamp.sid, rev, arg)
  OBVIOUS
<1>5. /\ arg \in Args /\ (type = "prepare" => arg \in Kinds)
      /\ type = "replace" => arg \in Nat /\ (row # NoRow => arg <= row.rev)
  BY <1>0, ArgumentsFit
<1>6. /\ u \in Tasks /\ Waits(u) /\ u.type = type /\ u.msg = m /\ u.sid = stamp.sid
      /\ u.rev = rev /\ u.arg = arg
  <2>1. type \in Types /\ m \in Msgs \cup {"none"}
    BY <1>a, ArgValues
  <2> QED
    BY <1>3, <1>4, <1>5, <2>1, TaskTyped
<1>7. Issue(m, u)
  BY <1>1, <1>2, <1>4
<1>8. /\ DOMAIN sent' = DOMAIN sent \cup {m} /\ sent'[m] = u
      /\ \A n \in DOMAIN sent : sent'[n] = sent[n]
  BY <1>1, <1>7 DEF Issue
<1>9. UNCHANGED <<row, acks, cmds, alertRows, driver, osAlerts, grant, visible, fired, proc, lastSid,
                  faults, inflight, runs>> /\ Submit(u)
  BY <1>7 DEF Issue, db, os
<1>10. RowStep /\ SentGrows
  BY <1>8, <1>9 DEF RowStep, SentGrows
<1>11. TaskFits(u)'
  BY <1>6, <1>8 DEF TaskFits, CurFits, EffFits, AnswerFits, CommandFits, Waits, Commands
<1>12. HistoryFits'
  <2>1. SentFits(m)'
    <3>1. runs'[m] = 0
      BY <1>0, <1>1, <1>9 DEF HistoryFits
    <3> QED
      BY <1>3, <1>5, <1>6, <1>8, <1>9, <3>1 DEF SentFits, Waits
  <2>2. ASSUME NEW n \in DOMAIN sent PROVE SentFits(n)'
    BY <1>0, <1>8, <1>9, <1>10, SentStays DEF HistoryFits
  <2>3. \A n \in Msgs \ DOMAIN sent' : runs'[n] = 0
    BY <1>0, <1>8, <1>9 DEF HistoryFits
  <2> QED
    BY <1>8, <2>1, <2>2, <2>3 DEF HistoryFits
<1>13. RowTypeOK' /\ DOMAIN sent' \subseteq Msgs /\ faults' \in 0..MaxFaults /\ visible' \in BOOLEAN
  BY <1>0, <1>1, <1>8, <1>9 DEF TypeOK, RowTypeOK
<1>14. Len(queue) < MaxQueue /\ proc' \in {"ui", "headless"}
  BY <1>7, <1>9, RoomHolds DEF Issue
<1> QED
  BY <1>6, <1>9, <1>10, <1>11, <1>12, <1>13, <1>14, JoinFits DEF Submit

LEMMA ResendFits ==
  ASSUME IndInv, Resend PROVE IndInv'
<1>0. TypeOK /\ HistoryFits
  BY DEF IndInv
<1>1. PICK m \in DOMAIN sent : Issue(m, sent[m])
  BY DEF Resend
<1>2. PICK u : u = sent[m]
  OBVIOUS
<1>3. u \in Tasks /\ Waits(u) /\ u.type \in Commands /\ u.msg = m
  BY <1>0, <1>1, <1>2 DEF HistoryFits, SentFits
<1>4. DOMAIN sent' = DOMAIN sent /\ \A n \in DOMAIN sent : sent'[n] = sent[n]
  BY <1>1 DEF Issue
<1>5. UNCHANGED <<row, acks, cmds, alertRows, driver, osAlerts, grant, visible, fired, proc, lastSid,
                  faults, inflight, runs>> /\ Submit(u)
  BY <1>1, <1>2 DEF Issue, db, os
<1>6. RowStep /\ SentGrows
  BY <1>4, <1>5 DEF RowStep, SentGrows
<1>7. TaskFits(u)'
  BY <1>1, <1>2, <1>3, <1>4 DEF TaskFits, CurFits, EffFits, AnswerFits, CommandFits, Waits, Commands
<1>8. HistoryFits'
  <2>1. ASSUME NEW n \in DOMAIN sent PROVE SentFits(n)'
    BY <1>0, <1>4, <1>5, <1>6, SentStays DEF HistoryFits
  <2> QED
    BY <1>0, <1>4, <1>5, <2>1 DEF HistoryFits
<1>9. RowTypeOK' /\ DOMAIN sent' \subseteq Msgs /\ faults' \in 0..MaxFaults /\ visible' \in BOOLEAN
  BY <1>0, <1>4, <1>5 DEF TypeOK, RowTypeOK
<1>10. Len(queue) < MaxQueue /\ proc' \in {"ui", "headless"}
  BY <1>1, <1>5, RoomHolds DEF Issue
<1> QED
  BY <1>3, <1>5, <1>6, <1>7, <1>8, <1>9, <1>10, JoinFits DEF Submit

(* A step of the world that leaves the executor's tasks where they are, or ends them. *)
LEMMA WorldFits ==
  ASSUME IndInv, row' = row \/ Touches, RowTypeOK', QueueFits', OsTyped',
         UNCHANGED <<acks, cmds, alertRows, sent, lastSid, runs>>,
         inflight' \subseteq inflight, faults' \in 0..MaxFaults
  PROVE  IndInv'
<1>0. TypeOK /\ HistoryFits /\ RequestsFit /\ NoMutationAfterStop /\ RowStep
  BY DEF IndInv, RowStep
<1>1. NoMutationAfterStop'
  BY <1>0 DEF NoMutationAfterStop, Touches
<1>2. HistoryFits'
  BY <1>0, HistoryStays
<1>3. RequestsFit'
  <2>1. ASSUME NEW q \in inflight
        PROVE  q \in [sid : Nat, id : Nat, base : Nat] /\ RequestFits(q.sid, q.id, q.base)'
    BY <1>0, RequestStays DEF RequestsFit
  <2> QED
    BY <2>1 DEF RequestsFit
<1>4. /\ RecordTyped' /\ lastSid' \in Nat /\ runs' \in [Msgs -> Nat] /\ DOMAIN sent' \subseteq Msgs
  BY <1>0 DEF TypeOK, RecordTyped
<1> QED
  BY <1>1, <1>2, <1>3, <1>4, PartsFit

(* The tasks fit the same record as before. *)
LEMMA QueueStays ==
  ASSUME IndInv, UNCHANGED <<queue, row, proc, sent, lastSid>>
  PROVE  QueueFits'
<1>0. TypeOK /\ QueueFits /\ SentGrows
  BY DEF IndInv, SentGrows
<1>1. ASSUME NEW i \in 1..Len(queue)
      PROVE  TaskFits(queue[i])' /\ (i # 1 => Waits(queue[i])')
  <2>1. PICK t \in Tasks :
          queue[i] = t /\ queue'[i] = t /\ TaskFits(t) /\ (i # 1 => Waits(t))
    BY <1>0, ElementOfSeq DEF QueueFits
  <2>2. TaskFits(t)'
    BY <1>0, <2>1, TaskStays
  <2> QED
    BY <2>1, <2>2, TaskPlaced DEF Waits
<1> QED
  BY <1>0, <1>1 DEF QueueFits

(* What a task read is the record of before it expired. *)
LEMMA ExpireFits ==
  ASSUME IndInv, Expire PROVE IndInv'
<1>0. TypeOK /\ QueueFits
  BY DEF IndInv
<1>1. /\ row # NoRow /\ ~row.old /\ row' = [row EXCEPT !.old = TRUE]
      /\ UNCHANGED <<acks, cmds, alertRows, os, env, queue, inflight, runs>>
  BY DEF Expire
<1>2. row \in Sessions /\ row.sid <= lastSid /\ row.route <= row.rev /\ row.req <= row.rev
  BY <1>0, <1>1, RowValue
<1>3. /\ row' \in Sessions /\ row'.sid = row.sid /\ row'.rev = row.rev
      /\ row'.status = row.status /\ row'.route = row.route /\ row'.req = row.req
  BY <1>1, <1>2 DEF Sessions
<1>4. row' # NoRow
  BY <1>0, <1>3, RowValue
<1>5. Touches
  BY <1>1, <1>3 DEF Touches
<1>6. RowTypeOK'
  BY <1>1, <1>2, <1>3 DEF RowTypeOK, env
<1>7. [row' EXCEPT !.old = FALSE] = row
  <2>1. row.old = FALSE
    BY <1>1, <1>2 DEF Sessions
  <2>2. [row EXCEPT !.old = row.old] = row
    BY <1>2 DEF Sessions
  <2>3. [row' EXCEPT !.old = FALSE] = [row EXCEPT !.old = FALSE]
    BY <1>1, <1>2 DEF Sessions
  <2> QED
    BY <2>1, <2>2, <2>3
<1>8. ASSUME NEW t \in Tasks, TaskFits(t) PROVE TaskFits(t)'
  <2>1. RowStep /\ SentGrows
    BY <1>1, <1>5 DEF RowStep, SentGrows, env
  <2>2. AnswerFits(t)' /\ CommandFits(t)'
    BY <1>0, <1>8, <2>1, AnswerStays DEF TaskFits
  <2>3. [row EXCEPT !.old = FALSE] = row
    BY <1>1, <1>2 DEF Sessions
  <2>4. CurFits(t)'
    <3>1. row.ok => row'.ok
      BY <1>1, <1>2 DEF Sessions
    <3> QED
      BY <1>1, <1>4, <1>7, <1>8, <2>3, <3>1 DEF TaskFits, CurFits, Reads
  <2>5. EffFits(t)'
    BY <1>3, <1>4, <1>8 DEF TaskFits, EffFits
  <2> QED
    BY <2>2, <2>4, <2>5 DEF TaskFits
<1>9. QueueFits'
  <2>1. queue' = queue /\ proc' = proc /\ queue \in Seq(Tasks)
    BY <1>0, <1>1 DEF QueueFits, env
  <2>2. ASSUME NEW i \in 1..Len(queue) PROVE TaskFits(queue[i])' /\ (i # 1 => Waits(queue[i])')
    <3>1. PICK t \in Tasks :
            queue[i] = t /\ queue'[i] = t /\ TaskFits(t) /\ (i # 1 => Waits(t))
      BY <1>0, <2>1, ElementOfSeq DEF QueueFits
    <3>2. TaskFits(t)'
      BY <1>8, <3>1
    <3> QED
      BY <3>1, <3>2, TaskPlaced DEF Waits
  <2> QED
    BY <1>0, <2>1, <2>2 DEF QueueFits
<1>10. OsTyped' /\ faults' \in 0..MaxFaults
  BY <1>0, <1>1 DEF TypeOK, OsTyped, os, env
<1> QED
  BY <1>1, <1>5, <1>6, <1>9, <1>10, WorldFits DEF env

LEMMA FireFits ==
  ASSUME IndInv, Fire PROVE IndInv'
<1>0. TypeOK
  BY DEF IndInv
<1>1. PICK a \in osAlerts : osAlerts' = osAlerts \ {a} /\ fired' = fired \cup {a}
  BY DEF Fire
<1>2. UNCHANGED <<row, acks, cmds, alertRows, driver, grant, visible, proc, sent, lastSid, faults,
                  queue, inflight, runs>>
  BY DEF Fire, db, env
<1>3. OsTyped' /\ faults' \in 0..MaxFaults /\ RowTypeOK'
  BY <1>0, <1>1, <1>2 DEF TypeOK, OsTyped, RowTypeOK
<1>4. QueueFits'
  BY <1>2, QueueStays
<1> QED
  BY <1>2, <1>3, <1>4, WorldFits

LEMMA FaultCounts ==
  ASSUME TypeOK, Fault PROVE faults' \in 0..MaxFaults
BY BoundsAssumption DEF TypeOK, Fault

LEMMA RevokeFits ==
  ASSUME IndInv, Revoke PROVE IndInv'
<1>0. TypeOK
  BY DEF IndInv
<1>1. /\ grant' = "none"
      /\ UNCHANGED <<row, acks, cmds, alertRows, driver, osAlerts, visible, fired, proc, sent,
                     lastSid, queue, inflight, runs>>
  BY DEF Revoke, db
<1>2. OsTyped' /\ RowTypeOK'
  BY <1>0, <1>1 DEF TypeOK, OsTyped, RowTypeOK
<1>3. QueueFits'
  BY <1>1, QueueStays
<1> QED
  BY <1>0, <1>1, <1>2, <1>3, FaultCounts, WorldFits DEF Revoke

(* The executor and its requests die with the process. *)
LEMMA CrashFits ==
  ASSUME IndInv, Crash PROVE IndInv'
<1>0. TypeOK
  BY DEF IndInv
<1>1. /\ proc' = "down" /\ visible' = FALSE /\ queue' = <<>> /\ inflight' = {}
      /\ driver' \in {driver, FALSE}
      /\ UNCHANGED <<row, acks, cmds, alertRows, osAlerts, grant, fired, sent, lastSid, runs>>
  BY DEF Crash, db
<1>2. OsTyped' /\ RowTypeOK'
  BY <1>0, <1>1 DEF TypeOK, OsTyped, RowTypeOK
<1>3. QueueFits'
  BY <1>1, EmptySeq, BoundsAssumption DEF QueueFits
<1> QED
  BY <1>0, <1>1, <1>2, <1>3, FaultCounts, WorldFits DEF Crash

LEMMA OpenFits ==
  ASSUME IndInv, Open PROVE IndInv'
<1>0. TypeOK /\ QueueFits /\ HistoryFits
  BY DEF IndInv
<1>1. PICK arg : arg = TRUE
  OBVIOUS
<1>2. PICK u : u = Task("reconcile", "none", 0, 0, arg)
  OBVIOUS
<1>3. u \in Tasks /\ Waits(u) /\ u.type = "reconcile"
  <2>1. arg \in Args
    BY <1>1, ArgValues, Zenon
  <2> QED
    BY <1>2, <2>1, OwnTask
<1>4. TaskFits(u)'
  BY <1>3, PlainFits DEF Commands
<1>5. /\ proc' = "ui" /\ visible' = TRUE /\ Len(queue) < MaxQueue /\ queue' = Append(queue, u)
      /\ UNCHANGED <<acks, cmds, alertRows, driver, osAlerts, grant, fired, sent, lastSid,
                     inflight, runs>>
  BY <1>1, <1>2, Zenon DEF Open, Submit
<1>6. CASE UNCHANGED <<row, faults>>
  <2>1. RowTypeOK' /\ faults' \in 0..MaxFaults /\ DOMAIN sent' \subseteq Msgs
    BY <1>0, <1>5, <1>6 DEF TypeOK, RowTypeOK
  <2>2. HistoryFits' /\ SentGrows
    BY <1>0, <1>5, <1>6, HistoryStays DEF RowStep, SentGrows
  <2> QED
    BY <1>3, <1>4, <1>5, <1>6, <2>1, <2>2, JoinFits
<1>7. CASE row # NoRow /\ proc = "down" /\ row' = [row EXCEPT !.ok = FALSE] /\ Fault
  <2>1. queue = <<>>
    BY <1>0, <1>7 DEF QueueFits
  <2>2. row \in Sessions /\ row.sid <= lastSid /\ row.route <= row.rev /\ row.req <= row.rev
    BY <1>0, <1>7, RowValue
  <2>3. /\ row' \in Sessions /\ row'.sid = row.sid /\ row'.rev = row.rev
        /\ row'.status = row.status /\ row'.route = row.route /\ row'.req = row.req
    BY <1>7, <2>2 DEF Sessions
  <2>4. Touches
    BY <1>7, <2>3 DEF Touches
  <2>5. RowTypeOK' /\ faults' \in 0..MaxFaults /\ DOMAIN sent' \subseteq Msgs
    BY <1>0, <1>5, <1>7, <2>2, <2>3, FaultCounts DEF TypeOK, RowTypeOK
  <2>6. HistoryFits' /\ SentGrows
    BY <1>0, <1>5, <2>4, HistoryStays DEF RowStep, SentGrows
  <2> QED
    BY <1>3, <1>4, <1>5, <2>1, <2>4, <2>5, <2>6, JoinFits
<1> QED
  BY <1>6, <1>7 DEF Open

-----------------------------------------------------------------------------
(* The invariant holds in every state. *)

LEMMA InitFits ==
  ASSUME Init PROVE IndInv
<1>1. queue = <<>> /\ queue \in Seq(Tasks) /\ Len(queue) = 0 /\ DOMAIN queue = {}
  BY EmptySeq DEF Init
<1>2. TypeOK
  <2>1. /\ DOMAIN sent \subseteq Msgs /\ Len(queue) <= MaxQueue /\ faults \in 0..MaxFaults
        /\ \A i \in DOMAIN queue : queue[i].cur = NoRow \/ queue[i].cur \in Sessions
    BY <1>1, BoundsAssumption DEF Init
  <2>2. /\ lastSid \in Nat /\ acks \subseteq 1..lastSid /\ RowTypeOK
        /\ alertRows \subseteq Alerts /\ osAlerts \subseteq Alerts /\ fired \subseteq Alerts
    BY DEF Init, RowTypeOK
  <2>3. cmds \in [Msgs -> {None} \cup Nat] /\ runs \in [Msgs -> Nat]
    BY DEF Init
  <2>4. /\ driver \in BOOLEAN /\ visible \in BOOLEAN
        /\ grant \in {"none", "foreground", "background"} /\ proc \in {"down", "ui", "headless"}
    BY DEF Init
  <2> QED
    BY <2>1, <2>2, <2>3, <2>4 DEF TypeOK
<1>3. QueueFits
  BY <1>1, BoundsAssumption DEF QueueFits
<1>4. HistoryFits
  <2>1. DOMAIN sent = {} /\ \A m \in Msgs : runs[m] = 0
    BY DEF Init
  <2> QED
    BY <2>1 DEF HistoryFits
<1> QED
  BY <1>2, <1>3, <1>4 DEF Init, IndInv, NoMutationAfterStop, RequestsFit

LEMMA SignedInFits ==
  ASSUME IndInv, NEW i, SignedIn(i) PROVE IndInv'
<1>1. i = 1 /\ queue # <<>>
  BY Turns DEF SignedIn, IndInv
<1> QED
  BY <1>1, LeaveFits DEF SignedIn, db, IndInv, TypeOK

LEMMA WorkFits ==
  ASSUME IndInv, Work \/ Prompted PROVE IndInv'
<1>1. CASE Prompted
  BY <1>1, DecideFits, SignedInFits DEF Prompted
<1>2. CASE Work
  <2>1. PICK i \in 1..MaxQueue :
          \/ Lookup(i) \/ Load(i) \/ Prepare(i) \/ Start(i) \/ Replace(i)
          \/ UpdateSettings(i) \/ TransitAction(i) \/ Stop(i) \/ Batch(i) \/ Answer(i)
          \/ Reconcile(i) \/ Resume(i) \/ EndSession(i)
          \/ Effect(i) \/ EffectFails(i) \/ UndoStart(i) \/ Finish(i)
    BY <1>2 DEF Work
  <2> QED
    BY <2>1, LookupFits, LoadFits, PrepareFits, StartFits, ReplaceFits, UpdateSettingsFits,
       TransitActionFits, StopFits, BatchFits, AnswerStepFits, ReconcileFits, ResumeFits,
       EndSessionFits, EffectFits, EffectFailsFits, UndoStartFits, FinishFits
<1> QED
  BY <1>1, <1>2

LEMMA StutterFits ==
  ASSUME IndInv, UNCHANGED vars PROVE IndInv'
<1>1. UNCHANGED <<row, acks, cmds, alertRows, driver, osAlerts, grant, visible, fired, proc, sent,
                  lastSid, faults, queue, inflight, runs>>
  BY DEF vars, db, os, env
<1>2. QueueFits'
  BY <1>1, QueueStays
<1>3. RowTypeOK' /\ OsTyped' /\ faults' \in 0..MaxFaults
  BY <1>1 DEF IndInv, TypeOK, OsTyped, RowTypeOK
<1> QED
  BY <1>1, <1>2, <1>3, WorldFits

(* The invariant on which the other theorems rest: the executor's tasks fit the record, and
   what was named by an earlier session or revision stays apart from the present one. *)
THEOREM Invariance == Spec => []IndInv
<1>1. Init => IndInv
  BY InitFits
<1>2. IndInv /\ [Next]_vars => IndInv'
  <2> SUFFICES ASSUME IndInv, [Next]_vars PROVE IndInv'
    OBVIOUS
  <2>1. CASE Work \/ Prompted
    BY <2>1, WorkFits
  <2>2. CASE Send \/ Resend \/ SignIn \/ Deliver \/ Respond
    BY <2>2, SendFits, ResendFits, SignInFits, DeliverFits, RespondFits
  <2>3. CASE ChangeVisibility \/ Choose \/ StopFromSurface
    BY <2>3, ChangeVisibilityFits, ChooseFits, StopFromSurfaceFits
  <2>4. CASE Expire \/ Fire \/ Revoke \/ Crash \/ Open \/ Wake
    BY <2>4, ExpireFits, FireFits, RevokeFits, CrashFits, OpenFits, WakeFits
  <2>5. CASE UNCHANGED vars
    BY <2>5, StutterFits
  <2> QED
    BY <2>1, <2>2, <2>3, <2>4, <2>5 DEF Next
<1> QED
  BY <1>1, <1>2, PTL DEF Spec

(* The database, the executor and the operating system keep their types, for any bounds. *)
THEOREM TypesHold == Spec => []TypeOK
<1>1. IndInv => TypeOK
  BY DEF IndInv
<1> QED
  BY <1>1, Invariance, PTL

(* serialExecutor.ts calls the compare-and-swap a backstop: what a task has read is the
   record when it commits, for any number of tasks and across the permission prompt. *)
THEOREM NoConflict == Spec => []SerialBackstop
<1>1. IndInv => SerialBackstop
  <2> SUFFICES ASSUME IndInv, NEW i \in DOMAIN queue, queue[i].pc \in {"act", "prompt"}
               PROVE  /\ queue[i].cur.sid = row.sid /\ queue[i].cur.rev = row.rev
                      /\ row # NoRow => row.ok
    BY DEF SerialBackstop, Current
  <2>1. TypeOK /\ queue \in Seq(Tasks) /\ i \in 1..Len(queue)
    BY LenProperties DEF IndInv, QueueFits
  <2>2. TaskFits(queue[i])
    BY <2>1 DEF IndInv, QueueFits
  <2> QED
    BY <2>1, <2>2, ReadsRow DEF TaskFits, CurFits, Reads
<1> QED
  BY <1>1, Invariance, PTL

(* terminate and compareAndSwap: an acknowledged end is final; no batch, answer, command,
   recovery or effect brings the session back. *)
THEOREM EndIsFinal == Spec => []NoMutationAfterStop
<1>1. IndInv => NoMutationAfterStop
  BY DEF IndInv
<1> QED
  BY <1>1, Invariance, PTL

(* assertExpected: a command that carries a revision changes the session at most once,
   however often the page repeats it and wherever the process dies. *)
THEOREM RepeatsAreHarmless == Spec => []StampedOnce
<1>1. IndInv => StampedOnce
  BY DEF IndInv, HistoryFits, SentFits, StampedOnce
<1> QED
  BY <1>1, Invariance, PTL

-----------------------------------------------------------------------------
(* What a step may never do. *)

LEMMA PageKeeps ==
  ASSUME Send \/ Resend
  PROVE  UNCHANGED db /\ row' = row /\ driver' = driver /\ lastSid' = lastSid
<1>1. PICK m, t : Issue(m, t)
  <2>1. CASE Send
    BY <2>1 DEF Send
  <2>2. CASE Resend
    BY <2>2 DEF Resend
  <2> QED
    BY <2>1, <2>2
<1> QED
  BY <1>1 DEF Issue, db, os

LEMMA DriverSteps ==
  ASSUME IndInv, [Next]_vars
  PROVE  driver' = driver \/ driver' = FALSE \/ \E i \in 1..MaxQueue : Effect(i)
<1>1. CASE Work
  <2>1. PICK i \in 1..MaxQueue :
          \/ Lookup(i) \/ Load(i) \/ Prepare(i) \/ Start(i) \/ Replace(i)
          \/ UpdateSettings(i) \/ TransitAction(i) \/ Stop(i) \/ Batch(i) \/ Answer(i)
          \/ Reconcile(i) \/ Resume(i) \/ EndSession(i)
          \/ Effect(i) \/ EffectFails(i) \/ UndoStart(i) \/ Finish(i)
    BY <1>1 DEF Work
  <2>2. Lookup(i) \/ Load(i) \/ Prepare(i) \/ Start(i) \/ Replace(i) => driver' = driver
    BY DEF Lookup, Load, Prepare, Start, Replace, os
  <2>3. UpdateSettings(i) \/ TransitAction(i) \/ Stop(i) \/ Batch(i) \/ Answer(i) => driver' = driver
    BY DEF UpdateSettings, TransitAction, Stop, Batch, Answer, os
  <2>4. Reconcile(i) \/ Resume(i) \/ EndSession(i) => driver' = driver
    BY DEF Reconcile, Resume, EndSession, os
  <2>5. EffectFails(i) \/ UndoStart(i) \/ Finish(i) => driver' = driver
    BY DEF EffectFails, UndoStart, Finish, os
  <2> QED
    BY <2>1, <2>2, <2>3, <2>4, <2>5
<1>2. CASE Prompted
  <2>1. PICK i \in 1..MaxQueue : Decide(i) \/ SignedIn(i)
    BY <1>2 DEF Prompted
  <2> QED
    BY <2>1 DEF Decide, SignedIn, os
<1>3. CASE Send \/ Resend
  BY <1>3, PageKeeps
<1>4. CASE SignIn \/ Deliver \/ Respond \/ ChangeVisibility \/ Choose \/ StopFromSurface
  BY <1>4 DEF SignIn, Deliver, Respond, ChangeVisibility, Choose, StopFromSurface, os
<1>5. CASE Expire \/ Fire \/ Revoke \/ Open \/ Wake \/ UNCHANGED vars
  BY <1>5 DEF Expire, Fire, Revoke, Open, Wake, vars, os
<1>6. CASE Crash
  BY <1>6 DEF Crash
<1> QED
  BY <1>1, <1>2, <1>3, <1>4, <1>5, <1>6 DEF Next

(* start: consent, then commit, then the driver.  A step that starts tracking finds the
   session on record and past its preparation, whatever ended or replaced it meanwhile. *)
THEOREM TrackingFollowsCommit == Spec => TrackingIsRecorded
<1>1. IndInv /\ [Next]_vars => [~driver /\ driver' => row # NoRow /\ row.status # "preparing"]_vars
  <2> SUFFICES ASSUME IndInv, [Next]_vars, ~driver, driver'
               PROVE  row # NoRow /\ row.status # "preparing"
    OBVIOUS
  <2>1. PICK i \in 1..MaxQueue : Effect(i)
    BY DriverSteps
  <2> DEFINE t == queue[1]
  <2>2. i = 1 /\ t \in Tasks /\ TaskFits(t) /\ t.pc = "effects"
    BY <2>1, Turns DEF Effect, IndInv
  <2>3. t.eff \in Plans /\ t.eff # <<>>
    BY <2>1, <2>2, TaskFields DEF Effect
  <2>4. Drives(Head(t.eff))
    BY <2>1, <2>2 DEF Effect
  <2>5. Driving(t.eff)
    BY <2>3, <2>4, TailPlans
  <2> QED
    BY <2>2, <2>5 DEF TaskFits, EffFits, Driving
<1> QED
  BY <1>1, Invariance, PTL DEF Spec, TrackingIsRecorded

(* While an answer has its turn, a step that changes the revision is the answer's. *)
LEMMA AnswerSteps ==
  ASSUME IndInv, [Next]_vars, Is(1, "answer"), row # NoRow, row' # NoRow, row'.rev # row.rev
  PROVE  Answer(1)
<1>0. TypeOK /\ queue[1].pc = "act" /\ queue[1].type = "answer"
  BY DEF IndInv, Is, At
<1>1. CASE Work
  <2>1. PICK i \in 1..MaxQueue :
          \/ Lookup(i) \/ Load(i) \/ Prepare(i) \/ Start(i) \/ Replace(i)
          \/ UpdateSettings(i) \/ TransitAction(i) \/ Stop(i) \/ Batch(i) \/ Answer(i)
          \/ Reconcile(i) \/ Resume(i) \/ EndSession(i)
          \/ Effect(i) \/ EffectFails(i) \/ UndoStart(i) \/ Finish(i)
    BY <1>1 DEF Work
  <2>2. ~At(i, "lookup") /\ ~At(i, "load") /\ ~At(i, "effects")
    BY <1>0 DEF At, Turn
  <2>3. ASSUME NEW type, Is(i, type) PROVE i = 1 /\ type = "answer"
    BY <1>0, <2>3 DEF Is, At, Turn
  <2>4. ~Lookup(i) /\ ~Load(i)
    BY <2>2 DEF Lookup, Load
  <2>5. ~Effect(i) /\ ~EffectFails(i) /\ ~UndoStart(i) /\ ~Finish(i)
    BY <2>2 DEF Effect, EffectFails, UndoStart, Finish
  <2>6. ~Prepare(i) /\ ~Start(i) /\ ~Replace(i) /\ ~UpdateSettings(i) /\ ~TransitAction(i)
    <3>1. /\ ~Is(i, "prepare") /\ ~Is(i, "start") /\ ~Is(i, "replace")
          /\ ~Is(i, "settings") /\ ~Is(i, "action")
      BY <2>3
    <3> QED
      BY <3>1 DEF Prepare, Start, Replace, UpdateSettings, TransitAction
  <2>7. ~Stop(i) /\ ~Batch(i) /\ ~Reconcile(i) /\ ~Resume(i) /\ ~EndSession(i)
    BY <2>3 DEF Stop, Batch, Reconcile, Resume, EndSession
  <2>8. Answer(i)
    BY <2>1, <2>4, <2>5, <2>6, <2>7
  <2> QED
    BY <2>3, <2>8 DEF Answer
<1>2. CASE Prompted
  <2>0. PICK i \in 1..MaxQueue : Decide(i) \/ SignedIn(i)
    BY <1>2 DEF Prompted
  <2>1. At(i, "prompt") \/ At(i, "browser")
    BY <2>0 DEF Decide, SignedIn
  <2> QED
    BY <1>0, <2>1 DEF At, Turn
<1>3. CASE Send \/ Resend \/ SignIn \/ Deliver \/ Respond
  BY <1>3, PageKeeps DEF SignIn, Deliver, Respond, db
<1>4. CASE ChangeVisibility \/ Choose \/ StopFromSurface \/ Fire \/ Revoke \/ Crash \/ Wake
  BY <1>4 DEF ChangeVisibility, Choose, StopFromSurface, Fire, Revoke, Crash, Wake, db
<1>5. CASE Expire \/ Open
  <2>1. row \in Sessions
    BY <1>0, RowValue
  <2>2. row' = row \/ row' = [row EXCEPT !.old = TRUE] \/ row' = [row EXCEPT !.ok = FALSE]
    BY <1>5 DEF Expire, Open
  <2>3. row'.rev = row.rev
    BY <2>1, <2>2 DEF Sessions
  <2> QED
    BY <2>3
<1>6. CASE UNCHANGED vars
  BY <1>6 DEF vars, db
<1> QED
  BY <1>1, <1>2, <1>3, <1>4, <1>5, <1>6 DEF Next

(* commitReroute and applyTransitRefresh: an answer changes the session only while the
   session follows the route the request was made for, however late the answer comes. *)
THEOREM LateAnswersAreStale == Spec => AnswerFitsRoute
<1> DEFINE P == \A i \in DOMAIN queue :
                  Is(i, "answer") /\ row # NoRow /\ row' # NoRow /\ row'.rev # row.rev
                    => row.sid = queue[i].sid /\ row.route = queue[i].arg.base
<1>1. IndInv /\ [Next]_vars => P
  <2> SUFFICES ASSUME IndInv, [Next]_vars, NEW i \in DOMAIN queue, Is(i, "answer"),
                      row # NoRow, row' # NoRow, row'.rev # row.rev
               PROVE  row.sid = queue[i].sid /\ row.route = queue[i].arg.base
    OBVIOUS
  <2> DEFINE t == queue[1]
             s == queue[1].cur
  <2>1. /\ i = 1 /\ t \in Tasks /\ TaskFits(t) /\ t.type = "answer"
        /\ s.sid = row.sid /\ s.req = row.req
    BY Acting DEF Is
  <2>2. Answer(1)
    BY <2>1, AnswerSteps
  <2>3. Expected(t, s)
    BY <2>2 DEF Answer, Refuse, db
  <2>4. RequestFits(t.sid, t.rev, t.arg.base)
    BY <2>1 DEF TaskFits, AnswerFits
  <2> QED
    BY <2>1, <2>3, <2>4 DEF Expected, RequestFits
<1>2. IndInv /\ [Next]_vars => [P]_vars
  BY <1>1
<1> HIDE DEF P
<1>3. Spec => [][P]_vars
  BY <1>2, Invariance, PTL DEF Spec
<1> QED
  BY <1>3 DEF AnswerFitsRoute, P
=============================================================================
