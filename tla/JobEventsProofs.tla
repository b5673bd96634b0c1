-------------------------- MODULE JobEventsProofs --------------------------
(***************************************************************************)
(* Proofs about the live views of a job, for any number of viewers,        *)
(* changes, restarts and lost connections and any size of ring and         *)
(* backlog.  A page becomes live by a replay from its last event id or by  *)
(* a snapshot and the backlog behind it.  What has to be carried there is  *)
(* what each of the two covers while changes are committed and published,  *)
(* and that the job has not ended unnoticed, so that the bus, which        *)
(* forgets its listeners when it drops a finished job, still has the page. *)
(***************************************************************************)
EXTENDS JobEvents, SequenceTheorems, WellFoundedInduction, TLAPS

(* The changes published after a cursor. *)
After(n) == {log[c] : c \in (n + 1)..Len(log)}

(* The bus publishes what is committed, and the drop timer runs only for a job whose
   end it has published. *)
BusFits ==
  /\ unpublished \subseteq 1..committed
  /\ \A c \in 1..Len(log) : log[c] \in 1..committed
  /\ timer => final /\ \E c \in 1..Len(log) : log[c] = committed

(* A page shows what the snapshot it was sent had. *)
CountFits(v) ==
  /\ snap[v] <= committed /\ base[v] <= committed
  /\ 1..base[v] \subseteq known[v]

(* What a page may lack: the bus has it still to publish, or nobody publishes it. *)
Owed(v) == unpublished \cup Untold(v)

(* An event id of another JobState is an older one. *)
EpochFits(v) ==
  /\ vepoch[v] <= epoch
  /\ v \in stale => vepoch[v] < epoch

LiveFits(v) ==
  vpc[v] = "live" /\ v \notin stale =>
    /\ v \in listeners /\ vepoch[v] = epoch /\ vid[v] = Len(log) /\ ~timer
    /\ 1..committed \subseteq known[v] \cup Owed(v)

(* What a replay from the page's event id would rest on. *)
IdFits(v) ==
  vepoch[v] = epoch =>
    /\ vid[v] > Len(log) => final /\ unpublished = {}
    /\ vid[v] # 0 /\ vid[v] <= Len(log) =>
         1..committed \subseteq known[v] \cup Owed(v) \cup After(vid[v])
    /\ vpc[v] = "lookup" /\ ~readFinal[v] =>
         \A c \in 1..Len(log) : c <= vid[v] => ~Ends(log[c])

Priming(v) == vpc[v] \in {"snapshot", "reread"}

(* The backlog is what the bus published since the page subscribed. *)
BacklogFits(v) ==
  /\ ~Priming(v) => backlog[v] = <<>>
  /\ Priming(v) /\ v \in listeners =>
       /\ snapCursor[v] <= Len(log)
       /\ Len(backlog[v]) = Len(log) - snapCursor[v]
       /\ \A i \in 1..Len(backlog[v]) :
            backlog[v][i] = [cursor |-> snapCursor[v] + i, change |-> log[snapCursor[v] + i]]

(* What the snapshot and the backlog cover. *)
SnapshotFits(v) ==
  vpc[v] = "reread" /\ v \in listeners =>
    /\ 1..committed \subseteq (1..snap[v]) \cup unpublished \cup silent \cup After(snapCursor[v])
    /\ ~readFinal[v] => \A c \in 1..Len(log) : c <= snapCursor[v] => ~Ends(log[c])

(* A page that was being primed when the bus dropped the job will see its end. *)
DroppedFits(v) ==
  Priming(v) /\ v \notin listeners =>
    /\ final /\ unpublished = {} /\ log = <<>>
    /\ vpc[v] = "reread" /\ ~readFinal[v] => \E i \in HeldBack(v) : Ends(backlog[v][i].change)

ViewFits(v) ==
  /\ CountFits(v) /\ EpochFits(v) /\ LiveFits(v) /\ IdFits(v)
  /\ BacklogFits(v) /\ SnapshotFits(v) /\ DroppedFits(v)

IndInv == TypeOK /\ BusFits /\ \A v \in Viewers : ViewFits(v)

-----------------------------------------------------------------------------
(* Arithmetic the priming of a stream rests on. *)

(* A set of indices has a first and a last element. *)
LEMMA FirstExists ==
  ASSUME NEW S, S \subseteq Nat, S # {}
  PROVE  \E m \in S : \A k \in S : m <= k
<1>1. PICK m \in S : \A k \in S : ~(<<k, m>> \in OpToRel(<, Nat))
  BY NatLessThanWellFounded, WFMin
<1>2. \A k \in S : ~(k < m)
  BY <1>1 DEF OpToRel
<1> QED
  BY <1>2

LEMMA LastExists ==
  ASSUME NEW n \in Nat, NEW S, S \subseteq 1..n, S # {}
  PROVE  \E m \in S : \A k \in S : k <= m
<1> DEFINE T == {n - i : i \in S}
<1>1. T \subseteq Nat /\ T # {}
  <2>1. \A i \in S : n - i \in Nat
    OBVIOUS
  <2>2. PICK i \in S : TRUE
    OBVIOUS
  <2> QED
    BY <2>1, <2>2
<1>2. PICK t \in T : \A k \in T : t <= k
  BY <1>1, FirstExists
<1>3. PICK m \in S : t = n - m
  BY <1>2
<1>4. \A k \in S : n - m <= n - k
  BY <1>2, <1>3
<1> QED
  BY <1>4

-----------------------------------------------------------------------------
(* A page about which a step changes nothing keeps what holds of it. *)
Same(w) ==
  /\ UNCHANGED <<committed, final, unpublished, silent, log, timer, epoch>>
  /\ UNCHANGED <<vpc[w], vid[w], known[w], readFinal[w], snap[w], snapCursor[w],
                 backlog[w], base[w], vepoch[w]>>
  /\ (w \in listeners') <=> (w \in listeners)
  /\ (w \in stale') <=> (w \in stale)

LEMMA Bystander ==
  ASSUME NEW w \in Viewers, ViewFits(w), Same(w)
  PROVE  ViewFits(w)'
<1> USE DEF Same
<1>0. CountFits(w)' /\ Owed(w)' = Owed(w)
  BY DEF ViewFits, CountFits, Owed, Untold
<1>1. EpochFits(w)'
  BY DEF ViewFits, EpochFits
<1>2. LiveFits(w)'
  BY <1>0 DEF ViewFits, LiveFits
<1>3. IdFits(w)'
  BY <1>0 DEF ViewFits, IdFits, After, Ends
<1>4. BacklogFits(w)'
  BY DEF ViewFits, BacklogFits, Priming
<1>5. SnapshotFits(w)'
  BY DEF ViewFits, SnapshotFits, After, Ends
<1>6. DroppedFits(w)'
  BY DEF ViewFits, DroppedFits, Priming, HeldBack, Ends
<1> QED
  BY <1>0, <1>1, <1>2, <1>3, <1>4, <1>5, <1>6 DEF ViewFits

LEMMA BusSame ==
  ASSUME BusFits, UNCHANGED <<committed, final, unpublished, log, timer>>
  PROVE  BusFits'
BY DEF BusFits

-----------------------------------------------------------------------------
(* The job runner and the bus. *)

(* A commit, announced or not. *)
LEMMA ChangeFits ==
  ASSUME IndInv, NEW last \in BOOLEAN, NewChange(last), UNCHANGED <<busVars, faultVars, viewerVars>>,
         unpublished \subseteq unpublished', unpublished' \subseteq unpublished \cup {committed + 1},
         silent \subseteq silent', silent' \subseteq silent \cup {committed + 1},
         committed + 1 \in unpublished' \cup silent'
  PROVE  IndInv'
<1> USE BoundsAssumption DEF NewChange, busVars, faultVars, viewerVars
<1>1. TypeOK'
  <2>1. committed' \in 0..MaxChanges /\ committed + 1 \in Changes
    BY DEF IndInv, TypeOK, Changes
  <2>2. unpublished' \in SUBSET Changes /\ silent' \in SUBSET Changes
    BY <2>1 DEF IndInv, TypeOK
  <2> QED
    BY <2>1, <2>2 DEF IndInv, TypeOK
<1>2. ~timer /\ unpublished \subseteq 1..committed /\ committed \in Nat
  BY DEF IndInv, BusFits, TypeOK
<1>3. BusFits'
  <2>1. 1..committed' = (1..committed) \cup {committed + 1}
    BY <1>2
  <2>2. unpublished' \subseteq 1..committed'
    BY <1>2, <2>1
  <2> QED
    BY <1>2, <2>1, <2>2 DEF IndInv, BusFits
<1>4. ASSUME NEW v \in Viewers PROVE ViewFits(v)'
  <2> /\ CountFits(v) /\ EpochFits(v) /\ LiveFits(v) /\ IdFits(v) /\ BacklogFits(v)
      /\ SnapshotFits(v) /\ DroppedFits(v)
    BY DEF IndInv, ViewFits
  <2>0. base[v] \in Nat /\ snap[v] \in Nat
    BY DEF IndInv, TypeOK
  <2>1. 1..committed' = (1..committed) \cup {committed + 1}
    BY <1>2
  <2>2. \A c \in 1..Len(log) : ~Ends(log[c])'
    BY <1>2 DEF Ends, IndInv, BusFits
  <2>3. EpochFits(v)' /\ CountFits(v)'
    BY <1>2, <2>0 DEF EpochFits, CountFits
  <2>a. Owed(v) \cup {committed + 1} \subseteq Owed(v)'
    <3>1. committed + 1 > base[v]
      BY <1>2, <2>0 DEF CountFits
    <3> QED
      BY <3>1 DEF Owed, Untold
  <2>4. LiveFits(v)'
    BY <2>1, <2>a DEF LiveFits
  <2>5. IdFits(v)'
    <3>1. ~(vepoch[v] = epoch /\ vid[v] > Len(log))
      BY DEF IdFits
    <3>2. After(vid[v])' = After(vid[v])
      BY DEF After
    <3>3. vepoch[v] = epoch /\ vid[v] # 0 /\ vid[v] <= Len(log) =>
            1..committed' \subseteq known[v] \cup Owed(v)' \cup After(vid[v])'
      BY <2>1, <2>a, <3>2 DEF IdFits
    <3> QED
      BY <2>2, <3>1, <3>3 DEF IdFits
  <2>6. BacklogFits(v)'
    BY DEF BacklogFits, Priming
  <2>7. SnapshotFits(v)'
    BY <2>1, <2>2 DEF SnapshotFits, After
  <2>8. DroppedFits(v)'
    BY DEF DroppedFits, Priming
  <2> QED
    BY <2>3, <2>4, <2>5, <2>6, <2>7, <2>8 DEF ViewFits
<1> QED
  BY <1>1, <1>3, <1>4 DEF IndInv

LEMMA CommitFits ==
  ASSUME IndInv, NEW last \in BOOLEAN, Commit(last) \/ CommitUnannounced(last)
  PROVE  IndInv'
<1>1. CASE Commit(last)
  BY <1>1, ChangeFits DEF Commit
<1>2. CASE CommitUnannounced(last)
  BY <1>2, ChangeFits DEF CommitUnannounced
<1> QED
  BY <1>1, <1>2

(* What is not published any more was committed after a page's snapshot, or the page has it. *)
LEMMA AbandonFits ==
  ASSUME IndInv, NEW change \in Changes, Abandon(change)
  PROVE  IndInv'
<1> USE BoundsAssumption DEF Abandon, busVars, faultVars, viewerVars
<1>1. TypeOK'
  BY DEF IndInv, TypeOK
<1>2. BusFits'
  BY DEF IndInv, BusFits
<1>3. ASSUME NEW v \in Viewers PROVE ViewFits(v)'
  <2> /\ CountFits(v) /\ EpochFits(v) /\ LiveFits(v) /\ IdFits(v) /\ BacklogFits(v)
      /\ SnapshotFits(v) /\ DroppedFits(v)
    BY DEF IndInv, ViewFits
  <2>1. base[v] \in Nat /\ change \in Nat /\ change >= 1
    BY DEF IndInv, TypeOK, Changes
  <2>2. Owed(v) \subseteq known[v] \cup Owed(v)'
    BY <2>1 DEF Owed, Untold, CountFits
  <2>3. CountFits(v)' /\ EpochFits(v)' /\ BacklogFits(v)'
    BY DEF CountFits, EpochFits, BacklogFits, Priming
  <2>4. LiveFits(v)'
    BY <2>2 DEF LiveFits
  <2>5. IdFits(v)'
    BY <2>2 DEF IdFits, After, Ends
  <2>6. SnapshotFits(v)'
    BY DEF SnapshotFits, After, Ends
  <2>7. DroppedFits(v)'
    BY DEF DroppedFits, Priming
  <2> QED
    BY <2>3, <2>4, <2>5, <2>6, <2>7 DEF ViewFits
<1> QED
  BY <1>1, <1>2, <1>3 DEF IndInv

(* What one more event does to the log. *)
LEMMA PublishLog ==
  ASSUME TypeOK, NEW change \in Changes, log' = Append(log, change)
  PROVE  /\ Len(log) \in Nat /\ Len(log') = Len(log) + 1 /\ log' \in Seq(Changes)
         /\ log'[Len(log) + 1] = change
         /\ \A c \in 1..Len(log) : log'[c] = log[c]
         /\ \A n \in Nat : n <= Len(log) => After(n)' = After(n) \cup {change}
<1>1. /\ Len(log) \in Nat /\ Len(log') = Len(log) + 1 /\ log' \in Seq(Changes)
      /\ log'[Len(log) + 1] = change
      /\ \A c \in 1..Len(log) : log'[c] = log[c]
  BY AppendProperties DEF TypeOK
<1>2. ASSUME NEW n \in Nat, n <= Len(log)
      PROVE  After(n)' = After(n) \cup {change}
  <2>1. (n + 1)..Len(log') = ((n + 1)..Len(log)) \cup {Len(log) + 1}
    BY <1>1, <1>2
  <2>2. \A c \in (n + 1)..Len(log) : log'[c] = log[c]
    BY <1>1, <1>2
  <2> QED
    BY <1>1, <2>1, <2>2 DEF After
<1> QED
  BY <1>1, <1>2

LEMMA PublishFits ==
  ASSUME IndInv, NEW change \in Changes, Publish(change)
  PROVE  IndInv'
<1> USE BoundsAssumption, PendingAssumption
<1> DEFINE event == [cursor |-> Len(log) + 1, change |-> change]
           live == {v \in listeners : vpc[v] = "live"}
           held == {v \in listeners : vpc[v] \in {"snapshot", "reread"}}
           over == {v \in held : Overflows(v)}
<1>0. TypeOK /\ BusFits /\ \A v \in Viewers : ViewFits(v)
  BY DEF IndInv
<1>1. /\ change \in unpublished /\ unpublished' = unpublished \ {change}
      /\ bus' = TRUE /\ log' = Append(log, change)
      /\ listeners' = listeners \ (over \cup (IF Ends(change) THEN live ELSE {}))
      /\ UNCHANGED <<committed, final, silent, epoch, restarts, disconnects,
                     readFinal, snap, snapCursor, base, vepoch, stale>>
  BY DEF Publish, faultVars
<1>2. \A v \in Viewers :
        /\ known'[v] = IF v \in live THEN known[v] \cup {change} ELSE known[v]
        /\ vid'[v] = IF v \in live THEN Len(log) + 1 ELSE vid[v]
        /\ backlog'[v] = IF v \in over THEN <<>>
                         ELSE IF v \in held THEN Append(backlog[v], event) ELSE backlog[v]
        /\ vpc'[v] = IF v \in over THEN "away"
                     ELSE IF v \in live /\ Ends(change) THEN "closing" ELSE vpc[v]
  BY DEF Publish
<1>3. timer' \in BOOLEAN /\ (timer' => timer \/ Ends(change))
  BY <1>0, Zenon DEF Publish, TypeOK, Ends
<1>4. /\ Len(log) \in Nat /\ Len(log') = Len(log) + 1 /\ log' \in Seq(Changes)
      /\ log'[Len(log) + 1] = change
      /\ \A c \in 1..Len(log) : log'[c] = log[c]
      /\ \A n \in Nat : n <= Len(log) => After(n)' = After(n) \cup {change}
  BY <1>0, <1>1, PublishLog
<1>5. \A v \in Viewers : v \in held /\ v \notin over => Len(backlog[v]) < MaxPending
  BY <1>0 DEF Overflows, TypeOK
<1>6. event \in Events
  BY <1>4 DEF Events
<1> HIDE DEF event, live, held, over
<1>7. TypeOK'
  <2>1. /\ unpublished' \in SUBSET Changes /\ bus' \in BOOLEAN
        /\ listeners' \in SUBSET Viewers /\ log' \in Seq(Changes)
    BY <1>0, <1>1, <1>4 DEF TypeOK
  <2>2. vid' \in [Viewers -> Nat] /\ known' \in [Viewers -> SUBSET Changes]
    <3>1. vid' \in [Viewers -> Nat]
      BY <1>0, <1>2, <1>4 DEF TypeOK, Publish
    <3>2. known' \in [Viewers -> SUBSET Changes]
      BY <1>0, <1>2 DEF TypeOK, Publish
    <3> QED
      BY <3>1, <3>2
  <2>3. vpc' \in [Viewers -> {"away", "ended"} \cup Connected]
    BY <1>0, <1>2 DEF TypeOK, Publish, Connected
  <2>4. ASSUME NEW v \in Viewers
        PROVE  backlog'[v] \in Seq(Events) /\ Len(backlog'[v]) <= MaxPending
    <3>1. backlog[v] \in Seq(Events) /\ Len(backlog[v]) <= MaxPending
      BY <1>0 DEF TypeOK
    <3>2. Append(backlog[v], event) \in Seq(Events)
          /\ Len(Append(backlog[v], event)) = Len(backlog[v]) + 1
      BY <1>6, <3>1, AppendProperties
    <3>3. Len(backlog[v]) \in Nat
      BY <3>1, LenProperties
    <3>4. CASE v \in over
      <4>1. backlog'[v] = <<>>
        BY <1>2, <3>4
      <4> QED
        BY <4>1, EmptySeq
    <3>5. CASE v \notin over /\ v \in held
      <4>1. backlog'[v] = Append(backlog[v], event) /\ Len(backlog[v]) < MaxPending
        BY <1>2, <1>5, <3>5
      <4> QED
        BY <3>2, <3>3, <4>1
    <3>6. CASE v \notin over /\ v \notin held
      BY <1>2, <3>1, <3>6
    <3> QED
      BY <3>4, <3>5, <3>6
  <2>5. backlog' \in [Viewers -> Seq(Events)]
    BY <2>4 DEF Publish
  <2> QED
    BY <1>0, <1>1, <1>3, <2>1, <2>2, <2>3, <2>4, <2>5 DEF TypeOK
<1>8. BusFits'
  BY <1>0, <1>1, <1>3, <1>4 DEF BusFits, Ends, TypeOK
<1>9. ASSUME NEW v \in Viewers PROVE ViewFits(v)'
  <2>1. /\ CountFits(v) /\ EpochFits(v) /\ LiveFits(v) /\ IdFits(v) /\ BacklogFits(v)
        /\ SnapshotFits(v) /\ DroppedFits(v)
    BY <1>0 DEF ViewFits
  <2>2. EpochFits(v)' /\ CountFits(v)'
    BY <1>1, <1>2, <2>1 DEF EpochFits, CountFits
  <2>a. Owed(v) \subseteq Owed(v)' \cup {change}
    BY <1>1 DEF Owed, Untold
  <2>3. LiveFits(v)'
    BY <1>1, <1>2, <1>3, <1>4, <2>1, <2>a DEF LiveFits, live, over, held
  <2>4. IdFits(v)'
    <3> SUFFICES ASSUME vepoch[v] = epoch PROVE IdFits(v)'
      BY <1>1 DEF IdFits
    <3>1. CASE v \in live
      <4>1. 1..committed \subseteq known[v] \cup Owed(v)
        BY <2>1, <3>1, <1>0 DEF live, EpochFits, LiveFits, TypeOK
      <4>2. vid'[v] = Len(log') /\ known'[v] = known[v] \cup {change} /\ vpc'[v] # "lookup"
        BY <1>2, <1>4, <3>1 DEF live
      <4>3. ~(vid'[v] > Len(log')) /\ Len(log') \in Nat
        BY <1>4, <4>2
      <4> QED
        BY <1>1, <2>a, <4>1, <4>2, <4>3 DEF IdFits
    <3>2. CASE v \notin live
      <4>1. vid[v] \in Nat /\ vid[v] <= Len(log) /\ vid'[v] = vid[v] /\ known'[v] = known[v]
        <5>1. vid[v] \in Nat /\ ~(vid[v] > Len(log))
          BY <1>0, <1>1, <2>1 DEF IdFits, TypeOK
        <5>2. vid[v] <= Len(log)
          BY <1>4, <5>1
        <5>3. vid'[v] = vid[v] /\ known'[v] = known[v]
          BY <1>2, <3>2
        <5> QED
          BY <5>1, <5>2, <5>3
      <4>2. After(vid[v])' = After(vid[v]) \cup {change}
        BY <1>4, <4>1
      <4>3. vpc'[v] = "lookup" => vpc[v] = "lookup"
        BY <1>2
      <4>4. vid'[v] # 0 => 1..committed \subseteq known[v] \cup Owed(v)' \cup After(vid[v])'
        BY <1>1, <2>1, <2>a, <4>1, <4>2 DEF IdFits
      <4>5. vpc'[v] = "lookup" /\ ~readFinal[v] =>
              \A c \in 1..Len(log') : c <= vid[v] => ~Ends(log'[c])
        BY <1>4, <2>1, <4>1, <4>3 DEF IdFits
      <4> QED
        BY <1>1, <1>4, <4>1, <4>4, <4>5 DEF IdFits, Ends, After
    <3> QED
      BY <3>1, <3>2
  <2>5. BacklogFits(v)'
    <3>1. CASE v \in over
      BY <1>2, <3>1 DEF BacklogFits, Priming
    <3>2. CASE v \in held /\ v \notin over
      <4>1. /\ vpc'[v] = vpc[v] /\ Priming(v) /\ v \in listeners
            /\ backlog'[v] = Append(backlog[v], event)
        BY <1>2, <3>2 DEF held, live, Priming
      <4>2. /\ Len(backlog'[v]) = Len(backlog[v]) + 1
            /\ backlog'[v][Len(backlog[v]) + 1] = event
            /\ \A i \in 1..Len(backlog[v]) : backlog'[v][i] = backlog[v][i]
            /\ Len(backlog[v]) \in Nat /\ snapCursor[v] \in Nat
        BY <1>0, <1>6, <4>1, AppendProperties DEF TypeOK
      <4>3. /\ snapCursor[v] <= Len(log) /\ Len(backlog[v]) = Len(log) - snapCursor[v]
            /\ \A i \in 1..Len(backlog[v]) :
                 backlog[v][i] = [cursor |-> snapCursor[v] + i, change |-> log[snapCursor[v] + i]]
        BY <2>1, <4>1 DEF BacklogFits
      <4> DEFINE l == Len(log)
                 b == Len(backlog[v])
                 s == snapCursor[v]
      <4>a. l \in Nat /\ b \in Nat /\ s \in Nat /\ b = l - s /\ Len(log') = l + 1
        BY <1>4, <4>2, <4>3
      <4>4. ASSUME NEW i \in 1..Len(backlog'[v])
            PROVE  backlog'[v][i] = [cursor |-> s + i, change |-> log'[s + i]]
        <5>0. i \in 1..(b + 1)
          BY <4>2
        <5>1. CASE i = b + 1
          <6>1. s + i = l + 1
            <7> HIDE DEF s, b, l
            <7> QED
              BY <4>a, <5>1
          <6> QED
            BY <1>4, <4>2, <5>1, <6>1 DEF event
        <5>2. CASE i # b + 1
          <6>1. i \in 1..b /\ s + i \in 1..l
            <7> HIDE DEF s, b, l
            <7> QED
              BY <4>a, <5>0, <5>2
          <6>2. backlog'[v][i] = backlog[v][i] /\ log'[s + i] = log[s + i]
            BY <1>4, <4>2, <6>1
          <6> QED
            BY <4>3, <6>1, <6>2
        <5> QED
          BY <5>1, <5>2
      <4>5. s <= Len(log') /\ Len(backlog'[v]) = Len(log') - s
        <5>1. Len(backlog'[v]) = b + 1
          BY <4>2
        <5> HIDE DEF s, b, l
        <5> QED
          BY <4>a, <5>1
      <4>6. Priming(v)' /\ snapCursor' = snapCursor
        BY <1>1, <4>1 DEF Priming
      <4> QED
        BY <4>4, <4>5, <4>6 DEF BacklogFits
    <3>3. CASE v \notin held
      <4>1. backlog'[v] = backlog[v] /\ (Priming(v)' => Priming(v) /\ v \notin listeners')
        BY <1>1, <1>2, <3>3 DEF held, over, live, Priming
      <4>2. ~Priming(v)' => ~Priming(v) \/ backlog[v] = <<>>
        BY <1>2, <3>3 DEF Priming, over, live
      <4> QED
        BY <2>1, <4>1, <4>2 DEF BacklogFits
    <3> QED
      BY <3>1, <3>2, <3>3 DEF over
  <2>6. SnapshotFits(v)'
    <3> SUFFICES ASSUME vpc'[v] = "reread", v \in listeners' PROVE SnapshotFits(v)'
      BY DEF SnapshotFits
    <3>1. vpc[v] = "reread" /\ v \in listeners
      BY <1>1, <1>2
    <3>2. snapCursor[v] \in Nat /\ snapCursor[v] <= Len(log)
      BY <1>0, <2>1, <3>1 DEF BacklogFits, Priming, TypeOK
    <3>3. After(snapCursor[v])' = After(snapCursor[v]) \cup {change}
      BY <1>1, <1>4, <3>2 DEF After
    <3>4. \A c \in 1..Len(log') : c <= snapCursor[v] => c \in 1..Len(log) /\ log'[c] = log[c]
      BY <1>4, <3>2
    <3> QED
      BY <1>1, <2>1, <3>1, <3>2, <3>3, <3>4 DEF SnapshotFits, Ends
  <2>7. DroppedFits(v)'
    BY <1>1, <1>2, <2>1 DEF DroppedFits, Priming, over, held, live
  <2> QED
    BY <2>2, <2>3, <2>4, <2>5, <2>6, <2>7 DEF ViewFits
<1> QED
  BY <1>7, <1>8, <1>9 DEF IndInv

LEMMA DropFits ==
  ASSUME IndInv, Drop
  PROVE  IndInv'
<1> USE BoundsAssumption
<1>0. TypeOK /\ BusFits /\ \A v \in Viewers : ViewFits(v)
  BY DEF IndInv
<1>1. /\ timer /\ unpublished = {} /\ log' = <<>> /\ timer' = FALSE
      /\ listeners' = {} /\ epoch' = epoch + 1
      /\ UNCHANGED <<committed, final, unpublished, silent, vpc, vid, known, readFinal, snap,
                     snapCursor, backlog, base, vepoch, stale>>
  BY DEF Drop, jobVars, viewerVars
<1>2. TypeOK'
  <2>1. <<>> \in Seq(Changes)
    BY EmptySeq
  <2>2. /\ UNCHANGED <<restarts, disconnects>>
        /\ bus' = FALSE /\ epoch' \in Nat
    BY <1>0 DEF TypeOK, Drop, faultVars
  <2> QED
    BY <1>0, <1>1, <2>1, <2>2 DEF TypeOK
<1>3. BusFits'
  BY <1>0, <1>1, EmptySeq DEF BusFits
<1>4. ASSUME NEW v \in Viewers PROVE ViewFits(v)'
  <2>1. /\ CountFits(v) /\ EpochFits(v) /\ LiveFits(v) /\ IdFits(v) /\ BacklogFits(v)
        /\ SnapshotFits(v) /\ DroppedFits(v)
    BY <1>0 DEF ViewFits
  <2>2. vepoch[v] \in Nat /\ epoch \in Nat
    BY <1>0 DEF TypeOK
  <2>3. CountFits(v)' /\ EpochFits(v)' /\ vepoch'[v] # epoch' /\ Owed(v)' = Owed(v)
    BY <1>1, <2>1, <2>2 DEF CountFits, EpochFits, Owed, Untold
  <2>4. LiveFits(v)' /\ IdFits(v)' /\ BacklogFits(v)' /\ SnapshotFits(v)'
    BY <1>1, <2>1, <2>3 DEF LiveFits, IdFits, BacklogFits, SnapshotFits, Priming
  <2>5. DroppedFits(v)'
    <3> SUFFICES ASSUME Priming(v) PROVE DroppedFits(v)'
      BY <1>1 DEF DroppedFits, Priming
    <3>1. CASE v \notin listeners
      BY <1>1, <2>1, <3>1 DEF DroppedFits, Priming, HeldBack, Ends
    <3>2. CASE v \in listeners /\ ~(vpc[v] = "reread" /\ ~readFinal[v])
      BY <1>0, <1>1, <3>2 DEF DroppedFits, Priming, BusFits
    <3>3. CASE v \in listeners /\ vpc[v] = "reread" /\ ~readFinal[v]
      <4>1. PICK c \in 1..Len(log) : Ends(log[c])
        BY <1>0, <1>1 DEF BusFits, Ends
      <4>2. /\ Len(backlog[v]) = Len(log) - snapCursor[v] /\ snapCursor[v] <= Len(log)
            /\ \A i \in 1..Len(backlog[v]) :
                 backlog[v][i] = [cursor |-> snapCursor[v] + i, change |-> log[snapCursor[v] + i]]
        BY <2>1, <3>3 DEF BacklogFits, Priming
      <4>3. snapCursor[v] \in Nat /\ Len(log) \in Nat /\ DOMAIN backlog[v] = 1..Len(backlog[v])
        BY <1>0, LenProperties DEF TypeOK
      <4>4. ~(c <= snapCursor[v])
        BY <2>1, <3>3, <4>1 DEF SnapshotFits
      <4> DEFINE i == c - snapCursor[v]
      <4>5. i \in 1..Len(backlog[v]) /\ snapCursor[v] + i = c
        BY <4>2, <4>3, <4>4
      <4>6. backlog[v][i].cursor = c /\ backlog[v][i].change = log[c]
        <5>1. backlog[v][i] = [cursor |-> snapCursor[v] + i, change |-> log[snapCursor[v] + i]]
          BY <4>2, <4>5
        <5> HIDE DEF i
        <5> QED
          BY <4>5, <5>1
      <4>7. c > snapCursor[v]
        BY <4>3, <4>4
      <4>8. i \in HeldBack(v) /\ Ends(backlog[v][i].change)
        BY <4>1, <4>3, <4>5, <4>6, <4>7 DEF HeldBack
      <4> QED
        BY <1>0, <1>1, <4>8 DEF DroppedFits, BusFits, HeldBack, Ends
    <3> QED
      BY <3>1, <3>2, <3>3
  <2> QED
    BY <2>3, <2>4, <2>5 DEF ViewFits
<1> QED
  BY <1>2, <1>3, <1>4 DEF IndInv

LEMMA RestartFits ==
  ASSUME IndInv, Restart
  PROVE  IndInv'
<1> USE BoundsAssumption
<1>0. TypeOK /\ BusFits /\ \A v \in Viewers : ViewFits(v)
  BY DEF IndInv
<1>1. /\ unpublished' = {} /\ log' = <<>> /\ timer' = FALSE /\ bus' = FALSE
      /\ listeners' = {} /\ epoch' = epoch + 1 /\ restarts' = restarts + 1
      /\ restarts < MaxRestarts
      /\ UNCHANGED <<committed, final, silent, disconnects, vid, known, readFinal, snap,
                     snapCursor, base, vepoch, stale>>
      /\ \A v \in Viewers : backlog'[v] = <<>>
                           /\ vpc'[v] = IF vpc[v] \in Connected THEN "away" ELSE vpc[v]
  BY DEF Restart
<1>2. TypeOK'
  <2>1. <<>> \in Seq(Changes) /\ <<>> \in Seq(Events) /\ Len(<<>>) = 0
    BY EmptySeq
  <2>2. /\ backlog' \in [Viewers -> Seq(Events)]
        /\ vpc' \in [Viewers -> {"away", "ended"} \cup Connected]
        /\ \A v \in Viewers : Len(backlog'[v]) <= MaxPending
    BY <1>0, <1>1, <2>1, PendingAssumption DEF Restart, TypeOK
  <2>3. restarts' \in 0..MaxRestarts /\ epoch' \in Nat
    BY <1>0, <1>1 DEF TypeOK
  <2>4. /\ UNCHANGED <<committed, final, silent, disconnects, vid, known, readFinal, snap,
                       snapCursor, base, vepoch, stale>>
        /\ unpublished' = {} /\ log' = <<>> /\ timer' = FALSE /\ bus' = FALSE /\ listeners' = {}
    BY <1>1
  <2> QED
    BY <1>0, <2>1, <2>2, <2>3, <2>4 DEF TypeOK
<1>3. BusFits'
  BY <1>0, <1>1, EmptySeq DEF BusFits
<1>4. ASSUME NEW v \in Viewers PROVE ViewFits(v)'
  <2>1. CountFits(v) /\ EpochFits(v)
    BY <1>0 DEF ViewFits
  <2>2. vepoch[v] \in Nat /\ epoch \in Nat
    BY <1>0 DEF TypeOK
  <2>3. CountFits(v)' /\ EpochFits(v)' /\ vepoch'[v] # epoch'
    BY <1>1, <2>1, <2>2 DEF CountFits, EpochFits
  <2>4. vpc'[v] \notin {"live", "snapshot", "reread"} /\ backlog'[v] = <<>>
    BY <1>1 DEF Connected
  <2> QED
    BY <2>3, <2>4 DEF ViewFits, LiveFits, IdFits, BacklogFits, SnapshotFits, DroppedFits, Priming
<1> QED
  BY <1>2, <1>3, <1>4 DEF IndInv

-----------------------------------------------------------------------------
(* The route and the browser: a step of page v. *)

LEMMA OpenFits ==
  ASSUME IndInv, NEW v \in Viewers, Open(v)
  PROVE  IndInv'
<1> USE BoundsAssumption DEF Open, jobVars, busVars, faultVars
<1>0. TypeOK /\ BusFits /\ \A w \in Viewers : ViewFits(w)
  BY DEF IndInv
<1>1. TypeOK'
  BY <1>0 DEF TypeOK, Connected
<1>2. BusFits'
  BY <1>0, BusSame
<1>3. ASSUME NEW w \in Viewers, w # v PROVE ViewFits(w)'
  BY <1>0, <1>3, Bystander DEF Same, TypeOK
<1>4. ViewFits(v)'
  <2>1. /\ CountFits(v) /\ EpochFits(v) /\ LiveFits(v) /\ IdFits(v) /\ BacklogFits(v)
        /\ SnapshotFits(v) /\ DroppedFits(v)
    BY <1>0 DEF ViewFits
  <2>2. vpc'[v] = "lookup" /\ vpc[v] = "away" /\ readFinal'[v] = final
    BY <1>0 DEF TypeOK
  <2>a. CountFits(v)' /\ Owed(v)' = Owed(v)
    BY <2>1 DEF CountFits, Owed, Untold
  <2>3. EpochFits(v)' /\ LiveFits(v)' /\ BacklogFits(v)' /\ SnapshotFits(v)' /\ DroppedFits(v)'
    BY <2>1, <2>2 DEF EpochFits, LiveFits, BacklogFits, SnapshotFits, DroppedFits, Priming
  <2>4. IdFits(v)'
    BY <2>1, <2>2, <2>a DEF IdFits, After, Ends
  <2> QED
    BY <2>a, <2>3, <2>4 DEF ViewFits
<1> QED
  BY <1>1, <1>2, <1>3, <1>4 DEF IndInv

(* A replay takes what the ring has after the page's event id, and the ring still has all
   of it; the stream stays open only if no event of the job ended it. *)
LEMMA AttachReplayFits ==
  ASSUME IndInv, NEW v \in Viewers, AttachReplay(v)
  PROVE  IndInv'
<1> USE BoundsAssumption, RingAssumption
<1> DEFINE replay == {c \in Ring : c > vid[v]}
           ending == {c \in replay : Ends(log[c])}
           last == IF ending = {} THEN Len(log) ELSE CHOOSE c \in ending : TRUE
           over == ending # {} \/ readFinal[v]
<1>0. TypeOK /\ BusFits /\ \A w \in Viewers : ViewFits(w)
  BY DEF IndInv
<1>1. /\ vpc[v] = "lookup" /\ Replayable(vid[v])
      /\ UNCHANGED <<committed, final, unpublished, silent, bus, log, timer, epoch, restarts,
                     disconnects, readFinal, snap, snapCursor, backlog, base, vepoch>>
      /\ stale' = (IF vepoch[v] = epoch THEN stale ELSE stale \cup {v})
      /\ listeners' = IF over THEN listeners ELSE listeners \cup {v}
      /\ vpc' = [vpc EXCEPT ![v] = IF over THEN "closing" ELSE "live"]
      /\ vid' = [vid EXCEPT ![v] = last]
      /\ known' = [known EXCEPT ![v] = @ \cup {log[c] : c \in {r \in replay : r <= last}}]
  BY DEF AttachReplay, jobVars, faultVars
<1>2. /\ Len(log) \in Nat /\ vid[v] \in Nat
      /\ \A c \in 1..Len(log) : log[c] \in Changes
  BY <1>0, ElementOfSeq DEF TypeOK
<1>3. replay = (vid[v] + 1)..Len(log) /\ vid[v] \in 1..Len(log)
  <2>1. vid[v] \in 1..Len(log) /\ vid[v] + 1 >= Oldest
    BY <1>1 DEF Replayable
  <2>2. Oldest \in Nat
    BY <1>2 DEF Oldest
  <2> QED
    BY <1>2, <2>1, <2>2 DEF Ring
<1>4. last \in vid[v]..Len(log) /\ (ending = {} => last = Len(log))
  <2>1. CASE ending = {}
    BY <1>2, <1>3, <2>1
  <2>2. CASE ending # {}
    <3>1. last \in ending
      BY <2>2
    <3> HIDE DEF last
    <3> QED
      BY <1>2, <1>3, <2>2, <3>1
  <2> QED
    BY <2>1, <2>2
<1> HIDE DEF last
<1>5. /\ vid'[v] = last /\ vpc'[v] = (IF over THEN "closing" ELSE "live")
      /\ known'[v] = known[v] \cup {log[c] : c \in (vid[v] + 1)..last}
  <2>1. {r \in replay : r <= last} = (vid[v] + 1)..last
    BY <1>2, <1>3, <1>4
  <2> HIDE DEF replay, over
  <2> QED
    BY <1>0, <1>1, <2>1 DEF TypeOK
<1>6. TypeOK'
  <2>1. vpc' \in [Viewers -> {"away", "ended"} \cup Connected]
    BY <1>0, <1>1 DEF TypeOK, Connected
  <2>2. vid' \in [Viewers -> Nat]
    BY <1>0, <1>1, <1>2, <1>4 DEF TypeOK
  <2>3. known' \in [Viewers -> SUBSET Changes]
    <3>1. {log[c] : c \in {r \in replay : r <= last}} \subseteq Changes
      BY <1>2, <1>3
    <3> HIDE DEF replay
    <3> QED
      BY <1>0, <1>1, <3>1 DEF TypeOK
  <2>4. listeners' \in SUBSET Viewers /\ stale' \in SUBSET Viewers
    BY <1>0, <1>1 DEF TypeOK
  <2> QED
    BY <1>0, <1>1, <2>1, <2>2, <2>3, <2>4 DEF TypeOK
<1>7. BusFits'
  BY <1>0, <1>1, BusSame
<1>8. ASSUME NEW w \in Viewers, w # v PROVE ViewFits(w)'
  <2> HIDE DEF replay, over
  <2>1. Same(w)
    BY <1>0, <1>1, <1>8 DEF Same, TypeOK
  <2> QED
    BY <1>0, <2>1, Bystander
<1>9. ViewFits(v)'
  <2>1. /\ CountFits(v) /\ EpochFits(v) /\ LiveFits(v) /\ IdFits(v) /\ BacklogFits(v)
        /\ SnapshotFits(v) /\ DroppedFits(v)
    BY <1>0 DEF ViewFits
  <2>2. vepoch[v] \in Nat /\ epoch \in Nat /\ vpc'[v] \in {"closing", "live"}
    BY <1>0, <1>5 DEF TypeOK
  <2>3. EpochFits(v)' /\ CountFits(v)' /\ Owed(v)' = Owed(v)
    BY <1>1, <1>5, <2>1, <2>2 DEF EpochFits, CountFits, Owed, Untold
  <2>4. /\ vepoch[v] = epoch =>
             1..committed \subseteq known'[v] \cup Owed(v) \cup After(last)
    <3>1. \A c \in (vid[v] + 1)..Len(log) : c \in (vid[v] + 1)..last \/ c \in (last + 1)..Len(log)
      BY <1>2, <1>4
    <3>2. After(vid[v]) \subseteq {log[c] : c \in (vid[v] + 1)..last} \cup After(last)
      BY <3>1 DEF After
    <3>3. vepoch[v] = epoch =>
            1..committed \subseteq known[v] \cup Owed(v) \cup After(vid[v])
      BY <1>2, <1>3, <2>1 DEF IdFits
    <3> QED
      BY <1>5, <3>2, <3>3
  <2>5. LiveFits(v)'
    <3> SUFFICES ASSUME vpc'[v] = "live", v \notin stale'
                 PROVE  LiveFits(v)'
      BY DEF LiveFits
    <3>1. ~over /\ vepoch[v] = epoch /\ v \in listeners'
      BY <1>1, <1>5
    <3>2. vid'[v] = Len(log) /\ After(last) = {}
      BY <1>2, <1>4, <1>5, <3>1 DEF After
    <3>3. ~timer
      <4>1. \A c \in 1..Len(log) : ~Ends(log[c])
        <5>1. \A c \in 1..Len(log) : c <= vid[v] => ~Ends(log[c])
          BY <1>1, <2>1, <3>1 DEF IdFits
        <5>2. \A c \in (vid[v] + 1)..Len(log) : ~Ends(log[c])
          BY <1>3, <3>1
        <5> QED
          BY <1>2, <5>1, <5>2
      <4> QED
        BY <1>0, <4>1 DEF BusFits, Ends
    <3> QED
      BY <1>1, <2>3, <2>4, <3>1, <3>2, <3>3 DEF LiveFits
  <2>6. IdFits(v)'
    BY <1>1, <1>2, <1>3, <1>4, <1>5, <2>2, <2>3, <2>4 DEF IdFits, After
  <2>7. BacklogFits(v)' /\ SnapshotFits(v)' /\ DroppedFits(v)'
    BY <1>1, <2>1, <2>2 DEF BacklogFits, SnapshotFits, DroppedFits, Priming
  <2> QED
    BY <2>3, <2>5, <2>6, <2>7 DEF ViewFits
<1> QED
  BY <1>6, <1>7, <1>8, <1>9 DEF IndInv

LEMMA AttachSnapshotFits ==
  ASSUME IndInv, NEW v \in Viewers, AttachSnapshot(v)
  PROVE  IndInv'
<1> USE BoundsAssumption DEF AttachSnapshot, jobVars, faultVars
<1>0. TypeOK /\ BusFits /\ \A w \in Viewers : ViewFits(w)
  BY DEF IndInv
<1>a. Len(log) \in Nat
  BY <1>0, LenProperties DEF TypeOK
<1>1. TypeOK'
  BY <1>0, <1>a DEF TypeOK, Connected
<1>2. BusFits'
  BY <1>0, BusSame
<1>3. ASSUME NEW w \in Viewers, w # v PROVE ViewFits(w)'
  BY <1>0, <1>3, Bystander DEF Same, TypeOK
<1>4. ViewFits(v)'
  <2>1. /\ CountFits(v) /\ EpochFits(v) /\ LiveFits(v) /\ IdFits(v) /\ BacklogFits(v)
    BY <1>0 DEF ViewFits
  <2>2. /\ vpc'[v] = "snapshot" /\ vpc[v] = "lookup" /\ snapCursor'[v] = Len(log)
        /\ v \in listeners' /\ backlog'[v] = <<>>
    BY <1>0, <2>1 DEF TypeOK, BacklogFits, Priming
  <2>a. CountFits(v)' /\ Owed(v)' = Owed(v)
    BY <2>1 DEF CountFits, Owed, Untold
  <2>3. EpochFits(v)' /\ LiveFits(v)' /\ SnapshotFits(v)' /\ DroppedFits(v)'
    BY <2>1, <2>2 DEF EpochFits, LiveFits, SnapshotFits, DroppedFits, Priming
  <2>4. IdFits(v)'
    BY <2>1, <2>2, <2>a DEF IdFits, After
  <2>5. BacklogFits(v)'
    <3>1. Len(backlog'[v]) = 0 /\ Len(log') = Len(log)
      BY <2>2, EmptySeq
    <3> QED
      BY <1>a, <2>2, <3>1 DEF BacklogFits, Priming
  <2> QED
    BY <2>a, <2>3, <2>4, <2>5 DEF ViewFits
<1> QED
  BY <1>1, <1>2, <1>3, <1>4 DEF IndInv

LEMMA RereadFits ==
  ASSUME IndInv, NEW v \in Viewers, Reread(v)
  PROVE  IndInv'
<1> USE BoundsAssumption DEF Reread, jobVars, busVars, faultVars
<1>0. TypeOK /\ BusFits /\ \A w \in Viewers : ViewFits(w)
  BY DEF IndInv
<1>1. TypeOK'
  BY <1>0 DEF TypeOK, Connected
<1>2. BusFits'
  BY <1>0, BusSame
<1>3. ASSUME NEW w \in Viewers, w # v PROVE ViewFits(w)'
  BY <1>0, <1>3, Bystander DEF Same, TypeOK
<1>4. ViewFits(v)'
  <2>1. /\ CountFits(v) /\ EpochFits(v) /\ LiveFits(v) /\ IdFits(v) /\ BacklogFits(v) /\ DroppedFits(v)
    BY <1>0 DEF ViewFits
  <2>2. /\ vpc'[v] = "reread" /\ vpc[v] = "snapshot" /\ snap'[v] = committed
        /\ readFinal'[v] = final
    BY <1>0 DEF TypeOK
  <2>a. CountFits(v)' /\ Owed(v)' = Owed(v)
    BY <1>0, <2>1, <2>2 DEF CountFits, Owed, Untold, TypeOK
  <2>3. EpochFits(v)' /\ LiveFits(v)' /\ BacklogFits(v)'
    BY <2>1, <2>2 DEF EpochFits, LiveFits, BacklogFits, Priming
  <2>4. IdFits(v)'
    BY <2>1, <2>2, <2>a DEF IdFits, After
  <2>5. SnapshotFits(v)'
    BY <2>2 DEF SnapshotFits, Ends
  <2>6. DroppedFits(v)'
    BY <2>1, <2>2 DEF DroppedFits, Priming
  <2> QED
    BY <2>a, <2>3, <2>4, <2>5, <2>6 DEF ViewFits
<1> QED
  BY <1>1, <1>2, <1>3, <1>4 DEF IndInv

(* The snapshot and the backlog behind it are written in one go.  The stream stays open
   only if neither ended the job, and then the two together are all the bus has. *)
LEMMA PrimeFits ==
  ASSUME IndInv, NEW v \in Viewers, Prime(v)
  PROVE  IndInv'
<1> USE BoundsAssumption
<1> DEFINE ending == {i \in HeldBack(v) : Ends(backlog[v][i].change)}
           over == readFinal[v] \/ ending # {}
           sent == IF readFinal[v] THEN {} ELSE {i \in HeldBack(v) : \A j \in ending : i <= j}
           last == CHOOSE i \in sent : \A j \in sent : j <= i
           cursor == IF sent = {} THEN snapCursor[v] ELSE backlog[v][last].cursor
           shown == {backlog[v][i].change : i \in sent}
<1>0. TypeOK /\ BusFits /\ \A w \in Viewers : ViewFits(w)
  BY DEF IndInv
<1>1. /\ vpc[v] = "reread"
      /\ UNCHANGED <<committed, final, unpublished, silent, bus, log, timer, epoch, restarts,
                     disconnects, readFinal, snap, snapCursor>>
      /\ known' = [known EXCEPT ![v] = (1..snap[v]) \cup shown]
      /\ vid' = [vid EXCEPT ![v] = cursor]
      /\ backlog' = [backlog EXCEPT ![v] = <<>>]
      /\ base' = [base EXCEPT ![v] = snap[v]]
      /\ vepoch' = [vepoch EXCEPT ![v] = epoch]
      /\ stale' = stale \ {v}
      /\ vpc' = [vpc EXCEPT ![v] = IF over THEN "closing" ELSE "live"]
      /\ listeners' = IF over THEN listeners \ {v} ELSE listeners
  BY DEF Prime, jobVars, faultVars
<1>2. /\ Len(log) \in Nat /\ snapCursor[v] \in Nat /\ Len(backlog[v]) \in Nat
      /\ DOMAIN backlog[v] = 1..Len(backlog[v])
      /\ \A i \in 1..Len(backlog[v]) : backlog[v][i] \in Events
  BY <1>0, LenProperties, ElementOfSeq DEF TypeOK
<1>3. HeldBack(v) \subseteq 1..Len(backlog[v]) /\ sent \subseteq HeldBack(v)
  BY <1>2 DEF HeldBack
<1>4. sent # {} => last \in sent /\ \A j \in sent : j <= last
  <2> HIDE DEF sent
  <2>1. sent # {} => \E i \in sent : \A j \in sent : j <= i
    BY <1>2, <1>3, LastExists
  <2> QED
    BY <2>1
<1>5. cursor \in Nat /\ shown \subseteq Changes
  <2> HIDE DEF sent, last
  <2> QED
    BY <1>2, <1>3, <1>4 DEF Events
<1>6. TypeOK'
  <2> HIDE DEF sent, over, cursor, shown
  <2>1. vpc' \in [Viewers -> {"away", "ended"} \cup Connected]
    BY <1>0, <1>1 DEF TypeOK, Connected
  <2>2. vid' \in [Viewers -> Nat]
    BY <1>0, <1>1, <1>5 DEF TypeOK
  <2>3. known' \in [Viewers -> SUBSET Changes]
    <3>1. 1..snap[v] \subseteq Changes
      BY <1>0 DEF TypeOK, Changes
    <3> QED
      BY <1>0, <1>1, <1>5, <3>1 DEF TypeOK
  <2>4. /\ backlog' \in [Viewers -> Seq(Events)]
        /\ \A w \in Viewers : Len(backlog'[w]) <= MaxPending
    <3>1. <<>> \in Seq(Events) /\ Len(<<>>) = 0
      BY EmptySeq
    <3> QED
      BY <1>0, <1>1, <3>1, PendingAssumption DEF TypeOK
  <2>5. /\ listeners' \in SUBSET Viewers /\ stale' \in SUBSET Viewers
        /\ vepoch' \in [Viewers -> Nat] /\ base' \in [Viewers -> 0..MaxChanges]
    BY <1>0, <1>1 DEF TypeOK
  <2> QED
    BY <1>0, <1>1, <2>1, <2>2, <2>3, <2>4, <2>5 DEF TypeOK
<1>7. BusFits'
  BY <1>0, <1>1, BusSame
<1>8. ASSUME NEW w \in Viewers, w # v PROVE ViewFits(w)'
  <2> HIDE DEF sent, over, cursor, shown
  <2>1. Same(w)
    BY <1>0, <1>1, <1>8 DEF Same, TypeOK
  <2> QED
    BY <1>0, <2>1, Bystander
<1>9. ViewFits(v)'
  <2>1. /\ CountFits(v) /\ EpochFits(v) /\ LiveFits(v) /\ IdFits(v) /\ BacklogFits(v)
        /\ SnapshotFits(v) /\ DroppedFits(v)
    BY <1>0 DEF ViewFits
  <2>2. /\ vid'[v] = cursor /\ known'[v] = (1..snap[v]) \cup shown /\ backlog'[v] = <<>>
        /\ base'[v] = snap[v] /\ vepoch'[v] = epoch /\ v \notin stale'
        /\ vpc'[v] = (IF over THEN "closing" ELSE "live")
    <3> HIDE DEF sent, over, cursor, shown
    <3> QED
      BY <1>0, <1>1 DEF TypeOK
  <2>3. vpc'[v] \in {"closing", "live"} /\ epoch \in Nat
    BY <1>0, <2>2 DEF TypeOK
  <2>a. CountFits(v)' /\ Owed(v)' = unpublished \cup {c \in silent : c > snap[v]}
    <3> HIDE DEF shown, sent, cursor, over
    <3> QED
      BY <1>1, <2>1, <2>2 DEF CountFits, Owed, Untold
  <2>4. EpochFits(v)'
    <3>1. vepoch'[v] = epoch /\ epoch' = epoch /\ v \notin stale'
      BY <1>1, <2>2
    <3> QED
      BY <2>3, <3>1 DEF EpochFits
  <2>5. BacklogFits(v)' /\ SnapshotFits(v)' /\ DroppedFits(v)'
    BY <2>2, <2>3 DEF BacklogFits, SnapshotFits, DroppedFits, Priming
  <2>6. CASE v \notin listeners
    <3>1. final /\ unpublished = {} /\ log = <<>> /\ over
      BY <1>1, <2>1, <2>6 DEF DroppedFits, Priming
    <3>2. Len(log) = 0
      BY <3>1, EmptySeq
    <3>3. vpc'[v] = "closing"
      BY <2>2, <3>1
    <3>4. LiveFits(v)'
      BY <3>3 DEF LiveFits
    <3>5. IdFits(v)'
      <4> HIDE DEF cursor
      <4> QED
        BY <1>1, <1>5, <2>2, <3>1, <3>2, <3>3 DEF IdFits
    <3> QED
      BY <2>a, <2>4, <2>5, <3>4, <3>5 DEF ViewFits
  <2>7. CASE v \in listeners
    <3>1. /\ snapCursor[v] <= Len(log) /\ Len(backlog[v]) = Len(log) - snapCursor[v]
          /\ \A i \in 1..Len(backlog[v]) :
               backlog[v][i] = [cursor |-> snapCursor[v] + i, change |-> log[snapCursor[v] + i]]
      BY <1>1, <2>1, <2>7 DEF BacklogFits, Priming
    <3>2. HeldBack(v) = 1..Len(backlog[v])
      <4>1. \A i \in 1..Len(backlog[v]) : backlog[v][i].cursor = snapCursor[v] + i
        <5>1. TAKE i \in 1..Len(backlog[v])
        <5>2. backlog[v][i] = [cursor |-> snapCursor[v] + i, change |-> log[snapCursor[v] + i]]
          BY <3>1
        <5> QED
          BY <5>2
      <4>2. \A i \in 1..Len(backlog[v]) : snapCursor[v] + i > snapCursor[v]
        BY <1>2
      <4> QED
        BY <1>2, <4>1, <4>2, Zenon DEF HeldBack
    <3>3. \A i \in 1..Len(backlog[v]) : i \in sent \/ sent = {} \/ i > last
      <4>1. CASE readFinal[v]
        BY <4>1
      <4>2. CASE ~readFinal[v]
        <5>1. sent = {i \in 1..Len(backlog[v]) : \A j \in ending : i <= j}
          BY <3>2, <4>2
        <5>2. ending \subseteq 1..Len(backlog[v])
          BY <3>2
        <5> HIDE DEF sent, last, ending
        <5>3. SUFFICES ASSUME NEW i \in 1..Len(backlog[v]), i \notin sent, sent # {}
                       PROVE  i > last
          OBVIOUS
        <5>4. PICK j \in ending : ~(i <= j)
          BY <5>1, <5>3
        <5>5. last <= j /\ last \in 1..Len(backlog[v])
          BY <1>4, <5>1, <5>3, <5>4
        <5> QED
          BY <1>2, <5>2, <5>4, <5>5
      <4> QED
        BY <4>1, <4>2
    <3>4. cursor \in snapCursor[v]..Len(log) /\ (sent # {} => cursor = snapCursor[v] + last)
      <4> HIDE DEF sent, last
      <4>1. CASE sent = {}
        BY <1>2, <3>1, <4>1
      <4>2. CASE sent # {}
        <5>1. last \in 1..Len(backlog[v])
          BY <1>3, <1>4, <4>2
        <5>2. backlog[v][last] = [cursor |-> snapCursor[v] + last,
                                  change |-> log[snapCursor[v] + last]]
          BY <3>1, <5>1
        <5>3. cursor = snapCursor[v] + last
          BY <4>2, <5>2
        <5> HIDE DEF cursor
        <5> QED
          BY <1>2, <3>1, <5>1, <5>3
      <4> QED
        BY <4>1, <4>2
    <3>5. After(snapCursor[v]) \subseteq shown \cup After(cursor)
      <4> HIDE DEF sent, last, cursor
      <4>1. SUFFICES ASSUME NEW c \in (snapCursor[v] + 1)..Len(log)
                     PROVE  log[c] \in shown \/ c \in (cursor + 1)..Len(log)
        BY DEF After
      <4> DEFINE i == c - snapCursor[v]
      <4>2. i \in 1..Len(backlog[v]) /\ c = snapCursor[v] + i
        BY <1>2, <3>1, <4>1
      <4>3. backlog[v][i] = [cursor |-> snapCursor[v] + i, change |-> log[snapCursor[v] + i]]
        BY <3>1, <4>2
      <4> HIDE DEF i
      <4>4. CASE i \in sent
        <5>1. backlog[v][i].change = log[c]
          BY <4>2, <4>3
        <5> QED
          BY <4>4, <5>1
      <4>5. CASE sent = {}
        BY <1>2, <4>1, <4>5 DEF cursor
      <4>6. CASE sent # {} /\ i > last
        BY <1>2, <1>3, <1>4, <3>4, <4>1, <4>2, <4>6, SMTT(30)
      <4> QED
        BY <3>3, <4>2, <4>4, <4>5, <4>6
    <3>6. 1..committed \subseteq known'[v] \cup Owed(v)' \cup After(cursor)
      <4>1. 1..committed \subseteq (1..snap[v]) \cup unpublished \cup silent \cup After(snapCursor[v])
        BY <1>1, <2>1, <2>7 DEF SnapshotFits
      <4>2. \A c \in 1..committed : c \in 1..snap[v] \/ c > snap[v]
        BY <1>0 DEF TypeOK
      <4> HIDE DEF cursor, shown
      <4> QED
        BY <2>2, <2>a, <3>5, <4>1, <4>2
    <3> HIDE DEF cursor, shown, last
    <3>7. IdFits(v)'
      <4>1. ~(cursor > Len(log)) /\ vpc'[v] # "lookup"
        BY <1>2, <1>5, <2>3, <3>4
      <4> QED
        BY <1>1, <2>2, <3>6, <4>1 DEF IdFits, After
    <3>8. LiveFits(v)'
      <4> SUFFICES ASSUME vpc'[v] = "live" PROVE LiveFits(v)'
        BY DEF LiveFits
      <4>1. ~readFinal[v] /\ ending = {} /\ ~over
        BY <2>2
      <4>2. sent = 1..Len(backlog[v])
        BY <3>2, <4>1
      <4>3. cursor = Len(log)
        <5>1. CASE Len(backlog[v]) = 0
          <6>1. sent = {}
            BY <4>2, <5>1
          <6> QED
            BY <1>2, <3>1, <5>1, <6>1 DEF cursor
        <5>2. CASE Len(backlog[v]) # 0
          <6>1. Len(backlog[v]) \in sent /\ sent # {}
            BY <1>2, <4>2, <5>2
          <6>2. last = Len(backlog[v])
            BY <1>2, <1>4, <4>2, <6>1
          <6> QED
            BY <1>2, <3>1, <3>4, <6>1, <6>2
        <5> QED
          BY <5>1, <5>2
      <4>4. \A c \in 1..Len(log) : ~Ends(log[c])
        <5>1. SUFFICES ASSUME NEW c \in 1..Len(log), ~(c <= snapCursor[v])
                       PROVE  ~Ends(log[c])
          BY <1>1, <2>1, <2>7, <4>1 DEF SnapshotFits
        <5> DEFINE i == c - snapCursor[v]
        <5>2. i \in 1..Len(backlog[v]) /\ c = snapCursor[v] + i
          BY <1>2, <3>1, <5>1
        <5>3. backlog[v][i] = [cursor |-> snapCursor[v] + i, change |-> log[snapCursor[v] + i]]
          BY <3>1, <5>2
        <5>4. ~Ends(backlog[v][i].change)
          BY <3>2, <4>1, <5>2
        <5> HIDE DEF i
        <5>5. backlog[v][i].change = log[c]
          BY <5>2, <5>3
        <5> QED
          BY <5>4, <5>5
      <4>5. ~timer
        BY <1>0, <4>4 DEF BusFits, Ends
      <4>6. After(cursor) = {}
        BY <1>2, <4>3 DEF After
      <4>7. v \in listeners'
        BY <1>1, <2>7, <4>1
      <4> QED
        BY <1>1, <2>2, <3>6, <4>3, <4>5, <4>6, <4>7 DEF LiveFits
    <3> QED
      BY <2>a, <2>4, <2>5, <3>7, <3>8 DEF ViewFits
  <2> QED
    BY <2>6, <2>7
<1> QED
  BY <1>6, <1>7, <1>8, <1>9 DEF IndInv

LEMMA EndFits ==
  ASSUME IndInv, NEW v \in Viewers, End(v)
  PROVE  IndInv'
<1> USE BoundsAssumption DEF End, jobVars, busVars, faultVars
<1>0. TypeOK /\ BusFits /\ \A w \in Viewers : ViewFits(w)
  BY DEF IndInv
<1>1. TypeOK'
  BY <1>0 DEF TypeOK, Connected
<1>2. BusFits'
  BY <1>0, BusSame
<1>3. ASSUME NEW w \in Viewers, w # v PROVE ViewFits(w)'
  BY <1>0, <1>3, Bystander DEF Same, TypeOK
<1>4. ViewFits(v)'
  <2>1. CountFits(v) /\ EpochFits(v) /\ IdFits(v) /\ BacklogFits(v)
    BY <1>0 DEF ViewFits
  <2>2. vpc'[v] = "ended" /\ vpc[v] = "closing"
    BY <1>0 DEF TypeOK
  <2>a. CountFits(v)' /\ Owed(v)' = Owed(v)
    BY <2>1 DEF CountFits, Owed, Untold
  <2>3. IdFits(v)'
    BY <2>1, <2>2, <2>a DEF IdFits, After
  <2>4. EpochFits(v)' /\ LiveFits(v)' /\ BacklogFits(v)' /\ SnapshotFits(v)' /\ DroppedFits(v)'
    BY <2>1, <2>2 DEF EpochFits, LiveFits, BacklogFits, SnapshotFits, DroppedFits, Priming
  <2> QED
    BY <2>a, <2>3, <2>4 DEF ViewFits
<1> QED
  BY <1>1, <1>2, <1>3, <1>4 DEF IndInv

LEMMA DisconnectFits ==
  ASSUME IndInv, NEW v \in Viewers, Disconnect(v)
  PROVE  IndInv'
<1> USE BoundsAssumption, PendingAssumption DEF Disconnect, jobVars
<1>0. TypeOK /\ BusFits /\ \A w \in Viewers : ViewFits(w)
  BY DEF IndInv
<1>1. TypeOK'
  <2>1. <<>> \in Seq(Events) /\ Len(<<>>) = 0
    BY EmptySeq
  <2> QED
    BY <1>0, <2>1 DEF TypeOK
<1>2. BusFits'
  BY <1>0, BusSame
<1>3. ASSUME NEW w \in Viewers, w # v PROVE ViewFits(w)'
  BY <1>0, <1>3, Bystander DEF Same, TypeOK
<1>4. ViewFits(v)'
  <2>1. CountFits(v) /\ EpochFits(v) /\ IdFits(v)
    BY <1>0 DEF ViewFits
  <2>2. vpc'[v] = "away" /\ backlog'[v] = <<>>
    BY <1>0 DEF TypeOK
  <2>a. CountFits(v)' /\ Owed(v)' = Owed(v)
    BY <2>1 DEF CountFits, Owed, Untold
  <2>3. IdFits(v)'
    BY <2>1, <2>2, <2>a DEF IdFits, After
  <2>4. EpochFits(v)' /\ LiveFits(v)' /\ BacklogFits(v)' /\ SnapshotFits(v)' /\ DroppedFits(v)'
    BY <2>1, <2>2 DEF EpochFits, LiveFits, BacklogFits, SnapshotFits, DroppedFits, Priming
  <2> QED
    BY <2>a, <2>3, <2>4 DEF ViewFits
<1> QED
  BY <1>1, <1>2, <1>3, <1>4 DEF IndInv

-----------------------------------------------------------------------------
LEMMA InitFits ==
  ASSUME Init PROVE IndInv
<1> USE BoundsAssumption, PendingAssumption DEF Init
<1>1. \A S : <<>> \in Seq(S) /\ Len(<<>>) = 0
  BY EmptySeq
<1>2. TypeOK
  <2>1. <<>> \in Seq(Changes) /\ <<>> \in Seq(Events)
    BY <1>1
  <2>2. backlog \in [Viewers -> Seq(Events)] /\ \A v \in Viewers : Len(backlog[v]) <= MaxPending
    BY <1>1, <2>1
  <2>3. /\ vpc \in [Viewers -> {"away", "ended"} \cup Connected]
        /\ vid \in [Viewers -> Nat] /\ snapCursor \in [Viewers -> Nat]
        /\ vepoch \in [Viewers -> Nat] /\ known \in [Viewers -> SUBSET Changes]
        /\ readFinal \in [Viewers -> BOOLEAN] /\ snap \in [Viewers -> 0..MaxChanges]
        /\ base \in [Viewers -> 0..MaxChanges]
    OBVIOUS
  <2>4. /\ committed \in 0..MaxChanges /\ restarts \in 0..MaxRestarts
        /\ disconnects \in 0..MaxDisconnects /\ epoch \in Nat
    OBVIOUS
  <2>5. /\ final \in BOOLEAN /\ bus \in BOOLEAN /\ timer \in BOOLEAN
        /\ unpublished = {} /\ silent = {} /\ listeners = {} /\ stale = {} /\ log = <<>>
    BY Zenon
  <2> HIDE DEF Init
  <2> QED
    BY <2>1, <2>2, <2>3, <2>4, <2>5 DEF TypeOK
<1>3. BusFits
  BY <1>1 DEF BusFits
<1>4. ASSUME NEW v \in Viewers PROVE ViewFits(v)
  BY <1>1 DEF ViewFits, CountFits, EpochFits, LiveFits, IdFits, BacklogFits, SnapshotFits, DroppedFits, Priming
<1> QED
  BY <1>2, <1>3, <1>4 DEF IndInv

LEMMA StepFits ==
  ASSUME IndInv, [Next]_vars PROVE IndInv'
<1>1. CASE \E last \in BOOLEAN : Commit(last) \/ CommitUnannounced(last)
  BY <1>1, CommitFits
<1>2. CASE \E change \in Changes : Publish(change) \/ Abandon(change)
  BY <1>2, PublishFits, AbandonFits
<1>3. CASE Drop
  BY <1>3, DropFits
<1>4. ASSUME NEW v \in Viewers, Open(v) \/ Route(v) \/ Disconnect(v) PROVE IndInv'
  BY <1>4, OpenFits, AttachReplayFits, AttachSnapshotFits, RereadFits, PrimeFits, EndFits,
     DisconnectFits DEF Route
<1>5. CASE Restart
  BY <1>5, RestartFits
<1>6. CASE UNCHANGED vars
  <2> USE <1>6 DEF vars, jobVars, busVars, faultVars, viewerVars
  <2>1. TypeOK' /\ BusFits'
    BY BusSame DEF IndInv, TypeOK
  <2>2. ASSUME NEW v \in Viewers PROVE ViewFits(v)'
    BY Bystander DEF IndInv, Same
  <2> QED
    BY <2>1, <2>2 DEF IndInv
<1> QED
  BY <1>1, <1>2, <1>3, <1>4, <1>5, <1>6 DEF Next

(* The invariant on which the two theorems below rest: at every label of the route, what a
   replay, a snapshot and a backlog cover of the changes committed so far. *)
THEOREM Invariance == Spec => []IndInv
<1>1. Init => IndInv
  BY InitFits
<1>2. IndInv /\ [Next]_vars => IndInv'
  BY StepFits
<1> QED
  BY <1>1, <1>2, PTL DEF Spec

(* Type correctness of the bus, the route and the pages, with the bound on the events held
   back for one page (MAX_PENDING_EVENTS). *)
THEOREM TypesHold == Spec => []TypeOK
<1>1. IndInv => TypeOK
  BY DEF IndInv
<1> QED
  BY <1>1, Invariance, PTL

(* A live page shows every change of the job that the bus will not still publish to it, but
   for the changes nobody publishes that are younger than its snapshot, and the bus has it
   as a listener: no change falls between the route's reads, its subscription, the snapshot
   and the backlog, or between an event id and the ring. *)
THEOREM LivePagesComplete == Spec => []LiveIsComplete
<1>1. IndInv => LiveIsComplete
  BY DEF IndInv, ViewFits, LiveFits, Owed, LiveIsComplete
<1> QED
  BY <1>1, Invariance, PTL
=============================================================================
