-------------------------- MODULE SessionContract --------------------------
(***************************************************************************)
(* What the mobile application promises its user about navigation, without *)
(* tasks, messages, processes, alerts or permissions: there is one session *)
(* at a time, it moves on by whole commits along its life cycle, a session *)
(* that ended never comes back, and the device is tracked only from a      *)
(* session that was started.  NavigationSession implements it.             *)
(***************************************************************************)
EXTENDS Naturals

VARIABLES
  live,       \* the session the user can see, or None
  ended,      \* sessions that were ended
  issued,     \* sessions ever prepared
  tracking    \* the device reports its location

vars == <<live, ended, issued, tracking>>

None == [sid |-> 0, rev |-> 0, status |-> "none"]

(* An arrival may be taken back; a started session is never unprepared. *)
Moves ==
  [preparing |-> {"preparing", "active"},
   active    |-> {"active", "arrived"},
   arrived   |-> {"arrived", "active"}]

Init ==
  /\ live = None
  /\ ended = {}
  /\ issued = 0
  /\ tracking = FALSE

(* A session that is under way is never replaced by another one. *)
Prepare ==
  /\ live = None \/ live.status = "arrived"
  /\ issued' = issued + 1
  /\ live' = [sid |-> issued', rev |-> 1, status |-> "preparing"]
  /\ UNCHANGED <<ended, tracking>>

Commit ==
  /\ live # None
  /\ \E status \in Moves[live.status] :
       live' = [sid |-> live.sid, rev |-> live.rev + 1, status |-> status]
  /\ UNCHANGED <<ended, issued, tracking>>

End ==
  /\ live # None
  /\ live' = None
  /\ ended' = ended \cup {live.sid}
  /\ UNCHANGED <<issued, tracking>>

(* After an update of the application the record may not be readable. *)
Lose ==
  /\ live # None
  /\ live' = None
  /\ UNCHANGED <<ended, issued, tracking>>

Track ==
  /\ live.status \in {"active", "arrived"}
  /\ tracking' = TRUE
  /\ UNCHANGED <<live, ended, issued>>

Rest ==
  /\ tracking' = FALSE
  /\ UNCHANGED <<live, ended, issued>>

Next == Prepare \/ Commit \/ End \/ Lose \/ Track \/ Rest

Spec == Init /\ [][Next]_vars
=============================================================================
