---------------------------- MODULE MCJobEvents ----------------------------
(* Instances of JobEvents for TLC. *)
EXTENDS JobEvents
=============================================================================
