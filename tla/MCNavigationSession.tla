------------------------ MODULE MCNavigationSession ------------------------
(* Small instances of NavigationSession for TLC. *)
EXTENDS NavigationSession
=============================================================================
