------------------------- MODULE MCOfflinePackages -------------------------
(* Instances of OfflinePackages for TLC. *)
EXTENDS OfflinePackages
=============================================================================
