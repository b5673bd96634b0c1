--------------------------- MODULE MCSingleFlight ---------------------------
(* Three calls over two keys with room for one tracked key, so that joining, *)
(* running alone and reopening an abandoned key all happen.                  *)
EXTENDS SingleFlight
=============================================================================
