----------------------------- MODULE MCAdminJob -----------------------------
(***************************************************************************)
(* Instances of AdminJob for TLC.                                          *)
(***************************************************************************)
EXTENDS AdminJob, TLC

Symmetry == Permutations(Procs)
=============================================================================
