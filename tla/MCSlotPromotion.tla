-------------------------- MODULE MCSlotPromotion --------------------------
(* Instances of SlotPromotion for TLC. *)
EXTENDS SlotPromotion
=============================================================================
