---------------------------- MODULE MCPickupWatch ----------------------------
(***************************************************************************)
(* Instances of PickupWatch for TLC.                                       *)
(***************************************************************************)
EXTENDS PickupWatch

=============================================================================
