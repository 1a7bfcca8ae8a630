-------------------------- MODULE MilestonePayoutMC --------------------------
(* Instances of MilestonePayout for TLC; see the .cfg files for the sizes. *)
EXTENDS MilestonePayout
=============================================================================
