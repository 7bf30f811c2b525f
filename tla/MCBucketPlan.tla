---------------------------- MODULE MCBucketPlan ----------------------------
(***************************************************************************)
(* BucketPlan for TLC.                                                     *)
(***************************************************************************)
EXTENDS BucketPlanInv
=============================================================================
