-------------------------- MODULE MCProfileWriter ---------------------------
(***************************************************************************)
(* ProfileWriter for TLC.                                                  *)
(***************************************************************************)
EXTENDS ProfileWriterInv

CONSTANTS main, helper
=============================================================================
