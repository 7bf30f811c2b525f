-------------------------- MODULE MCProfileRecorder --------------------------
(* Two threads that use two worker handlers by turns; one message from     *)
(* another rank, one buffer for another rank and one for the own rank.     *)
EXTENDS ProfileRecorderInv, TLC

CONSTANTS a, b, self

MCRecordCount == (a :> 1 @@ b :> 2 @@ self :> 3)
MCSymmetry == Permutations(Threads)
=============================================================================
