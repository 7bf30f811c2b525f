----------------------------- MODULE MCAmPhases -----------------------------
(***************************************************************************)
(* AmPhases for TLC.  In the first phase rank 0 uses two workers by turns, *)
(* in the second each rank sends to the other and rank 1 to itself, in the *)
(* third, with a new Runtime and the record type of the first, both send   *)
(* to rank 0, rank 0 with a worker it used in the first.                   *)
(***************************************************************************)
EXTENDS AmPhasesInv, TLC

const_Plan ==
  1 :> (0 :> {<<0, 1>>, <<1, 1>>, <<1, 0>>} @@ 1 :> {}) @@
  2 :> (0 :> {<<1, 1>>} @@ 1 :> {<<0, 0>>, <<0, 1>>}) @@
  3 :> (0 :> {<<1, 0>>} @@ 1 :> {<<0, 0>>})

(* A message of the second phase read as records of the first or third     *)
(* would be two of them.                                                   *)
const_SizeOf == [t \in Types |-> IF t = "edge" THEN 2 ELSE 1]
const_RecordType == <<"key", "edge", "key">>
const_UsePacket == <<TRUE, FALSE, TRUE>>
=============================================================================
