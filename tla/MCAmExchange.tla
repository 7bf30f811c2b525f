---------------------------- MODULE MCAmExchange ----------------------------
(***************************************************************************)
(* Instances of AmExchange for TLC.                                        *)
(***************************************************************************)
EXTENDS AmExchangeInv, TLC

CONSTANTS v1, v2, v3, v4, v5

MCExpected == [r \in Rank |-> Cardinality(Sent(r))]

(* With two packets a rank, worker <<0, 0>> may have to wait for one: when *)
(* one holds its value for itself, the other is in flight to rank 1, and   *)
(* it posts the third value for rank 1.                                    *)
TightHome == [v \in Records |-> IF v = v5 THEN <<1, 0>> ELSE <<0, 0>>]
TightDest == [v \in Records |-> IF v \in {v4, v5} THEN 0 ELSE 1]

(* Both workers of rank 0 send to rank 1, each over its own device, and    *)
(* rank 0 expects one value only, so its workers may be gone early.        *)
DeviceHome == v1 :> <<0, 0>> @@ v2 :> <<0, 1>> @@ v3 :> <<1, 1>>
DeviceDest == v1 :> 1 @@ v2 :> 1 @@ v3 :> 0
=============================================================================
