--------------------------- MODULE TypedAmExchange ---------------------------
(***************************************************************************)
(* The example program as a client of one active-message phase: every rank *)
(* posts one record, with its own number as the key, to the next rank      *)
(* through worker handler 0, flushes, and makes progress until it has      *)
(* received one.  The definitions are the values it gives to the constants *)
(* of AmExchange; a record is named by its key, and rank_count stands for  *)
(* no record.                                                              *)
(*                                                                         *)
(* AmExchange_proofs has that they are what the exchange is proved from    *)
(* (RecordAssumption, ExpectedAssumption).                                 *)
(***************************************************************************)
EXTENDS Naturals

CONSTANT rank_count

Rank == 0 .. rank_count - 1
Records == Rank
Worker == {0}

destination(rank) == (rank + 1) % rank_count

Home == [record \in Records |-> <<record, 0>>]
Dest == [record \in Records |-> destination(record)]
Expected == [rank \in Rank |-> 1]

Sent(rank) == {record \in Records : Dest[record] = rank}
=============================================================================
