----------------------------- MODULE MCRankTeams -----------------------------
(***************************************************************************)
(* The two parallel regions of a rank for TLC: CountBuckets, before the    *)
(* exchange, with two test keys, one in the keys of each rank, and         *)
(* LocalRanks, after it.  They share nothing that the other one changes,   *)
(* and are never run at the same time: the histogram is made of the keys   *)
(* that arrive from all the ranks.  So in a behaviour one of the two teams *)
(* runs, from any of its initial states, and the other one does not start. *)
(***************************************************************************)
EXTENDS CountBucketsInv, LocalRanksInv

CONSTANTS t1, t2

const_Thread == {t1, t2}
const_TestIndex == [id \in {0, 1} |-> IF id = 0 THEN 4 ELSE 1]

VARIABLE region   \* the one that runs: "count" or "rank"

CountWaits ==
  /\ my_rank = 0
  /\ keys = [i \in Index |-> 0]
  /\ schedule = [i \in Index |-> t1]

RankWaits ==
  /\ keys_below = [k \in 0 .. KeyRange |-> 0]
  /\ chunk = [t \in 0 .. NThreads |-> IF t = 0 THEN 0 ELSE KeyRange]

RegionInit ==
  /\ \/ region = "count" /\ RankWaits
     \/ region = "rank" /\ CountWaits
  /\ Init
  /\ RankInit

RegionNext ==
  /\ UNCHANGED region
  /\ \/ region = "count" /\ Next /\ UNCHANGED rank_vars
     \/ region = "rank" /\ RankNext /\ UNCHANGED vars

RegionSpec == RegionInit /\ [][RegionNext]_<<region, vars, rank_vars>>
=============================================================================
