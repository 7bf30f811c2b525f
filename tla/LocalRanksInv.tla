--------------------------- MODULE LocalRanksInv ----------------------------
(***************************************************************************)
(* An inductive invariant of LocalRanks.                                   *)
(***************************************************************************)
EXTENDS LocalRanks

ChunkSum(t) == keys_below[chunk[t + 1]] - keys_below[chunk[t]]
Offset(t) == keys_below[chunk[t]]

(* The number of barriers a thread has come to is known from where it is.  *)
BarrierCounts ==
  \A t \in Member :
    /\ arrived[t] = 0 <=> at[t] = "resize"
    /\ arrived[t] = 1 <=> at[t] \in {"resized", "sum"}
    /\ arrived[t] = 2 <=> at[t] \in {"stored", "scan", "scanning"}
    /\ arrived[t] = 3 <=> at[t] \in {"scanned", "rank"}
    /\ arrived[t] = 4 <=> at[t] \in {"ranked", "done"}

(* It is past a barrier only when all have come to it.                     *)
BarrierOrder ==
  \A t, u \in Member :
    /\ at[t] = "sum" => arrived[u] >= 1
    /\ at[t] = "stored" => arrived[u] >= 1
    /\ at[t] \in {"scan", "scanning", "scanned"} => arrived[u] >= 2
    /\ at[t] \in {"rank", "ranked"} => arrived[u] >= 3
    /\ at[t] = "done" => arrived[u] >= 4

(* Somebody has sized partial_sums before anyone goes on; one thread at    *)
(* most scans, and no thread passes it.                                    *)
Singles ==
  /\ "resize" \notin taken => \A t \in Member : at[t] = "resize"
  /\ "scan" \notin taken => \A t \in Member : arrived[t] <= 2 /\ at[t] # "scanning"
  /\ "scan" \in taken => \A t \in Member : arrived[t] >= 2
  /\ \A t, u \in Member : at[t] = "scanning" /\ at[u] = "scanning" => t = u

(* The first pass: the sum of the part of the chunk that is done.          *)
FirstPass ==
  \A t \in Member : at[t] = "sum" =>
    /\ index[t] \in chunk[t] .. chunk[t + 1]
    /\ sum[t] = keys_below[index[t]] - keys_below[chunk[t]]

(* The cells of partial_sums: sums of chunks before the scan, offsets      *)
(* after it, and during the scan offsets up to the scanning thread's index.*)
Cells ==
  /\ "scan" \notin taken =>
       \A t \in Member : arrived[t] = 2 => partial_sums[t] = ChunkSum(t)
  /\ \A t \in Member : at[t] = "scanning" =>
       /\ index[t] \in 0 .. NThreads
       /\ sum[t] = keys_below[chunk[index[t]]]
       /\ \A u \in Member : u < index[t] => partial_sums[u] = Offset(u)
       /\ \A u \in Member : u >= index[t] => partial_sums[u] = ChunkSum(u)
  /\ "scan" \in taken /\ (\A t \in Member : at[t] # "scanning") =>
       \A u \in Member : partial_sums[u] = Offset(u)

(* The second pass: the keys of the chunk that are done have their rank.   *)
SecondPass ==
  \A t \in Member :
    /\ at[t] = "rank" =>
         /\ index[t] \in chunk[t] .. chunk[t + 1]
         /\ sum[t] = keys_below[index[t]]
         /\ \A k \in RankedKey : chunk[t] <= k /\ k < index[t] => cumulative_ranks[k] = keys_below[k + 1]
    /\ at[t] \in {"ranked", "done"} =>
         \A k \in RankedKey : chunk[t] <= k /\ k < chunk[t + 1] =>
           cumulative_ranks[k] = keys_below[k + 1]

RankInv ==
  /\ RankTypeOK
  /\ BarrierCounts
  /\ BarrierOrder
  /\ Singles
  /\ FirstPass
  /\ Cells
  /\ SecondPass
=============================================================================
