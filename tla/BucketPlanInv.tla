--------------------------- MODULE BucketPlanInv ----------------------------
(***************************************************************************)
(* The inductive invariant of BucketPlan.                                  *)
(***************************************************************************)
EXTENDS BucketPlan

(* What the reduction delivered stays until the next iteration.            *)
TotalsInv == pc \in {"assign", "idle", "lesser", "ready"} => keys_below \in Totals

(* The arrays are clear when the loop starts.                              *)
ClearedInv == pc = "reduce" => first_bucket_by_rank = Zeros /\ last_bucket_by_rank = Zeros

(* The bucket an interval starts at: the one after the previous interval.  *)
StartOf(r) == IF r = 0 THEN 0 ELSE last_bucket_by_rank[r - 1] + 1

(* Rank r has an interval of at least one bucket, the next one after rank  *)
(* r - 1's; its quota was reached with the last bucket and not before.     *)
HasInterval(r) ==
  /\ r \in Rank
  /\ first_bucket_by_rank[r] = StartOf(r)
  /\ first_bucket_by_rank[r] <= last_bucket_by_rank[r]
  /\ r * AverageKeys <= keys_below[first_bucket_by_rank[r]]
  /\ (r + 1) * AverageKeys <= keys_below[last_bucket_by_rank[r] + 1]
  /\ \/ first_bucket_by_rank[r] = last_bucket_by_rank[r]
     \/ keys_below[last_bucket_by_rank[r]] < (r + 1) * AverageKeys
  /\ \A b \in 0 .. bucket - 1 :
       bucket_to_rank[b] = r <=> b \in first_bucket_by_rank[r] .. last_bucket_by_rank[r]

(* Buckets are given to ranks in order.                                    *)
Ordered == \A b, c \in 0 .. bucket - 1 : b <= c => bucket_to_rank[b] <= bucket_to_rank[c]

(* The loop over the buckets: owner_rank is the rank whose interval is     *)
(* open, from StartOf(owner_rank) on.                                      *)
AssignInv ==
  pc = "assign" =>
    /\ \A r \in Rank : r < owner_rank => HasInterval(r) /\ last_bucket_by_rank[r] < bucket
    /\ \A r \in Slot : r >= owner_rank => last_bucket_by_rank[r] = 0
    /\ first_bucket_by_rank[0] = 0
    /\ StartOf(owner_rank) <= bucket
    /\ previous_bucket_sum_accumulator = keys_below[StartOf(owner_rank)]
    /\ bucket_sum_accumulator = keys_below[bucket]
    /\ \A b \in 0 .. bucket - 1 : bucket_to_rank[b] <= owner_rank
    /\ \A b \in 0 .. bucket - 1 : bucket_to_rank[b] = owner_rank <=> StartOf(owner_rank) <= b
    /\ Ordered
    /\ owner_rank * AverageKeys <= previous_bucket_sum_accumulator
    /\ StartOf(owner_rank) < bucket => bucket_sum_accumulator < (owner_rank + 1) * AverageKeys
    /\ expected_recv_count =
         IF my_rank < owner_rank
         THEN keys_below[last_bucket_by_rank[my_rank] + 1]
                - keys_below[first_bucket_by_rank[my_rank]]
         ELSE 0

(* A rank for which no bucket was left.                                    *)
IsIdle(r) ==
  /\ r # 0
  /\ first_bucket_by_rank[r] = 1
  /\ last_bucket_by_rank[r] = 0
  /\ \A b \in Bucket : bucket_to_rank[b] # r

(* After the loop: every rank before owner_rank has an interval or is      *)
(* idle, intervals come first, and the last one ends after all the keys.   *)
PlanInv ==
  pc \in {"idle", "lesser", "ready"} =>
    /\ bucket = NumBuckets
    /\ \A r \in Rank : r < owner_rank => HasInterval(r) \/ IsIdle(r)
    /\ \A r, s \in Rank : r < s /\ s < owner_rank /\ IsIdle(r) => IsIdle(s)
    /\ \A r \in Rank : r < owner_rank /\ HasInterval(r) /\ (r + 1 < owner_rank => IsIdle(r + 1))
         => keys_below[last_bucket_by_rank[r] + 1] = TotalKeys
    /\ \A r \in Rank : r >= owner_rank =>
         last_bucket_by_rank[r] = 0 /\ \A b \in Bucket : bucket_to_rank[b] # r
    /\ 0 < owner_rank
    /\ Ordered
    /\ \A b \in Bucket : GlobalCount(b) > 0 => bucket_to_rank[b] < CommSize
    /\ expected_recv_count =
         IF my_rank < owner_rank /\ HasInterval(my_rank)
         THEN keys_below[last_bucket_by_rank[my_rank] + 1]
                - keys_below[first_bucket_by_rank[my_rank]]
         ELSE 0

(* The sums over lesser ranks are the running total where the interval of  *)
(* the next rank starts.                                                   *)
SumInv ==
  pc \in {"lesser", "ready"} =>
    /\ owner_rank = CommSize
    /\ min_key_value = first_bucket_by_rank[my_rank] * KeysPerBucket
    /\ max_key_value = (last_bucket_by_rank[my_rank] + 1) * KeysPerBucket - 1
    /\ rank <= my_rank
    /\ lesser_key_count =
         IF HasInterval(rank) THEN keys_below[first_bucket_by_rank[rank]] ELSE TotalKeys
    /\ pc = "ready" => rank = my_rank /\ local_key_count = IntervalKeys(my_rank)

IInv ==
  /\ TypeOK
  /\ TotalsInv
  /\ ClearedInv
  /\ AssignInv
  /\ PlanInv
  /\ SumInv
=============================================================================
