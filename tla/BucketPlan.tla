----------------------------- MODULE BucketPlan -----------------------------
(***************************************************************************)
(* The bucket plan of one rank, my_rank, iteration after iteration:        *)
(*                                                                         *)
(*   clear_bucket_metadata();                                              *)
(*   reduce and broadcast the bucket counts of all the ranks;              *)
(*   build_bucket_plan(): give the buckets, in order, to the ranks, in     *)
(*     order, closing a rank's interval when the keys so far reach its     *)
(*     quota; then the key range, the keys of lesser ranks, and the local  *)
(*     keys of my_rank.                                                    *)
(*                                                                         *)
(* Every rank runs the same loop on the same global counts, so that        *)
(* bucket_to_rank is the same everywhere and the keys a rank receives are  *)
(* those of the buckets its own plan maps to it.  my_rank is chosen once.  *)
(*                                                                         *)
(* The counts are represented by their running totals: keys_below[b] keys  *)
(* are in buckets before b, and bucket b has keys_below[b+1]-keys_below[b] *)
(* of them.  A key k is in bucket k >> bucket_shift = k \div KeysPerBucket.*)
(***************************************************************************)
EXTENDS Integers

CONSTANTS
  CommSize,       \* comm_size, the ranks that sort
  NumBuckets,     \* num_buckets
  AverageKeys,    \* average_keys_per_rank: the keys each rank starts with
  KeysPerBucket,  \* 1 << bucket_shift
  TestArraySize   \* TEST_ARRAY_SIZE, extra slots of the metadata arrays

ASSUME PlanAssumption ==
  /\ CommSize \in Nat \ {0}
  /\ NumBuckets \in Nat \ {0}
  /\ AverageKeys \in Nat \ {0}
  /\ KeysPerBucket \in Nat \ {0}
  /\ TestArraySize \in Nat
  /\ CommSize <= NumBuckets + TestArraySize

Rank == 0 .. CommSize - 1
Bucket == 0 .. NumBuckets - 1

(* Indices of the metadata arrays. *)
Slot == 0 .. NumBuckets + TestArraySize - 1

TotalKeys == CommSize * AverageKeys

(* What the reduction can deliver: each rank counts AverageKeys keys.      *)
Totals == {f \in [0 .. NumBuckets -> 0 .. TotalKeys] :
             /\ f[0] = 0
             /\ f[NumBuckets] = TotalKeys
             /\ \A b, c \in 0 .. NumBuckets : b <= c => f[b] <= f[c]}

VARIABLES
  pc,                       \* the step of the plan my_rank is at
  my_rank,
  keys_below,               \* running totals of global_bucket_counts
  bucket_to_rank,
  first_bucket_by_rank,
  last_bucket_by_rank,
  bucket,                   \* loop index
  bucket_sum_accumulator,
  previous_bucket_sum_accumulator,
  owner_rank,
  expected_recv_count,
  min_key_value, max_key_value,
  rank,                     \* loop index of the sum over lesser ranks
  lesser_key_count,
  local_key_count

arrays == <<bucket_to_rank, first_bucket_by_rank, last_bucket_by_rank>>
loop == <<bucket, bucket_sum_accumulator, previous_bucket_sum_accumulator,
          owner_rank, expected_recv_count>>
range == <<min_key_value, max_key_value>>
sums == <<rank, lesser_key_count, local_key_count>>
vars == <<pc, my_rank, keys_below, arrays, loop, range, sums>>

Zeros == [s \in Slot |-> 0]

Init ==
  /\ pc = "organize"
  /\ my_rank \in Rank
  /\ keys_below = [b \in 0 .. NumBuckets |-> 0]
  /\ bucket_to_rank = Zeros
  /\ first_bucket_by_rank = Zeros
  /\ last_bucket_by_rank = Zeros
  /\ bucket = 0
  /\ bucket_sum_accumulator = 0
  /\ previous_bucket_sum_accumulator = 0
  /\ owner_rank = 0
  /\ expected_recv_count = 0
  /\ min_key_value = 0
  /\ max_key_value = 0
  /\ rank = 0
  /\ lesser_key_count = 0
  /\ local_key_count = 0

-----------------------------------------------------------------------------
(* clear_bucket_metadata() resets an array of the previous iteration.      *)
NotCleared(array) == array                                        \* fault
Cleared(array) == Zeros

OrganizeKeys ==
  /\ pc = "organize"
  /\ pc' = "reduce"
  /\ keys_below' = [b \in 0 .. NumBuckets |-> 0]
  /\ bucket_to_rank' = Cleared(bucket_to_rank)
  /\ first_bucket_by_rank' = Cleared(first_bucket_by_rank)
  /\ last_bucket_by_rank' = Cleared(last_bucket_by_rank)
  /\ UNCHANGED <<my_rank, loop, range, sums>>

(* The counts of all the ranks arrive, and build_bucket_plan() begins.     *)
ReduceCounts ==
  /\ pc = "reduce"
  /\ pc' = "assign"
  /\ keys_below' \in Totals
  /\ first_bucket_by_rank' = [first_bucket_by_rank EXCEPT ![0] = 0]
  /\ bucket' = 0
  /\ bucket_sum_accumulator' = 0
  /\ previous_bucket_sum_accumulator' = 0
  /\ owner_rank' = 0
  /\ expected_recv_count' = 0
  /\ UNCHANGED <<my_rank, bucket_to_rank, last_bucket_by_rank, range, sums>>

GlobalCount(b) == keys_below[b + 1] - keys_below[b]

SumWithBucket == bucket_sum_accumulator + GlobalCount(bucket)

QuotaExceeded == SumWithBucket > (owner_rank + 1) * AverageKeys   \* fault
QuotaOfLesser == SumWithBucket >= owner_rank * AverageKeys        \* fault
QuotaReached == SumWithBucket >= (owner_rank + 1) * AverageKeys

(* A pass of the loop over the buckets that leaves the owner's interval    *)
(* open.                                                                   *)
KeepOwner ==
  /\ pc = "assign"
  /\ bucket < NumBuckets
  /\ ~QuotaReached
  /\ bucket_sum_accumulator' = SumWithBucket
  /\ bucket_to_rank' = [bucket_to_rank EXCEPT ![bucket] = owner_rank]
  /\ bucket' = bucket + 1
  /\ UNCHANGED <<pc, my_rank, keys_below, first_bucket_by_rank,
                 last_bucket_by_rank, previous_bucket_sum_accumulator,
                 owner_rank, expected_recv_count, range, sums>>

KeysSoFar == SumWithBucket                                        \* fault
KeysOfInterval == SumWithBucket - previous_bucket_sum_accumulator

AfterPreviousInterval == last_bucket_by_rank[owner_rank - 1] + 1

(* A pass that closes it.                                                  *)
CloseOwner ==
  /\ pc = "assign"
  /\ bucket < NumBuckets
  /\ QuotaReached
  /\ bucket_sum_accumulator' = SumWithBucket
  /\ bucket_to_rank' = [bucket_to_rank EXCEPT ![bucket] = owner_rank]
  /\ expected_recv_count' =
       IF owner_rank = my_rank THEN KeysOfInterval ELSE expected_recv_count
  /\ first_bucket_by_rank' =
       IF owner_rank # 0
       THEN [first_bucket_by_rank EXCEPT ![owner_rank] = AfterPreviousInterval]
       ELSE first_bucket_by_rank
  /\ last_bucket_by_rank' = [last_bucket_by_rank EXCEPT ![owner_rank] = bucket]
  /\ owner_rank' = owner_rank + 1
  /\ previous_bucket_sum_accumulator' = SumWithBucket
  /\ bucket' = bucket + 1
  /\ UNCHANGED <<pc, my_rank, keys_below, range, sums>>

EndAssign ==
  /\ pc = "assign"
  /\ bucket = NumBuckets
  /\ pc' = "idle"
  /\ UNCHANGED <<my_rank, keys_below, arrays, loop, range, sums>>

(* A rank left without buckets gets first = 1, above its cleared last = 0. *)
IdleFirst == 1

MarkIdle ==
  /\ pc = "idle"
  /\ owner_rank < CommSize
  /\ first_bucket_by_rank' = [first_bucket_by_rank EXCEPT ![owner_rank] = IdleFirst]
  /\ owner_rank' = owner_rank + 1
  /\ UNCHANGED <<pc, my_rank, keys_below, bucket_to_rank, last_bucket_by_rank,
                 bucket, bucket_sum_accumulator, previous_bucket_sum_accumulator,
                 expected_recv_count, range, sums>>

LastKeyOfLesser(b) == b * KeysPerBucket - 1                       \* fault
LastKey(b) == (b + 1) * KeysPerBucket - 1

ComputeKeyRange ==
  /\ pc = "idle"
  /\ owner_rank >= CommSize
  /\ pc' = "lesser"
  /\ min_key_value' = first_bucket_by_rank[my_rank] * KeysPerBucket
  /\ max_key_value' = LastKey(last_bucket_by_rank[my_rank])
  /\ rank' = 0
  /\ lesser_key_count' = 0
  /\ UNCHANGED <<my_rank, keys_below, arrays, loop, local_key_count>>

(* The sum of global_bucket_counts from first[r] up to last[r].            *)
IntervalKeys(r) ==
  IF first_bucket_by_rank[r] <= last_bucket_by_rank[r]
  THEN keys_below[last_bucket_by_rank[r] + 1] - keys_below[first_bucket_by_rank[r]]
  ELSE 0

SumLesserRank ==
  /\ pc = "lesser"
  /\ rank < my_rank
  /\ lesser_key_count' = lesser_key_count + IntervalKeys(rank)
  /\ rank' = rank + 1
  /\ UNCHANGED <<pc, my_rank, keys_below, arrays, loop, range, local_key_count>>

SumLocal ==
  /\ pc = "lesser"
  /\ rank >= my_rank
  /\ pc' = "ready"
  /\ local_key_count' = IntervalKeys(my_rank)
  /\ UNCHANGED <<my_rank, keys_below, arrays, loop, range, rank, lesser_key_count>>

(* The plan is used, and the next iteration begins.                        *)
NextIteration ==
  /\ pc = "ready"
  /\ pc' = "organize"
  /\ UNCHANGED <<my_rank, keys_below, arrays, loop, range, sums>>

Next ==
  \/ OrganizeKeys
  \/ ReduceCounts
  \/ KeepOwner
  \/ CloseOwner
  \/ EndAssign
  \/ MarkIdle
  \/ ComputeKeyRange
  \/ SumLesserRank
  \/ SumLocal
  \/ NextIteration

Spec == Init /\ [][Next]_vars

-----------------------------------------------------------------------------
(* Every variable has its type; in particular owner_rank never passes      *)
(* comm_size, so that the metadata arrays are written inside their bounds. *)
TypeOK ==
  /\ pc \in {"organize", "reduce", "assign", "idle", "lesser", "ready"}
  /\ my_rank \in Rank
  /\ keys_below \in [0 .. NumBuckets -> 0 .. TotalKeys]
  /\ bucket_to_rank \in [Slot -> 0 .. CommSize]
  /\ first_bucket_by_rank \in [Slot -> 0 .. NumBuckets]
  /\ last_bucket_by_rank \in [Slot -> 0 .. NumBuckets - 1]
  /\ bucket \in 0 .. NumBuckets
  /\ bucket_sum_accumulator \in 0 .. TotalKeys
  /\ previous_bucket_sum_accumulator \in 0 .. TotalKeys
  /\ owner_rank \in 0 .. CommSize
  /\ expected_recv_count \in 0 .. TotalKeys
  /\ min_key_value \in Int
  /\ max_key_value \in Int
  /\ rank \in 0 .. CommSize
  /\ lesser_key_count \in 0 .. TotalKeys
  /\ local_key_count \in 0 .. TotalKeys

Planned == pc = "ready"

(* Every key is routed to a rank that exists: only buckets without keys    *)
(* can be left to the owner after the last one (route_key() indexes        *)
(* bucket_to_rank with the bucket of a key).                               *)
KeysHaveOwner ==
  Planned => \A b \in Bucket : GlobalCount(b) > 0 => bucket_to_rank[b] \in Rank

(* The wait of the redistribution ends with the last key and not before:   *)
(* expected_recv_count is the number of keys that all the ranks route to   *)
(* my_rank, whose buckets are those from lo to hi - 1.                     *)
ExpectedIsRouted ==
  Planned => \E lo, hi \in 0 .. NumBuckets :
    /\ lo <= hi
    /\ \A b \in Bucket : bucket_to_rank[b] = my_rank <=> b \in lo .. hi - 1
    /\ expected_recv_count = keys_below[hi] - keys_below[lo]
    /\ local_key_count = expected_recv_count

(* The handler counts a key at frequency_by_key(min)[key] in an array      *)
(* cleared for min..max: every key routed to my_rank is in that range, and *)
(* no other rank's key is, so that exactly one rank verifies a test key.   *)
RangeIsRouted ==
  Planned => \A b \in Bucket, k \in 0 .. KeysPerBucket - 1 :
    LET key == b * KeysPerBucket + k
    IN  (min_key_value <= key /\ key <= max_key_value) <=> bucket_to_rank[b] = my_rank

(* lesser_key_count, which verification adds to a local rank to get a      *)
(* global one, counts exactly the keys routed to lesser ranks, and these   *)
(* are the keys smaller than those of my_rank.                             *)
LesserIsLesserRanks ==
  Planned => \E n \in 0 .. NumBuckets :
    /\ \A b \in Bucket : GlobalCount(b) > 0 => (bucket_to_rank[b] < my_rank <=> b < n)
    /\ \A b \in Bucket : bucket_to_rank[b] = my_rank => b >= n
    /\ lesser_key_count = keys_below[n]

(* The greedy plan overshoots a rank's quota by less than one bucket.      *)
LoadBalanced ==
  Planned /\ expected_recv_count > 0 =>
    expected_recv_count < AverageKeys + GlobalCount(last_bucket_by_rank[my_rank])
=============================================================================
