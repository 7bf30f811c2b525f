---------------------------- MODULE CountBuckets ----------------------------
(***************************************************************************)
(* The first stage of an iteration on one rank: change two keys, clear the *)
(* metadata, put the test keys of this rank into the last slots of         *)
(* local_bucket_counts, and let a team of OpenMP threads count the keys    *)
(* per bucket.  Every thread counts its share of the loop into an array of *)
(* its own, without a barrier after the loop, and then adds that array to  *)
(* the shared one in a critical section.  The addition of a count is a     *)
(* load and a store, as it is for any object that is not atomic.           *)
(*                                                                         *)
(* The loop has no schedule clause, so that any thread may get any of its  *)
(* iterations.                                                             *)
(***************************************************************************)
EXTENDS Integers, FiniteSetsExt

CONSTANTS
  Thread,         \* the OpenMP team
  LocalKeys,      \* local_key_count
  NumBuckets,     \* NUM_BUCKETS
  KeysPerBucket,  \* 1 << bucket_shift
  MaxIterations,  \* MAX_ITERATIONS
  TestIndex,      \* test_index: a function from test ids to places in the keys of all the ranks
  Ranks,          \* number of active ranks
  None            \* no thread

MaxKey == NumBuckets * KeysPerBucket
Key == 0 .. MaxKey - 1
Index == 0 .. LocalKeys - 1
Bucket == 0 .. NumBuckets - 1
TestId == DOMAIN TestIndex
TestSlot(id) == NumBuckets + id
Slot == Bucket \union {TestSlot(id) : id \in TestId}

ASSUME CountAssumption ==
  /\ LocalKeys \in Nat /\ Ranks \in Nat
  /\ {NumBuckets, KeysPerBucket, MaxIterations} \subseteq Nat \ {0}
  /\ 2 * MaxIterations < LocalKeys
  /\ MaxIterations < MaxKey
  /\ None \notin Thread
  /\ \A id \in TestId : id \in Nat /\ TestIndex[id] \in 0 .. Ranks * LocalKeys - 1

VARIABLES
  my_rank,
  pass,                   \* 0 for the warm-up, then the number of the timed iteration
  keys,
  stage,                  \* "change", "organize", "count" or "ready"
  local_bucket_counts,
  schedule,               \* the thread that runs an iteration of the loop
  pc,                     \* what a thread is at: "loop", "enter", "load", "store" or "done"
  todo,                   \* the iterations a thread has still to run
  bucket_size_private,
  bucket,                 \* loop index of the merge
  loaded,                 \* the count a thread has loaded
  critical                \* the thread inside the critical section

rankVars == <<my_rank, pass, keys>>
team == <<schedule, pc, todo, bucket_size_private, bucket, loaded, critical>>
vars == <<rankVars, stage, local_bucket_counts, team>>

Init ==
  /\ my_rank \in 0 .. Ranks - 1
  /\ pass = 0
  /\ keys \in [Index -> Key]
  /\ stage = "change"
  /\ local_bucket_counts = [s \in Slot |-> 0]
  /\ schedule \in [Index -> Thread]
  /\ pc = [t \in Thread |-> "done"]
  /\ todo = [t \in Thread |-> {}]
  /\ bucket_size_private = [t \in Thread |-> [b \in Bucket |-> 0]]
  /\ bucket = [t \in Thread |-> 0]
  /\ loaded = [t \in Thread |-> 0]
  /\ critical = None

-----------------------------------------------------------------------------
BucketOf(key) == key \div KeysPerBucket

(* The warm-up runs iteration 1, which the first timed pass repeats.       *)
Iteration == IF pass = 0 THEN 1 ELSE pass

ChangeKeys ==
  /\ stage = "change"
  /\ stage' = "organize"
  /\ keys' = IF my_rank = 0
             THEN [keys EXCEPT ![Iteration] = Iteration,
                               ![Iteration + MaxIterations] = MaxKey - Iteration]
             ELSE keys
  /\ UNCHANGED <<my_rank, pass, local_bucket_counts, team>>

(* The slots after clear_bucket_metadata() and                             *)
(* capture_partial_verification_keys().                                    *)
Captured(id) ==
  IF TestIndex[id] \div LocalKeys = my_rank
  THEN keys[TestIndex[id] % LocalKeys]
  ELSE 0

(* The parallel region begins: each thread has a zeroed private array.     *)
OrganizeKeys ==
  /\ stage = "organize"
  /\ stage' = "count"
  /\ local_bucket_counts' =
       [s \in Slot |-> IF s \in Bucket THEN 0 ELSE Captured(s - NumBuckets)]
  /\ pc' = [t \in Thread |-> "loop"]
  /\ todo' = [t \in Thread |-> {i \in Index : schedule[i] = t}]
  /\ bucket_size_private' = [t \in Thread |-> [b \in Bucket |-> 0]]
  /\ bucket' = [t \in Thread |-> 0]
  /\ loaded' = [t \in Thread |-> 0]
  /\ UNCHANGED <<rankVars, schedule, critical>>

CountKey(t) ==
  /\ pc[t] = "loop"
  /\ todo[t] # {}
  /\ LET i == Min(todo[t]) IN
       /\ bucket_size_private' = [bucket_size_private EXCEPT ![t][BucketOf(keys[i])] = @ + 1]
       /\ todo' = [todo EXCEPT ![t] = @ \ {i}]
  /\ UNCHANGED <<rankVars, stage, local_bucket_counts, schedule, pc, bucket, loaded, critical>>

EndLoop(t) ==
  /\ pc[t] = "loop"
  /\ todo[t] = {}
  /\ pc' = [pc EXCEPT ![t] = "enter"]
  /\ UNCHANGED <<rankVars, stage, local_bucket_counts, schedule, todo, bucket_size_private,
                 bucket, loaded, critical>>

CriticalFree(t) == critical = None

EnterCritical(t) ==
  /\ pc[t] = "enter"
  /\ CriticalFree(t)
  /\ critical' = t
  /\ bucket' = [bucket EXCEPT ![t] = 0]
  /\ pc' = [pc EXCEPT ![t] = "load"]
  /\ UNCHANGED <<rankVars, stage, local_bucket_counts, schedule, todo, bucket_size_private, loaded>>

LoadCount(t) ==
  /\ pc[t] = "load"
  /\ bucket[t] < NumBuckets
  /\ loaded' = [loaded EXCEPT ![t] = local_bucket_counts[bucket[t]]]
  /\ pc' = [pc EXCEPT ![t] = "store"]
  /\ UNCHANGED <<rankVars, stage, local_bucket_counts, schedule, todo, bucket_size_private,
                 bucket, critical>>

StoreCount(t) ==
  /\ pc[t] = "store"
  /\ local_bucket_counts' =
       [local_bucket_counts EXCEPT ![bucket[t]] = loaded[t] + bucket_size_private[t][bucket[t]]]
  /\ bucket' = [bucket EXCEPT ![t] = @ + 1]
  /\ pc' = [pc EXCEPT ![t] = "load"]
  /\ UNCHANGED <<rankVars, stage, schedule, todo, bucket_size_private, loaded, critical>>

LeaveCritical(t) ==
  /\ pc[t] = "load"
  /\ bucket[t] = NumBuckets
  /\ critical' = None
  /\ pc' = [pc EXCEPT ![t] = "done"]
  /\ UNCHANGED <<rankVars, stage, local_bucket_counts, schedule, todo, bucket_size_private,
                 bucket, loaded>>

(* The implicit barrier at the end of the parallel region.                 *)
SomeFinished == \E t \in Thread : pc[t] = "done"                  \* fault
TeamFinished == \A t \in Thread : pc[t] = "done"

EndRegion ==
  /\ stage = "count"
  /\ TeamFinished
  /\ stage' = "ready"
  /\ UNCHANGED <<rankVars, local_bucket_counts, team>>

(* The counts are used, and the next iteration begins with another         *)
(* assignment of the loop to the threads.                                  *)
NextIteration ==
  /\ stage = "ready"
  /\ pass < MaxIterations
  /\ pass' = pass + 1
  /\ stage' = "change"
  /\ schedule' \in [Index -> Thread]
  /\ UNCHANGED <<my_rank, keys, local_bucket_counts, pc, todo, bucket_size_private,
                 bucket, loaded, critical>>

ThreadStep(t) ==
  \/ CountKey(t)
  \/ EndLoop(t)
  \/ EnterCritical(t)
  \/ LoadCount(t)
  \/ StoreCount(t)
  \/ LeaveCritical(t)

Next ==
  \/ ChangeKeys
  \/ OrganizeKeys
  \/ \E t \in Thread : ThreadStep(t)
  \/ EndRegion
  \/ NextIteration

Spec == Init /\ [][Next]_vars

-----------------------------------------------------------------------------
(* What the reduction reads: the number of keys of each bucket in the keys *)
(* of this iteration, nothing of an earlier one, and, in the slots behind, *)
(* the test keys on the rank that has them and 0 on every other, so that   *)
(* the sum over the ranks delivers each test key to all of them.           *)
CountsOfIteration ==
  stage = "ready" =>
    /\ \A b \in Bucket :
         local_bucket_counts[b] = Cardinality({i \in Index : BucketOf(keys[i]) = b})
    /\ \A id \in TestId :
         local_bucket_counts[TestSlot(id)] =
           IF TestIndex[id] \in my_rank * LocalKeys .. (my_rank + 1) * LocalKeys - 1
           THEN keys[TestIndex[id] - my_rank * LocalKeys] ELSE 0
=============================================================================
