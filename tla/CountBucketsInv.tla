--------------------------- MODULE CountBucketsInv ---------------------------
(***************************************************************************)
(* The inductive invariant of CountBuckets.                                *)
(*                                                                         *)
(* An iteration of the loop is counted in two steps, by its thread in the  *)
(* private array and, when that thread merges the bucket of its key, in    *)
(* the shared one.  The invariant says which iterations each array has     *)
(* counted at any moment, and that the count a thread has loaded is still  *)
(* the one it adds to: the critical section keeps the others away.         *)
(***************************************************************************)
EXTENDS CountBuckets

Stages == {"change", "organize", "count", "ready"}
Points == {"loop", "enter", "load", "store", "done"}
Inside == {"load", "store"}

(* The iterations of a thread, and those whose key is in a bucket.         *)
Share(t) == {i \in Index : schedule[i] = t}
Of(b) == {i \in Index : BucketOf(keys[i]) = b}

TypeOK ==
  /\ my_rank \in 0 .. Ranks - 1
  /\ pass \in 0 .. MaxIterations
  /\ keys \in [Index -> Key]
  /\ stage \in Stages
  /\ local_bucket_counts \in [Slot -> Nat]
  /\ schedule \in [Index -> Thread]
  /\ pc \in [Thread -> Points]
  /\ todo \in [Thread -> SUBSET Index]
  /\ bucket_size_private \in [Thread -> [Bucket -> Nat]]
  /\ bucket \in [Thread -> 0 .. NumBuckets]
  /\ loaded \in [Thread -> Nat]
  /\ critical \in Thread \union {None}

(* The private array of a thread has the iterations it has run, and it is  *)
(* complete when the thread leaves the loop.                               *)
LoopInv ==
  stage = "count" => \A t \in Thread :
    /\ todo[t] \subseteq Share(t)
    /\ pc[t] # "loop" => todo[t] = {}
    /\ \A b \in Bucket :
         bucket_size_private[t][b] = Cardinality((Share(t) \ todo[t]) \intersect Of(b))

(* One thread at a time is inside, and what it has loaded is current.      *)
CriticalInv ==
  /\ stage # "count" => \A t \in Thread : pc[t] = "done"
  /\ \A t \in Thread : pc[t] \in Inside <=> critical = t
  /\ \A t \in Thread : pc[t] = "store" =>
       bucket[t] \in Bucket /\ loaded[t] = local_bucket_counts[bucket[t]]

(* The shared array has the iterations of the threads that have merged.    *)
Merged(t, b) == pc[t] = "done" \/ (pc[t] \in Inside /\ b < bucket[t])
MergedOf(b) == {i \in Of(b) : Merged(schedule[i], b)}

MergeInv ==
  stage \in {"count", "ready"} =>
    \A b \in Bucket : local_bucket_counts[b] = Cardinality(MergedOf(b))

(* The slots behind the buckets stay as they were captured.                *)
TestInv ==
  stage \in {"count", "ready"} =>
    \A id \in TestId : local_bucket_counts[TestSlot(id)] = Captured(id)

IInv == TypeOK /\ LoopInv /\ CriticalInv /\ MergeInv /\ TestInv
=============================================================================
