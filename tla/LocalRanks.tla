----------------------------- MODULE LocalRanks -----------------------------
(***************************************************************************)
(* compute_local_ranks(): the prefix sums of a rank's histogram, computed  *)
(* by a team of OpenMP threads in two passes over the keys of its range.   *)
(*                                                                         *)
(*   - one thread sizes partial_sums, the others wait;                     *)
(*   - every thread adds up its chunk and stores the sum in its cell;      *)
(*   - a barrier, then one thread replaces the sums by their exclusive     *)
(*     prefix sums, and the others wait;                                   *)
(*   - every thread takes its offset and runs through its chunk again.     *)
(*                                                                         *)
(* partial_sums and cumulative_ranks are plain arrays: nothing but the     *)
(* barriers keeps the threads from racing for them.                        *)
(*                                                                         *)
(* The histogram does not change meanwhile (the exchange is over).  It is  *)
(* represented by its running totals: keys_below[k] of the rank's keys are *)
(* smaller than k, keys being counted from min_key_value.                  *)
(*                                                                         *)
(* schedule(static) without a chunk size gives the threads consecutive     *)
(* chunks in the order of their numbers, the same ones in both loops; that *)
(* they are of about the same size does not matter here.                   *)
(*                                                                         *)
(* No name is one of CountBuckets, the other parallel region of a rank, so *)
(* that the proofs about both can be in one module.                        *)
(***************************************************************************)
EXTENDS Integers

CONSTANTS
  NThreads,   \* omp_get_num_threads()
  KeyRange,   \* max_key_value - min_key_value + 1
  MaxKeys     \* bound of the number of keys the rank has received

ASSUME RankAssumption ==
  /\ NThreads \in Nat \ {0}
  /\ KeyRange \in Nat
  /\ MaxKeys \in Nat

Member == 0 .. NThreads - 1
RankedKey == 0 .. KeyRange - 1

Histograms == {f \in [0 .. KeyRange -> 0 .. MaxKeys] :
                 /\ f[0] = 0
                 /\ \A j, k \in 0 .. KeyRange : j <= k => f[j] <= f[k]}

(* Thread t has the keys from c[t] up to c[t + 1] - 1, and every key is in *)
(* a chunk.                                                                *)
Chunks == {c \in [0 .. NThreads -> 0 .. KeyRange] :
             /\ c[0] = 0
             /\ c[NThreads] = KeyRange
             /\ \A t, u \in 0 .. NThreads : t <= u => c[t] <= c[u]
             /\ \A k \in RankedKey : \E t \in Member : c[t] <= k /\ k < c[t + 1]}

VARIABLES
  keys_below,
  chunk,
  cumulative_ranks,
  partial_sums,
  at,             \* where a thread is
  arrived,        \* number of barriers a thread has arrived at
  taken,          \* the single constructs a thread has taken
  index,          \* loop index of a thread
  sum             \* its local_sum, temp_sum or offset, whichever it is using

input == <<keys_below, chunk>>
shared == <<cumulative_ranks, partial_sums>>
rank_vars == <<input, shared, at, arrived, taken, index, sum>>

frequency_histogram(key) == keys_below[key + 1] - keys_below[key]

RankInit ==
  /\ keys_below \in Histograms
  /\ chunk \in Chunks
  /\ cumulative_ranks = [k \in RankedKey |-> 0]
  /\ partial_sums = [t \in Member |-> 0]
  /\ at = [t \in Member |-> "resize"]
  /\ arrived = [t \in Member |-> 0]
  /\ taken = {}
  /\ index = [t \in Member |-> 0]
  /\ sum = [t \in Member |-> 0]

-----------------------------------------------------------------------------
Goto(t, label) == at' = [at EXCEPT ![t] = label]

(* A thread at a barrier goes on when all the threads have come to it.     *)
Arrive(t) == arrived' = [arrived EXCEPT ![t] = @ + 1]

NoWait(t) == TRUE                                                 \* fault
AllArrived(t) == \A u \in Member : arrived[u] >= arrived[t]

(* The thread that comes first to a single construct runs it; the others   *)
(* go to the barrier at its end.                                           *)
Skip(t, construct, barrier) ==
  /\ at[t] = construct
  /\ construct \in taken
  /\ Arrive(t)
  /\ Goto(t, barrier)
  /\ UNCHANGED <<input, shared, taken, index, sum>>

ResizeSums(t) ==
  /\ at[t] = "resize"
  /\ "resize" \notin taken
  /\ taken' = taken \union {"resize"}
  /\ partial_sums' = [u \in Member |-> 0]
  /\ Arrive(t)
  /\ Goto(t, "resized")
  /\ UNCHANGED <<input, cumulative_ranks, index, sum>>

BeginSum(t) ==
  /\ at[t] = "resized"
  /\ AllArrived(t)
  /\ index' = [index EXCEPT ![t] = chunk[t]]
  /\ sum' = [sum EXCEPT ![t] = 0]
  /\ Goto(t, "sum")
  /\ UNCHANGED <<input, shared, arrived, taken>>

AddCount(t) ==
  /\ at[t] = "sum"
  /\ index[t] < chunk[t + 1]
  /\ sum' = [sum EXCEPT ![t] = @ + frequency_histogram(index[t])]
  /\ index' = [index EXCEPT ![t] = @ + 1]
  /\ UNCHANGED <<input, shared, at, arrived, taken>>

(* There is no barrier between the loop and the store.                     *)
StoreSum(t) ==
  /\ at[t] = "sum"
  /\ index[t] >= chunk[t + 1]
  /\ partial_sums' = [partial_sums EXCEPT ![t] = sum[t]]
  /\ Arrive(t)
  /\ Goto(t, "stored")
  /\ UNCHANGED <<input, cumulative_ranks, taken, index, sum>>

PassBarrier(t) ==
  /\ at[t] = "stored"
  /\ AllArrived(t)
  /\ Goto(t, "scan")
  /\ UNCHANGED <<input, shared, arrived, taken, index, sum>>

NewSum(t) == 0

TakeScan(t) ==
  /\ at[t] = "scan"
  /\ "scan" \notin taken
  /\ taken' = taken \union {"scan"}
  /\ index' = [index EXCEPT ![t] = 0]
  /\ sum' = [sum EXCEPT ![t] = NewSum(t)]
  /\ Goto(t, "scanning")
  /\ UNCHANGED <<input, shared, arrived>>

InclusiveSum(t) == sum[t] + partial_sums[index[t]]                \* fault
ExclusiveSum(t) == sum[t]

ScanCell(t) ==
  /\ at[t] = "scanning"
  /\ index[t] < NThreads
  /\ partial_sums' = [partial_sums EXCEPT ![index[t]] = ExclusiveSum(t)]
  /\ sum' = [sum EXCEPT ![t] = @ + partial_sums[index[t]]]
  /\ index' = [index EXCEPT ![t] = @ + 1]
  /\ UNCHANGED <<input, cumulative_ranks, at, arrived, taken>>

EndScan(t) ==
  /\ at[t] = "scanning"
  /\ index[t] >= NThreads
  /\ Arrive(t)
  /\ Goto(t, "scanned")
  /\ UNCHANGED <<input, shared, taken, index, sum>>

TakeOffset(t) ==
  /\ at[t] = "scanned"
  /\ AllArrived(t)
  /\ sum' = [sum EXCEPT ![t] = partial_sums[t]]
  /\ index' = [index EXCEPT ![t] = chunk[t]]
  /\ Goto(t, "rank")
  /\ UNCHANGED <<input, shared, arrived, taken>>

RankKey(t) ==
  /\ at[t] = "rank"
  /\ index[t] < chunk[t + 1]
  /\ sum' = [sum EXCEPT ![t] = @ + frequency_histogram(index[t])]
  /\ cumulative_ranks' = [cumulative_ranks EXCEPT ![index[t]] = sum[t] + frequency_histogram(index[t])]
  /\ index' = [index EXCEPT ![t] = @ + 1]
  /\ UNCHANGED <<input, partial_sums, at, arrived, taken>>

EndRank(t) ==
  /\ at[t] = "rank"
  /\ index[t] >= chunk[t + 1]
  /\ Arrive(t)
  /\ Goto(t, "ranked")
  /\ UNCHANGED <<input, shared, taken, index, sum>>

(* The barriers that end the loop and the region: verification reads       *)
(* cumulative_ranks after them.                                            *)
Leave(t) ==
  /\ at[t] = "ranked"
  /\ AllArrived(t)
  /\ Goto(t, "done")
  /\ UNCHANGED <<input, shared, arrived, taken, index, sum>>

RankStep(t) ==
  \/ ResizeSums(t)
  \/ Skip(t, "resize", "resized")
  \/ BeginSum(t)
  \/ AddCount(t)
  \/ StoreSum(t)
  \/ PassBarrier(t)
  \/ TakeScan(t)
  \/ Skip(t, "scan", "scanned")
  \/ ScanCell(t)
  \/ EndScan(t)
  \/ TakeOffset(t)
  \/ RankKey(t)
  \/ EndRank(t)
  \/ Leave(t)

RankNext == \E t \in Member : RankStep(t)

RankSpec == RankInit /\ [][RankNext]_rank_vars

-----------------------------------------------------------------------------
Labels == {"resize", "resized", "sum", "stored", "scan", "scanning", "scanned",
           "rank", "ranked", "done"}

(* Every variable has its type, and no sum exceeds the number of keys,     *)
(* which fits a KeyRank.                                                   *)
RankTypeOK ==
  /\ keys_below \in Histograms
  /\ chunk \in Chunks
  /\ cumulative_ranks \in [RankedKey -> 0 .. keys_below[KeyRange]]
  /\ partial_sums \in [Member -> 0 .. keys_below[KeyRange]]
  /\ at \in [Member -> Labels]
  /\ arrived \in [Member -> 0 .. 4]
  /\ taken \subseteq {"resize", "scan"}
  /\ index \in [Member -> Nat]
  /\ sum \in [Member -> 0 .. keys_below[KeyRange]]

(* The cells of partial_sums a thread writes and reads in its next step.   *)
Writes(t) ==
  CASE at[t] = "resize" /\ "resize" \notin taken -> Member
    [] at[t] = "sum" /\ index[t] >= chunk[t + 1] -> {t}
    [] at[t] = "scanning" /\ index[t] < NThreads -> {index[t]}
    [] OTHER -> {}
Reads(t) ==
  CASE at[t] = "scanning" /\ index[t] < NThreads -> {index[t]}
    [] at[t] = "scanned" /\ AllArrived(t) -> {t}
    [] OTHER -> {}

(* No data race: no thread is about to write a cell of partial_sums that   *)
(* another is about to read or write (two that contend for the first       *)
(* construct do not race, as one of them will skip it), and no two write   *)
(* the rank of the same key.                                               *)
NoDataRace ==
  \A t, u \in Member : t # u =>
    /\ ~(at[t] = "resize" /\ at[u] = "resize") =>
         Writes(t) \intersect (Writes(u) \union Reads(u)) = {}
    /\ at[t] = "rank" /\ at[u] = "rank" =>
         {k \in RankedKey : chunk[t] <= k /\ k < chunk[t + 1]}
           \intersect {k \in RankedKey : chunk[u] <= k /\ k < chunk[u + 1]} = {}

(* When a thread leaves the region, the whole array is ranked: for each    *)
(* key, the number of this rank's keys that are not larger.  Verification  *)
(* reads it at the key below a test key.                                   *)
RanksAreCounts ==
  (\E t \in Member : at[t] = "done") =>
    \A k \in RankedKey : cumulative_ranks[k] = keys_below[k + 1]

=============================================================================
