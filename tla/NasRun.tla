------------------------------- MODULE NasRun -------------------------------
(***************************************************************************)
(* One run of the benchmark, from main()'s first call to its last, on all  *)
(* the ranks of the job.  A rank runs the script of main.cpp; the steps    *)
(* are the points where it leaves one communication call, computes, and    *)
(* enters the next.  What other modules have step by step is one operator  *)
(* here: the counts of a rank (CountBuckets), the plan (BucketPlan), the   *)
(* exchange of the keys one source holds for one destination (AmExchange), *)
(* and the ranks within a rank (LocalRanks).                               *)
(*                                                                         *)
(* The runtime's collectives have no tag and run over all the ranks of the *)
(* job: the k-th collective a rank enters meets the k-th of every other.   *)
(* A barrier ends when all have entered it, a broadcast on a rank that is  *)
(* not the root when the root has entered it, a reduction on the root when *)
(* all have.  The others may leave at once.                                *)
(***************************************************************************)
EXTENDS Integers, Sequences, FiniteSets, FiniteSetsExt

CONSTANTS
  Jobs,             \* the jobs that may be run, see JobType
  MIN_PROCS, MAX_PROCS,
  TOTAL_KEYS,       \* the keys of all the ranks, divided by MIN_PROCS
  WorkBufferSize,   \* compute_work_buffer_size()
  MAX_KEY,
  KeysPerBucket,    \* 1 << bucket_shift
  MAX_ITERATIONS,
  TestIndex         \* test_index: where the test keys are among all the keys

Test == DOMAIN TestIndex
Iteration == 1 .. MAX_ITERATIONS
KeyValue == 0 .. MAX_KEY - 1
NumBuckets == MAX_KEY \div KeysPerBucket
Bucket == 0 .. NumBuckets - 1
Slot == 0 .. WorkBufferSize - 1
CountIndex == 0 .. NumBuckets + Cardinality(Test) - 1
AllKeys == 0 .. TOTAL_KEYS * MIN_PROCS - 1

(* strict is should_abort_for_non_power_of_two_process_count() on rank 0,  *)
(* timer its check_timer_flag_from_file(), generated the sequence of all   *)
(* the keys, and wrong the <<iteration, test>> whose tabulated rank is not *)
(* the true one.                                                           *)
JobType ==
  [ranks : Nat \ {0}, strict : BOOLEAN, timer : BOOLEAN,
   generated : [AllKeys -> KeyValue], wrong : SUBSET (Iteration \X Test)]

ASSUME RunAssumption ==
  /\ {MIN_PROCS, TOTAL_KEYS, MAX_KEY, KeysPerBucket, MAX_ITERATIONS} \subseteq Nat \ {0}
  /\ MAX_PROCS \in Nat /\ WorkBufferSize \in Nat
  /\ IsFiniteSet(Test) /\ Test = 0 .. Cardinality(Test) - 1
  /\ NumBuckets * KeysPerBucket = MAX_KEY
  /\ MAX_ITERATIONS < MAX_KEY
  /\ \A t \in Test : TestIndex[t] \in AllKeys
  /\ Jobs \subseteq JobType

(* greatest_power_of_two_at_most(): the ranks that sort, of n.             *)
Doubled(n) ==
  LET count[c \in Nat] == IF c < n THEN count[c * 2] ELSE c
  IN  count[1]

GreatestPowerOfTwo(n) == IF Doubled(n) > n THEN Doubled(n) \div 2 ELSE Doubled(n)

(* compute_local_key_count().                                              *)
LocalKeyCount(n) == (TOTAL_KEYS \div n) * MIN_PROCS

(* The ranks that sort share the keys evenly (all the counts are powers of *)
(* two), and their buffer holds a share.                                   *)
ASSUME ShareAssumption ==
  \A j \in Jobs : j.ranks \in MIN_PROCS .. MAX_PROCS =>
    LET ranks == GreatestPowerOfTwo(j.ranks)
    IN  /\ LocalKeyCount(ranks) * ranks = TOTAL_KEYS * MIN_PROCS
        /\ LocalKeyCount(ranks) <= WorkBufferSize

(* The keys changed in each iteration are rank 0's, no test key among      *)
(* them; and no test key is the least key of a bucket, for which           *)
(* check_partial_verification_key() would read before the array (the       *)
(* tables of the classes S, W, A, B, C and D have no such key).            *)
ASSUME KeyAssumption ==
  /\ \A j \in Jobs : j.ranks \in MIN_PROCS .. MAX_PROCS =>
       2 * MAX_ITERATIONS < LocalKeyCount(GreatestPowerOfTwo(j.ranks))
  /\ \A t \in Test : TestIndex[t] \notin 1 .. 2 * MAX_ITERATIONS
  /\ \A j \in Jobs, t \in Test : j.generated[TestIndex[t]] % KeysPerBucket # 0

VARIABLES
  rank_count, strict, generated, wrong,   \* the job
  timeron,          \* timer_enabled()
  pc,               \* the communication call a rank is in
  calls,            \* the collectives it has entered, with what it contributes
  current_iteration, timed,
  keys,             \* workspace().keys()
  global,           \* global_bucket_counts, the hidden test keys at its end
  plan,             \* current_bucket_plan_, with bucket_to_rank
  frequency,        \* frequency_storage
  net,              \* the keys on their way
  phase,            \* number of set_am_handler() calls made
  active,           \* is a handler registered
  recv_count,
  passed_verification,
  chain,            \* the keys sent by full_verify() and not yet received
  exit_code,
  verdict           \* what print_nas_final_results() reports

job == <<rank_count, strict, generated, wrong>>
counts == <<global, plan>>
exchange == <<net, phase, active, recv_count, frequency>>
vars == <<job, timeron, pc, calls, current_iteration, timed, keys, counts, exchange,
          passed_verification, chain, exit_code, verdict>>

Rank == 0 .. rank_count - 1
NoVerdict == -1
NoPlan == [bucket_to_rank |-> [b \in Bucket |-> 0], min_key_value |-> 0, max_key_value |-> 0,
           expected_recv_count |-> 0, lesser_key_count |-> 0, local_key_count |-> 0]
Set(f, r, x) == [f EXCEPT ![r] = x]
SumOver(values, S) == MapThenSumSet(LAMBDA x : values[x], S)

active_rank_count == GreatestPowerOfTwo(rank_count)
ActiveRank == 0 .. active_rank_count - 1

local_key_count == LocalKeyCount(active_rank_count)

Init ==
  /\ \E j \in Jobs :
       /\ rank_count = j.ranks /\ strict = j.strict
       /\ generated = j.generated /\ wrong = j.wrong
       /\ timeron = [r \in Rank |-> r = 0 /\ j.timer]
  /\ pc = [r \in Rank |-> "start"]
  /\ calls = [r \in Rank |-> << >>]
  /\ current_iteration = [r \in Rank |-> 0]
  /\ timed = [r \in Rank |-> FALSE]
  /\ keys = [r \in Rank |-> [i \in Slot |-> 0]]
  /\ global = [r \in Rank |-> [x \in CountIndex |-> 0]]
  /\ plan = [r \in Rank |-> NoPlan]
  /\ frequency = [r \in Rank |-> [i \in Slot |-> 0]]
  /\ net = {}
  /\ phase = [r \in Rank |-> 0]
  /\ active = [r \in Rank |-> FALSE]
  /\ recv_count = [r \in Rank |-> 0]
  /\ passed_verification = [r \in Rank |-> 0]
  /\ chain = {}
  /\ exit_code = [r \in Rank |-> 0]
  /\ verdict = NoVerdict

-----------------------------------------------------------------------------
(* Collectives.                                                            *)
Enter(r, call, value) ==
  /\ pc' = Set(pc, r, call)
  /\ calls' = [calls EXCEPT ![r] = Append(@, [call |-> call, value |-> value])]

(* The call rank r is in is its k-th; the value rank s gives to it.        *)
Joined(s, r) == Len(calls[s]) >= Len(calls[r])
Value(s, r) == calls[s][Len(calls[r])].value

NoBarrier(r, call) == pc[r] = call                                \* fault
Barrier(r, call) == pc[r] = call /\ \A s \in Rank : Joined(s, r)
Broadcast(r, call) == pc[r] = call /\ Joined(0, r)
Reduce(r, call) == pc[r] = call /\ (r = 0 => \A s \in Rank : Joined(s, r))
Sum(values) == SumOver(values, Rank)

Exit(r, code) ==
  /\ pc' = Set(pc, r, "done")
  /\ exit_code' = Set(exit_code, r, code)

-----------------------------------------------------------------------------
(* initialize(): on the way to the first broadcast, a rank finds out       *)
(* whether the job has a permitted size and whether some ranks are idle.   *)
InRange == rank_count \in MIN_PROCS .. MAX_PROCS

StartOutOfRange(r) ==
  /\ pc[r] = "start" /\ ~InRange
  /\ Exit(r, 1)
  /\ UNCHANGED <<job, timeron, calls, current_iteration, timed, keys, counts, exchange,
                 passed_verification, chain, verdict>>

Start(r) ==
  /\ pc[r] = "start" /\ InRange
  /\ IF active_rank_count # rank_count
     THEN Enter(r, "strict", strict)
     ELSE Enter(r, "use_upacket", 0)
  /\ UNCHANGED <<job, timeron, current_iteration, timed, keys, counts, exchange,
                 passed_verification, chain, exit_code, verdict>>

Refused(r) == Value(0, r)
Surplus(r) == r >= active_rank_count

LeaveStrict(r) ==
  /\ Broadcast(r, "strict")
  /\ IF Refused(r) \/ Surplus(r)
     THEN Exit(r, IF Refused(r) THEN 1 ELSE 0) /\ UNCHANGED calls
     ELSE Enter(r, "use_upacket", 0) /\ UNCHANGED exit_code
  /\ UNCHANGED <<job, timeron, current_iteration, timed, keys, counts, exchange,
                 passed_verification, chain, verdict>>

LeaveOption(r) ==
  /\ \/ Broadcast(r, "use_upacket") /\ Enter(r, "use_loopback", 0)
     \/ Broadcast(r, "use_loopback") /\ Enter(r, "timeron", timeron[r])
  /\ UNCHANGED <<job, timeron, current_iteration, timed, keys, counts, exchange,
                 passed_verification, chain, exit_code, verdict>>

(* find_my_seed() starts rank r's stream where its part of all the keys    *)
(* begins; generate_keys() writes that part.                               *)
GenerateKeys(r) ==
  keys' = [keys EXCEPT ![r] = [i \in Slot |->
             IF i < local_key_count THEN generated[r * local_key_count + i] ELSE @[i]]]

OwnTimerFlag(r) == timeron[r]                                     \* fault
TimerFlag(r) == Value(0, r)

LeaveTimeron(r) ==
  /\ Broadcast(r, "timeron")
  /\ timeron' = Set(timeron, r, TimerFlag(r))
  /\ GenerateKeys(r)
  /\ Enter(r, "generated", 0)
  /\ UNCHANGED <<job, current_iteration, timed, counts, exchange, passed_verification,
                 chain, exit_code, verdict>>

-----------------------------------------------------------------------------
(* apply_iteration_key_changes(), then capture_partial_verification_keys() *)
(* and count_local_buckets() into the cleared local counts: entry b of the *)
(* result counts bucket b, and the test keys are hidden after the buckets. *)
ChangedKeys(r, iteration) ==
  IF r # 0 THEN keys[r]
  ELSE [keys[r] EXCEPT ![iteration] = iteration,
                       ![iteration + MAX_ITERATIONS] = MAX_KEY - iteration]

BucketOf(key) == key \div KeysPerBucket

HiddenKey(r, ks, index) ==
  IF index \div local_key_count = r THEN ks[index % local_key_count] ELSE 0

LocalCounts(r, ks) ==
  [x \in CountIndex |->
     IF x \in Bucket
     THEN Cardinality({i \in 0 .. local_key_count - 1 : BucketOf(ks[i]) = x})
     ELSE HiddenKey(r, ks, TestIndex[x - NumBuckets])]

(* An iteration up to its reduction.                                       *)
OrganizeKeys(r, iteration) ==
  LET ks == ChangedKeys(r, iteration)
  IN  /\ current_iteration' = Set(current_iteration, r, iteration)
      /\ keys' = Set(keys, r, ks)
      /\ global' = Set(global, r, [x \in CountIndex |-> 0])
      /\ Enter(r, "sizes", LocalCounts(r, ks))

(* run_warmup_iteration().                                                 *)
LeaveGenerated(r) ==
  /\ Barrier(r, "generated")
  /\ OrganizeKeys(r, 1)
  /\ UNCHANGED <<job, timeron, timed, plan, exchange, passed_verification, chain,
                 exit_code, verdict>>

(* The barrier of begin_iteration(); the number of the iteration is set    *)
(* before it.                                                              *)
LeaveBegin(r) ==
  /\ Barrier(r, "begin")
  /\ OrganizeKeys(r, current_iteration[r])
  /\ UNCHANGED <<job, timeron, timed, plan, exchange, passed_verification, chain,
                 exit_code, verdict>>

(* compute_global_bucket_sizes(): the sum on rank 0, then its broadcast.   *)
GlobalCounts(r) == [x \in CountIndex |-> Sum([s \in Rank |-> Value(s, r)[x]])]

LeaveSizes(r) ==
  /\ Reduce(r, "sizes")
  /\ LET g == IF r = 0 THEN GlobalCounts(r) ELSE global[r]
     IN  /\ global' = Set(global, r, g)
         /\ Enter(r, "totals", g)
  /\ UNCHANGED <<job, timeron, current_iteration, timed, keys, plan, exchange,
                 passed_verification, chain, exit_code, verdict>>

-----------------------------------------------------------------------------
(* build_bucket_plan() on the counts g: the keys below bucket b, the        *)
(* owner_rank before it, which is also the number of ranks with buckets    *)
(* when b is NumBuckets, and the interval of a rank.  A rank left without  *)
(* buckets has first bucket 1 and last bucket 0.                           *)
Below(g) ==
  LET below[b \in 0 .. NumBuckets] == IF b = 0 THEN 0 ELSE below[b - 1] + g[b - 1]
  IN  below

Owner(g, average_keys_per_rank) ==
  LET below == Below(g)
      owner[b \in 0 .. NumBuckets] ==
        IF b = 0 THEN 0
        ELSE owner[b - 1]
               + IF below[b] >= (owner[b - 1] + 1) * average_keys_per_rank THEN 1 ELSE 0
  IN  owner

LastBucket(owner, r) ==
  IF r < owner[NumBuckets]
  THEN CHOOSE b \in Bucket : owner[b] = r /\ owner[b + 1] = r + 1
  ELSE 0
FirstBucket(owner, r) ==
  IF r = 0 THEN 0 ELSE IF r < owner[NumBuckets] THEN LastBucket(owner, r - 1) + 1 ELSE 1
Interval(owner, r) == FirstBucket(owner, r) .. LastBucket(owner, r)

Plan(g, r) ==
  LET owner == Owner(g, local_key_count)
      keys_of == [s \in 0 .. r |-> SumOver(g, Interval(owner, s))]
  IN  [bucket_to_rank |-> [b \in Bucket |-> owner[b]],
       min_key_value |-> FirstBucket(owner, r) * KeysPerBucket,
       max_key_value |-> (LastBucket(owner, r) + 1) * KeysPerBucket - 1,
       expected_recv_count |-> keys_of[r],
       lesser_key_count |-> SumOver(keys_of, 0 .. r - 1),
       local_key_count |-> keys_of[r]]

(* clear_frequency_range(): the entries of the rank's key range.           *)
ClearNothing(r, p) == frequency[r]                                \* fault
ClearFrequencyRange(r, p) ==
  [i \in Slot |-> IF i <= p.max_key_value - p.min_key_value THEN 0 ELSE frequency[r][i]]

(* assign_buckets_to_processes(), and set_am_handler() up to its barrier.  *)
LeaveTotals(r) ==
  /\ Broadcast(r, "totals")
  /\ LET g == Value(0, r)
         p == Plan(g, r)
     IN  /\ global' = Set(global, r, g)
         /\ plan' = Set(plan, r, p)
         /\ frequency' = Set(frequency, r, ClearFrequencyRange(r, p))
  /\ active' = Set(active, r, TRUE)
  /\ phase' = [phase EXCEPT ![r] = @ + 1]
  /\ recv_count' = Set(recv_count, r, 0)
  /\ Enter(r, "handler", 0)
  /\ UNCHANGED <<job, timeron, current_iteration, timed, keys, net, passed_verification,
                 chain, exit_code, verdict>>

(* The keys that rank r posts to rank d, with their number.                *)
Posted(r, d) ==
  LET mine == {i \in 0 .. local_key_count - 1 :
                 plan[r].bucket_to_rank[BucketOf(keys[r][i])] = d}
  IN  [k \in KeyValue |-> Cardinality({i \in mine : keys[r][i] = k})]

Message(r, d) == [src |-> r, dst |-> d, phase |-> phase[r], keys |-> Posted(r, d)]
Size(m) == SumOver(m.keys, KeyValue)

(* Every worker posts its share of the keys and flushes.                   *)
LeaveHandler(r) ==
  /\ Barrier(r, "handler")
  /\ net' = net \cup {m \in {Message(r, d) : d \in ActiveRank} : Size(m) > 0}
  /\ pc' = Set(pc, r, "exchange")
  /\ UNCHANGED <<job, timeron, calls, current_iteration, timed, keys, counts, phase, active,
                 recv_count, frequency, passed_verification, chain, exit_code, verdict>>

(* The keys of one rank for another are received and counted; the order in *)
(* which they are does not matter to the histogram.                        *)
Receive(m) ==
  LET d == m.dst
      base == plan[d].min_key_value
  IN  /\ active[d] /\ pc[d] \in {"handler", "exchange"}
      /\ net' = net \ {m}
      /\ frequency' = [frequency EXCEPT ![d] =
           [i \in Slot |-> @[i] + IF base + i \in KeyValue THEN m.keys[base + i] ELSE 0]]
      /\ recv_count' = [recv_count EXCEPT ![d] = @ + Size(m)]
      /\ UNCHANGED <<job, timeron, pc, calls, current_iteration, timed, keys, counts, phase,
                     active, passed_verification, chain, exit_code, verdict>>

-----------------------------------------------------------------------------
(* compute_local_ranks(): the number of the rank's keys up to key k.       *)
Cumulative(r, k) ==
  SumOver(frequency[r], 0 .. k - plan[r].min_key_value)

(* The tabulated rank of a test key, that is the number of lesser keys     *)
(* among all the keys as they are in this iteration, unless it is wrong.   *)
TrueKeys(iteration) ==
  [i \in AllKeys |-> IF i \in 1 .. iteration THEN i
                     ELSE IF i - MAX_ITERATIONS \in 1 .. iteration
                     THEN MAX_KEY - (i - MAX_ITERATIONS) ELSE generated[i]]

test_rank(iteration, t) ==
  LET ks == TrueKeys(iteration)
  IN  Cardinality({i \in AllKeys : ks[i] < ks[TestIndex[t]]})
        + IF <<iteration, t>> \in wrong THEN 1 ELSE 0

(* check_partial_verification_key() and verify_partial_keys(): the number  *)
(* of test keys in the rank's range whose rank is the tabulated one.       *)
TestKey(r, t) == global[r][NumBuckets + t]

Passes(r, t) ==
  LET key == TestKey(r, t)
  IN  /\ key >= plan[r].min_key_value /\ key <= plan[r].max_key_value
      /\ Cumulative(r, key - 1) + plan[r].lesser_key_count = test_rank(current_iteration[r], t)

PartialVerification(r) == Cardinality({t \in Test : Passes(r, t)})

ReceivedAll(r) == recv_count[r] >= plan[r].expected_recv_count

(* The rest of an iteration, and what comes after it: the timed region     *)
(* with a counter set to zero, the next iteration, or the end of the       *)
(* region.                                                                 *)
KeepWarmup(r, passed) == passed                                   \* fault
StartTimedRegion(r, passed) == 0

EndWhenEmpty(r, last) ==
  IF last \/ plan[r].local_key_count = 0 THEN "time" ELSE "begin" \* fault
NextCall(r, last) == IF last THEN "time" ELSE "begin"

FinishIteration(r) ==
  LET passed == passed_verification[r] + PartialVerification(r)
      last == timed[r] /\ current_iteration[r] = MAX_ITERATIONS
  IN  /\ pc[r] = "exchange" /\ ReceivedAll(r)
      /\ active' = Set(active, r, FALSE)
      /\ timed' = Set(timed, r, TRUE)
      /\ passed_verification' = Set(passed_verification, r,
           IF timed[r] THEN passed ELSE StartTimedRegion(r, passed))
      /\ current_iteration' = [current_iteration EXCEPT ![r] =
           IF ~timed[r] THEN 1 ELSE IF last THEN @ ELSE @ + 1]
      /\ Enter(r, NextCall(r, last), 0)
      /\ UNCHANGED <<job, timeron, keys, counts, net, phase, recv_count, frequency, chain,
                     exit_code, verdict>>

-----------------------------------------------------------------------------
(* full_verify(): the keys in order, from the histogram of the last        *)
(* iteration, over what was in the array.                                  *)
SortedUpTo(r, max) ==
  LET At(i, k) == Cumulative(r, k - 1) <= i /\ i < Cumulative(r, k)
      Keys == plan[r].min_key_value .. max
  IN  [i \in Slot |-> IF \E k \in Keys : At(i, k) THEN CHOOSE k \in Keys : At(i, k)
                      ELSE keys[r][i]]
SortedBelowMax(r) == SortedUpTo(r, plan[r].max_key_value - 1)     \* fault
SortedKeys(r) == SortedUpTo(r, plan[r].max_key_value)

(* The key sent to the next rank is the last one written, or the first of  *)
(* the array if none was.                                                  *)
Written(r) == Cumulative(r, plan[r].max_key_value)
last_local_key(r) == IF Written(r) = 0 THEN 0 ELSE Written(r) - 1

LeaveTime(r) ==
  LET sorted == SortedKeys(r)
  IN  /\ Reduce(r, "time")
      /\ keys' = Set(keys, r, sorted)
      /\ chain' = chain \cup {[dst |-> d, key |-> sorted[last_local_key(r)]]
                              : d \in {r + 1} \cap ActiveRank}
      /\ pc' = Set(pc, r, "chain")
      /\ UNCHANGED <<job, timeron, calls, current_iteration, timed, counts, exchange,
                     passed_verification, exit_code, verdict>>

InOrder(r, previous) ==
  LET total_local_keys == plan[r].local_key_count
  IN  /\ total_local_keys > 0 => previous <= keys[r][0]
      /\ \A i \in 1 .. total_local_keys - 1 : keys[r][i - 1] <= keys[r][i]

Verified(r, previous) ==
  /\ passed_verification' =
       [passed_verification EXCEPT ![r] = @ + IF InOrder(r, previous) THEN 1 ELSE 0]
  /\ Enter(r, "passed", passed_verification'[r])

FullVerify(r) ==
  /\ pc[r] = "chain"
  /\ \/ r = 0 /\ Verified(r, 0) /\ UNCHANGED chain
     \/ \E m \in chain : m.dst = r /\ Verified(r, m.key) /\ chain' = chain \ {m}
  /\ UNCHANGED <<job, timeron, current_iteration, timed, keys, counts, exchange, exit_code,
                 verdict>>

(* expected_verification_count() and final_verification_status().          *)
expected_verification_count == Cardinality(Test) * MAX_ITERATIONS + active_rank_count

FinalStatus(passed) == IF passed = expected_verification_count THEN passed ELSE 0

(* The results are printed on rank 0; with timers, the summary follows.    *)
LeavePassed(r) ==
  /\ Reduce(r, "passed")
  /\ IF r = 0
     THEN LET passed == Sum([s \in Rank |-> Value(s, r)])
          IN  /\ passed_verification' = Set(passed_verification, r, passed)
              /\ verdict' = FinalStatus(passed)
     ELSE UNCHANGED <<passed_verification, verdict>>
  /\ IF timeron[r]
     THEN Enter(r, "tmin", 0) /\ UNCHANGED exit_code
     ELSE Exit(r, exit_code[r]) /\ UNCHANGED calls
  /\ UNCHANGED <<job, timeron, current_iteration, timed, keys, counts, exchange, chain>>

LeaveSummary(r) ==
  /\ \/ Reduce(r, "tmin") /\ Enter(r, "tsum", 0) /\ UNCHANGED exit_code
     \/ Reduce(r, "tsum") /\ Enter(r, "tmax", 0) /\ UNCHANGED exit_code
     \/ Reduce(r, "tmax") /\ Exit(r, exit_code[r]) /\ UNCHANGED calls
  /\ UNCHANGED <<job, timeron, current_iteration, timed, keys, counts, exchange,
                 passed_verification, chain, verdict>>

-----------------------------------------------------------------------------
RankStep(r) ==
  \/ StartOutOfRange(r)
  \/ Start(r)
  \/ LeaveStrict(r)
  \/ LeaveOption(r)
  \/ LeaveTimeron(r)
  \/ LeaveGenerated(r)
  \/ LeaveBegin(r)
  \/ LeaveSizes(r)
  \/ LeaveTotals(r)
  \/ LeaveHandler(r)
  \/ FinishIteration(r)
  \/ LeaveTime(r)
  \/ FullVerify(r)
  \/ LeavePassed(r)
  \/ LeaveSummary(r)

Next ==
  \/ \E r \in Rank : RankStep(r)
  \/ \E m \in net : Receive(m)

(* Every rank's process is scheduled, and the waiting calls of a rank      *)
(* progress its devices, so that what has arrived is received.             *)
Fairness ==
  /\ \A r \in 0 .. MAX_PROCS : WF_vars(r \in Rank /\ RankStep(r))
  /\ WF_vars(\E m \in net : Receive(m))

Spec == Init /\ [][Next]_vars /\ Fairness

-----------------------------------------------------------------------------
(* The collectives have no tag: whatever two ranks do, the k-th call one   *)
(* enters is the call of the program that is the other's k-th.  (The       *)
(* calls of nas_integer_sort_run.cpp and set_am_handler()'s barrier.)      *)
CollectivesMatch ==
  \A r, s \in Rank : \A k \in 1 .. Len(calls[r]) :
     k <= Len(calls[s]) => calls[r][k].call = calls[s][k].call

(* Keys on their way reach a rank in the same redistribution, which has    *)
(* cleared its histogram and registered its handler: the histogram is not  *)
(* cleared, read or given to another iteration under a late key.  (The     *)
(* barrier in set_am_handler(), the loop until recv_count().)              *)
MessagesMeetTheirPhase ==
  \A m \in net : active[m.dst] /\ phase[m.dst] = m.phase

(* When a rank leaves the redistribution its histogram counts, for every   *)
(* key of its range, the keys of all the ranks in this iteration, and no   *)
(* other rank's range has any of them: nothing is left of an earlier       *)
(* iteration and nothing is missing.  (assign_buckets_to_processes() and   *)
(* redistribute_keys_with_lci().)                                          *)
IterationOf(r) == current_iteration[r]

HistogramExact ==
  \A r \in ActiveRank : pc[r] = "exchange" /\ ReceivedAll(r) =>
    \A k \in plan[r].min_key_value .. plan[r].max_key_value :
       frequency[r][k - plan[r].min_key_value] =
         Cardinality({i \in AllKeys : TrueKeys(IterationOf(r))[i] = k})

(* After full_verify() the ranks hold, one after the other, all the keys   *)
(* of the last iteration in ascending order.                               *)
SortedOutput ==
  (\A r \in ActiveRank : pc[r] \in {"chain", "passed", "tmin", "tsum", "tmax"}) =>
    \A r \in ActiveRank : \A i \in 0 .. plan[r].local_key_count - 1 :
      LET place == plan[r].lesser_key_count + i
          key == keys[r][i]
          ks == TrueKeys(MAX_ITERATIONS)
      IN  /\ Cardinality({j \in AllKeys : ks[j] < key}) <= place
          /\ place < Cardinality({j \in AllKeys : ks[j] <= key})

(* Rank 0 reports success just when every test key got its tabulated rank  *)
(* in every timed iteration: the checks of the warm-up do not count, every *)
(* test key is checked by one rank, and full_verify() finds nothing out of *)
(* order.  (verify_partial_ranking(), start_timed_region(),                *)
(* verify_full_ranking(), final_verification_status().)                    *)
VerdictRight == verdict # NoVerdict => (verdict # 0 <=> wrong = {})

(* The key that full_verify() compares with a rank's least key is the      *)
(* greatest key of the rank before it, as its comments say.  It does not   *)
(* hold when that rank has no keys: what is sent then is a key left in     *)
(* the array by generate_keys().                                           *)
LargestKeySent ==
  \A m \in chain : LET r == m.dst - 1 IN
    /\ \E k \in plan[r].min_key_value .. plan[r].max_key_value :
         m.key = k /\ frequency[r][k - plan[r].min_key_value] > 0
    /\ \A i \in 0 .. plan[r].local_key_count - 1 : keys[r][i] <= m.key

(* Every rank's process ends.                                              *)
AllRanksEnd == <>(\A r \in Rank : pc[r] = "done")

=============================================================================
