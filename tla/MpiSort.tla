------------------------------ MODULE MpiSort ------------------------------
(***************************************************************************)
(* The MPI baseline of the benchmark, is.c, from main()'s first call to    *)
(* its last on all the processes of the job: the same sort as NasRun, with *)
(* keys that are put in bucket order first and then exchanged by           *)
(* displacements and counts that each rank derives for itself.             *)
(*                                                                         *)
(* A call in which every rank waits for every other (split, allreduce,     *)
(* alltoall, alltoallv) is one step of all its ranks: none of them changes *)
(* a buffer before it or sees a result until all have entered.  What the   *)
(* ranks compute between two such calls is a step of each.                 *)
(***************************************************************************)
EXTENDS Integers, Sequences, FiniteSets, FiniteSetsExt

CONSTANTS
  Jobs,             \* the jobs that may be run, see JobType
  MIN_PROCS, MAX_PROCS,
  TOTAL_KEYS,       \* the keys of all the ranks, divided by MIN_PROCS
  size_of_buffers,  \* entries of each key buffer
  MAX_KEY,
  KeysPerBucket,    \* 1 << shift
  MAX_ITERATIONS,
  test_index_array, \* where the test keys are among all the keys
  MPI_ERR_OTHER     \* the error class that MPI_Abort() is given

Test == DOMAIN test_index_array
Iteration == 1 .. MAX_ITERATIONS
KeyValue == 0 .. MAX_KEY - 1
NUM_BUCKETS == MAX_KEY \div KeysPerBucket
Bucket == 0 .. NUM_BUCKETS - 1
Place == 0 .. size_of_buffers - 1
CountIndex == 0 .. NUM_BUCKETS + Cardinality(Test) - 1
AllKeys == 0 .. TOTAL_KEYS * MIN_PROCS - 1

(* strict says how NPB_NPROCS_STRICT is read on rank 0, timer whether its  *)
(* timer flag is set; generated is the sequence of all the keys, and wrong *)
(* has the <<iteration, test>> whose tabulated rank is not the true one.   *)
JobType ==
  [ranks : Nat \ {0}, strict : BOOLEAN, timer : BOOLEAN,
   generated : [AllKeys -> KeyValue], wrong : SUBSET (Iteration \X Test)]

Doubled(n) ==
  LET count[c \in Nat] == IF c < n THEN count[c * 2] ELSE c
  IN  count[1]
GreatestPowerOfTwo(n) == IF Doubled(n) > n THEN Doubled(n) \div 2 ELSE Doubled(n)
KeysOfRank(n) == (TOTAL_KEYS \div n) * MIN_PROCS

(* The ranks that sort share the keys evenly (all the counts are powers of *)
(* two), and a key buffer holds a share.  The keys changed in each         *)
(* iteration are rank 0's, no test key is one of them, and no test key is  *)
(* the least of a bucket, for which rank() would read the entry before     *)
(* key_buff1.                                                              *)
ASSUME SortAssumption ==
  /\ {MIN_PROCS, TOTAL_KEYS, MAX_KEY, KeysPerBucket, MAX_ITERATIONS} \subseteq Nat \ {0}
  /\ MAX_PROCS \in Nat /\ size_of_buffers \in Nat
  /\ Jobs \subseteq JobType
  /\ NUM_BUCKETS * KeysPerBucket = MAX_KEY /\ MAX_ITERATIONS < MAX_KEY
  /\ IsFiniteSet(Test) /\ Test = 0 .. Cardinality(Test) - 1
  /\ \A t \in Test : test_index_array[t] \in AllKeys \ (1 .. 2 * MAX_ITERATIONS)
  /\ \A j \in Jobs :
       /\ j.ranks \in MIN_PROCS .. MAX_PROCS =>
            LET ranks == GreatestPowerOfTwo(j.ranks)
            IN  /\ KeysOfRank(ranks) * ranks = TOTAL_KEYS * MIN_PROCS
                /\ KeysOfRank(ranks) \in 2 * MAX_ITERATIONS + 1 .. size_of_buffers
       /\ \A t \in Test : j.generated[test_index_array[t]] % KeysPerBucket # 0

(* Only MPI_SUCCESS is 0; the code need not be that of exit( 1 ).          *)
ASSUME ErrorAssumption == MPI_ERR_OTHER \in Nat \ {0}

VARIABLES
  job,
  pc,                  \* the call a process is in, or what it is about to do
  timeron,
  iteration, timed,
  key_array, key_buff1, key_buff2,
  bucket_size, bucket_size_totals,
  distrib,             \* process_bucket_distrib_ptr1 and _ptr2
  send_count, send_displ, recv_count, recv_displ,
  passed_verification,
  given,               \* what a rank has given to the reductions to rank 0, one by one
  sent,                \* the keys sent by full_verify(), by destination
  exit_code,
  verdict              \* the passed_verification that is printed

keyArrays == <<key_array, key_buff1, key_buff2>>
sizes == <<bucket_size, bucket_size_totals>>
pieces == <<distrib, send_count, send_displ, recv_count, recv_displ>>
results == <<passed_verification, given, sent, verdict>>
vars == <<job, pc, timeron, iteration, timed, keyArrays, sizes, pieces, results, exit_code>>

Rank == 0 .. job.ranks - 1
comm_size == GreatestPowerOfTwo(job.ranks)
ActiveRank == 0 .. comm_size - 1          \* comm_work
num_keys == KeysOfRank(comm_size)
LocalIndex == 0 .. num_keys - 1
NoVerdict == -1
None == -1
Set(f, r, x) == [f EXCEPT ![r] = x]
SumOver(values, S) == MapThenSumSet(LAMBDA x : values[x], S)

(* No allocated entry is read before it has been written, so 0 stands for  *)
(* what malloc() leaves in them.                                           *)
Init ==
  /\ job \in Jobs
  /\ pc = [r \in Rank |-> "start"]
  /\ timeron = [r \in Rank |-> r = 0 /\ job.timer]
  /\ iteration = [r \in Rank |-> 1]
  /\ timed = [r \in Rank |-> FALSE]
  /\ key_array = [r \in Rank |-> [x \in Place |-> 0]]
  /\ key_buff1 = key_array
  /\ key_buff2 = key_array
  /\ bucket_size = [r \in Rank |-> [x \in CountIndex |-> 0]]
  /\ bucket_size_totals = bucket_size
  /\ distrib = [r \in Rank |-> [s \in ActiveRank |-> [first |-> 0, last |-> 0]]]
  /\ send_count = [r \in Rank |-> [s \in ActiveRank |-> 0]]
  /\ send_displ = send_count
  /\ recv_count = send_count
  /\ recv_displ = send_count
  /\ passed_verification = [r \in Rank |-> 0]
  /\ given = [r \in Rank |-> << >>]
  /\ sent = [r \in Rank |-> None]
  /\ exit_code = [r \in Rank |-> 0]
  /\ verdict = NoVerdict

-----------------------------------------------------------------------------
Exit(r, code) == pc' = Set(pc, r, "done") /\ exit_code' = Set(exit_code, r, code)

InRange == job.ranks \in MIN_PROCS .. MAX_PROCS

StartOutOfRange(r) ==
  /\ pc[r] = "start" /\ ~InRange
  /\ Exit(r, 1)
  /\ UNCHANGED <<job, timeron, iteration, timed, keyArrays, sizes, pieces, results>>

Start(r) ==
  /\ pc[r] = "start" /\ InRange
  /\ pc' = Set(pc, r, IF comm_size = job.ranks THEN "split" ELSE "strict")
  /\ UNCHANGED <<job, timeron, iteration, timed, keyArrays, sizes, pieces, results, exit_code>>

(* The broadcast of active from rank 0, and MPI_Abort() in the first rank  *)
(* that has its value: it ends every process, with the code it is given,   *)
(* so that exit( 1 ) after it is not reached.                              *)
Abort ==
  /\ \E r \in Rank : pc[r] = "strict" /\ pc[0] # "start" /\ job.strict
  /\ pc' = [r \in Rank |-> "done"]
  /\ exit_code' = [r \in Rank |-> MPI_ERR_OTHER]
  /\ UNCHANGED <<job, timeron, iteration, timed, keyArrays, sizes, pieces, results>>

Permitted(r) ==
  /\ pc[r] = "strict" /\ pc[0] # "start" /\ ~job.strict
  /\ pc' = Set(pc, r, "split")
  /\ UNCHANGED <<job, timeron, iteration, timed, keyArrays, sizes, pieces, results, exit_code>>

(* comm_work has the active ranks alone, and the others leave.             *)
Split ==
  /\ \A r \in Rank : pc[r] = "split"
  /\ pc' = [r \in Rank |-> IF r \in ActiveRank THEN "timeron" ELSE "done"]
  /\ UNCHANGED <<job, timeron, iteration, timed, keyArrays, sizes, pieces, results, exit_code>>

(* The broadcast of timeron from rank 0, which has left the split with the *)
(* others, alloc_space() and create_seq(): each rank's seed makes it       *)
(* generate its part of one sequence.                                      *)
CreateSeq(r) ==
  /\ pc[r] = "timeron"
  /\ pc' = Set(pc, r, "rank")
  /\ timeron' = Set(timeron, r, timeron[0])
  /\ key_array' = [key_array EXCEPT ![r] = [x \in Place |->
       IF x \in LocalIndex THEN job.generated[r * num_keys + x] ELSE @[x]]]
  /\ UNCHANGED <<job, iteration, timed, key_buff1, key_buff2, sizes, pieces, results, exit_code>>

-----------------------------------------------------------------------------
(* rank() up to MPI_Allreduce(): change two keys, hide the test keys       *)
(* behind the counts, count the keys per bucket and put them into          *)
(* key_buff1 in the order of their buckets.                                *)
BucketOf(key) == key \div KeysPerBucket

ChangedKeys(r) ==
  IF r # 0 THEN key_array[r]
  ELSE [key_array[r] EXCEPT ![iteration[r]] = iteration[r],
                            ![iteration[r] + MAX_ITERATIONS] = MAX_KEY - iteration[r]]

HiddenKey(r, ks, index) ==
  IF index \div num_keys = r THEN ks[index % num_keys] ELSE 0

BucketSizes(r, ks) ==
  [x \in CountIndex |->
     IF x \in Bucket THEN Cardinality({i \in LocalIndex : BucketOf(ks[i]) = x})
     ELSE HiddenKey(r, ks, test_index_array[x - NUM_BUCKETS])]

(* Where key i goes: bucket_ptrs starts at the lesser buckets' size.       *)
SortedPlace(ks, i) ==
  Cardinality({j \in LocalIndex : \/ BucketOf(ks[j]) < BucketOf(ks[i])
                                  \/ BucketOf(ks[j]) = BucketOf(ks[i]) /\ j < i})

InBucketOrder(r, ks) ==
  [x \in Place |-> IF x \in LocalIndex
                   THEN ks[CHOOSE i \in LocalIndex : SortedPlace(ks, i) = x]
                   ELSE key_buff1[r][x]]

SortIntoBuckets(r) ==
  LET ks == ChangedKeys(r)
  IN  /\ pc[r] = "rank"
      /\ pc' = Set(pc, r, "allreduce")
      /\ key_array' = Set(key_array, r, ks)
      /\ bucket_size' = Set(bucket_size, r, BucketSizes(r, ks))
      /\ bucket_size_totals' = Set(bucket_size_totals, r, [x \in CountIndex |-> 0])
      /\ distrib' = Set(distrib, r, [s \in ActiveRank |-> [first |-> 0, last |-> 0]])
      /\ key_buff1' = Set(key_buff1, r, InBucketOrder(r, ks))
      /\ UNCHANGED <<job, timeron, iteration, timed, key_buff2, send_count, send_displ,
                     recv_count, recv_displ, results, exit_code>>

(* A collective of the ranks of comm_work.                                 *)
OfWholeJob == Rank                                                \* fault
comm_work == ActiveRank
All(call, next) ==
  /\ \A r \in comm_work : pc[r] = call
  /\ pc' = [r \in Rank |-> IF r \in ActiveRank THEN next ELSE pc[r]]

Allreduce ==
  /\ All("allreduce", "plan")
  /\ LET totals == [x \in CountIndex |->
                      SumOver([s \in ActiveRank |-> bucket_size[s][x]], ActiveRank)]
     IN  bucket_size_totals' = [r \in Rank |-> IF r \in ActiveRank THEN totals
                                               ELSE bucket_size_totals[r]]
  /\ UNCHANGED <<job, timeron, iteration, timed, keyArrays, bucket_size, pieces, results,
                 exit_code>>

-----------------------------------------------------------------------------
(* The division of the buckets, on their totals: the keys below bucket b,  *)
(* the loop's j before it, which is also the number of ranks with buckets  *)
(* when b is NUM_BUCKETS, and the interval of a rank that has some.        *)
Below(totals) ==
  LET below[b \in 0 .. NUM_BUCKETS] == IF b = 0 THEN 0 ELSE below[b - 1] + totals[b - 1]
  IN  below

Division(totals) ==
  LET below == Below(totals)
      j[b \in 0 .. NUM_BUCKETS] ==
        IF b = 0 THEN 0
        ELSE j[b - 1] + IF below[b] >= (j[b - 1] + 1) * num_keys THEN 1 ELSE 0
  IN  j

LastBucket(j, s) == CHOOSE b \in Bucket : j[b] = s /\ j[b + 1] = s + 1
FirstBucket(j, s) == IF s = 0 THEN 0 ELSE LastBucket(j, s - 1) + 1

(* A rank left without buckets gets the first bucket 1 and keeps the       *)
(* cleared last bucket 0.                                                  *)
Interval(r) ==
  LET j == Division(bucket_size_totals[r])
  IN  [s \in ActiveRank |->
         IF s < j[NUM_BUCKETS] THEN [first |-> FirstBucket(j, s), last |-> LastBucket(j, s)]
         ELSE [first |-> 1, last |-> distrib[r][s].last]]

(* send_count[s] is what the loop has accumulated of this rank's own       *)
(* counts at the end of the interval of s; send_displ is set only for      *)
(* ranks that have buckets.                                                *)
CountsFor(r, d) ==
  [s \in ActiveRank |->
     SumOver(bucket_size[r], d[s].first .. d[s].last)]

FirstPiece(counts, s) == 0                                        \* fault
Displacement(counts, s) == SumOver(counts, 0 .. s - 1)

PlanRedistribution(r) ==
  LET d == Interval(r)
      counts == CountsFor(r, d)
  IN  /\ pc[r] = "plan"
      /\ pc' = Set(pc, r, "alltoall")
      /\ distrib' = Set(distrib, r, d)
      /\ send_count' = Set(send_count, r, counts)
      /\ send_displ' = [send_displ EXCEPT ![r] = [s \in ActiveRank |->
           IF d[s].first <= d[s].last THEN Displacement(counts, s) ELSE @[s]]]
      /\ UNCHANGED <<job, timeron, iteration, timed, keyArrays, sizes, recv_count, recv_displ,
                     results, exit_code>>

(* Each rank learns how much it gets from every other, and then computes   *)
(* its displacements.                                                      *)
Alltoall ==
  /\ All("alltoall", "alltoallv")
  /\ recv_count' = [r \in Rank |-> [s \in ActiveRank |->
       IF r \in ActiveRank THEN send_count[s][r] ELSE recv_count[r][s]]]
  /\ recv_displ' = [r \in Rank |-> [s \in ActiveRank |-> Displacement(recv_count'[r], s)]]
  /\ UNCHANGED <<job, timeron, iteration, timed, keyArrays, sizes, distrib, send_count,
                 send_displ, results, exit_code>>

(* Piece s of rank r's key_buff2 comes from piece r of rank s's key_buff1; *)
(* the rest of key_buff2 stays.                                            *)
Alltoallv ==
  LET Piece(r, x) ==
        {s \in ActiveRank : x - recv_displ[r][s] \in 0 .. recv_count[r][s] - 1}
      Arrived(r, x) ==
        LET s == CHOOSE s \in Piece(r, x) : TRUE
        IN  key_buff1[s][send_displ[s][r] + x - recv_displ[r][s]]
  IN  /\ All("alltoallv", "ranking")
      /\ key_buff2' = [r \in Rank |-> [x \in Place |->
           IF r \in ActiveRank /\ Piece(r, x) # {} THEN Arrived(r, x) ELSE key_buff2[r][x]]]
      /\ UNCHANGED <<job, timeron, iteration, timed, key_array, key_buff1, sizes, pieces,
                     results, exit_code>>

-----------------------------------------------------------------------------
min_key_val(r) == distrib[r][r].first * KeysPerBucket
max_key_val(r) == (distrib[r][r].last + 1) * KeysPerBucket - 1

(* m and j of rank(), from the totals alone.                               *)
KeysOf(r, s) ==
  SumOver(bucket_size_totals[r], distrib[r][s].first .. distrib[r][s].last)
LesserKeys(r) == SumOver([s \in 0 .. r - 1 |-> KeysOf(r, s)], 0 .. r - 1)
total_local_keys(r) == KeysOf(r, r)

(* The work array is cleared over the key range, the first j keys that     *)
(* arrived are counted in it, and the counts are added up.                 *)
Population(r, key) ==
  Cardinality({i \in 0 .. total_local_keys(r) - 1 : key_buff2[r][i] = key})

RankedKeys(r) ==
  LET min == min_key_val(r)
  IN  [x \in Place |->
         IF x <= max_key_val(r) - min
         THEN SumOver([y \in 0 .. x |-> Population(r, min + y)], 0 .. x)
         ELSE key_buff1[r][x] + Population(r, min + x)]

(* The tabulated rank of a test key, adjusted to the iteration: the number *)
(* of lesser keys as they are in this iteration, unless it is wrong.       *)
TrueKeys(it) ==
  [i \in AllKeys |-> IF i \in 1 .. it THEN i
                     ELSE IF i - MAX_ITERATIONS \in 1 .. it
                     THEN MAX_KEY - (i - MAX_ITERATIONS) ELSE job.generated[i]]

test_rank(it, t) ==
  LET ks == TrueKeys(it)
  IN  Cardinality({i \in AllKeys : ks[i] < ks[test_index_array[t]]})
        + IF <<it, t>> \in job.wrong THEN 1 ELSE 0

Passes(r, ranked, t) ==
  LET k == bucket_size_totals[r][NUM_BUCKETS + t]
  IN  /\ min_key_val(r) <= k /\ k <= max_key_val(r)
      /\ ranked[k - 1 - min_key_val(r)] + LesserKeys(r) = test_rank(iteration[r], t)

(* The rest of rank(), and what main() does after it: the counter starts   *)
(* after the first, free iteration.                                        *)
RankKeys(r) ==
  LET ranked == RankedKeys(r)
      passed == Cardinality({t \in Test : Passes(r, ranked, t)})
      last == timed[r] /\ iteration[r] = MAX_ITERATIONS
  IN  /\ pc[r] = "ranking"
      /\ key_buff1' = Set(key_buff1, r, ranked)
      /\ passed_verification' = [passed_verification EXCEPT ![r] =
           IF timed[r] THEN @ + passed ELSE 0]
      /\ timed' = Set(timed, r, TRUE)
      /\ iteration' = [iteration EXCEPT ![r] =
           IF ~timed[r] THEN 1 ELSE IF last THEN @ ELSE @ + 1]
      /\ pc' = Set(pc, r, IF last THEN "time" ELSE "rank")
      /\ given' = [given EXCEPT ![r] = IF last THEN <<0>> ELSE @]
      /\ UNCHANGED <<job, timeron, key_array, key_buff2, sizes, pieces, sent, verdict,
                     exit_code>>

-----------------------------------------------------------------------------
(* MPI_Reduce() to rank 0: the others may leave when they have given       *)
(* their value.  Each is the next in given.                                *)
Reduce(r, call) ==
  pc[r] = call /\ (r = 0 => \A s \in comm_work : Len(given[s]) >= Len(given[r]))
Give(r, call, value) ==
  pc' = Set(pc, r, call) /\ given' = [given EXCEPT ![r] = Append(@, value)]

(* full_verify(): the keys that arrived go to the places their ranks give. *)
SortedKeys(r) ==
  LET min == min_key_val(r)
      At(x, k) == /\ x < key_buff1[r][k - min]
                  /\ x >= key_buff1[r][k - min] - Population(r, k)
      Keys == min .. max_key_val(r)
  IN  [x \in Place |-> IF \E k \in Keys : At(x, k) THEN CHOOSE k \in Keys : At(x, k)
                       ELSE key_array[r][x]]

last_local_key(r) == IF total_local_keys(r) < 1 THEN 0 ELSE total_local_keys(r) - 1

(* Each key lowers its entry of key_buff1 before it is put there.          *)
Lowered(r) ==
  [x \in Place |-> key_buff1[r][x] - Population(r, min_key_val(r) + x)]

(* MPI_Irecv() is posted before MPI_Send(), which is taken to wait for it. *)
SortKeys(r) ==
  /\ Reduce(r, "time")
  /\ pc' = Set(pc, r, "send")
  /\ key_array' = Set(key_array, r, SortedKeys(r))
  /\ key_buff1' = Set(key_buff1, r, Lowered(r))
  /\ UNCHANGED <<job, timeron, iteration, timed, key_buff2, sizes, pieces, results,
                 exit_code>>

SendKey(r) ==
  /\ pc[r] = "send"
  /\ r < comm_size - 1 => pc[r + 1] \in {"send", "wait"}
  /\ pc' = Set(pc, r, "wait")
  /\ sent' = [s \in Rank |-> IF s = r + 1 /\ s \in ActiveRank
                             THEN key_array[r][last_local_key(r)] ELSE sent[s]]
  /\ UNCHANGED <<job, timeron, iteration, timed, keyArrays, sizes, pieces,
                 passed_verification, given, verdict, exit_code>>

InOrder(r) ==
  /\ r > 0 /\ total_local_keys(r) > 0 => sent[r] <= key_array[r][0]
  /\ \A i \in 1 .. total_local_keys(r) - 1 : key_array[r][i - 1] <= key_array[r][i]

FullVerify(r) ==
  /\ pc[r] = "wait"
  /\ r > 0 => sent[r] # None
  /\ LET passed == passed_verification[r] + IF InOrder(r) THEN 1 ELSE 0
     IN  /\ passed_verification' = Set(passed_verification, r, passed)
         /\ Give(r, "passed", passed)
  /\ UNCHANGED <<job, timeron, iteration, timed, keyArrays, sizes, pieces, sent, verdict,
                 exit_code>>

(* The final printout of rank 0, and the timer summary if there is one.    *)
FinalStatus(passed) ==
  IF passed # Cardinality(Test) * MAX_ITERATIONS + comm_size THEN 0 ELSE passed

PrintResults(r) ==
  /\ Reduce(r, "passed")
  /\ verdict' = IF r = 0
                THEN FinalStatus(SumOver([s \in comm_work |-> given[s][2]], comm_work))
                ELSE verdict
  /\ IF timeron[r] THEN Give(r, "tmin", 0) /\ UNCHANGED exit_code
     ELSE Exit(r, 0) /\ UNCHANGED given
  /\ UNCHANGED <<job, timeron, iteration, timed, keyArrays, sizes, pieces, sent,
                 passed_verification>>

Summary(r) ==
  /\ \/ Reduce(r, "tmin") /\ Give(r, "tsum", 0) /\ UNCHANGED exit_code
     \/ Reduce(r, "tsum") /\ Give(r, "tmax", 0) /\ UNCHANGED exit_code
     \/ Reduce(r, "tmax") /\ Exit(r, 0) /\ UNCHANGED given
  /\ UNCHANGED <<job, timeron, iteration, timed, keyArrays, sizes, pieces, sent,
                 passed_verification, verdict>>

-----------------------------------------------------------------------------
RankStep(r) ==
  \/ StartOutOfRange(r)
  \/ Start(r)
  \/ Permitted(r)
  \/ CreateSeq(r)
  \/ SortIntoBuckets(r)
  \/ PlanRedistribution(r)
  \/ RankKeys(r)
  \/ SortKeys(r)
  \/ SendKey(r)
  \/ FullVerify(r)
  \/ PrintResults(r)
  \/ Summary(r)

Collective == Abort \/ Split \/ Allreduce \/ Alltoall \/ Alltoallv

Next == Collective \/ \E r \in Rank : RankStep(r)

(* Every process is scheduled, and a call that all its ranks have entered  *)
(* returns.                                                                *)
Spec ==
  /\ Init /\ [][Next]_vars
  /\ WF_vars(Collective)
  /\ \A r \in 0 .. MAX_PROCS : WF_vars(r \in Rank /\ RankStep(r))

-----------------------------------------------------------------------------
(* After the exchange a rank has, in the first places of key_buff2, just   *)
(* the keys of all the ranks that are in its buckets, as many as the       *)
(* totals let it expect: the displacements, which each side derives from   *)
(* its own counts, cut key_buff1 where its buckets begin and leave no gap  *)
(* in key_buff2, whatever the buffers hold of earlier iterations.          *)
(* (rank(), from the bucket pointers to MPI_Alltoallv().)                  *)
KeysArrive ==
  \A r \in Rank : pc[r] = "ranking" =>
    \A k \in min_key_val(r) .. max_key_val(r) :
      Population(r, k) = Cardinality({i \in AllKeys : TrueKeys(iteration[r])[i] = k})

(* Every process ends.  A job of a permitted size ends with success on the *)
(* printout just when the reference ranks are right, also when some of its *)
(* processes are not used; a refused job ends with MPI_Abort()'s code, and *)
(* one of a size out of range with an exit code of 1.  (main().)           *)
EndsWithRightVerdict ==
  <>[](/\ \A r \in Rank : pc[r] = "done"
       /\ CASE ~InRange -> (\A r \in Rank : exit_code[r] = 1) /\ verdict = NoVerdict
            [] InRange /\ comm_size # job.ranks /\ job.strict ->
                 (\A r \in Rank : exit_code[r] = MPI_ERR_OTHER) /\ verdict = NoVerdict
            [] OTHER -> (\A r \in Rank : exit_code[r] = 0) /\ (verdict # 0 <=> job.wrong = {}))

=============================================================================
