----------------------------- MODULE MpiSortInv -----------------------------
(***************************************************************************)
(* The inductive invariant of MpiSort: IInv.                               *)
(*                                                                         *)
(* The ranks have returned from equally many reductions of the counts, so  *)
(* those that meet in a collective are in the same iteration (Together).   *)
(* What a rank has is then said in terms of all the keys as they are in    *)
(* its iteration (TrueKeys), of which every rank has its slice (DataOf).   *)
(***************************************************************************)
EXTENDS MpiSort

Starting == {"start", "strict", "split", "timeron"}
Sorting == {"rank", "allreduce", "plan", "alltoall", "alltoallv", "ranking"}
Ending == {"time", "send", "wait", "passed", "tmin", "tsum", "tmax", "done"}

OfRanks(f) == f = [r \in Rank |-> f[r]]
OfPlaces(f) == f = [x \in Place |-> f[x]]

Shapes ==
  /\ OfRanks(pc) /\ OfRanks(iteration) /\ OfRanks(timed)
  /\ OfRanks(key_array) /\ OfRanks(key_buff1) /\ OfRanks(key_buff2)
  /\ OfRanks(bucket_size) /\ OfRanks(bucket_size_totals) /\ OfRanks(distrib)
  /\ OfRanks(send_count) /\ OfRanks(send_displ)

TypeOf(r) ==
  /\ pc[r] \in Starting \cup Sorting \cup Ending
  /\ iteration[r] \in Iteration /\ timed[r] \in BOOLEAN
  /\ OfPlaces(key_array[r])

TypeOK == job \in Jobs /\ Shapes /\ \A r \in Rank : TypeOf(r)

-----------------------------------------------------------------------------
(* The warm-up is pass 0; it is made with the keys of iteration 1.         *)
PassOf(r) == IF timed[r] THEN iteration[r] ELSE 0

(* The reductions of the counts a rank has returned from.                  *)
Reductions(r) ==
  CASE pc[r] \in Starting -> 0
    [] pc[r] \in {"rank", "allreduce"} -> PassOf(r)
    [] OTHER -> PassOf(r) + 1

ControlOf(r) ==
  /\ pc[r] \notin {"start", "done"} => InRange
  /\ pc[r] \notin {"start", "strict", "split", "done"} => r \in ActiveRank
  /\ pc[r] \in Starting => ~timed[r]
  /\ ~timed[r] => iteration[r] = 1

Together ==
  \A r, s \in ActiveRank : {pc[r], pc[s]} \subseteq Starting \cup Sorting =>
                             Reductions(r) = Reductions(s)

Control ==
  /\ TypeOK
  /\ \A r \in Rank : ControlOf(r)
  /\ Together

-----------------------------------------------------------------------------
(* The data of an iteration: a rank's keys, what the reduction makes of    *)
(* the counts, and the division of the buckets.                            *)
SliceOf(r, it) == [i \in LocalIndex |-> TrueKeys(it)[r * num_keys + i]]

Totals(it) ==
  [x \in CountIndex |->
     SumOver([s \in ActiveRank |-> BucketSizes(s, SliceOf(s, it))[x]], ActiveRank)]

Route(it) == Division(Totals(it))
Destination(key, it) == Route(it)[BucketOf(key)]

Spans(it) ==
  LET j == Route(it)
  IN  [s \in ActiveRank |->
         IF s < j[NUM_BUCKETS] THEN [first |-> FirstBucket(j, s), last |-> LastBucket(j, s)]
         ELSE [first |-> 1, last |-> 0]]

(* The keys of rank s that rank d gets, and those lesser ranks get; all    *)
(* the keys rank d gets, and those it gets from ranks below s.             *)
For(s, d, it) == {i \in LocalIndex : Destination(SliceOf(s, it)[i], it) = d}
Ahead(s, d, it) == {i \in LocalIndex : Destination(SliceOf(s, it)[i], it) < d}
ForRank(d, it) == {i \in AllKeys : Destination(TrueKeys(it)[i], it) = d}
Earlier(s, d, it) == {i \in ForRank(d, it) : i \div num_keys < s}

(* The iteration whose keys a rank still has.                              *)
IterationBefore(r) ==
  IF ~timed[r] THEN 0 ELSE IF iteration[r] = 1 THEN 1 ELSE iteration[r] - 1

(* What a rank has, in the order in which it gets it: the keys of the      *)
(* iteration, its counts of them, the keys in the order of their buckets,  *)
(* the counts of all the ranks, the division of the buckets, what it sends *)
(* and what it receives, and the keys themselves.                          *)
Holds(r, it) == \A i \in LocalIndex : key_array[r][i] = SliceOf(r, it)[i]

Counted(r, it) ==
  /\ bucket_size[r] = BucketSizes(r, SliceOf(r, it))
  /\ \A s \in ActiveRank : distrib[r][s].last = 0

Ordered(r, it) ==
  \A i \in LocalIndex : key_buff1[r][SortedPlace(SliceOf(r, it), i)] = SliceOf(r, it)[i]

Summed(r, it) == bucket_size_totals[r] = Totals(it)

Divided(r, it) == distrib[r] = Spans(it)

Sends(r, it) ==
  \A d \in ActiveRank :
    /\ send_count[r][d] = Cardinality(For(r, d, it))
    /\ For(r, d, it) # {} => send_displ[r][d] = Cardinality(Ahead(r, d, it))

Receives(r, it) ==
  \A s \in ActiveRank :
    /\ recv_count[r][s] = Cardinality(For(s, r, it))
    /\ recv_displ[r][s] = Cardinality(Earlier(s, r, it))

(* Nothing in the code sees to it that the keys a rank gets fit in its     *)
(* buffer: it is the keys being spread that makes it long enough.          *)
Fits(r, it) == Cardinality(ForRank(r, it)) <= size_of_buffers
KeysFit == InRange => \A r \in ActiveRank, it \in Iteration : Fits(r, it)

Has(r, it) ==
  \A k \in min_key_val(r) .. max_key_val(r) :
    Population(r, k) = Cardinality({i \in AllKeys : TrueKeys(it)[i] = k})

DataIn(r, it) ==
  /\ pc[r] \in Sorting \ {"rank"} => Holds(r, it)
  /\ pc[r] \in {"allreduce", "plan"} => Counted(r, it)
  /\ pc[r] \in Sorting \ {"rank", "ranking"} => Ordered(r, it)
  /\ pc[r] \in Sorting \ {"rank", "allreduce"} => Summed(r, it)
  /\ pc[r] \in {"alltoall", "alltoallv", "ranking"} => Divided(r, it)
  /\ pc[r] \in {"alltoall", "alltoallv"} => Sends(r, it)
  /\ pc[r] = "alltoallv" => Receives(r, it)
  /\ pc[r] = "ranking" /\ Fits(r, it) => Has(r, it)

DataOf(r) ==
  /\ pc[r] = "rank" => \A it \in 0 .. MAX_ITERATIONS : it = IterationBefore(r) => Holds(r, it)
  /\ \A it \in Iteration : it = iteration[r] => DataIn(r, it)

IInv ==
  /\ Control
  /\ \A r \in ActiveRank : DataOf(r)
=============================================================================
