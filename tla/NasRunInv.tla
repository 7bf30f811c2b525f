------------------------------ MODULE NasRunInv ------------------------------
(***************************************************************************)
(* The inductive invariants of NasRun: IInv, and VerifyInv given IInv.     *)
(*                                                                         *)
(* Where a rank is tells how many collectives it has entered, and which    *)
(* (Script).  What it has given to them, its keys, the plan and the        *)
(* histogram are those of its iteration: what they should be is said in    *)
(* terms of all the keys as they are in an iteration (TrueKeys), of which  *)
(* every rank has its slice.                                               *)
(***************************************************************************)
EXTENDS NasRun

Setup == {"use_upacket", "use_loopback", "timeron", "generated"}
Iterating == {"sizes", "totals", "handler", "exchange"}
Receiving == {"handler", "exchange"}
Ending == {"time", "chain", "passed", "tmin", "tsum", "tmax"}
Points == {"start", "strict", "begin", "done"} \cup Setup \cup Iterating \cup Ending

(* The warm-up is pass 0; it is made with the keys of iteration 1.         *)
Pass == 0 .. MAX_ITERATIONS
PassOf(r) == IF timed[r] THEN current_iteration[r] ELSE 0
IterationIn(p) == IF p = 0 THEN 1 ELSE p

-----------------------------------------------------------------------------
(* The job, and the types of what is not described below.                  *)
JobInv ==
  \E j \in Jobs : /\ rank_count = j.ranks /\ strict = j.strict
                  /\ generated = j.generated /\ wrong = j.wrong

OfRanks(f) == f = [r \in Rank |-> f[r]]
IsSequence(s) == Len(s) \in Nat /\ s = [k \in 1 .. Len(s) |-> s[k]]

TypeOK ==
  /\ pc \in [Rank -> Points]
  /\ timed \in [Rank -> BOOLEAN]
  /\ current_iteration \in [Rank -> 0 .. MAX_ITERATIONS]
  /\ active \in [Rank -> BOOLEAN]
  /\ OfRanks(calls) /\ OfRanks(keys) /\ OfRanks(global) /\ OfRanks(plan)
  /\ OfRanks(frequency) /\ OfRanks(phase) /\ OfRanks(recv_count)
  /\ \A r \in Rank : /\ IsSequence(calls[r])
                     /\ keys[r] = [i \in Slot |-> keys[r][i]]
                     /\ frequency[r] = [i \in Slot |-> frequency[r][i]]

-----------------------------------------------------------------------------
(* The calls of a rank that sorts, in their order.                         *)
Offset == IF active_rank_count # rank_count THEN 1 ELSE 0

Script(k) ==
  LET j == k - Offset
  IN  CASE j = 0 -> "strict"
        [] j = 1 -> "use_upacket"
        [] j = 2 -> "use_loopback"
        [] j = 3 -> "timeron"
        [] j = 4 -> "generated"
        [] j \in 5 .. 7 + 4 * MAX_ITERATIONS ->
             IF j % 4 = 0 THEN "begin" ELSE IF j % 4 = 1 THEN "sizes"
             ELSE IF j % 4 = 2 THEN "totals" ELSE "handler"
        [] j = 8 + 4 * MAX_ITERATIONS -> "time"
        [] j = 9 + 4 * MAX_ITERATIONS -> "passed"
        [] j = 10 + 4 * MAX_ITERATIONS -> "tmin"
        [] j = 11 + 4 * MAX_ITERATIONS -> "tsum"
        [] OTHER -> "tmax"

(* How many calls it has made: four in each pass.                          *)
Place(point) ==
  CASE point = "use_upacket" -> 1 [] point = "use_loopback" -> 2 [] point = "timeron" -> 3
    [] point \in {"generated", "begin"} -> 4
    [] point = "sizes" -> 5 [] point = "totals" -> 6 [] point \in Receiving -> 7
    [] point \in {"time", "chain"} -> 8 [] point = "passed" -> 9
    [] point = "tmin" -> 10 [] point = "tsum" -> 11 [] point = "tmax" -> 12

CallNumber(point, p) == Offset + Place(point) + 4 * p

ControlOf(r) ==
  /\ pc[r] = "start" => calls[r] = << >>
  /\ pc[r] = "strict" => Offset = 1 /\ Len(calls[r]) = 1
  /\ pc[r] \notin {"start", "strict", "done"} =>
       r \in ActiveRank /\ Len(calls[r]) = CallNumber(pc[r], PassOf(r))
  /\ pc[r] = "done" =>
       Len(calls[r]) <= 1 \/ Len(calls[r]) >= CallNumber("passed", MAX_ITERATIONS)
  /\ pc[r] \in {"start", "strict"} \cup Setup => ~timed[r]
  /\ pc[r] \in Iterating \cup {"begin"} => current_iteration[r] \in Iteration
  /\ pc[r] \in Iterating /\ ~timed[r] => current_iteration[r] = 1
  /\ pc[r] \in Ending \cup {"begin"} => timed[r]
  /\ pc[r] \in Ending => current_iteration[r] = MAX_ITERATIONS
  /\ Len(calls[r]) > 0 => InRange
  /\ Len(calls[r]) > 1 => r \in ActiveRank
  /\ \A k \in 1 .. Len(calls[r]) : calls[r][k].call = Script(k)

ControlInv == \A r \in Rank : ControlOf(r)

(* A rank that has left a barrier has met all the others there.            *)
BarrierInv ==
  \A r, s \in Rank :
    /\ \A k \in 1 .. Len(calls[r]) - 1 :
         Script(k) \in {"generated", "begin", "handler"} => Len(calls[s]) >= k
    /\ pc[r] = "exchange" => Len(calls[s]) >= Len(calls[r])

-----------------------------------------------------------------------------
(* All the keys in an iteration; those of a rank, their counts, and what   *)
(* the reduction makes of the counts.                                      *)
Slice(r) == {i \in AllKeys : i \div local_key_count = r}

KeysOf(r, it) == [i \in 0 .. local_key_count - 1 |-> TrueKeys(it)[r * local_key_count + i]]
CountsOf(r, it) == LocalCounts(r, KeysOf(r, it))
TotalCounts(it) == [x \in CountIndex |-> Sum([s \in Rank |-> CountsOf(s, it)[x]])]

ValueInv ==
  \A p \in Pass :
    /\ \A r \in ActiveRank : Len(calls[r]) >= CallNumber("sizes", p) =>
         calls[r][CallNumber("sizes", p)].value = CountsOf(r, IterationIn(p))
    /\ Len(calls[0]) >= CallNumber("totals", p) =>
         calls[0][CallNumber("totals", p)].value = TotalCounts(IterationIn(p))

(* The iteration whose keys a rank has, and whose plan.                    *)
IterationAt(r) ==
  IF pc[r] = "generated" THEN 0
  ELSE IF pc[r] = "begin" THEN IterationIn(current_iteration[r] - 1)
  ELSE current_iteration[r]

DataOf(r) ==
  /\ pc[r] \in Iterating \cup {"generated", "begin", "time"} =>
       \A i \in 0 .. local_key_count - 1 : keys[r][i] = KeysOf(r, IterationAt(r))[i]
  /\ pc[r] = "totals" /\ r = 0 => global[r] = TotalCounts(IterationAt(r))
  /\ pc[r] \in Receiving \cup Ending => plan[r] = Plan(TotalCounts(IterationAt(r)), r)

DataInv == \A r \in ActiveRank : DataOf(r)

-----------------------------------------------------------------------------
(* The exchange.  What one rank has for another in a pass, as one message. *)
Route(it) == Owner(TotalCounts(it), local_key_count)
For(s, d, it) == {i \in Slice(s) : Route(it)[BucketOf(TrueKeys(it)[i])] = d}

MessageIn(p, s, d) ==
  [src |-> s, dst |-> d, phase |-> p + 1,
   keys |-> [k \in KeyValue |->
              Cardinality({i \in For(s, d, IterationIn(p)) : TrueKeys(IterationIn(p))[i] = k})]]

(* Rank s has posted its keys of a pass, rank d has received all of its.   *)
Sent(s, p) ==
  \/ Len(calls[s]) > CallNumber("handler", p)
  \/ Len(calls[s]) = CallNumber("handler", p) /\ pc[s] = "exchange"

Finished(d, p) == Len(calls[d]) > CallNumber("handler", p)

Arrived(s, d, p) == Sent(s, p) /\ MessageIn(p, s, d) \notin net

PhaseOf(r) ==
  /\ active[r] <=> pc[r] \in Receiving
  /\ pc[r] \in Receiving => phase[r] = PassOf(r) + 1
  /\ pc[r] \in {"sizes", "totals", "begin"} => phase[r] = PassOf(r)
  /\ pc[r] \in Setup \cup {"start", "strict"} => phase[r] = 0

NetInv ==
  \A m \in net : \E p \in Pass, s, d \in ActiveRank :
    /\ m = MessageIn(p, s, d) /\ For(s, d, IterationIn(p)) # {}
    /\ Sent(s, p) /\ pc[d] \in Receiving /\ PassOf(d) = p

ReceivedBy(d, p) ==
  {i \in AllKeys : \E s \in ActiveRank : i \in For(s, d, IterationIn(p)) /\ Arrived(s, d, p)}

FrequencyOf(d) ==
  \A p \in Pass : PassOf(d) = p =>
    LET received == ReceivedBy(d, p)
        base == plan[d].min_key_value
    IN  /\ pc[d] \in Receiving => recv_count[d] = Cardinality(received)
        /\ pc[d] \in Receiving \cup Ending =>
             \A k \in base .. plan[d].max_key_value : k - base \in Slot =>
               frequency[d][k - base] =
                 Cardinality({i \in received : TrueKeys(IterationIn(p))[i] = k})

ExchangeInv ==
  /\ \A r \in Rank : PhaseOf(r)
  /\ NetInv
  /\ \A d \in ActiveRank, p \in Pass : Finished(d, p) =>
       \A s \in ActiveRank : For(s, d, IterationIn(p)) # {} => Sent(s, p)
  /\ \A d \in ActiveRank : FrequencyOf(d)

Control ==
  /\ JobInv
  /\ TypeOK
  /\ ControlInv
  /\ BarrierInv

IInv ==
  /\ Control
  /\ ValueInv
  /\ DataInv
  /\ ExchangeInv

-----------------------------------------------------------------------------
(* Verification.  Nothing in the code sees to it that the arrays of a rank *)
(* hold the range of keys the plan gives it, in the histogram, and the     *)
(* keys it receives, when they are sorted: their length is that of         *)
(* compute_work_buffer_size(), and it is the keys being spread that makes  *)
(* it enough.                                                              *)
Fits(r, it) ==
  LET p == Plan(TotalCounts(it), r)
  IN  p.max_key_value - p.min_key_value < WorkBufferSize /\ p.local_key_count <= WorkBufferSize

(* Of a job that sorts.                                                    *)
Sorts == InRange /\ active_rank_count = rank_count

KeysFit == Sorts => \A r \in ActiveRank, it \in Iteration : Fits(r, it)

(* The keys routed to a rank, and those of them up to a key.               *)
ForRank(r, it) == {i \in AllKeys : Route(it)[BucketOf(TrueKeys(it)[i])] = r}
UpToKey(r, it, k) == {i \in ForRank(r, it) : TrueKeys(it)[i] <= k}

(* No rank with keys comes after one without, whose message would be a key *)
(* of those it generated.                                                  *)
NeighboursHaveKeys ==
  Sorts => \A r \in ActiveRank : r > 0 /\ ForRank(r, MAX_ITERATIONS) # {} =>
                                   ForRank(r - 1, MAX_ITERATIONS) # {}

(* The tests of iterations 1 to n that a rank makes and that succeed.      *)
Passed(r, n) ==
  {x \in (1 .. n) \X Test : /\ x \notin wrong
     /\ Route(x[1])[BucketOf(TrueKeys(x[1])[TestIndex[x[2]]])] = r}

Verifying == {"chain", "passed", "tmin", "tsum", "tmax"}
IterationsVerified(r) ==
  IF pc[r] \in {"time", "chain"} THEN MAX_ITERATIONS ELSE current_iteration[r] - 1

SortedOf(r) ==
  \A i \in 0 .. Cardinality(ForRank(r, MAX_ITERATIONS)) - 1 :
    LET k == keys[r][i]
    IN  /\ k \in KeyValue /\ Route(MAX_ITERATIONS)[BucketOf(k)] = r
        /\ Cardinality(UpToKey(r, MAX_ITERATIONS, k - 1)) <= i
        /\ i < Cardinality(UpToKey(r, MAX_ITERATIONS, k))

VerifyOf(r) ==
  /\ pc[r] \in Verifying => SortedOf(r)
  /\ timed[r] /\ pc[r] \in Iterating \cup {"begin", "time", "chain"} =>
       passed_verification[r] = Cardinality(Passed(r, IterationsVerified(r)))

(* What a rank sends is its greatest key.                                  *)
ChainInv ==
  \A m \in chain : m.dst - 1 \in ActiveRank /\
    (ForRank(m.dst - 1, MAX_ITERATIONS) # {} =>
       m.key \in KeyValue /\ Route(MAX_ITERATIONS)[BucketOf(m.key)] = m.dst - 1)

CountedOf(r) ==
  LET last == CallNumber("passed", MAX_ITERATIONS)
  IN  Len(calls[r]) >= last =>
        calls[r][last].value = Cardinality(Passed(r, MAX_ITERATIONS)) + 1

GlobalOf(r) == pc[r] \in Receiving => global[r] = TotalCounts(IterationAt(r))

VerifyInv ==
  /\ OfRanks(passed_verification)
  /\ \A r \in ActiveRank : GlobalOf(r)
  /\ KeysFit => (\A r \in ActiveRank : VerifyOf(r)) /\ ChainInv
  /\ KeysFit /\ NeighboursHaveKeys => (\A r \in ActiveRank : CountedOf(r)) /\ VerdictRight
=============================================================================
