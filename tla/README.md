# IntegerSort-LCI: specifications, model checking and proofs

This directory is a verification development of the program in this repository: the
`lci-irregular` active-message runtime (`src/include`, `src/src`), the NAS integer-sort benchmark
built on it (`src/benchmarks/npb-is/lci-openmp`) and the MPI baseline it is compared with
(`src/benchmarks/npb-is/mpi-baseline`). It has TLA+ modules, configurations that check small
instances with TLC, and proofs that TLAPS checks for all values of the constants. `PROJECT.json`
has the list of the runs, the source lines of every definition, the hazards the properties are for,
and for each property a plausible mistake in the code that makes it fail.

Paths below are relative to `src/`. *Rank* means a process of the job, *worker* a thread that uses
one `WorkerHandler`.

## 1. The parts of the system

### The runtime

| Component | State it keeps | Operations | What makes it correct |
|---|---|---|---|
| **Active-message exchange** `detail/am_phase.hpp`, `detail/am_send_buffer.hpp`, receive path of `irregular_runtime.cpp` | per worker and destination a send buffer, with or without an LCI packet; per rank `recv_count_`, the packet pool, the installed handler | `post_am`, `flush`, `progress`, receive | every value is handled once, on the rank it was posted to; when `recv_count()` reaches the number the application expects, everything for this rank has been handled; nobody waits for ever |
| **Runtime life cycle** `irregular_runtime.{hpp,cpp}` | LCI, devices, completions, the process-wide `g_runtime_for_am`, the transport, the active state | construct, destroy, `set_am_handler`, `clear_am_handler`, collectives | whatever throws, nothing is left behind; phases do not mix |
| **Worker handlers and buffer cache** `detail/am_phase.hpp` | for each record type a thread-local cache: a pointer to send buffers beside its key, generation and worker index | lookup in each post and flush | the buffers used are those of the active state and of this worker |
| **Profile recorder** `detail/profiling.hpp` | relaxed atomic counters, aggregate and per worker; the thread-local worker index | `record`, `measure`, the worker scope, `am_profile` | counters come to the operations measured, booked to the right worker; a profile is never behind `recv_count()` |
| **Profile writer** `profile_writer.cpp` | queue, two mutexes, output file, temporary file | `submit_profile`, `write_profiles`, the destructor's call | no profile lost, doubled, reordered; the file is never seen half written |
| **Message layout** `detail/am_message.hpp` | none | `record_count_from_message_bytes`, `load_record` | number and place of the values |
| **Example** `examples/typed_am_exchange.cpp` | none | one phase with one record from each rank to the next | it waits for what it is sent |

### The benchmark

| Component | State it keeps | Operations | What makes it correct |
|---|---|---|---|
| **Driver** `benchmark_support/nas_integer_sort_run.cpp`, `main.cpp` | the plan, counters, iteration | warm-up, iterations, verification, report | the ranks' collectives match; the keys end up sorted; the printed verdict is right; all processes end |
| **Run options** `run_options.cpp` | flags | environment to flags | both values of each flag work |
| **Local bucket counting** `bucket_plan.cpp` | private counts per thread, shared counts | an OpenMP region with a critical section | no update is lost |
| **Bucket plan** `bucket_plan.cpp` | owner of each bucket, first and last bucket of each rank, expected count | clear, build | every key has an owner, every rank expects just what it gets |
| **Key redistribution** `key_redistribution.cpp` | the histogram the handler writes | one active-message phase per iteration | the histogram is exact when the phase ends |
| **Local ranking** `ranking.cpp` | `partial_sums`, cumulative counts | two-pass parallel prefix sum | no data race, right ranks |
| **Workspace** `workspace.{hpp,cpp}` | keys, metadata arrays, frequency and cumulative arrays | clearing by range | nothing of an earlier iteration is used |
| **Verification** `nas/verification.cpp` | test keys hidden behind the counts, `passed_verification` | partial and full verification | success exactly when the ranks are right |
| **Run rules** `nas/run_rules.cpp`, **key generation** `nas/key_generation.cpp` | seeds, sizes | active ranks, key changes, `randlc` | all ranks together generate one sequence |
| **Timers**, **reporting**, **reductions** | clocks, text | printing, reducing | collectives of the summary are entered by all or none |
| **MPI baseline** `mpi-baseline/is.c` | the same in global arrays | `main`, `rank`, `full_verify` | as for the driver |

`common/*.c` (clocks and printing of the NAS suite) and the build files have no behaviour of their own
to model.

### How the parts interact

The driver runs, per iteration: change two keys, count the keys per bucket (OpenMP), reduce and
broadcast the counts, build the plan, register a handler (a barrier), post every key to the owner of
its bucket while handling what arrives, wait for the expected count, clear the handler, rank, verify.
The benchmark calls the runtime; the runtime calls back the handler, on whatever thread happens to
make progress on a device: one waiting in a barrier, for a packet, in the retry loop of a send, or in
`progress()`. Ranks interact through messages and collectives only; the threads of a rank through
`recv_count_`, the packet pool, the histogram, the profile counters and the profile queue.

### What is hard about it

* Receiving happens inside sending, waiting and barriers, on any thread, concurrently.
* Completion is counted by the application: nothing but `recv_count() >= expected` says that a phase
  has ended, and the expected count comes from another algorithm, the bucket plan.
* Packets are a bounded pool, held by buffers that are only partly filled; sends may be refused.
* Ranks are not synchronised at the end of a phase: a fast one registers the next handler while a
  slow one still receives. Collectives have no name: one skipped call shifts all that follow.
* State outlives its phase: the buffer cache, the post function and the flag that says what kind of
  buffer a received message is in, the histogram outside the cleared range, the metadata
  of ranks without buckets, profiles of a failed output.
* Failures: constructors and registrations that throw on one rank, file operations that fail, a
  process that dies while it writes.

## 2. Modules

| Module | What it models | Its actions and the code |
|---|---|---|
| `AmDelivery` | *Abstract*: what a phase promises the application | `Post`, `Handle`, `End` |
| `AmExchange` | One phase on all ranks, workers and devices | `Register`/`LeaveBarrier`: `set_am_handler`. `PostRecord`, `AwaitPacket`, `GetPacket`, `EndPosting`: `post_am` with its wait for a packet. `FlushDest`, `EndFlush`, `PostAm`, `Release`: `flush_worker`, `post_send_buffer` with loopback, retry and accepted send. `TakeMessage`, `InvokeHandler`, `CountBatch`: the receive path, the last step being the addition to `recv_count_`. `CompleteSend`: LCI takes a buffer. `ExitWait`, clear: the end of the loop and `clear_am_handler` |
| `AmExchangeInv`, `AmExchange_proofs` | Inductive invariant and proofs | |
| `AmPhases` | `Runtime` objects and one phase after the other; the inside of a phase is coarse | `InitLci`, `AllocateDevice`, `AllocateCounter`, `ConstructorFails`: construction with its catch block. `SetAmHandler`, `BatchTooLarge`: a generation, the batch size, state, record type and post function. `AllocateHandler`, `RegisterRcomp`, `EnterBarrier`, `Registered`: the transport and the barrier, step by step; `RegistrationFails`, `BarrierFails`: a throw at any of these steps, with the catch blocks. `Post`, `Flush`: through the caches, the record type checked. `Receive`, `GiveBack`: the two halves of `handle_incoming_am`, what a message is read as and where its buffer goes. `ClearAmHandler`, `DestroyActive`, `Destroy`, and a second `Runtime`. `Refused`: every call that throws before it changes anything |
| `AmPhasesInv`, `AmPhases_proofs` | Inductive invariant and proofs | |
| `ProfileRecorder` | The profile of one phase on one rank, enabled or not | the worker scopes, nested; each `record()` addition by addition; `am_profile()` load by load (`CallAmProfile`, `LoadCounter`, `ReturnProfile`); the snapshot at the end of the phase (`FinalizeProfile`) and the rows the writer makes of it (`Rows`). `progress()` calls receive messages and record nothing of their own, as in the code; `MCProfileProgress` counts them beside it |
| `ProfileRecorderInv`, `ProfileRecorder_proofs` | Inductive invariant and proofs | |
| `ProfileLog` | *Abstract*: what profile output promises | `EndPhase`, `Output`, `Restart` |
| `ProfileWriter` | `submit_profile`, `write_profiles` by several threads, the destructor, process death and restart | one step per file operation, each of which may fail |
| `ProfileWriterInv`, `ProfileWriter_proofs` | Inductive invariant and proofs | |
| `BucketPlan` | `build_bucket_plan` and `clear_bucket_metadata`, one step per bucket or rank of its loops, iteration after iteration | `KeepOwner`/`CloseOwner`: the quota test; `MarkIdle`: ranks left without buckets; `SumLesserRank`, `SumLocal` |
| `BucketPlanInv`, `BucketPlan_proofs` | Inductive invariant and proofs | |
| `CountBuckets` | `count_local_buckets` | the loop of each thread, the critical section with load and store of each element, the barrier at the end |
| `CountBucketsInv`, `CountBuckets_proofs` | Inductive invariant and proofs | |
| `LocalRanks` | `compute_local_ranks` | both loops of each thread, the two `single` constructs, every barrier |
| `LocalRanksInv` | Its inductive invariant, `RankInv`; the proofs are in `CountBuckets_proofs`, the specification is `RankSpec` | |
| `KeyGeneration` | `randlc`, `find_my_seed`, `generate_keys` as functions; proofs about the first and the last in `NasRun_proofs` | |
| `TypedAmExchange` | The example program: the values it gives to the constants of `AmExchange`; `AmExchange_proofs` shows that they meet its assumptions | |
| `NasRun` | The whole benchmark on all the ranks, from the first call of `main()` to the last | a step per stretch of code between two communication calls, named after the call it leaves (`LeaveSizes`, `LeaveTotals`, `LeaveHandler`, ...); `Receive` for the keys on their way |
| `NasRunInv`, `NasRun_proofs` | Inductive invariant and proofs, those about `KeyGeneration` included | |
| `MpiSort` | The MPI baseline, likewise | a step per stretch of code, one joint step per collective in which all wait for all |
| `MpiSortInv`, `MpiSort_proofs` | Inductive invariant and proofs | |
| `MC...` | Instances for TLC | |

`NasRun` composes what the other modules detail: it uses the counts `CountBuckets` arrives at, the
plan of `BucketPlan` (`Owner` and `Plan` are the result of its loops), the delivery `AmExchange`
implements (one message for all the keys of one rank for another: `AmDelivery` says each is handled
once, and the histogram does not depend on their order), and the ranks of `LocalRanks`.
`AmExchange` takes from `BucketPlan` that the expected count is the number of values sent
(`ExpectedAssumption`; proved there as `ExpectedIsRouted`, and for the example in `AmExchange_proofs`).
`NasRun` starts from one sequence of keys of which each rank has its slice; that is what
`KeyGeneration` computes.

Conventions. Definitions marked `fault` are mistakes one could make in the definition below them; no
action uses them, they serve to try out the properties. LCI, MPI and the file system are external and
modelled by what the code relies on: a reliable network that may reorder, sends that may be refused
while `MaxSends` of a device are incomplete, a pool of `PoolSize` packets, file operations that fail
or not.

## 3. What the runs check

| Run | Instance | Properties | What it shows |
|---|---|---|---|
| `exchange_delivery` | 2 ranks, one worker each, 5 values, buffers of 2, **pool of 2 packets**, 1 send at a time; all 4 combinations of the two options | `NoPacketDeadlock`, `PacketConservation`, `BufferBounded`, `ImplementsDelivery` | With just one packet per buffer nobody waits for a packet only a waiting worker could return; packets are neither lost nor returned twice; the phase implements `AmDelivery`, liveness included |
| `exchange_workers` | 2 ranks, 2 workers, 2 devices, 3 values, one rank expecting one value only | `CompletionSound`, `NoStrayMessage`, `Termination` | Two workers of a rank receive at the same time while others have left: the count is reached only when all is handled, no message finds a rank without a handler, every rank gets out |
| `phases` | 2 ranks, 3 phases, 2 record types, one of which has twice the size, 2 worker indices, 2 devices, 3 calls that throw, a new `Runtime` after phase 2, which ends without `clear_am_handler`; flushes forgotten until `clear_am_handler` refuses | `PhasesApart`, `NothingLeft`, `ReceiveBuffersGoBack`, `ClearLosesNothing`, `BuffersAreCurrent`, `AllPhasesEnd` | No mixing of phases or record types, no leak on any failure path, registrations undone after the completion is registered included, no value lost by a phase that was cleared too early at first, receive buffers given back as what they are, never the send buffers of a state that is gone |
| `profile_recorder` | 2 threads, 2 workers, 3 messages, 2 calls of each thread, `am_profile()` among them; profiling on and off | `TypeOK`, `AttributionExact`, `SnapshotCoversCount`, `RowsExact` | Nested scopes restore the worker index; counters come to the operations made; a profile read counter by counter while another thread receives is never behind the `recv_count()` read before it; the rows written for flushes and receives are the totals of the phase |
| `profile_output` | 2 threads, 3 phases, 2 failures, 1 process death | `Ledger`, `FileIntact`, `ReturnsWhenWritten`, `DestructorEnds`, `ImplementsLog` | No profile lost, the file always whole, under failures and death at any step |
| `bucket_plan` | 4 ranks, 5 buckets, all distributions of 8 keys, iteration after iteration | `TypeOK`, `KeysHaveOwner`, `ExpectedIsRouted`, `RangeIsRouted`, `LesserIsLesserRanks`, `LoadBalanced` | The plan, the routing and the counts agree on every rank, also for ranks without buckets and with the arrays of the last iteration |
| `rank_teams` | `MCRankTeams`, both parallel regions of a rank. Counting: 2 threads, 2 ranks, 3 keys each, 4 key values, warm-up and 1 iteration. Ranking: 3 threads, 3 keys, up to 3 keys received, every division into chunks | `CountsOfIteration`, `NoDataRace`, `RanksAreCounts` | After the first region the counts are those of this iteration's keys, for every schedule of the loop; in the second the barriers are enough, and the ranks right |
| `nas_run` | 1, 2 and 4 ranks, 20 keys below 8 in 4 buckets, 2 test keys, warm-up and 2 iterations; a refused job, one out of range | `CollectivesMatch`, `MessagesMeetTheirPhase`, `HistogramExact`, `SortedOutput`, `VerdictRight`, `AllRanksEnd` | The benchmark from start to end, see below |
| `mpi_sort` | 1, 2, 3 and 4 processes, 20 keys below 8; over 80 layouts | `KeysArrive`, `EndsWithRightVerdict` | The baseline from start to end, also with a process that is not used; a refused job ends with the code given to `MPI_Abort`, one out of range with that of `exit` |
| `nas_surplus_ranks` | 3 ranks, strict off | `AllRanksEnd` **fails** | See section 6 |
| `nas_empty_neighbour` | 4 ranks, one of which gets a bucket without keys | `LargestKeySent` **fails** | See section 6 |
| `profile_progress` | the instance of `profile_recorder` | `ProgressRecorded` **fails** | See section 6 |

**Bounds, and why they are enough.** *Exchange*: five values through buffers of two give a buffer
that is filled by `post_am`, one that is sent partly filled by `flush`, a value for the own rank and
a message back; with two packets the third buffer has to wait. The second instance has what needs
two workers of one rank: concurrent receives, a device whose worker has gone, and a rank that
completes early. `MaxSends = 1` makes a second send of a device be refused. *Phases*: the cache can
be wrong from the second phase on, and a third after a new `Runtime` tells whether generations go on
across runtimes; the third also returns to the record type of the first, whose cache the second has not touched; three
failures can fall on both ranks, or a failed construction, a failed registration and a refused call on
one. One key too many in a batch, or an edge read as two keys, is what `MaxBcopy` and `SizeOf` leave
room for. The instance has 263,792 states. *Recorder*: a message from another rank, a buffer for another rank and one for the own make
every measured operation happen, inside each kind of call; with two workers a snapshot that is half
read can be overtaken in either. *Profile output*: after a first
output and a failed second, the third profile finds a file, a queue and a retry at once; one death
can fall on any step, and the process after it finds the file. *Bucket plan*: with five buckets for
four ranks one bucket can hold several quotas, ranks can be idle, and buckets without keys can lie
anywhere, the end included; the proofs make it independent of the size. *Ranking*: three threads give
a first, a middle and a last chunk, and chunks may be empty. *Benchmark*: the layouts of
`MCNasRun.tla` are chosen for what can differ: borders that move between iterations because of the
changed keys, ranks without buckets, a rank with one key; two iterations after the warm-up show what
is left of an earlier one. `MaxPhases`, `MaxFailures`, `MaxCrashes`, `MaxCalls`, `MaxKeys`,
`MaxIterations` are bounds of the models; the program has none of them except the last.

**Deadlock** is checked in `exchange_*` and `bucket_plan`, which go on for ever or have an explicit
end. It is not where the program ends (`nas_*`, `mpi_sort`, `phases`, `rank_teams`,
`profile_output`) or calls are bounded (`profile_recorder`, `profile_progress`); there the liveness
properties say that the end is the right one, except in `rank_teams` and the runs of the
recorder, where only safety is checked.

**Fairness.** Every assumption is weak fairness, and of two kinds. A thread or process that can go on
does: `ThreadStep`, `RankStep`, `WriterStep`, `Step`; operating systems schedule runnable threads,
and all waiting in this code is a loop that polls. What has arrived is seen by whoever polls:
the loops in `barrier`, `allocate_upacket_blocking`, the send retry and `progress()` call LCI's
progress until it delivers; in `NasRun` that is the fairness of `Receive`, in `MpiSort` that of a
collective all have entered. No fairness is assumed of the application's failures, of process death
or of the order of messages. `WF` of a whole thread, not of each action, is assumed: a thread with a
message to take and a condition to leave its loop may do either.

**The cache and the names of states.** The code looks at the key of a cache entry, and then uses the
pointer beside it without another look. So do `Matches` and `WorkerBuffers`. What the pointer points
to is named by the state it was made for, a name that is never used twice, so that an entry whose key
matches may yet point to the buffers of a state that is gone: a generation given out twice is enough
(the mistake `KeepGeneration`). That is what `BuffersAreCurrent` excludes; it says nothing of the key.

**Throws in the registration.** A rank may throw, and make the call again, before it has a handler,
between handler and completion, and with the completion registered before it enters the barrier,
while the other ranks wait there (`BarrierFails`). Two things are assumed. *That LCI gives a completion
that was deregistered out again* (`Recycles`): the rank then has the number the others have, and a
sender names its own. Without it the rank would come back with another number and name a completion
its receivers do not have: with `Recycles` false and `BarrierFails` allowed TLC finds `PhasesApart`
violated, so that the model leaves that throw out when `Recycles` is false; all the properties hold with
both values (266,672 states with false). Nothing in `src/` says how LCI numbers completions, so this
is not listed as a disagreement in section 6. *That a barrier does not throw after the rank has arrived
in it*: the others would leave it, post, and send to a rank whose handler the catch block has
removed, and this call of `set_am_handler()` cannot be made again, because nobody waits for it.

**The benchmark models.** In `NasRun` a rank records the collectives it enters, and the k-th call of
one rank meets the k-th of every other, as LCI's do; a broadcast lets the root go at once, a
reduction everybody but the root, so that ranks drift apart as far as the code lets them. `Jobs` are
the whole inputs: number of ranks, what rank 0 reads from `NPB_NPROCS_STRICT`, its timer flag, the
generated keys, and which tabulated reference ranks are wrong. A tabulated rank is otherwise the true
one: that makes `VerdictRight` an equivalence, success if and only if the tables are right. In `MpiSort`
a collective in which all wait for all is one step; `MPI_Send` waits until the receive is posted, the
case in which a wrong order of calls would hang. `EndsWithRightVerdict` says both that the processes
end and how. Both models assume that no test key is the first key of a bucket
(`KeyAssumption`, `SortAssumption`): the code would read the entry before the cumulative counts.

**Functions.** `KeyGeneration` has no behaviour. `OneStream` (`MCNasRun`), an assumption that TLC
evaluates with a run, has what `find_my_seed()` is for: with halves of three bits in place of 23, 1, 2,
4 and 8 ranks generate together the keys one rank would, from every odd seed. It needs that the number
of random numbers of a rank is a power of two, which it is in all classes; with 9 keys on 3 ranks the
streams would overlap.

## 4. What is proved

Eight modules hold the proofs; every theorem is for all values of the constants that satisfy the
assumptions named here.

* **`AmExchange_proofs`** from `SizeAssumption` (there is a rank, a worker, a device, room for a
  value and for a send), `RecordAssumption` (finitely many values, each with a home and a
  destination) and `ExpectedAssumption` (what `BucketPlan_proofs` proves of the plan). The invariant
  `IInv` (`AmExchangeInv`) follows a value on its way: share of its worker, `push()` waiting for a
  packet, buffer, network, received batch, handler. `HandledAtMostOnce` is not inductive by itself:
  a value still in a buffer after it was sent could be sent again, so that the invariant must say
  that a value is at one place at a time (`SenderInv`, `NetInv`, `ReceiverInv`, `HandledInv`), with
  the buffer between an accepted send and `release()` as the one exception (`HandedOver`). `CountInv`
  says that `recv_count` is the number of values handled in batches that have been counted, whence
  `CompletionSound` by a counting argument: the expected number is the number of values for the rank,
  so the counted ones are all of them. `FlushInv` says which destinations `flush()` has passed,
  whence no value is left when the handler is cleared. `ControlInv` ties workers to ranks, whence
  `NoStrayMessage`. `Refinement`: every step is a step of `AmDelivery` or leaves it unchanged, so
  the safety part of `AmDelivery` is implemented.
  `PacketInv` is a second invariant on top of it, for the packets: a worker waits for one only for a
  buffer that is empty (`WaitInv`), and a message whose send is incomplete holds values no buffer
  can send again, so that the message of a new send is none of them (`BusyInv`). With it
  `PacketConservation` and `BufferBounded` are inductive, and `NoPacketDeadlock` follows by counting:
  an empty pool with nothing in flight would mean that every buffer of the rank holds a packet, the
  one that waits included.
  The module also has the example: for every number of ranks `TypedAmExchange` meets
  `RecordAssumption` (`RecordsHaveRanks`) and `ExpectedAssumption` (`ExpectedIsSent`), so that these
  theorems hold of it.
* **`AmPhases_proofs`** from `PhaseAssumption` (types have a size that fits, there are finitely many
  worker indices, the phases' plans are between ranks of the job; any set of phases may end with a new
  `Runtime`). The invariant `IInv` (`AmPhasesInv`) has two arguments. Where a rank is tells how many
  barriers it has entered (`Ticket`), so that a rank in the exchange knows that every other has
  registered its handler for this phase (`StartedInv`), and with the same number of completions
  since LCI was initialised, or the same one recycled (`Rcomp`), so that the completion a sender names
  is the receiver's, also after a registration was undone and made again. And a
  rank leaves a phase only when `recv_count` has reached the number of values planned for it: the
  handled values of the phase are a subset of them of the same size (`CountInv`), so all are handled
  and none can arrive later. The rest of it says for each point of the code what a rank holds
  (`LifeInv`), which is what the paths of failures have to restore, and where each value is
  (`SenderInv`, `MessageInv`, `ReceiverInv`). From it follow `PhasesApart`, `ReceiveBuffersGoBack`,
  `NothingLeft` and `ClearLosesNothing`. `CacheInv` says that a generation in a cache has been given
  out, and that an entry with the generation of the active state points to buffers of that state;
  it gives the two action properties `BuffersAreCurrent` and `GenerationIsFresh`.
* **`BucketPlan_proofs`** from `PlanAssumption` (sizes are positive, the arrays have an entry per
  rank). `AssignInv` is the invariant of the loop over the buckets: which ranks have an interval, that
  it is the next after the one before it and reached its quota with its last bucket and not before
  (`HasInterval`), and that the running sums are totals up to known buckets. `PlanInv` adds ranks
  left without buckets and that intervals end with the last key, `SumInv` the sums over lesser ranks. From it
  follow `KeysHaveOwner`, `ExpectedIsRouted`, `RangeIsRouted`, `LesserIsLesserRanks` and
  `LoadBalanced`; `TypeOK` has that no array is written out of bounds.
* **`CountBuckets_proofs`** from `CountAssumption`. `LoopInv` has what each private array has counted,
  `CriticalInv` that the thread named by the critical section is the only one inside (`MergeIsExclusive`)
  and that what it loaded is still current, `MergeInv` that the shared count of a bucket is the number
  of the iterations of those threads that have merged it; when all have, that is `CountsOfIteration`.
* **`CountBuckets_proofs`**, second part: `LocalRanks`, from `RankAssumption`. `RankInv` counts barriers: where a thread is tells how
  many it has come to (`BarrierCounts`) and how many all others must have (`BarrierOrder`), so that
  sums are complete when scanned and offsets when used (`FirstPass`, `Cells`); from it `NoDataRace`
  and `RanksAreCounts`.
* **`ProfileWriter_proofs`** from `ThreadAssumption`. `IInv` has the mutex (`MutexInv`), the content
  of the temporary file at each step (`TemporaryInv`), what each caller was promised (`PromiseInv`)
  and `Ledger`; from it `FileIntact`, `ReturnsWhenWritten` and that the writer implements
  `ProfileLog`.
* **`ProfileRecorder_proofs`** from `RecorderAssumption`. Between two additions of an operation no
  counter need be right. `CountInv` therefore says which operation each busy thread is recording, and
  that a counter is the tally of the operations made, but for those whose addition to it is still to
  come; when nobody is busy that is `AttributionExact`. It needs that calls nest in one way only, a
  flush inside a post, and that the index a scope puts back is that of the call around it
  (`StackInv`), and that no operation is measured twice (`OwnerInv`). `recv_count` is added to last,
  so it never exceeds the received records of the aggregate; counters only grow, so what a reader has
  loaded, with what it would load now, covers what it saw (`SnapshotInv`), whence
  `SnapshotCoversCount`. `RowsExact` adds that every counter is loaded exactly once, at the place
  where the writer looks for it.
* **`NasRun_proofs`** from `RunAssumption`, `ShareAssumption` and `KeyAssumption`, for every number of
  ranks, keys, buckets, test keys and iterations. The invariant `IInv` (`NasRunInv`) has two layers.
  `Control` is the order of calls alone: where a rank is tells how many collectives it has entered
  (`CallNumber`) and `Script` which the k-th is, so that `CollectivesMatch` follows; `BarrierInv` is
  what a rank past a barrier knows of the others. Upon it stand the values. `ValueInv`: what a rank
  gave to the two reductions and broadcasts of an iteration are the counts of its slice of the keys
  as they are then, and their sums; hence all have the same plan (`DataInv`), though each computes it
  for itself and maybe long before another. `ExchangeInv`: a key on its way is one its source has for
  its destination in a pass, and the destination is in that pass; that no other pass can meet it
  needs that a rank which has left an exchange got everything for it (`Finished`). This is the
  counting argument of the whole benchmark: the expected count is the size of the rank's interval in the
  reduced counts, the received keys are a subset of those routed to it, and a subset of the same size
  is all of them (`AllArrived`). With `MessagesMeetTheirPhase` comes `HistogramExact`, for a rank
  whose key range is not longer than its histogram (`RangesFit`). That condition is not idle: the histogram
  has the length `compute_work_buffer_size()` gives it (`run_rules.cpp:51`), nothing compares a key
  range with it, and keys that are mostly equal can leave one rank the range of nearly all buckets.
  `VerifyInv`, inductive given `IInv`, follows what is verified. The counts of a histogram up to a key,
  with the keys of lesser ranks, are the number of all keys up to it, since routing ascends with the keys
  (`CumulativeIs`, `PlaceIs`); the reduction leaves each test key in the counts because one rank has
  it and all others add zero (`HiddenIs`), and one rank has it in its range. So a rank's counter is
  the number of its right tests in the iterations verified so far (`VerifyOf`; zero again after the
  warm-up), the sort puts at each index the key that belongs there (`SortedOf`, whence `SortedOutput`),
  and the key sent on is one of the sender's range (`ChainInv`), which is why `full_verify()` counts
  one success on each rank (`FindsOrder`). The tests of all the ranks partition the right tests
  (`Together`), whence `VerdictRight`. Two hypotheses, both about the job alone, are conditions the
  code relies on and does not check. `KeysFit`: the keys and the key range the plan gives a rank
  fit in its buffers, in every iteration. `NeighboursHaveKeys`: no rank with keys follows one without;
  without it the comparison is with a key that is not the sender's, see section 6. The jobs of
  `nas_run` meet both, the one of `nas_empty_neighbour` does not meet the second.
  The module also has the generator, for every positive `t23` in place of 2^23. `Product`: seed times
  multiplier is a multiple of `t46` and what `randlc()` adds up of the halves; with the uniqueness of
  remainders (`Quotient`, `Shift`) that gives `RandlcIsProduct`, the multiplication modulo 2^46.
  `RandlcFits` bounds all sums and all truncations by twice the modulus or its root, which is why
  doubles and ints may be taken as integers. `KeyInRange`: a key is below `max_key`. What
  `find_my_seed()` computes for every rank is an induction over its loops and stays with `OneStream`.

* **`MpiSort_proofs`** from `SortAssumption`, for every number of ranks, keys, buckets, test keys and
  iterations. In the baseline no rank is told where the keys it gets begin: sender and receiver each
  derive it, and what is proved is that they agree. The invariant `IInv` (`MpiSortInv`) says first
  that ranks which meet in a collective of `rank()` are in the same iteration (`Together`: they have
  returned from equally many reductions), and then, call by call, what a rank has in terms of all the
  keys as they are in that iteration (`TrueKeys`, of which it has the slice `SliceOf`): its counts
  (`Counted`), `key_buff1` in the order of the buckets (`Ordered`), the totals and their division
  (`Summed`, `Divided`), its counts and displacements for sending (`Sends`) and for receiving
  (`Receives`). None of that is in `KeysArrive`, which says nothing before the exchange is over, and
  all of it is overwritten in each iteration by ranks that go on at their own pace. The argument of
  the exchange: the place of a key in `key_buff1` is behind all keys of lesser buckets, so the keys
  for rank `d` are one piece that begins where those for lesser ranks end (`PieceIs`); the pieces
  `d` receives do not overlap (`PiecesApart`); hence each key has a place of its own in `key_buff2`
  (`TargetIs`, `TargetsDiffer`), these places are the first ones, as many as the totals let the rank
  expect (`ExpectedIs`), and an injection between finite sets of the same size leaves none of them to
  older contents (`AllArrive`). The one hypothesis of `Arrives` is `KeysFit`: the keys of each rank
  fit in a buffer, which is 3/2 to 13/2 of the average long (`is.c:336`), and which the code does
  not check. The instance of `mpi_sort` has buffers for all the keys, longer than the code's, so that
  it meets `KeysFit` whatever the layout, and layouts that would overflow are not seen.

`IInv` of each module, `PacketInv`, `VerifyInv`, `HandledAtMostOnce`, `ClearNeverFails`, `MergeIsExclusive`,
`GenerationIsFresh` and the `TypeOK` of the exchange, the phases, the counting, the ranking and the
writer are proved and are not listed in a run; TLC has agreed to the invariants among them on the
instances above before they were proved, for `NasRun` and
`MpiSort` with fewer jobs.

**Only model-checked.** Liveness (`Termination`, `DestructorEnds`, `AllPhasesEnd`, `AllRanksEnd`,
`EndsWithRightVerdict` and the liveness part of `ImplementsDelivery`): out of the prover's reach.
The verdict of the baseline is part of such a property, `EndsWithRightVerdict`, so that
`MpiSort_proofs` goes as far as the exchange and not to `full_verify()`.

## 5. What is not modelled

* `load_record()` of `am_message.hpp`: bytes and alignment; a message is a set of values, with its size
  where record types differ (`AmPhases`).
* The default limits of `allocate_devices()`: numbers given to LCI. `MaxSends` of the exchange is at
  least one, as the code's lower bound of four has it.
* Machine widths: the models have mathematical integers, so that `(last + 1) << bucket_shift` in the
  largest class, which is 2^31, is not seen. Where signed arithmetic wraps, subtracting 1 gives the
  right value again. The generator's own arithmetic fits (`RandlcFits`). The baseline's copy of it,
  the same lines in `is.c`, is not mapped a second time.
* `compute_work_buffer_size()`: a constant of `NasRun`; whether a rank's keys fit depends on the keys
  (`RangesFit` and `KeysFit`, the hypotheses of `HistogramCounts`, `KeysSorted` and `VerdictCorrect`).
  `size_of_buffers` of the baseline likewise (`KeysFit` of `MpiSortInv`, the hypothesis of `Arrives`).
* Clock readings, text, JSON, CSV, parsing of environment variables, and the elapsed times and bytes
  of a profile: no behaviour depends on them.
* A power failure: process death keeps what the kernel has; the code does not call `fsync`.
* A client that breaks the library's rules (clears without joining its workers, a handler that
  throws, destroys the `Runtime` with values in a buffer, which ends the process).
* Whether sends are complete when the `Runtime` is destroyed: `am_send_completion_` is counted up by
  LCI and never waited for, so that it is LCI's finalisation that must drain them.
* LCI's own failures, except those the code handles.

## 6. Where the code and its documents disagree

* **Surplus ranks** (`nas_surplus_ranks`, a mistake in the code). With a process count that is not a
  power of two and `NPB_NPROCS_STRICT` off, the ranks beyond the largest power of two return from
  `initialize()` and leave `main()`. The baseline splits its communicator at this point
  (`mpi_sort` has such a job, and it ends); the LCI version goes on with collectives of all the
  ranks, in which the active ones wait for ever, although `reporting.cpp:51` announces the run.
* **Neighbour without keys** (`nas_empty_neighbour`). `verification.cpp:219` says that the largest key
  is sent; a rank without keys sends the first of the keys it generated. If that is greater than the
  neighbour's least key, the neighbour reports keys out of sort although they are sorted. It needs a
  bucket without keys between others, so that layout is not among the jobs of `nas_run` and
  `mpi_sort` (the baseline does the same).
* **Progress calls** (`profile_progress`). `README.md:179` and `:182` list user-visible progress calls
  among what profiling records statistics for; `progress_worker()` (`irregular_runtime.cpp:121`) sets
  the worker scope and measures nothing, so that the `progress` rows of every profile are zero.
  `ProgressRecorded` says that the aggregate row has the calls the application has made. The
  properties of `profile_recorder` are about the operations that are measured (`Measurable`) and
  leave the values of that row open.
* **Phase numbers** (no run). Every row of a profile file has `"phase":0`: the recorder
  is made with 0 (`am_phase.hpp:105`) and `set_phase_sequence()` is never called. Profiles of several phases can only be told apart by
  their name and place in the file.

## 7. Plan

Done: the exchange with its abstract specification, phases, record types and life cycle, profile
recorder and writer, bucket plan, bucket counting, local ranking, key generation, the example, the whole
benchmark and the MPI baseline; proofs for the exchange with its packets and the example, the phases,
the recorder and the writer, the plan, the counting, the ranking, the generator, and for the benchmark its
order of calls, its plans, its histograms, its sorted keys and its verdict, and for the baseline its
exchange.

Next, in this order:

1. The baseline's ranking, sort and verdict as invariants of their own, proved upon `IInv` of
   `MpiSortInv` as `NasRun_proofs` does it.
2. An abstract sort that both `NasRun` and `MpiSort` implement (generated keys to sorted keys, a
   verdict), in place of their separate end-to-end properties.
3. Machine widths of `bucket_plan.cpp` and `run_rules.cpp` with the class tables.
