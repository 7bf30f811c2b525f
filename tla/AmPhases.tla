------------------------------ MODULE AmPhases ------------------------------
(***************************************************************************)
(* The life of Runtime objects: construction with its error paths, one     *)
(* active-message phase after the other, destruction, and a new Runtime in *)
(* the same process.  The inside of a phase is coarse here (module         *)
(* AmExchange has it): a value goes into a buffer, a flush sends the       *)
(* buffered values, a message is received at once.  What is modelled are   *)
(* the things that outlive a phase or must be undone after it:             *)
(*                                                                         *)
(*   - the thread-local cache of worker buffers: a pointer beside its key, *)
(*     the generation number of the phase and the worker index;            *)
(*   - the generation counter, a static of the process;                    *)
(*   - the record type and the post function of the active handler, which  *)
(*     every post is checked against, and the kind of buffer that received *)
(*     messages come in and must be given back as;                         *)
(*   - the remote completion a sender names in its messages, its own       *)
(*     am_rcomp_, which the receiver looks up in its own table;            *)
(*   - LCI, the devices, the send counter and g_runtime_for_am, which the  *)
(*     constructor's catch block and the destructor release.               *)
(*                                                                         *)
(* A rank has one thread that posts and flushes, using the worker indices  *)
(* by turns, as the copyable WorkerHandler allows, and any number of       *)
(* others that only make progress: a message is received beside it.  A     *)
(* call that throws is made again by the application (the constructor and  *)
(* set_am_handler() are collective, so that the other ranks are waiting    *)
(* for it).  What becomes of the profile of a phase is in module           *)
(* ProfileWriter.  The application may forget a flush, as                  *)
(* clear_am_handler() tells it; before the destructor, which would end the *)
(* process, it does not.                                                   *)
(***************************************************************************)
EXTENDS Naturals, FiniteSets, Sequences

CONSTANTS
  NRanks,        \* rank_count
  NDevices,      \* RuntimeOptions::device_count
  Workers,       \* worker indices
  MaxPhases,     \* number of phases of the program
  Plan,          \* Plan[p][r]: the <<worker, destination>> pairs rank r posts to in phase p
  Types,         \* record types
  SizeOf,        \* SizeOf[t]: sizeof(Record)
  RecordType,    \* RecordType[p]: the record type of phase p
  UsePacket,     \* UsePacket[p]: AmOptions::use_upacket in phase p
  BatchRequests, \* values of AmOptions::batch_records
  MaxBcopy,      \* lci::get_max_bcopy_size()
  Restart,       \* phases after which the Runtime is destroyed and a new one is made
  LeaveActive,   \* phases that end with the destructor, without clear_am_handler()
  Recycles,      \* LCI gives a deregistered remote completion out again
  MaxFailures    \* bound of the calls that throw

Rank == 0 .. NRanks - 1
Phase == 1 .. MaxPhases

ASSUME PhaseAssumption ==
  /\ NRanks \in Nat \ {0}
  /\ NDevices \in Nat \ {0}
  /\ MaxPhases \in Nat \ {0}
  /\ MaxBcopy \in Nat
  /\ IsFiniteSet(Workers)
  /\ Plan \in [Phase -> [Rank -> SUBSET (Workers \X Rank)]]
  /\ "none" \notin Types
  /\ SizeOf \in [Types -> 1 .. MaxBcopy]
  /\ RecordType \in [Phase -> Types]
  /\ UsePacket \in [Phase -> BOOLEAN]
  /\ BatchRequests \subseteq Nat /\ 0 \in BatchRequests
  /\ Restart \subseteq Phase
  /\ LeaveActive \subseteq Restart
  /\ Recycles \in BOOLEAN

(* The number of values that rank r receives in phase p.                   *)
Expected(p, r) ==
  Cardinality({x \in Rank \X Workers : <<x[2], r>> \in Plan[p][x[1]]})

NoType == "none"
NoState == [id |-> 0, generation |-> 0, phase |-> 0, type |-> NoType]

(* The buffers of a worker belong to the state they were made for, which   *)
(* has a name of its own, whatever generation it has and wherever in the   *)
(* memory it is.  A cache entry points to such buffers, or is null.        *)
NoBuffers == [state |-> 0, worker |-> 0]
NoCache == [generation |-> 0, worker |-> 0, buffers |-> NoBuffers]

VARIABLES
  pc,                \* where the application thread of a rank is
  phase,             \* the phase it is in or will enter next
  entered,           \* number of barriers it has entered
  failures,
  lci,               \* has it initialized LCI
  devices,           \* number of devices allocated
  send_completion,   \* is am_send_completion_ allocated
  g_runtime,         \* is g_runtime_for_am set
  am_state,          \* the state of the active phase
  dispatch,          \* the type in am_record_type_ and post_am_dispatch_
  am_handler,        \* the kind of buffer lci_am_handler_ takes, "none" when not allocated
  am_rcomp,          \* am_rcomp_, 0 when not registered
  registry,          \* LCI's table of remote completions
  next_rcomp,        \* the next one LCI gives out
  am_receive_uses_upacket,
  next_generation,   \* g_next_am_cache_generation
  states,            \* number of states constructed: the name of the last
  cache,             \* worker_buffer_cache() of the thread, one for each record type
  used,              \* the buffers the last post or flush used
  buffered,          \* the values in all the buffers
  todo,              \* what is still to be posted in this phase
  recv_count,
  net,               \* messages on their way
  handled,           \* handler invocations: the message and the state that handled it
  receiving,         \* receive buffers whose values are counted, not yet given back
  returned,          \* given back: kind of the buffer, kind it was taken for
  aborted            \* has a message met no handler

control == <<pc, phase, entered, failures>>
resources == <<lci, devices, send_completion, g_runtime>>
active == <<am_state, dispatch, states>>
transport == <<am_handler, am_rcomp, registry, next_rcomp, am_receive_uses_upacket>>
buffers == <<cache, used, buffered, todo>>
given == <<receiving, returned>>
delivery == <<recv_count, net, handled, given, aborted>>
vars == <<control, resources, active, transport, next_generation, buffers, delivery>>

PerRank(x) == [r \in Rank |-> x]

Init ==
  /\ pc = PerRank("down")
  /\ phase = PerRank(1)
  /\ entered = PerRank(0)
  /\ failures = 0
  /\ lci = PerRank(FALSE)
  /\ devices = PerRank(0)
  /\ send_completion = PerRank(FALSE)
  /\ g_runtime = PerRank(FALSE)
  /\ am_state = PerRank(NoState)
  /\ dispatch = PerRank(NoType)
  /\ am_handler = PerRank("none")
  /\ am_rcomp = PerRank(0)
  /\ registry = PerRank({})
  /\ next_rcomp = PerRank(1)
  /\ am_receive_uses_upacket = PerRank(FALSE)
  /\ next_generation = PerRank(1)
  /\ states = PerRank(0)
  /\ cache = PerRank([type \in Types |-> NoCache])
  /\ used = PerRank(NoBuffers)
  /\ buffered = PerRank({})
  /\ todo = PerRank({})
  /\ recv_count = PerRank(0)
  /\ net = {}
  /\ handled = {}
  /\ receiving = {}
  /\ returned = {}
  /\ aborted = PerRank(FALSE)

Set(f, r, x) == [f EXCEPT ![r] = x]
Goto(r, label) == pc' = Set(pc, r, label)

(* The barrier of the constructor and of set_am_handler(): enter, and      *)
(* leave when all the ranks have entered it.                               *)
NoWait(r) == TRUE                                                 \* fault
AllEntered(r) == \A s \in Rank : entered[s] >= entered[r]

Fail == failures < MaxFailures /\ failures' = failures + 1

-----------------------------------------------------------------------------
(* Runtime::Runtime().                                                     *)
InitLci(r) ==
  /\ pc[r] = "down"
  /\ phase[r] <= MaxPhases
  /\ lci' = Set(lci, r, TRUE)
  /\ next_rcomp' = Set(next_rcomp, r, 1)
  /\ Goto(r, "devices")
  /\ UNCHANGED <<phase, entered, failures, devices, send_completion, g_runtime, active,
                 am_handler, am_rcomp, registry, am_receive_uses_upacket, next_generation,
                 buffers, delivery>>

AllocateDevice(r) ==
  /\ pc[r] = "devices"
  /\ devices[r] < NDevices
  /\ devices' = [devices EXCEPT ![r] = @ + 1]
  /\ UNCHANGED <<control, lci, send_completion, g_runtime, active, transport,
                 next_generation, buffers, delivery>>

AllocateCounter(r) ==
  /\ pc[r] = "devices"
  /\ devices[r] = NDevices
  /\ send_completion' = Set(send_completion, r, TRUE)
  /\ g_runtime' = Set(g_runtime, r, TRUE)
  /\ Goto(r, "attach")
  /\ UNCHANGED <<phase, entered, failures, lci, devices, active, transport, next_generation,
                 buffers, delivery>>

EnterBarrier(r) ==
  /\ \/ pc[r] = "attach" /\ Goto(r, "constructing")
     \/ pc[r] = "enter" /\ Goto(r, "barrier")
  /\ entered' = [entered EXCEPT ![r] = @ + 1]
  /\ UNCHANGED <<phase, failures, resources, active, transport, next_generation, buffers,
                 delivery>>

Constructed(r) ==
  /\ pc[r] = "constructing"
  /\ AllEntered(r)
  /\ Goto(r, "idle")
  /\ UNCHANGED <<phase, entered, failures, resources, active, transport, next_generation,
                 buffers, delivery>>

(* release_am_transport().  Where LCI recycles completions, the one that   *)
(* was deregistered is the next one it gives out.                          *)
Deregister(r) ==
  /\ registry' = [registry EXCEPT ![r] = @ \ {am_rcomp[r]}]
  /\ next_rcomp' =
       IF Recycles /\ am_rcomp[r] # 0 THEN Set(next_rcomp, r, am_rcomp[r]) ELSE next_rcomp
  /\ am_rcomp' = Set(am_rcomp, r, 0)
  /\ am_receive_uses_upacket' = Set(am_receive_uses_upacket, r, FALSE)

KeepHandler(r) == Deregister(r) /\ UNCHANGED am_handler           \* fault
ReleaseTransport(r) == Deregister(r) /\ am_handler' = Set(am_handler, r, "none")

(* The releases the catch block and the destructor share.                  *)
ReleaseResources(r) ==
  /\ g_runtime' = Set(g_runtime, r, FALSE)
  /\ devices' = Set(devices, r, 0)
  /\ send_completion' = Set(send_completion, r, FALSE)
  /\ lci' = Set(lci, r, FALSE)

(* LCI, a device or the counter cannot be had, or the barrier throws       *)
(* before it is entered: the catch block.                                  *)
ConstructorFails(r) ==
  /\ pc[r] \in {"down", "devices", "attach"} /\ phase[r] <= MaxPhases
  /\ Fail
  /\ ReleaseTransport(r)
  /\ ReleaseResources(r)
  /\ Goto(r, "down")
  /\ UNCHANGED <<phase, entered, active, next_generation, buffers, delivery>>

-----------------------------------------------------------------------------
(* set_am_handler(): a generation for the cache, the state and its         *)
(* dispatch; when the batch size does not fit (choose_batch_records()) the *)
(* generation is spent and nothing else has changed.                       *)
KeepGeneration(r) == UNCHANGED next_generation                    \* fault
AllocateGeneration(r) == next_generation' = [next_generation EXCEPT ![r] = @ + 1]

BatchFits(type, requested) == requested <= MaxBcopy \div SizeOf[type]

SetAmHandler(r) ==
  /\ pc[r] = "idle"
  /\ phase[r] <= MaxPhases
  /\ \E b \in BatchRequests : BatchFits(RecordType[phase[r]], b)
  /\ AllocateGeneration(r)
  /\ states' = [states EXCEPT ![r] = @ + 1]
  /\ am_state' = Set(am_state, r, [id |-> states[r] + 1, generation |-> next_generation[r],
                                  phase |-> phase[r], type |-> RecordType[phase[r]]])
  /\ dispatch' = Set(dispatch, r, RecordType[phase[r]])
  /\ recv_count' = Set(recv_count, r, 0)
  /\ Goto(r, "register")
  /\ UNCHANGED <<phase, entered, failures, resources, transport, buffers, net, handled, given,
                 aborted>>

BatchTooLarge(r) ==
  /\ pc[r] = "idle"
  /\ phase[r] <= MaxPhases
  /\ \E b \in BatchRequests : ~BatchFits(RecordType[phase[r]], b)
  /\ Fail
  /\ AllocateGeneration(r)
  /\ UNCHANGED <<pc, phase, entered, resources, active, transport, buffers, delivery>>

AlreadyRegistered(r) == am_handler[r] # "none" \/ am_rcomp[r] # 0

AllocateHandler(r) ==
  /\ pc[r] = "register"
  /\ ~AlreadyRegistered(r)
  /\ am_handler' = Set(am_handler, r, IF UsePacket[phase[r]] THEN "packet" ELSE "heap")
  /\ Goto(r, "rcomp")
  /\ UNCHANGED <<phase, entered, failures, resources, active, am_rcomp, registry, next_rcomp,
                 am_receive_uses_upacket, next_generation, buffers, delivery>>

RegisterRcomp(r) ==
  /\ pc[r] = "rcomp"
  /\ am_rcomp' = Set(am_rcomp, r, next_rcomp[r])
  /\ registry' = [registry EXCEPT ![r] = @ \union {next_rcomp[r]}]
  /\ next_rcomp' = [next_rcomp EXCEPT ![r] = @ + 1]
  /\ am_receive_uses_upacket' = Set(am_receive_uses_upacket, r, UsePacket[phase[r]])
  /\ Goto(r, "enter")
  /\ UNCHANGED <<phase, entered, failures, resources, active, am_handler, next_generation,
                 buffers, delivery>>

(* clear_am_dispatch(), and the end of the state.                          *)
ClearAmDispatch(r) == dispatch' = Set(dispatch, r, NoType)
DropState(r) == am_state' = Set(am_state, r, NoState) /\ ClearAmDispatch(r) /\ UNCHANGED states

(* The catch blocks, of register_am_transport() and of set_am_handler(),   *)
(* and the call again.                                                     *)
RegistrationFails(r) ==
  /\ pc[r] \in {"register", "rcomp"}
  /\ Fail
  /\ ReleaseTransport(r)
  /\ DropState(r)
  /\ Goto(r, "idle")
  /\ UNCHANGED <<phase, entered, resources, next_generation, buffers, delivery>>

(* The barrier throws before it is entered, and the others are waiting in  *)
(* it: the registration is undone.  Where LCI does not recycle completions *)
(* this is left out: the rank would come back with one the others do not   *)
(* have, and name it in its messages to them.                              *)
ForgetRegistration(r) ==                                          \* fault
  UNCHANGED transport
UndoRegistration(r) == ReleaseTransport(r)

BarrierFails(r) ==
  /\ pc[r] = "enter"
  /\ Recycles
  /\ Fail
  /\ UndoRegistration(r)
  /\ DropState(r)
  /\ Goto(r, "idle")
  /\ UNCHANGED <<phase, entered, resources, next_generation, buffers, delivery>>

(* A thread that is giving back a receive buffer holds up the barrier, and *)
(* the join of the workers at the end of the parallel region.              *)
NoJoin(r) == TRUE                                                 \* fault
Joined(r) == \A b \in receiving : b.message.dst # r

Registered(r) ==
  /\ pc[r] = "barrier"
  /\ AllEntered(r)
  /\ Joined(r)
  /\ todo' = Set(todo, r, Plan[phase[r]][r])
  /\ Goto(r, "exchange")
  /\ UNCHANGED <<phase, entered, failures, resources, active, transport, next_generation,
                 cache, used, buffered, delivery>>

(* worker_buffers(): what the cache entry points to when its key matches,  *)
(* else the buffers of the active state, to which the entry then points.   *)
(* The cache is a static of the state's class, which depends on the record *)
(* type: an entry may be older than the last phase, and what it points to  *)
(* gone.                                                                   *)
Cached(r) == cache[r][dispatch[r]]

MatchesWorker(r, w) == Cached(r).buffers # NoBuffers /\ Cached(r).worker = w  \* fault
Matches(r, w) ==
  /\ Cached(r).buffers # NoBuffers
  /\ Cached(r).generation = am_state[r].generation
  /\ Cached(r).worker = w

StateBuffers(r, w) == [state |-> am_state[r].id, worker |-> w]

WorkerBuffers(r, w) == IF Matches(r, w) THEN Cached(r).buffers ELSE StateBuffers(r, w)

UseBuffers(r, w) ==
  /\ cache' = IF Matches(r, w) THEN cache ELSE
       [cache EXCEPT ![r][dispatch[r]] = [generation |-> am_state[r].generation, worker |-> w,
                                          buffers |-> StateBuffers(r, w)]]
  /\ used' = Set(used, r, WorkerBuffers(r, w))

AnyType(r, type) == TRUE                                          \* fault
MatchesType(r, type) == dispatch[r] # NoType /\ dispatch[r] = type

Post(r, w, d, type) ==
  /\ pc[r] = "exchange"
  /\ <<w, d>> \in todo[r]
  /\ MatchesType(r, type)
  /\ todo' = [todo EXCEPT ![r] = @ \ {<<w, d>>}]
  /\ UseBuffers(r, w)
  /\ buffered' = [buffered EXCEPT ![r] = @ \union {<<WorkerBuffers(r, w), d, type>>}]
  /\ UNCHANGED <<control, resources, active, transport, next_generation, delivery>>

(* flush_worker() of a worker that has values: the message names the       *)
(* sender's am_rcomp_ as the completion to signal.                         *)
BuffersOf(r, w) == {b \in buffered[r] : b[1] = WorkerBuffers(r, w)}

Flush(r, w) ==
  /\ pc[r] \in {"exchange", "end"}
  /\ BuffersOf(r, w) # {}
  /\ \A d \in Rank : <<w, d>> \notin todo[r]
  /\ UseBuffers(r, w)
  /\ buffered' = [buffered EXCEPT ![r] = @ \ BuffersOf(r, w)]
  /\ net' = net \union {[phase |-> phase[r], src |-> r, worker |-> b[1].worker, dst |-> b[2],
                         type |-> b[3], rcomp |-> am_rcomp[r]] : b \in BuffersOf(r, w)}
  /\ UNCHANGED <<control, resources, active, transport, next_generation, todo, recv_count,
                 handled, given, aborted>>

(* record_count_from_message_bytes(), of a message with one value.         *)
MessageBytes(m) == SizeOf[m.type]
ValidBatch(bytes, type) == bytes % SizeOf[type] = 0
RecordCount(bytes, type) == bytes \div SizeOf[type]

(* handle_incoming_am(), in any call that progresses a device.  A message  *)
(* whose completion is not in the table, that finds no runtime or no       *)
(* state, or that is no batch of its records, ends the process.            *)
Receive(m) ==
  LET r == m.dst IN
  /\ pc[r] \in {"constructing", "barrier", "exchange"}
  /\ net' = net \ {m}
  /\ IF /\ m.rcomp \in registry[r] /\ g_runtime[r] /\ am_state[r] # NoState
        /\ ValidBatch(MessageBytes(m), am_state[r].type)
     THEN /\ recv_count' =
               [recv_count EXCEPT ![r] = @ + RecordCount(MessageBytes(m), am_state[r].type)]
          /\ handled' = handled \union {<<m, am_state[r]>>}
          /\ receiving' = receiving \union {[message |-> m, kind |-> am_handler[r]]}
          /\ UNCHANGED aborted
     ELSE /\ aborted' = Set(aborted, r, TRUE)
          /\ UNCHANGED <<recv_count, handled, receiving>>
  /\ UNCHANGED <<control, resources, active, transport, next_generation, buffers, returned>>

(* The rest of it, after the values are counted: the flag is read now.     *)
GiveBack(b) ==
  /\ receiving' = receiving \ {b}
  /\ returned' = returned \union
       {<<b.kind, IF am_receive_uses_upacket[b.message.dst] THEN "packet" ELSE "heap">>}
  /\ UNCHANGED <<control, resources, active, transport, next_generation, buffers, recv_count,
                 net, handled, aborted>>

(* recv_count() has reached the expected count in the loop of every        *)
(* worker, and the parallel region is over.                                *)
Complete(r) ==
  /\ pc[r] = "exchange"
  /\ todo[r] = {}
  /\ phase[r] \in LeaveActive => buffered[r] = {}
  /\ recv_count[r] >= Expected(phase[r], r)
  /\ Joined(r)
  /\ Goto(r, "end")
  /\ UNCHANGED <<phase, entered, failures, resources, active, transport, next_generation,
                 buffers, delivery>>

-----------------------------------------------------------------------------
(* has_buffered_records() and the end of the state, in clear_am_handler()  *)
(* and in the destructor.  Neither goes on with records in a buffer of the *)
(* state.                                                                  *)
HasBufferedRecords(r) == \E b \in buffered[r] : b[1].state = am_state[r].id

EndUnflushed(r) == ReleaseTransport(r) /\ DropState(r)            \* fault
EndState(r) ==
  /\ ~HasBufferedRecords(r)
  /\ ReleaseTransport(r)
  /\ DropState(r)

(* What the program does after a phase: the next one, a new Runtime, or    *)
(* nothing.                                                                *)
AfterPhase(r) == IF phase[r] \in Restart \union {MaxPhases} THEN "leaving" ELSE "idle"

ClearAmHandler(r) ==
  /\ pc[r] = "end"
  /\ phase[r] \notin LeaveActive
  /\ EndState(r)
  /\ phase' = [phase EXCEPT ![r] = @ + 1]
  /\ Goto(r, AfterPhase(r))
  /\ UNCHANGED <<entered, failures, resources, next_generation, buffers, delivery>>

DestroyActive(r) ==
  /\ pc[r] = "end"
  /\ phase[r] \in LeaveActive
  /\ EndState(r)
  /\ ReleaseResources(r)
  /\ phase' = [phase EXCEPT ![r] = @ + 1]
  /\ Goto(r, "down")
  /\ UNCHANGED <<entered, failures, next_generation, buffers, delivery>>

Destroy(r) ==
  /\ pc[r] = "leaving"
  /\ ReleaseTransport(r)
  /\ ReleaseResources(r)
  /\ Goto(r, "down")
  /\ UNCHANGED <<phase, entered, failures, active, next_generation, buffers, delivery>>

-----------------------------------------------------------------------------
(* Calls that are refused before they change anything: a Runtime with      *)
(* options out of range, or beside a live one; set_am_handler() in a       *)
(* phase; a call that needs the active handler, without one; a worker      *)
(* index or a destination out of range; records of another type; clear_    *)
(* am_handler() with records in a buffer.                                  *)
BadOptions(r) == pc[r] = "down" /\ phase[r] <= MaxPhases
SecondRuntime(r) == g_runtime[r]
HandlerActive(r) == am_state[r] # NoState /\ pc[r] = "exchange"
NoHandlerYet(r) == am_state[r] = NoState /\ pc[r] = "idle"
BadIndex(r) == pc[r] = "idle"
BadDestination(r) == pc[r] = "exchange"
WrongType(r) == pc[r] = "exchange" /\ \E type \in Types : ~MatchesType(r, type)
Unflushed(r) == pc[r] = "end" /\ HasBufferedRecords(r)

Refused(r) ==
  /\ \/ BadOptions(r) \/ SecondRuntime(r)
     \/ HandlerActive(r) \/ NoHandlerYet(r)
     \/ BadIndex(r) \/ BadDestination(r)
     \/ WrongType(r) \/ Unflushed(r)
  /\ Fail
  /\ UNCHANGED <<pc, phase, entered, resources, active, transport, next_generation, buffers,
                 delivery>>

Step(r) ==
  \/ InitLci(r) \/ AllocateDevice(r) \/ AllocateCounter(r) \/ Constructed(r)
  \/ SetAmHandler(r) \/ AllocateHandler(r) \/ RegisterRcomp(r) \/ EnterBarrier(r)
  \/ Registered(r)
  \/ \E w \in Workers, d \in Rank, type \in Types : Post(r, w, d, type)
  \/ \E w \in Workers : Flush(r, w)
  \/ \E m \in net : m.dst = r /\ Receive(m)
  \/ \E b \in receiving : b.message.dst = r /\ GiveBack(b)
  \/ Complete(r) \/ ClearAmHandler(r) \/ DestroyActive(r) \/ Destroy(r)

Throw(r) ==
  \/ ConstructorFails(r) \/ BatchTooLarge(r)
  \/ RegistrationFails(r) \/ BarrierFails(r) \/ Refused(r)

Next == \E r \in Rank : Step(r) \/ Throw(r)

(* The application thread of a rank keeps running; the loops of the        *)
(* barrier and of progress() see a message that has arrived.               *)
Spec == Init /\ [][Next]_vars /\ \A r \in Rank : WF_vars(Step(r))

-----------------------------------------------------------------------------
(* Phases do not mix: a value is handled by the handler of the phase in    *)
(* which it was posted, as a record of the type it was posted as, although *)
(* ranks clear, register and post at different times and the post goes     *)
(* through a function that casts the state without looking; and no message *)
(* finds a rank without runtime, handler or the completion the sender      *)
(* named.                                                                  *)
PhasesApart ==
  /\ \A h \in handled : h[1].phase = h[2].phase /\ h[1].type = h[2].type
  /\ \A r \in Rank : ~aborted[r]

(* The receive handler counts a message and then gives its buffer back,    *)
(* reading at that point the flag that clear_am_handler() resets: it goes  *)
(* back to where LCI took it from, the packet pool or the heap.            *)
ReceiveBuffersGoBack ==
  \A x \in returned : x[1] = x[2]

(* A phase that has ended on a rank has lost nothing that the rank posted  *)
(* in it, although the application may have called clear_am_handler() with *)
(* records still in a buffer: each value is handled or on its way.         *)
ClearLosesNothing ==
  \A r \in Rank, p \in Phase : p < phase[r] =>
    \A x \in Plan[p][r] :
      \E m \in net \union {h[1] : h \in handled} :
        m.phase = p /\ m.src = r /\ m.worker = x[1] /\ m.dst = x[2]

(* The buffers a post or flush works on are those of the active state and  *)
(* of the worker it was called for: never those of a state that is gone,   *)
(* although the cache keeps the pointer of a phase or Runtime that is over *)
(* and looks at its key only.                                              *)
BuffersAreCurrent ==
  [][\A r \in Rank, w \in Workers :
       (\E d \in Rank, type \in Types : Post(r, w, d, type)) \/ Flush(r, w) =>
          used'[r] = [state |-> am_state[r].id, worker |-> w]]_vars

(* Whatever call threw, and however the program ended: a rank without a    *)
(* Runtime holds nothing of LCI, a rank between phases has no transport,   *)
(* the post function is always that of the active state, and a rank never  *)
(* holds a completion it has lost track of.                                *)
NothingLeft ==
  \A r \in Rank :
    /\ pc[r] = "down" =>
         ~lci[r] /\ devices[r] = 0 /\ ~send_completion[r] /\ ~g_runtime[r]
    /\ pc[r] \in {"down", "devices", "attach", "constructing", "idle", "leaving"} =>
         am_state[r] = NoState /\ am_handler[r] = "none" /\ am_rcomp[r] = 0
    /\ dispatch[r] = am_state[r].type
    /\ registry[r] = {am_rcomp[r]} \ {0}

(* A failed call on one rank delays the others and nothing more: all the   *)
(* phases end on all the ranks.                                            *)
AllPhasesEnd == <>[](\A r \in Rank : phase[r] = MaxPhases + 1 /\ pc[r] = "down")
=============================================================================
