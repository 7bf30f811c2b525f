--------------------------- MODULE ProfileRecorder ---------------------------
(***************************************************************************)
(* The profile of one active-message phase on one rank while its threads   *)
(* run: AmProfileRecorder with its relaxed counters, and the thread-local  *)
(* worker index that ProfileWorkerScope sets for the duration of a call    *)
(* and restores after it.                                                  *)
(*                                                                         *)
(* A thread calls post_am(), flush() and progress() of any worker handler, *)
(* or waits in a barrier.  Inside each of them it may progress a device    *)
(* and receive a message; post_am() may flush a full buffer, and a flush   *)
(* to the own rank receives its message at once.  A measured operation     *)
(* adds to the aggregate and, if it belongs to a worker, to that worker's  *)
(* counters: one atomic addition after the other.  am_profile() reads them *)
(* one after the other while other threads go on.  The end of the phase    *)
(* submits a last snapshot, which becomes rows of the output file.         *)
(*                                                                         *)
(* A progress() call is not measured, although there are counters and rows *)
(* for it: module MCProfileProgress has what becomes of them.              *)
(*                                                                         *)
(* Of the four counters of an operation calls and records are modelled.    *)
(* The counters are relaxed, but recv_count_ is added to and read with     *)
(* acquire and release, so that reading them in program order is sound.    *)
(***************************************************************************)
EXTENDS Integers, Sequences, FiniteSets

CONSTANTS
  Threads,
  worker_count,    \* ProfilingOptions::worker_count; a greater index is refused
  Incoming,        \* messages from other ranks, with record_count[m] values each
  Buffered,        \* messages this rank sends, each by one flush
  Loopback,        \* those of them it sends to itself
  record_count,
  MaxCalls         \* bound of the calls of each thread

ASSUME RecorderAssumption ==
  /\ worker_count \in Nat
  /\ Loopback \subseteq Buffered
  /\ record_count \in [Incoming \cup Buffered -> Nat \ {0}]
  /\ MaxCalls \in Nat

NoWorker == -1
Worker == 0 .. worker_count - 1

(* The aggregate, then the workers, as snapshot() and the writer go        *)
(* through them.                                                           *)
Aggregate == -1
Scope == Aggregate .. worker_count - 1
Operations == <<"flush", "progress", "remote_receive", "loopback_receive">>
Operation == {Operations[i] : i \in 1 .. Len(Operations)}
Counters == <<"calls", "records">>
Counter == {"calls", "records"}

VARIABLES
  enabled,      \* ProfilingOptions::enabled
  current,      \* current_profile_worker_storage() of each thread
  frames,       \* the calls each thread is in, with the index their scope restores
  recording,    \* the additions a thread still has to make, in order
  counters,     \* aggregate_ and workers_
  recv_count,
  seen,         \* recv_count() as the thread read it before am_profile()
  snapshot,     \* what its am_profile() has read so far
  submitted,    \* the profile queued at the end of the phase, none when disabled
  ended,        \* has the phase ended
  arriving,     \* messages not yet received
  unsent,       \* buffers not yet flushed
  calls,        \* number of calls each thread has made
  owner         \* for each measured operation done, the worker whose call it was in

profile == <<counters, recv_count>>
queries == <<seen, snapshot>>
ending == <<submitted, ended>>
vars == <<enabled, current, frames, recording, profile, queries, ending, arriving, unsent,
          calls, owner>>

Zero == [o \in Operation |-> [c \in Counter |-> 0]]

Init ==
  /\ enabled \in BOOLEAN
  /\ current = [t \in Threads |-> NoWorker]
  /\ frames = [t \in Threads |-> << >>]
  /\ recording = [t \in Threads |-> << >>]
  /\ counters = [s \in Scope |-> Zero]
  /\ recv_count = 0
  /\ seen = [t \in Threads |-> 0]
  /\ snapshot = [t \in Threads |-> << >>]
  /\ submitted = << >>
  /\ ended = FALSE
  /\ arriving = Incoming
  /\ unsent = Buffered
  /\ calls = [t \in Threads |-> 0]
  /\ owner = {}

Set(f, t, x) == [f EXCEPT ![t] = x]
Top(t) == frames[t][Len(frames[t])]
Running(t) == recording[t] = << >>
In(t, kinds) == frames[t] # << >> /\ Top(t).kind \in kinds

-----------------------------------------------------------------------------
(* AmProfileRecorder::record(): nothing when disabled, else the additions  *)
(* it makes, in this order; a receive outside every worker scope goes to   *)
(* the aggregate alone.                                                    *)
Add(scope, operation, counter, n) ==
  [scope |-> scope, operation |-> operation, counter |-> counter, by |-> n]

AddOperation(scope, operation, n) ==
  <<Add(scope, operation, "calls", 1), Add(scope, operation, "records", n)>>

LastLeftOut(operation, worker, n) ==                              \* fault
  IF ~enabled THEN << >>
  ELSE AddOperation(Aggregate, operation, n)
       \o IF worker \in Worker \ {worker_count - 1}
          THEN AddOperation(worker, operation, n) ELSE << >>
Additions(operation, worker, n) ==
  IF ~enabled THEN << >>
  ELSE AddOperation(Aggregate, operation, n)
       \o IF worker \in Worker THEN AddOperation(worker, operation, n) ELSE << >>

(* receive_message_impl(): the handler runs, the receive is recorded for   *)
(* the worker found before it ran, and then recv_count_ grows.             *)
Count(n) == <<Add(Aggregate, "receive", "recv_count", n)>>

CountBefore(operation, worker, n) ==                              \* fault
  Count(n) \o Additions(operation, worker, n)
ReceiveSteps(operation, worker, n) ==
  Additions(operation, worker, n) \o Count(n)

(* What the counters must come to: the operation m was measured in a call  *)
(* of this worker.                                                         *)
Measured(operation, m, worker) ==
  owner' = owner \cup {[operation |-> operation, message |-> m, worker |-> worker]}

Record(t) ==
  /\ ~Running(t)
  /\ recording' = [recording EXCEPT ![t] = Tail(@)]
  /\ LET next == Head(recording[t])
     IN  IF next.counter = "recv_count"
         THEN recv_count' = recv_count + next.by /\ UNCHANGED counters
         ELSE /\ counters' =
                   [counters EXCEPT ![next.scope][next.operation][next.counter] = @ + next.by]
              /\ UNCHANGED recv_count
  /\ UNCHANGED <<enabled, current, frames, queries, ending, arriving, unsent, calls, owner>>

-----------------------------------------------------------------------------
(* ProfileWorkerScope around a call; it does nothing when disabled.        *)
Frame(t, kind, worker, m) ==
  [kind |-> kind, worker |-> worker, message |-> m, previous |-> current[t]]

Enter(t, kind, worker, m) ==
  /\ frames' = [frames EXCEPT ![t] = Append(@, Frame(t, kind, worker, m))]
  /\ current' = IF enabled THEN Set(current, t, worker) ELSE current

KeepWorker(t) == current[t]                                       \* fault
Restored(t) == Top(t).previous

Outermost(t) == frames[t] = << >> /\ Running(t)

(* The application begins a call, while the phase is active.               *)
Begin(t) ==
  /\ Outermost(t)
  /\ ~ended
  /\ calls[t] < MaxCalls
  /\ calls' = [calls EXCEPT ![t] = @ + 1]
  /\ UNCHANGED <<enabled, recording, profile, snapshot, ending, arriving, owner>>

PostAm(t, w) ==
  /\ Begin(t)
  /\ Enter(t, "post", w, {})
  /\ UNCHANGED <<seen, unsent>>

Progress(t, w) ==
  /\ Begin(t)
  /\ Enter(t, "progress", w, {})
  /\ UNCHANGED <<seen, unsent>>

(* A barrier progresses the control device without any scope.              *)
Wait(t) ==
  /\ Begin(t)
  /\ frames' = Set(frames, t, <<Frame(t, "barrier", NoWorker, {})>>)
  /\ UNCHANGED <<current, seen, unsent>>

(* flush_dest() of a buffer that is not empty, called by flush() or by a   *)
(* post_am() that has filled it.                                           *)
Flush(t, w) ==
  \E m \in unsent :
    /\ Begin(t)
    /\ Enter(t, "flush", w, {m})
    /\ unsent' = unsent \ {m}
    /\ UNCHANGED seen

FlushFull(t) ==
  \E m \in unsent :
    /\ In(t, {"post"}) /\ Running(t)
    /\ frames' = Set(frames, t, <<[Top(t) EXCEPT !.kind = "filled"],
                                 Frame(t, "flush", Top(t).worker, {m})>>)
    /\ current' = IF enabled THEN Set(current, t, Top(t).worker) ELSE current
    /\ unsent' = unsent \ {m}
    /\ UNCHANGED <<enabled, recording, profile, queries, ending, arriving, calls, owner>>

(* A message is received while the thread progresses a device: it waits in *)
(* push() for a packet, in a flush for a send to be taken, or in the other *)
(* two calls.  A flush to the own rank sends nothing.                      *)
OwnMessage(t) == Top(t).message \cap Loopback

Receive(t, m) ==
  /\ In(t, {"post", "flush", "progress", "barrier"}) /\ Running(t)
  /\ OwnMessage(t) = {}
  /\ arriving' = arriving \ {m}
  /\ recording' = Set(recording, t,
                      ReceiveSteps("remote_receive", current[t], record_count[m]))
  /\ Measured("remote_receive", m, Top(t).worker)
  /\ UNCHANGED <<enabled, current, frames, profile, queries, ending, unsent, calls>>

(* post_send_buffer() delivers a message to the own rank itself.           *)
Delivered(m) == \E e \in owner : e.operation = "loopback_receive" /\ e.message = m

ReceiveOwn(t) ==
  /\ In(t, {"flush"}) /\ Running(t)
  /\ \E m \in OwnMessage(t) :
       /\ ~Delivered(m)
       /\ recording' = Set(recording, t,
                           ReceiveSteps("loopback_receive", current[t], record_count[m]))
       /\ Measured("loopback_receive", m, Top(t).worker)
  /\ UNCHANGED <<enabled, current, frames, profile, queries, ending, arriving, unsent, calls>>

(* The call returns; a flush is recorded after its scope has ended.        *)
Leave(t) ==
  /\ frames' = [frames EXCEPT ![t] = SubSeq(@, 1, Len(@) - 1)]
  /\ current' = IF enabled THEN Set(current, t, Restored(t)) ELSE current

Return(t) ==
  /\ In(t, {"post", "filled", "progress", "barrier"}) /\ Running(t)
  /\ Leave(t)
  /\ UNCHANGED <<enabled, recording, profile, queries, ending, arriving, unsent, calls, owner>>

ReturnFromFlush(t) ==
  /\ In(t, {"flush"}) /\ Running(t)
  /\ \A m \in OwnMessage(t) : Delivered(m)
  /\ Leave(t)
  /\ \E m \in Top(t).message :
       /\ recording' = Set(recording, t, Additions("flush", Top(t).worker, record_count[m]))
       /\ Measured("flush", m, Top(t).worker)
  /\ UNCHANGED <<enabled, profile, queries, ending, arriving, unsent, calls>>

-----------------------------------------------------------------------------
(* am_profile(), after the application has read recv_count(): snapshot()   *)
(* loads the counters of the aggregate and then of each worker, operation  *)
(* by operation, and puts each where operation_profile() says.             *)
PerScope == Len(Operations) * Len(Counters)
Loads == PerScope * (1 + worker_count)

(* Scope, operation and counter of the n-th load.                          *)
Place(n) ==
  <<Aggregate + ((n - 1) \div PerScope),
    Operations[1 + (((n - 1) % PerScope) \div Len(Counters))],
    Counters[1 + ((n - 1) % Len(Counters))]>>

Load(n) == counters[Place(n)[1]][Place(n)[2]][Place(n)[3]]

OperationProfile(values) ==
  [s \in Scope |-> [o \in Operation |-> [c \in Counter |->
     values[CHOOSE n \in 1 .. Loads : Place(n) = <<s, o, c>>]]]]

(* Bound: one thread at a time asks.                                       *)
CallAmProfile(t) ==
  /\ Begin(t)
  /\ \A u \in Threads : ~In(u, {"am_profile"})
  /\ frames' = Set(frames, t, <<Frame(t, "am_profile", NoWorker, {})>>)
  /\ seen' = Set(seen, t, recv_count)
  /\ UNCHANGED <<current, unsent>>

LoadCounter(t) ==
  /\ In(t, {"am_profile"})
  /\ enabled
  /\ Len(snapshot[t]) < Loads
  /\ snapshot' = [snapshot EXCEPT ![t] = Append(@, Load(Len(@) + 1))]
  /\ UNCHANGED <<enabled, current, frames, recording, profile, seen, ending, arriving, unsent,
                 calls, owner>>

ReturnProfile(t) ==
  /\ In(t, {"am_profile"})
  /\ enabled => Len(snapshot[t]) = Loads
  /\ Leave(t)
  /\ snapshot' = Set(snapshot, t, << >>)
  /\ seen' = Set(seen, t, 0)
  /\ UNCHANGED <<enabled, recording, profile, ending, arriving, unsent, calls, owner>>

(* finalize_profile(), when clear_am_handler() finds the workers joined    *)
(* and everything sent and received.                                       *)
FinalizeProfile ==
  /\ ~ended
  /\ \A t \in Threads : Outermost(t)
  /\ arriving = {} /\ unsent = {}
  /\ ended' = TRUE
  /\ submitted' = IF enabled THEN <<OperationProfile([n \in 1 .. Loads |-> Load(n)])>>
                  ELSE << >>
  /\ UNCHANGED <<enabled, current, frames, recording, profile, queries, arriving, unsent, calls,
                 owner>>

(* write_worker_rows(), for the aggregate and for each worker.             *)
ReceivesSwapped(operation) ==                                     \* fault
  CASE operation = "remote_receive" -> "loopback_receive"
    [] operation = "loopback_receive" -> "remote_receive"
    [] OTHER -> operation
ValuesOf(operation) == operation

Row(p, k) ==
  LET scope == Aggregate + ((k - 1) \div Len(Operations))
      operation == Operations[1 + ((k - 1) % Len(Operations))]
  IN  [scope |-> scope, operation |-> operation, values |-> p[scope][ValuesOf(operation)]]

Rows(p) == [k \in 1 .. Len(Operations) * (1 + worker_count) |-> Row(p, k)]

-----------------------------------------------------------------------------
Call(t, w) == PostAm(t, w) \/ Progress(t, w) \/ Flush(t, w)

Next ==
  \/ \E t \in Threads :
       \/ \E w \in Worker : Call(t, w)
       \/ Wait(t)
       \/ FlushFull(t)
       \/ \E m \in arriving : Receive(t, m)
       \/ ReceiveOwn(t)
       \/ Record(t)
       \/ Return(t)
       \/ ReturnFromFlush(t)
       \/ CallAmProfile(t)
       \/ LoadCounter(t)
       \/ ReturnProfile(t)
  \/ FinalizeProfile

Spec == Init /\ [][Next]_vars

-----------------------------------------------------------------------------
(* Type invariant; a thread in no call has no worker index set, whatever   *)
(* calls it made and however they were nested.                             *)
TypeOK ==
  /\ current \in [Threads -> Worker \cup {NoWorker}]
  /\ \A t \in Threads : frames[t] = << >> => current[t] = NoWorker
  /\ \A t \in Threads : Len(frames[t]) <= 2 /\ Len(recording[t]) <= 5
  /\ counters \in [Scope -> [Operation -> [Counter -> Nat]]]
  /\ recv_count \in Nat
  /\ arriving \subseteq Incoming /\ unsent \subseteq Buffered
  /\ calls \in [Threads -> 0 .. MaxCalls]

(* The worker of the scope, and for the aggregate everybody.               *)
Within(scope) == IF scope = Aggregate THEN Worker \cup {NoWorker} ELSE {scope}

MadeIn(operation, scope) ==
  {e \in owner : e.operation = operation /\ e.worker \in Within(scope)}

(* What each counter comes to after a set of operations: their number, and *)
(* the number of values they handled.                                      *)
ValuesOfAll(S) == UNION {{e} \X (1 .. record_count[e.message]) : e \in S}
Tally(counter, S) ==
  IF counter = "calls" THEN Cardinality(S) ELSE Cardinality(ValuesOfAll(S))

Expected(operation, scope) ==
  [c \in Counter |-> Tally(c, MadeIn(operation, scope))]

(* The operations that are measured; progress calls are not.               *)
Measurable == Operation \ {"progress"}

(* When no thread is between two additions, the counters of a worker are   *)
(* those of the operations measured inside its own calls, whichever thread *)
(* made them and whatever was nested in them, and the aggregate is that of *)
(* all operations, those of a barrier, in no worker's call, included.      *)
(* (record(), measure_receive(), ProfileWorkerScope.)                      *)
AttributionExact ==
  enabled /\ (\A t \in Threads : Running(t)) =>
    \A o \in Measurable, s \in Scope : counters[s][o] = Expected(o, s)

(* A profile covers what was counted before it was asked for: if an        *)
(* application reads recv_count() and then am_profile(), while other       *)
(* threads receive on, the profile has at least that many received values, *)
(* although it is read counter by counter.                                 *)
(* (receive_message_impl(), snapshot().)                                   *)
SnapshotCoversCount ==
  \A t \in Threads : Len(snapshot[t]) = Loads =>
    LET p == OperationProfile(snapshot[t])[Aggregate]
    IN  seen[t] <= p["remote_receive"]["records"] + p["loopback_receive"]["records"]

(* What is written for a phase has one row for each operation of the       *)
(* aggregate and of each worker, for a measured one with the totals of     *)
(* just that operation over the whole phase; nothing is written when       *)
(* profiling is disabled.                                                  *)
(* (finalize_profile(), snapshot(), operation_profile(),                   *)
(* write_worker_rows().)                                                   *)
RowsExact ==
  /\ ~enabled => submitted = << >>
  /\ \A i \in 1 .. Len(submitted) :
       \A o \in Operation, s \in Scope :
         LET mine == {k \in DOMAIN Rows(submitted[i]) :
                        /\ Rows(submitted[i])[k].scope = s
                        /\ Rows(submitted[i])[k].operation = o}
         IN  /\ Cardinality(mine) = 1
             /\ o \in Measurable =>
                  \A k \in mine : Rows(submitted[i])[k].values = Expected(o, s)

=============================================================================
