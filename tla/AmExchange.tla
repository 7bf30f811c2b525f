----------------------------- MODULE AmExchange -----------------------------
(***************************************************************************)
(* One active-message phase of lci_irregular, from set_am_handler() to     *)
(* clear_am_handler(), on every rank and every worker thread of the job,   *)
(* driven the way redistribute_keys_with_active_messages() drives it:      *)
(*                                                                         *)
(*   register the handler, barrier, then in parallel on every worker       *)
(*     post_am() each value of the worker's share; flush();                *)
(*     while (recv_count() < expected) progress();                         *)
(*   join the workers, clear the handler.                                  *)
(*                                                                         *)
(* A worker is a thread.  Worker 0 of a rank is also the thread that       *)
(* registers, waits in the barrier and clears.  Any call that makes        *)
(* progress on a device (the barrier, waiting for a packet, the retry loop *)
(* of a send, progress()) may run the receive handler on that thread, so   *)
(* receiving is a sub-activity of a worker: batch[t] is the message it has *)
(* taken, left[t] the values of it not yet given to the handler.           *)
(*                                                                         *)
(* LCI itself is external: devices, the packet pool, a reliable network    *)
(* that may reorder messages, a bounded queue of incomplete sends per      *)
(* device whose exhaustion is what makes post_am_x return "retry".         *)
(*                                                                         *)
(* Definitions marked "fault" are mistakes one could make in the line      *)
(* below them.  No action uses them: they serve to test the properties.    *)
(***************************************************************************)
EXTENDS Naturals, FiniteSets

CONSTANTS
  NRanks,         \* rank_count
  NWorkers,       \* workers (OpenMP threads) of each rank
  NDevices,       \* RuntimeOptions::device_count
  Records,        \* the values to be sent in this phase
  Home,           \* Home[v]: the worker <<rank, index>> whose share holds v
  Dest,           \* Dest[v]: route_key(v)
  Expected,       \* Expected[r]: the application's expected receive count
  BatchRecords,   \* batch_records_, the capacity of a send buffer
  PoolSize,       \* packets an LCI process can lend to send buffers
  MaxSends,       \* sends a device can have incomplete
  None            \* no value

Rank == 0 .. NRanks - 1
Worker == 0 .. NWorkers - 1
Thread == Rank \X Worker
Device == 0 .. NDevices - 1

RankOf(t) == t[1]
DeviceOf(t) == t[2] % NDevices
Master(r) == <<r, 0>>
Sent(r) == {v \in Records : Dest[v] = r}

ASSUME SizeAssumption ==
  /\ NRanks \in Nat \ {0}
  /\ NWorkers \in Nat \ {0}
  /\ NDevices \in Nat \ {0}
  /\ BatchRecords \in Nat \ {0}
  /\ PoolSize \in Nat
  /\ MaxSends \in Nat \ {0}

ASSUME RecordAssumption ==
  /\ IsFiniteSet(Records)
  /\ Home \in [Records -> Thread]
  /\ Dest \in [Records -> Rank]
  /\ None \notin Records

(* What the bucket plan supplies (module BucketPlan): the number of values *)
(* a rank waits for is the number that the whole job sends to it.          *)
ASSUME ExpectedAssumption ==
  Expected = [r \in Rank |-> Cardinality(Sent(r))]

VARIABLES
  options,       \* AmOptions of the phase: use_upacket, use_loopback
  am_state,      \* per rank: is a handler installed, and how far is the phase
  recv_count,    \* per rank: recv_count_
  got,           \* got[r][v]: handler invocations for v on rank r
  pool,          \* per rank: packets get_upacket() can still hand out
  pc,            \* per worker: where it is
  todo,          \* per worker: values of its share not yet posted
  cur,           \* per worker: the value post_am() is waiting to push
  dst,           \* per worker: destination of the buffer being sent
  visited,       \* per worker: destinations flush_worker() has passed
  send_buffers,  \* send_buffers[t][d]: values aggregated for destination d
  batch,         \* per worker: the message it is receiving
  left,          \* per worker: values of batch not yet handled
  net,           \* messages on their way
  busy           \* messages whose send the sender has not seen complete

thread_vars == <<pc, todo, cur, dst, visited, send_buffers>>
rx_vars == <<batch, left>>
net_vars == <<net, busy>>
vars == <<options, am_state, recv_count, got, pool,
          thread_vars, rx_vars, net_vars>>

Message == [src : Rank, dst : Rank, dev : Device, recs : SUBSET Records]

(* The points of a worker's code at which LCI may run the receive handler  *)
(* on its thread.                                                          *)
Progressing == {"barrier", "alloc", "send", "posted", "wait"}

-----------------------------------------------------------------------------
(* Every rank starts outside the phase, with empty buffers and a full pool. *)
Init ==
  /\ options \in [use_upacket : BOOLEAN, use_loopback : BOOLEAN]
  /\ am_state = [r \in Rank |-> "none"]
  /\ recv_count = [r \in Rank |-> 0]
  /\ got = [r \in Rank |-> [v \in Records |-> 0]]
  /\ pool = [r \in Rank |-> PoolSize]
  /\ pc = [t \in Thread |-> "idle"]
  /\ todo = [t \in Thread |-> {v \in Records : Home[v] = t}]
  /\ cur = [t \in Thread |-> None]
  /\ dst = [t \in Thread |-> RankOf(t)]
  /\ visited = [t \in Thread |-> 0]
  /\ send_buffers = [t \in Thread |-> [d \in Rank |-> {}]]
  /\ batch = [t \in Thread |-> {}]
  /\ left = [t \in Thread |-> {}]
  /\ net = {}
  /\ busy = {}

-----------------------------------------------------------------------------
(* set_am_handler(): the handler and the transport are installed, then the *)
(* rank enters the barrier.                                                *)
Register(r) ==
  /\ am_state[r] = "none"
  /\ am_state' = [am_state EXCEPT ![r] = "barrier"]
  /\ pc' = [pc EXCEPT ![Master(r)] = "barrier"]
  /\ UNCHANGED <<options, recv_count, got, pool, todo, cur, dst, visited,
                 send_buffers, rx_vars, net_vars>>

(* The barrier lets a rank go when every rank has entered it; the parallel *)
(* region then starts all workers of the rank.                             *)
BarrierSkipped == TRUE   \* fault
AllEntered == \A s \in Rank : am_state[s] # "none"

LeaveBarrier(r) ==
  /\ am_state[r] = "barrier"
  /\ batch[Master(r)] = {}
  /\ AllEntered
  /\ am_state' = [am_state EXCEPT ![r] = "active"]
  /\ pc' = [t \in Thread |-> IF RankOf(t) = r THEN "post" ELSE pc[t]]
  /\ UNCHANGED <<options, recv_count, got, pool, todo, cur, dst, visited,
                 send_buffers, rx_vars, net_vars>>

-----------------------------------------------------------------------------
(* The sending side.                                                       *)

(* Start post_send_buffer() for destination d: deliver in place when the   *)
(* destination is the worker's own rank and loopback is on, otherwise      *)
(* enter the retry loop.  content is what the buffer holds.                *)
StartSend(t, d, content) ==
  /\ dst' = [dst EXCEPT ![t] = d]
  /\ IF d = RankOf(t) /\ options.use_loopback
     THEN /\ pc' = [pc EXCEPT ![t] = "loopback"]
          /\ batch' = [batch EXCEPT ![t] = content]
          /\ left' = [left EXCEPT ![t] = content]
     ELSE /\ pc' = [pc EXCEPT ![t] = "send"]
          /\ UNCHANGED rx_vars

(* SendBuffer::push() of value v and, in post_record(), the flush of a     *)
(* buffer that has reached its capacity.                                   *)
FullTooLate(content) == Cardinality(content) > BatchRecords   \* fault
Full(content) == Cardinality(content) = BatchRecords

Push(t, v) ==
  LET d == Dest[v]
      content == send_buffers[t][d] \cup {v}
  IN  /\ send_buffers' = [send_buffers EXCEPT ![t][d] = content]
      /\ IF Full(content)
         THEN StartSend(t, d, content)
         ELSE /\ pc' = [pc EXCEPT ![t] = "post"]
              /\ UNCHANGED <<dst, rx_vars>>

(* The first value of a buffer needs a packet; with malloc storage, or     *)
(* with a packet already held, push() needs nothing.                       *)
NeedsPacketAlways(t, v) == options.use_upacket   \* fault
NeedsPacket(t, v) == options.use_upacket /\ send_buffers[t][Dest[v]] = {}

TakePacket(t) == pool' = [pool EXCEPT ![RankOf(t)] = @ - 1]

(* post_am() when the value can be pushed at once.                         *)
PostRecord(t) ==
  /\ pc[t] = "post"
  /\ \E v \in todo[t] :
       /\ IF NeedsPacket(t, v)
          THEN pool[RankOf(t)] > 0 /\ TakePacket(t)
          ELSE UNCHANGED pool
       /\ todo' = [todo EXCEPT ![t] = @ \ {v}]
       /\ Push(t, v)
  /\ UNCHANGED <<options, am_state, recv_count, got, cur, visited, net_vars>>

(* post_am() when get_upacket() returns null: allocate_upacket_blocking()  *)
(* makes progress until a packet comes back.                               *)
AwaitPacket(t) ==
  /\ pc[t] = "post"
  /\ \E v \in todo[t] :
       /\ NeedsPacket(t, v)
       /\ pool[RankOf(t)] = 0
       /\ todo' = [todo EXCEPT ![t] = @ \ {v}]
       /\ cur' = [cur EXCEPT ![t] = v]
  /\ pc' = [pc EXCEPT ![t] = "alloc"]
  /\ UNCHANGED <<options, am_state, recv_count, got, pool, dst, visited,
                 send_buffers, rx_vars, net_vars>>

GetPacket(t) ==
  /\ pc[t] = "alloc"
  /\ batch[t] = {}
  /\ pool[RankOf(t)] > 0
  /\ TakePacket(t)
  /\ Push(t, cur[t])
  /\ cur' = [cur EXCEPT ![t] = None]
  /\ UNCHANGED <<options, am_state, recv_count, got, todo, visited, net_vars>>

(* The loop over the worker's share is over; flush() begins.               *)
EndPosting(t) ==
  /\ pc[t] = "post"
  /\ todo[t] = {}
  /\ pc' = [pc EXCEPT ![t] = "flush"]
  /\ UNCHANGED <<options, am_state, recv_count, got, pool, todo, cur, dst,
                 visited, send_buffers, rx_vars, net_vars>>

(* flush_worker() walks the destinations from the worker's own rank on.    *)
FlushTarget(t, i) == (RankOf(t) + i) % NRanks

Unvisited(t) == visited[t] .. NRanks - 1

FlushDest(t) ==
  /\ pc[t] = "flush"
  /\ \E i \in Unvisited(t) :
       /\ send_buffers[t][FlushTarget(t, i)] # {}
       /\ \A j \in visited[t] .. i - 1 : send_buffers[t][FlushTarget(t, j)] = {}
       /\ visited' = [visited EXCEPT ![t] = i + 1]
       /\ StartSend(t, FlushTarget(t, i), send_buffers[t][FlushTarget(t, i)])
  /\ UNCHANGED <<options, am_state, recv_count, got, pool, todo, cur,
                 send_buffers, net_vars>>

EndFlush(t) ==
  /\ pc[t] = "flush"
  /\ \A j \in Unvisited(t) : send_buffers[t][FlushTarget(t, j)] = {}
  /\ pc' = [pc EXCEPT ![t] = "wait"]
  /\ UNCHANGED <<options, am_state, recv_count, got, pool, todo, cur, dst,
                 visited, send_buffers, rx_vars, net_vars>>

(* An attempt of the retry loop that LCI accepts.  A refused attempt is a  *)
(* stuttering step followed by the progress call every attempt makes.      *)
PostAm(t) ==
  LET m == [src |-> RankOf(t), dst |-> dst[t], dev |-> DeviceOf(t),
            recs |-> send_buffers[t][dst[t]]]
  IN  /\ pc[t] = "send"
      /\ batch[t] = {}
      /\ Cardinality({b \in busy : b.src = m.src /\ b.dev = m.dev}) < MaxSends
      /\ net' = net \cup {m}
      /\ busy' = busy \cup {m}
      /\ pc' = [pc EXCEPT ![t] = "posted"]
      /\ UNCHANGED <<options, am_state, recv_count, got, pool, todo, cur, dst,
                     visited, send_buffers, rx_vars>>

(* SendBuffer::release(), after the progress call that follows an accepted *)
(* send, or after a loopback delivery, which first returns the packet: the *)
(* packet of an accepted send is LCI's to return.                          *)
NotEmptied(t) == send_buffers   \* fault
Emptied(t) == [send_buffers EXCEPT ![t][dst[t]] = {}]

AlwaysReturnsPacket(t) == options.use_upacket   \* fault
ReturnsPacket(t) == pc[t] = "loopback" /\ options.use_upacket

Release(t) ==
  /\ pc[t] \in {"posted", "loopback"}
  /\ batch[t] = {}
  /\ send_buffers' = Emptied(t)
  /\ IF ReturnsPacket(t)
     THEN pool' = [pool EXCEPT ![RankOf(t)] = @ + 1]
     ELSE UNCHANGED pool
  /\ pc' = [pc EXCEPT ![t] = IF visited[t] = 0 THEN "post" ELSE "flush"]
  /\ UNCHANGED <<options, am_state, recv_count, got, todo, cur, dst, visited,
                 rx_vars, net_vars>>

-----------------------------------------------------------------------------
(* The receiving side, run by whichever thread makes progress.             *)

ControlDevice(t) == 0   \* fault
ProgressDevice(t) == DeviceOf(t)

CanProgress(t) == pc[t] \in Progressing /\ batch[t] = {}

(* Progress hands an arrived message to handle_incoming_am().              *)
TakeMessage(t) ==
  /\ CanProgress(t)
  /\ \E m \in net :
       /\ m.dst = RankOf(t)
       /\ m.dev = ProgressDevice(t)
       /\ net' = net \ {m}
       /\ batch' = [batch EXCEPT ![t] = m.recs]
       /\ left' = [left EXCEPT ![t] = m.recs]
  /\ UNCHANGED <<options, am_state, recv_count, got, pool, thread_vars, busy>>

(* Progress sees the network completion of a send; its packet returns to   *)
(* the pool.                                                               *)
CompleteSend(t) ==
  /\ CanProgress(t)
  /\ \E m \in busy :
       /\ m.src = RankOf(t)
       /\ m.dev = ProgressDevice(t)
       /\ busy' = busy \ {m}
  /\ IF options.use_upacket
     THEN pool' = [pool EXCEPT ![RankOf(t)] = @ + 1]
     ELSE UNCHANGED pool
  /\ UNCHANGED <<options, am_state, recv_count, got, thread_vars, rx_vars, net>>

(* invoke_am_handler() for one value of the message.                       *)
InvokeHandler(t) ==
  /\ \E v \in left[t] :
       /\ left' = [left EXCEPT ![t] = @ \ {v}]
       /\ got' = [got EXCEPT ![RankOf(t)][v] = @ + 1]
  /\ UNCHANGED <<options, am_state, recv_count, pool, thread_vars, batch,
                 net_vars>>

(* recv_count_.fetch_add(record_count), after the last handler has run.    *)
Taken(t) == batch[t] # {}   \* fault
Handled(t) == batch[t] # {} /\ left[t] = {}

CountBatch(t) ==
  /\ Handled(t)
  /\ recv_count' = [recv_count EXCEPT ![RankOf(t)] = @ + Cardinality(batch[t])]
  /\ batch' = [batch EXCEPT ![t] = {}]
  /\ UNCHANGED <<options, am_state, got, pool, thread_vars, left, net_vars>>

-----------------------------------------------------------------------------
(* The worker leaves its waiting loop when recv_count() has reached the    *)
(* expected count.                                                         *)
ReceivedAll(r) == recv_count[r] >= Expected[r]

ExitWait(t) ==
  /\ pc[t] = "wait"
  /\ batch[t] = {}
  /\ ReceivedAll(RankOf(t))
  /\ pc' = [pc EXCEPT ![t] = "done"]
  /\ UNCHANGED <<options, am_state, recv_count, got, pool, todo, cur, dst,
                 visited, send_buffers, rx_vars, net_vars>>

HasBufferedRecords(r) ==
  \E t \in Thread : RankOf(t) = r /\ \E d \in Rank : send_buffers[t][d] # {}

(* clear_am_handler() after the workers have joined: it throws when values *)
(* are still buffered, otherwise it removes transport and handler.         *)
ClearAmHandler(r) ==
  /\ am_state[r] = "active"
  /\ \A t \in Thread : RankOf(t) = r => pc[t] = "done"
  /\ am_state' = [am_state EXCEPT
                    ![r] = IF HasBufferedRecords(r) THEN "failed" ELSE "cleared"]
  /\ UNCHANGED <<options, recv_count, got, pool, thread_vars, rx_vars, net_vars>>

-----------------------------------------------------------------------------
RankStep(r) == Register(r) \/ LeaveBarrier(r) \/ ClearAmHandler(r)

ThreadStep(t) ==
  \/ PostRecord(t) \/ AwaitPacket(t) \/ GetPacket(t) \/ EndPosting(t)
  \/ FlushDest(t) \/ EndFlush(t) \/ PostAm(t) \/ Release(t)
  \/ TakeMessage(t) \/ CompleteSend(t) \/ InvokeHandler(t) \/ CountBatch(t)
  \/ ExitWait(t)

(* Every rank has ended its phase and the job is over.                     *)
Terminated ==
  /\ \A r \in Rank : am_state[r] \in {"cleared", "failed"}
  /\ UNCHANGED vars

Next ==
  \/ \E r \in Rank : RankStep(r)
  \/ \E t \in Thread : ThreadStep(t)
  \/ Terminated

Spec == Init /\ [][Next]_vars

(* Threads are scheduled, and a thread in a loop that makes progress does  *)
(* see the messages and completions that have reached its device.          *)
Fairness ==
  /\ \A r \in Rank : WF_vars(RankStep(r))
  /\ \A t \in Thread : WF_vars(ThreadStep(t))

FairSpec == Spec /\ Fairness

-----------------------------------------------------------------------------
(* Properties.                                                             *)

(* Every variable stays within its type; in particular the pool never owns *)
(* more packets than it was created with.                                  *)
TypeOK ==
  /\ options \in [use_upacket : BOOLEAN, use_loopback : BOOLEAN]
  /\ am_state \in [Rank -> {"none", "barrier", "active", "cleared", "failed"}]
  /\ recv_count \in [Rank -> Nat]
  /\ got \in [Rank -> [Records -> Nat]]
  /\ pool \in [Rank -> Nat]
  /\ pc \in [Thread -> {"idle", "barrier", "post", "alloc", "send", "posted",
                        "loopback", "flush", "wait", "done"}]
  /\ todo \in [Thread -> SUBSET Records]
  /\ cur \in [Thread -> Records \cup {None}]
  /\ dst \in [Thread -> Rank]
  /\ visited \in [Thread -> 0 .. NRanks]
  /\ send_buffers \in [Thread -> [Rank -> SUBSET Records]]
  /\ batch \in [Thread -> SUBSET Records]
  /\ left \in [Thread -> SUBSET Records]
  /\ net \subseteq Message
  /\ busy \subseteq Message

(* A key is counted into the histogram of the rank it is routed to, there  *)
(* only, and at most once: no aggregation buffer is sent twice, and no     *)
(* value is delivered both by loopback and through the network.            *)
HandledAtMostOnce ==
  \A r \in Rank : \A v \in Records :
    got[r][v] <= IF Dest[v] = r THEN 1 ELSE 0

(* When recv_count() reaches the expected count, which lets the workers    *)
(* leave their loops and the application read what the handler wrote,      *)
(* every value for this rank has been handled, no message for it is on the *)
(* way and no worker of it is still inside the handler.                    *)
CompletionSound ==
  \A r \in Rank : recv_count[r] >= Expected[r] =>
    /\ \A v \in Sent(r) : got[r][v] = 1
    /\ \A m \in net : m.dst # r
    /\ \A t \in Thread : RankOf(t) = r => batch[t] = {}

(* A message reaches a rank only while a handler is installed there: after *)
(* the registration that precedes the barrier, and before                  *)
(* clear_am_handler() removes the transport.  handle_incoming_am() would   *)
(* otherwise terminate the process.                                        *)
NoStrayMessage ==
  /\ \A m \in net : am_state[m.dst] \in {"barrier", "active"}
  /\ \A t \in Thread : batch[t] # {} =>
       am_state[RankOf(t)] \in {"barrier", "active"}

(* clear_am_handler() never throws: a worker's flush() leaves none of the  *)
(* rank's buffers filled, whatever the handler and the other workers did   *)
(* meanwhile.                                                              *)
ClearNeverFails == \A r \in Rank : am_state[r] # "failed"

(* The packet a non-empty send buffer holds.  From the moment LCI accepts  *)
(* the send the packet is LCI's, although release() comes later.           *)
HoldsPacket(t, d) ==
  send_buffers[t][d] # {} /\ ~(pc[t] = "posted" /\ dst[t] = d)

Held(r) == {p \in Thread \X Rank : RankOf(p[1]) = r /\ HoldsPacket(p[1], p[2])}
InFlight(r) == {m \in busy : m.src = r}

(* No packet is lost or returned twice: those in the pool, those in the    *)
(* send buffers and those of incomplete sends are always all of them.      *)
PacketConservation ==
  options.use_upacket =>
    \A r \in Rank :
      pool[r] + Cardinality(Held(r)) + Cardinality(InFlight(r)) = PoolSize

(* With a packet for each send buffer of the rank, a worker that waits in  *)
(* allocate_upacket_blocking() while the pool is empty waits for a send of *)
(* its rank to complete, never for a packet that only another buffer,      *)
(* perhaps its own, could give back.                                       *)
NoPacketDeadlock ==
  PoolSize >= NWorkers * NRanks =>
    \A t \in Thread :
      pc[t] = "alloc" /\ pool[RankOf(t)] = 0 => InFlight(RankOf(t)) # {}

(* A send buffer never outgrows its capacity, so a message never exceeds   *)
(* the eager size: the buffer that reaches batch_records_ is sent before   *)
(* the next push.                                                          *)
BufferBounded ==
  \A t \in Thread : \A d \in Rank :
    /\ Cardinality(send_buffers[t][d]) <= BatchRecords
    /\ Cardinality(send_buffers[t][d]) = BatchRecords =>
         pc[t] \in {"send", "posted", "loopback"} /\ dst[t] = d

(* What the application sees of a phase: AmDelivery.                       *)
Delivery == INSTANCE AmDelivery WITH
  Source <- [v \in Records |-> RankOf(Home[v])],
  posted <- {v \in Records : v \notin todo[Home[v]]},
  got    <- got,
  ended  <- {r \in Rank : am_state[r] = "cleared"}

(* The exchange implements AmDelivery: each step is a post, a handler run, *)
(* the end of a rank's phase or invisible, and with fair threads every     *)
(* value is handled and every rank gets out of the phase.                  *)
ImplementsDelivery == Delivery!Spec

(* With a packet for every send buffer, every rank gets out of the phase   *)
(* with its handler cleared: neither the barrier, nor the wait for a       *)
(* packet, nor the retry of a send, nor the wait for recv_count() leaves   *)
(* the ranks waiting for each other, although a worker that has left its   *)
(* loop no longer progresses its device.                                   *)
Termination == <>(\A r \in Rank : am_state[r] = "cleared")
=============================================================================
