---------------------------- MODULE AmExchangeInv ----------------------------
(***************************************************************************)
(* The inductive invariant of AmExchange.                                  *)
(*                                                                         *)
(* A value moves through the exchange in one direction: share of a worker, *)
(* push() waiting for a packet, send buffer, network, received batch,      *)
(* handler.  The invariant says that it is at one of these places at a     *)
(* time, that recv_count() counts the values that have left the last one,  *)
(* and which part of the walk over the destinations flush() has done.      *)
(***************************************************************************)
EXTENDS AmExchange

(* Where a worker may be while its rank's am_state is "barrier" at most.   *)
Outside == {"idle", "barrier"}
Sending == {"send", "posted", "loopback"}

(* A value the sender has not handed over yet.  While a worker is between  *)
(* an accepted send, or a loopback delivery, and release(), the buffer it  *)
(* is sending still holds values that are no longer the sender's.          *)
HandedOver(t, d) == pc[t] \in {"posted", "loopback"} /\ dst[t] = d

Unsent(v) ==
  \/ v \in todo[Home[v]]
  \/ cur[Home[v]] = v
  \/ v \in send_buffers[Home[v]][Dest[v]] /\ ~HandedOver(Home[v], Dest[v])

(* How the points of the workers go with the state of the ranks.           *)
ControlInv ==
  /\ \A t \in Thread : pc[t] \in Outside <=> am_state[RankOf(t)] \in {"none", "barrier"}
  /\ \A t \in Thread : pc[t] = "barrier" =>
       t = Master(RankOf(t)) /\ am_state[RankOf(t)] = "barrier"
  /\ \A t \in Thread : pc[t] \notin Outside => \A r \in Rank : am_state[r] # "none"
  /\ net # {} => \A r \in Rank : am_state[r] # "none"
  /\ \A t \in Thread : am_state[RankOf(t)] \in {"cleared", "failed"} => pc[t] = "done"
  /\ \A t \in Thread : pc[t] = "done" => recv_count[RankOf(t)] >= Expected[RankOf(t)]
  /\ \A t \in Thread : batch[t] # {} => pc[t] \in Progressing \cup {"loopback"}
  /\ \A t \in Thread : pc[t] = "alloc" => cur[t] # None
  /\ \A t \in Thread : pc[t] = "send" => send_buffers[t][dst[t]] # {}

(* What the sender holds.                                                  *)
SenderInv ==
  /\ \A t \in Thread : \A v \in todo[t] : Home[v] = t
  /\ \A t \in Thread : cur[t] # None => Home[cur[t]] = t /\ cur[t] \notin todo[t]
  /\ \A t \in Thread : \A d \in Rank : \A v \in send_buffers[t][d] :
       Home[v] = t /\ Dest[v] = d /\ v \notin todo[t] /\ cur[t] # v

(* What the network holds.                                                 *)
NetInv ==
  /\ \A m \in net : m.recs # {}
  /\ \A m \in net : \A v \in m.recs : Dest[v] = m.dst /\ ~Unsent(v)
  /\ \A m, n \in net : m.recs \cap n.recs # {} => m = n

(* What the receiver holds.                                                *)
ReceiverInv ==
  /\ \A t \in Thread : left[t] \subseteq batch[t]
  /\ \A t \in Thread : \A v \in batch[t] :
       Dest[v] = RankOf(t) /\ ~Unsent(v) /\ \A m \in net : v \notin m.recs
  /\ \A t, u \in Thread : batch[t] \cap batch[u] # {} => t = u

(* What the handlers have been given.                                      *)
HandledInv ==
  /\ \A r \in Rank : \A v \in Records : got[r][v] \in {0, 1}
  /\ \A r \in Rank : \A v \in Records : got[r][v] = 1 =>
       /\ Dest[v] = r
       /\ ~Unsent(v)
       /\ \A m \in net : v \notin m.recs
       /\ \A t \in Thread : v \notin left[t]
  /\ \A t \in Thread : \A v \in batch[t] \ left[t] : got[RankOf(t)][v] = 1

(* recv_count() lags behind the handlers by the batches being received.    *)
Counted(r) ==
  {v \in Records : got[r][v] = 1 /\ \A t \in Thread : v \notin batch[t]}

CountInv == \A r \in Rank : recv_count[r] = Cardinality(Counted(r))

(* The destinations flush() has passed are empty, but for the one it is    *)
(* sending; and a worker that flushes has posted its whole share.          *)
FlushProgress(t) ==
  /\ visited[t] # 0 => pc[t] \in Sending \cup {"flush", "wait", "done"}
  /\ \A j \in 0 .. visited[t] - 1 :
       \/ send_buffers[t][FlushTarget(t, j)] = {}
       \/ pc[t] \in Sending /\ dst[t] = FlushTarget(t, j)
  /\ pc[t] \in {"wait", "done"} =>
       \A j \in 0 .. NRanks - 1 : send_buffers[t][FlushTarget(t, j)] = {}
  /\ visited[t] # 0 \/ pc[t] \in {"flush", "wait", "done"} => todo[t] = {}

FlushInv ==
  /\ \A t \in Thread : FlushProgress(t)
  /\ \A r \in Rank : am_state[r] # "failed"

(* The inductive invariant.  It is stronger than HandledAtMostOnce,        *)
(* CompletionSound, NoStrayMessage and ClearNeverFails together.           *)
IInv ==
  /\ TypeOK
  /\ ControlInv
  /\ SenderInv
  /\ NetInv
  /\ ReceiverInv
  /\ HandledInv
  /\ CountInv
  /\ FlushInv

-----------------------------------------------------------------------------
(* The packets, on top of IInv.  A worker waits for a packet only for a    *)
(* buffer that is empty, and it starts no send of one; the messages whose  *)
(* send is not complete hold values that no buffer can send again, so that *)
(* the message of a new send is none of them.                              *)
WaitInv ==
  /\ \A t \in Thread : pc[t] = "alloc" =>
       options.use_upacket /\ send_buffers[t][Dest[cur[t]]] = {}
  /\ \A t \in Thread : pc[t] \in Sending => send_buffers[t][dst[t]] # {}

BusyInv ==
  /\ IsFiniteSet(busy)
  /\ \A m \in busy : m.recs # {} /\ \A v \in m.recs : ~Unsent(v)

PacketInv ==
  /\ WaitInv
  /\ BusyInv
  /\ PacketConservation
  /\ BufferBounded
=============================================================================
