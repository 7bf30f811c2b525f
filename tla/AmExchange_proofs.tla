-------------------------- MODULE AmExchange_proofs --------------------------
(***************************************************************************)
(* Proofs about AmExchange, for every number of ranks, workers, devices,   *)
(* packets and values, every placement and every routing of the values.    *)
(***************************************************************************)
EXTENDS AmExchangeInv, FiniteSetTheorems, TLAPS

(* The small operators the actions are written with.                       *)
USE DEF AllEntered, Full, Unvisited, Emptied, ReturnsPacket, ProgressDevice,
        Handled, ReceivedAll

-----------------------------------------------------------------------------
(* Facts about the constants.                                              *)

(* A worker belongs to a rank, and worker 0 of a rank is one of its own.   *)
LEMMA ThreadFacts ==
  /\ \A t \in Thread : RankOf(t) \in Rank /\ DeviceOf(t) \in Device
  /\ \A r \in Rank : Master(r) \in Thread /\ RankOf(Master(r)) = r
BY SizeAssumption DEF Thread, Rank, Worker, Device, RankOf, DeviceOf, Master

LEMMA FlushTargetType ==
  ASSUME NEW t \in Thread, NEW i \in Nat
  PROVE  FlushTarget(t, i) \in Rank
BY ThreadFacts, SizeAssumption DEF FlushTarget, Rank

(* flush() visits every destination.                                       *)
LEMMA FlushTargetOnto ==
  ASSUME NEW t \in Thread, NEW d \in Rank
  PROVE  \E i \in 0 .. NRanks - 1 : FlushTarget(t, i) = d
<1>. DEFINE r == RankOf(t)
<1>1. r \in 0 .. NRanks - 1 /\ d \in 0 .. NRanks - 1 /\ NRanks \in Nat \ {0}
  BY ThreadFacts, SizeAssumption DEF Rank
<1>2. CASE r <= d
  <2>1. d - r \in 0 .. NRanks - 1 /\ r + (d - r) = d  BY <1>1, <1>2
  <2>2. d % NRanks = d  BY <1>1
  <2>. QED  BY <2>1, <2>2 DEF FlushTarget
<1>3. CASE r > d
  <2>1. d - r + NRanks \in 0 .. NRanks - 1 /\ r + (d - r + NRanks) = d + NRanks
    BY <1>1, <1>3
  <2>2. (d + NRanks) % NRanks = d  BY <1>1
  <2>. QED  BY <2>1, <2>2 DEF FlushTarget
<1>. QED  BY <1>1, <1>2, <1>3

(* The values of the phase, and the values of any set of them, are finitely *)
(* many.                                                                   *)
LEMMA RecordSets ==
  ASSUME NEW S \in SUBSET Records
  PROVE  IsFiniteSet(S) /\ Cardinality(S) \in Nat
BY RecordAssumption, FS_Subset, FS_CardinalityType

-----------------------------------------------------------------------------
(* The type invariant.                                                     *)

LEMMA InitType == Init => TypeOK
BY SizeAssumption, RecordAssumption, ThreadFacts DEF Init, TypeOK

LEMMA PoolType ==
  ASSUME TypeOK, NEW t \in Thread,
         \/ pool' = [pool EXCEPT ![RankOf(t)] = @ + 1]
         \/ pool[RankOf(t)] > 0 /\ pool' = [pool EXCEPT ![RankOf(t)] = @ - 1]
  PROVE  pool' \in [Rank -> Nat]
<1>1. RankOf(t) \in Rank /\ pool \in [Rank -> Nat]  BY ThreadFacts DEF TypeOK
<1>. QED  BY <1>1

(* What push() and the send it may start leave alone or change.            *)
LEMMA PushType ==
  ASSUME TypeOK, NEW t \in Thread, NEW v \in Records, Push(t, v)
  PROVE  /\ send_buffers' \in [Thread -> [Rank -> SUBSET Records]]
         /\ pc' \in [Thread -> {"idle", "barrier", "post", "alloc", "send", "posted",
                                "loopback", "flush", "wait", "done"}]
         /\ dst' \in [Thread -> Rank]
         /\ batch' \in [Thread -> SUBSET Records]
         /\ left' \in [Thread -> SUBSET Records]
<1>. DEFINE d == Dest[v]
            content == send_buffers[t][d] \cup {v}
<1>1. d \in Rank /\ content \in SUBSET Records
  BY RecordAssumption DEF TypeOK
<1>2. send_buffers' \in [Thread -> [Rank -> SUBSET Records]]
  BY <1>1 DEF TypeOK, Push
<1>3. CASE Cardinality(content) = BatchRecords
  <2>1. StartSend(t, d, content)  BY <1>3 DEF Push
  <2>2. dst' \in [Thread -> Rank]  BY <1>1, <2>1 DEF TypeOK, StartSend
  <2>3. CASE d = RankOf(t) /\ options.use_loopback
    <3>1. /\ pc' = [pc EXCEPT ![t] = "loopback"]
          /\ batch' = [batch EXCEPT ![t] = content]
          /\ left' = [left EXCEPT ![t] = content]
      BY <2>1, <2>3 DEF StartSend
    <3>. QED  BY <1>1, <1>2, <2>2, <3>1 DEF TypeOK
  <2>4. CASE ~(d = RankOf(t) /\ options.use_loopback)
    BY <1>1, <1>2, <2>1, <2>2, <2>4 DEF TypeOK, StartSend, rx_vars
  <2>. QED  BY <2>3, <2>4
<1>4. CASE Cardinality(content) # BatchRecords
  BY <1>1, <1>2, <1>4 DEF TypeOK, Push, rx_vars
<1>. QED  BY <1>3, <1>4

LEMMA StepType == TypeOK /\ ControlInv /\ [Next]_vars => TypeOK'
<1>. SUFFICES ASSUME TypeOK, ControlInv, [Next]_vars  PROVE TypeOK'
  OBVIOUS
<1>. USE ThreadFacts, SizeAssumption, RecordAssumption
<1>1. ASSUME NEW r \in Rank, Register(r)  PROVE TypeOK'
  BY <1>1 DEF TypeOK, Register, rx_vars, net_vars
<1>2. ASSUME NEW r \in Rank, LeaveBarrier(r)  PROVE TypeOK'
  BY <1>2 DEF TypeOK, LeaveBarrier, rx_vars, net_vars
<1>3. ASSUME NEW r \in Rank, ClearAmHandler(r)  PROVE TypeOK'
  BY <1>3 DEF TypeOK, ClearAmHandler, thread_vars, rx_vars, net_vars
<1>4. ASSUME NEW t \in Thread, PostRecord(t)  PROVE TypeOK'
  <2>1. PICK v \in todo[t] : /\ IF NeedsPacket(t, v)
                                THEN pool[RankOf(t)] > 0 /\ TakePacket(t)
                                ELSE UNCHANGED pool
                             /\ todo' = [todo EXCEPT ![t] = @ \ {v}]
                             /\ Push(t, v)
    BY <1>4 DEF PostRecord
  <2>2. v \in Records  BY <2>1 DEF TypeOK
  <2>3. pool' \in [Rank -> Nat]
    <3>1. CASE NeedsPacket(t, v)
      <4>1. pool[RankOf(t)] > 0 /\ TakePacket(t)  BY <2>1, <3>1
      <4>. QED  BY <4>1, PoolType DEF TakePacket
    <3>2. CASE ~NeedsPacket(t, v)  BY <2>1, <3>2 DEF TypeOK
    <3>. QED  BY <3>1, <3>2
  <2>4. todo' \in [Thread -> SUBSET Records]  BY <2>1 DEF TypeOK
  <2>. QED  BY <1>4, <2>1, <2>2, <2>3, <2>4, PushType DEF TypeOK, PostRecord, net_vars
<1>5. ASSUME NEW t \in Thread, AwaitPacket(t)  PROVE TypeOK'
  BY <1>5 DEF TypeOK, AwaitPacket, rx_vars, net_vars
<1>6. ASSUME NEW t \in Thread, GetPacket(t)  PROVE TypeOK'
  <2>1. cur[t] \in Records  BY <1>6 DEF GetPacket, ControlInv, TypeOK
  <2>2. pool' \in [Rank -> Nat]  BY <1>6 DEF TypeOK, GetPacket, TakePacket
  <2>3. cur' \in [Thread -> Records \cup {None}]  BY <1>6 DEF TypeOK, GetPacket
  <2>4. Push(t, cur[t])  BY <1>6 DEF GetPacket
  <2>. QED  BY <1>6, <2>1, <2>2, <2>3, <2>4, PushType DEF TypeOK, GetPacket, net_vars
<1>7. ASSUME NEW t \in Thread, EndPosting(t)  PROVE TypeOK'
  BY <1>7 DEF TypeOK, EndPosting, rx_vars, net_vars
<1>8. ASSUME NEW t \in Thread, FlushDest(t)  PROVE TypeOK'
  <2>1. PICK i \in visited[t] .. NRanks - 1 :
          /\ visited' = [visited EXCEPT ![t] = i + 1]
          /\ StartSend(t, FlushTarget(t, i), send_buffers[t][FlushTarget(t, i)])
    BY <1>8 DEF FlushDest
  <2>2. i \in 0 .. NRanks - 1  BY <2>1 DEF TypeOK
  <2>3. FlushTarget(t, i) \in Rank  BY <2>2, FlushTargetType
  <2>4. visited' \in [Thread -> 0 .. NRanks]
    <3>1. i + 1 \in 0 .. NRanks  BY <2>2
    <3>. QED  BY <2>1, <3>1 DEF TypeOK
  <2>5. send_buffers[t][FlushTarget(t, i)] \in SUBSET Records  BY <2>3 DEF TypeOK
  <2>. HIDE DEF FlushTarget
  <2>6. /\ dst' \in [Thread -> Rank]
        /\ pc' \in [Thread -> {"idle", "barrier", "post", "alloc", "send", "posted",
                               "loopback", "flush", "wait", "done"}]
        /\ batch' \in [Thread -> SUBSET Records]
        /\ left' \in [Thread -> SUBSET Records]
    BY <2>1, <2>3, <2>5, ZenonT(40) DEF TypeOK, StartSend, rx_vars
  <2>. QED  BY <1>8, <2>4, <2>6 DEF TypeOK, FlushDest, net_vars
<1>9. ASSUME NEW t \in Thread, EndFlush(t)  PROVE TypeOK'
  BY <1>9 DEF TypeOK, EndFlush, rx_vars, net_vars
<1>10. ASSUME NEW t \in Thread, PostAm(t)  PROVE TypeOK'
  BY <1>10 DEF TypeOK, PostAm, rx_vars, Message
<1>11. ASSUME NEW t \in Thread, Release(t)  PROVE TypeOK'
  <2>1. send_buffers' \in [Thread -> [Rank -> SUBSET Records]]
    BY <1>11 DEF TypeOK, Release
  <2>2. pool' \in [Rank -> Nat]
    <3>1. CASE pc[t] = "loopback" /\ options.use_upacket
      <4>1. pool' = [pool EXCEPT ![RankOf(t)] = @ + 1]  BY <1>11, <3>1 DEF Release
      <4>. QED  BY <4>1, PoolType
    <3>2. CASE ~(pc[t] = "loopback" /\ options.use_upacket)
      BY <1>11, <3>2 DEF TypeOK, Release
    <3>. QED  BY <3>1, <3>2
  <2>. QED  BY <1>11, <2>1, <2>2 DEF TypeOK, Release, rx_vars, net_vars
<1>12. ASSUME NEW t \in Thread, TakeMessage(t)  PROVE TypeOK'
  BY <1>12 DEF TypeOK, TakeMessage, thread_vars, Message
<1>13. ASSUME NEW t \in Thread, CompleteSend(t)  PROVE TypeOK'
  <2>1. pool' \in [Rank -> Nat]
    <3>1. CASE options.use_upacket
      <4>1. pool' = [pool EXCEPT ![RankOf(t)] = @ + 1]  BY <1>13, <3>1 DEF CompleteSend
      <4>. QED  BY <4>1, PoolType
    <3>2. CASE ~options.use_upacket  BY <1>13, <3>2 DEF TypeOK, CompleteSend
    <3>. QED  BY <3>1, <3>2
  <2>2. busy' \subseteq Message  BY <1>13 DEF TypeOK, CompleteSend
  <2>. QED  BY <1>13, <2>1, <2>2 DEF TypeOK, CompleteSend, thread_vars, rx_vars
<1>14. ASSUME NEW t \in Thread, InvokeHandler(t)  PROVE TypeOK'
  <2>1. PICK v \in left[t] : /\ left' = [left EXCEPT ![t] = @ \ {v}]
                             /\ got' = [got EXCEPT ![RankOf(t)][v] = @ + 1]
    BY <1>14 DEF InvokeHandler
  <2>2. v \in Records  BY <2>1 DEF TypeOK
  <2>3. got' \in [Rank -> [Records -> Nat]]  BY <2>1, <2>2 DEF TypeOK
  <2>4. left' \in [Thread -> SUBSET Records]  BY <2>1 DEF TypeOK
  <2>. QED  BY <1>14, <2>3, <2>4 DEF TypeOK, InvokeHandler, thread_vars, net_vars
<1>15. ASSUME NEW t \in Thread, CountBatch(t)  PROVE TypeOK'
  <2>1. Cardinality(batch[t]) \in Nat  BY RecordSets DEF TypeOK
  <2>2. recv_count' \in [Rank -> Nat]  BY <1>15, <2>1 DEF TypeOK, CountBatch
  <2>3. batch' \in [Thread -> SUBSET Records]  BY <1>15 DEF TypeOK, CountBatch
  <2>. QED  BY <1>15, <2>2, <2>3 DEF TypeOK, CountBatch, thread_vars, net_vars
<1>16. ASSUME NEW t \in Thread, ExitWait(t)  PROVE TypeOK'
  BY <1>16 DEF TypeOK, ExitWait, rx_vars, net_vars
<1>17. CASE UNCHANGED vars
  BY <1>17 DEF TypeOK, vars, thread_vars, rx_vars, net_vars
<1>. QED
  BY <1>1, <1>2, <1>3, <1>4, <1>5, <1>6, <1>7, <1>8, <1>9, <1>10, <1>11, <1>12,
     <1>13, <1>14, <1>15, <1>16, <1>17
  DEF Next, RankStep, ThreadStep, Terminated

-----------------------------------------------------------------------------
(* What a step does to the values, whatever the point of the code it comes *)
(* from: it moves nothing, it delivers a buffer in place, it sends a       *)
(* buffer, or it is a step of the receiver.                                *)

Quiet == UNCHANGED <<batch, left, net, got, recv_count>>

Leaves(v, r) == Unsent(v) /\ ~Unsent(v)' /\ Dest[v] = r

LoopbackStarts(t, c) ==
  /\ batch[t] = {} /\ c \in SUBSET Records
  /\ batch' = [batch EXCEPT ![t] = c]
  /\ left' = [left EXCEPT ![t] = c]
  /\ \A v \in c : Leaves(v, RankOf(t))
  /\ UNCHANGED <<net, got, recv_count>>

MessageLeaves(m) ==
  /\ m \in Message /\ m.recs # {}
  /\ net' = net \cup {m}
  /\ \A v \in m.recs : Leaves(v, m.dst)
  /\ UNCHANGED <<batch, left, got, recv_count>>

Receives(t) == TakeMessage(t) \/ InvokeHandler(t) \/ CountBatch(t)

DataStep ==
  \/ Quiet
  \/ \E t \in Thread : \E c \in SUBSET Records : LoopbackStarts(t, c)
  \/ \E m \in Message : MessageLeaves(m)
  \/ \E t \in Thread : Receives(t)

(* A value that has been handed over stays handed over.                    *)
Monotone == \A v \in Records : Unsent(v)' => Unsent(v)

LEMMA HomeDest ==
  ASSUME NEW v \in Records
  PROVE  Home[v] \in Thread /\ Dest[v] \in Rank
BY RecordAssumption

(* The three ways push() may end.                                          *)
LEMMA PushEffect ==
  ASSUME TypeOK, NEW t \in Thread, NEW v \in Records, Push(t, v)
  PROVE  /\ send_buffers' = [send_buffers EXCEPT ![t][Dest[v]] = @ \cup {v}]
         /\ \/ /\ pc' = [pc EXCEPT ![t] = "post"]
               /\ UNCHANGED <<dst, batch, left>>
            \/ /\ pc' = [pc EXCEPT ![t] = "send"]
               /\ dst' = [dst EXCEPT ![t] = Dest[v]]
               /\ UNCHANGED <<batch, left>>
            \/ /\ pc' = [pc EXCEPT ![t] = "loopback"]
               /\ dst' = [dst EXCEPT ![t] = Dest[v]]
               /\ batch' = [batch EXCEPT ![t] = send_buffers'[t][Dest[v]]]
               /\ left' = [left EXCEPT ![t] = send_buffers'[t][Dest[v]]]
               /\ Dest[v] = RankOf(t)
<1>. DEFINE d == Dest[v]
            content == send_buffers[t][d] \cup {v}
<1>1. send_buffers' = [send_buffers EXCEPT ![t][d] = content]  BY DEF Push
<1>2. send_buffers'[t][d] = content  BY <1>1, HomeDest DEF TypeOK
<1>3. CASE Cardinality(content) = BatchRecords
  <2>1. StartSend(t, d, content)  BY <1>3 DEF Push
  <2>. HIDE DEF content
  <2>2. CASE d = RankOf(t) /\ options.use_loopback
    BY <1>1, <1>2, <2>1, <2>2 DEF StartSend, content
  <2>3. CASE ~(d = RankOf(t) /\ options.use_loopback)
    BY <1>1, <1>2, <2>1, <2>3 DEF StartSend, rx_vars, content
  <2>. QED  BY <2>2, <2>3
<1>4. CASE Cardinality(content) # BatchRecords
  BY <1>1, <1>4 DEF Push, rx_vars
<1>. QED  BY <1>3, <1>4

(* A worker that has gone on to push a value holds it, and nothing else    *)
(* holds it, until then.                                                   *)
LEMMA PushData ==
  ASSUME TypeOK, ControlInv, SenderInv, NEW t \in Thread, NEW v \in Records,
         pc[t] \in {"post", "alloc"}, batch[t] = {}, Push(t, v),
         UNCHANGED <<net, got, recv_count>>,
         \/ /\ v \in todo[t] /\ todo' = [todo EXCEPT ![t] = @ \ {v}]
            /\ cur' = cur
         \/ /\ v = cur[t] /\ cur' = [cur EXCEPT ![t] = None]
            /\ todo' = todo
  PROVE  Monotone /\ DataStep
<1>1. Home[v] = t /\ Unsent(v) /\ Dest[v] \in Rank
  <2>1. CASE v \in todo[t]
    BY <2>1, HomeDest DEF SenderInv, Unsent
  <2>2. CASE v = cur[t]
    BY <2>2, HomeDest, RecordAssumption DEF SenderInv, Unsent
  <2>. QED  BY <2>1, <2>2
<1>2. v \notin todo'[t] /\ cur'[t] # v
  BY RecordAssumption DEF TypeOK, SenderInv
<1>3. \A w \in Records : w \in todo'[t] => w \in todo[t]
  BY DEF TypeOK
<1>4. \A w \in Records : cur'[t] = w => cur[t] = w
  BY RecordAssumption DEF TypeOK
<1>5. \A u \in Thread : u # t =>
        /\ todo'[u] = todo[u] /\ cur'[u] = cur[u] /\ pc'[u] = pc[u]
        /\ dst'[u] = dst[u] /\ send_buffers'[u] = send_buffers[u]
  <2>. SUFFICES ASSUME NEW u \in Thread, u # t
                PROVE  /\ todo'[u] = todo[u] /\ cur'[u] = cur[u] /\ pc'[u] = pc[u]
                       /\ dst'[u] = dst[u] /\ send_buffers'[u] = send_buffers[u]
    OBVIOUS
  <2>1. todo'[u] = todo[u] /\ cur'[u] = cur[u]  BY DEF TypeOK
  <2>2. pc'[u] = pc[u]
    <3>1. \E x : pc' = [pc EXCEPT ![t] = x]  BY PushEffect
    <3>. QED  BY <3>1 DEF TypeOK
  <2>3. dst'[u] = dst[u]
    <3>1. dst' = dst \/ dst' = [dst EXCEPT ![t] = Dest[v]]  BY PushEffect
    <3>. QED  BY <3>1 DEF TypeOK
  <2>4. send_buffers'[u] = send_buffers[u]  BY PushEffect DEF TypeOK
  <2>. QED  BY <2>1, <2>2, <2>3, <2>4
<1>6. \A w \in Records : \A d \in Rank : w # v =>
        (w \in send_buffers'[t][d] => w \in send_buffers[t][d])
  <2>1. send_buffers' = [send_buffers EXCEPT ![t][Dest[v]] = @ \cup {v}]
    BY PushEffect
  <2>. QED  BY <1>1, <2>1 DEF TypeOK
<1>7. \A d \in Rank : ~HandedOver(t, d)
  BY DEF HandedOver
<1>8. Monotone
  <2>. SUFFICES ASSUME NEW w \in Records, Unsent(w)'  PROVE Unsent(w)
    BY DEF Monotone
  <2>1. CASE Home[w] # t
    BY <1>5, <2>1, HomeDest DEF Unsent, HandedOver
  <2>2. CASE Home[w] = t /\ w # v
    BY <1>3, <1>4, <1>6, <1>7, <2>2, HomeDest DEF Unsent
  <2>. QED  BY <1>1, <2>1, <2>2
<1>9. DataStep
  <2>1. CASE UNCHANGED <<batch, left>>
    BY <2>1 DEF DataStep, Quiet
  <2>2. CASE ~UNCHANGED <<batch, left>>
    <3>. DEFINE c == send_buffers'[t][Dest[v]]
    <3>1. /\ pc' = [pc EXCEPT ![t] = "loopback"]
          /\ dst' = [dst EXCEPT ![t] = Dest[v]]
          /\ batch' = [batch EXCEPT ![t] = c]
          /\ left' = [left EXCEPT ![t] = c]
          /\ Dest[v] = RankOf(t)
      BY <2>2, PushEffect
    <3>2. c \in SUBSET Records  BY <1>1, PushType
    <3>3. HandedOver(t, Dest[v])'
      BY <1>1, <3>1 DEF TypeOK, HandedOver
    <3>4. ASSUME NEW w \in c  PROVE Leaves(w, RankOf(t))
      <4>1. CASE w = v
        BY <1>1, <1>2, <3>1, <3>3, <4>1 DEF Leaves, Unsent
      <4>2. CASE w # v
        <5>1. w \in Records /\ w \in send_buffers[t][Dest[v]]
          BY <1>1, <1>6, <3>2, <4>2
        <5>2. Home[w] = t /\ Dest[w] = Dest[v] /\ w \notin todo[t] /\ cur[t] # w
          BY <1>1, <5>1 DEF SenderInv
        <5>3. Unsent(w)  BY <1>1, <1>7, <5>1, <5>2 DEF Unsent
        <5>4. ~Unsent(w)'  BY <1>3, <1>4, <3>3, <5>1, <5>2 DEF Unsent
        <5>. QED  BY <3>1, <5>2, <5>3, <5>4 DEF Leaves
      <4>. QED  BY <4>1, <4>2
    <3>5. LoopbackStarts(t, c)
      BY <3>1, <3>2, <3>4 DEF LoopbackStarts
    <3>. QED  BY <3>2, <3>5 DEF DataStep
  <2>. QED  BY <2>1, <2>2
<1>. QED  BY <1>8, <1>9

LEMMA StillHandedOver ==
  ASSUME UNCHANGED <<todo, cur, send_buffers>>,
         \A u \in Thread : \A d \in Rank : HandedOver(u, d) => HandedOver(u, d)'
  PROVE  Monotone
BY HomeDest DEF Monotone, Unsent

LEMMA StepData == TypeOK /\ ControlInv /\ SenderInv /\ [Next]_vars => Monotone /\ DataStep
<1>. SUFFICES ASSUME TypeOK, ControlInv, SenderInv, [Next]_vars
              PROVE  Monotone /\ DataStep
  OBVIOUS
<1>. USE ThreadFacts
<1>1. ASSUME NEW r \in Rank, Register(r)  PROVE Monotone /\ DataStep
  <2>1. pc[Master(r)] \in Outside
    BY <1>1 DEF Register, ControlInv
  <2>2. \A u \in Thread : \A d \in Rank : HandedOver(u, d) => HandedOver(u, d)'
    BY <1>1, <2>1 DEF Register, HandedOver, Outside, TypeOK
  <2>. QED
    BY <1>1, <2>2, StillHandedOver DEF Register, DataStep, Quiet, rx_vars, net_vars
<1>2. ASSUME NEW r \in Rank, LeaveBarrier(r)  PROVE Monotone /\ DataStep
  <2>1. \A u \in Thread : RankOf(u) = r => pc[u] \in Outside
    BY <1>2 DEF LeaveBarrier, ControlInv
  <2>2. \A u \in Thread : \A d \in Rank : HandedOver(u, d) => HandedOver(u, d)'
    BY <1>2, <2>1 DEF LeaveBarrier, HandedOver, Outside, TypeOK
  <2>. QED
    BY <1>2, <2>2, StillHandedOver DEF LeaveBarrier, DataStep, Quiet, rx_vars, net_vars
<1>3. ASSUME NEW r \in Rank, ClearAmHandler(r)  PROVE Monotone /\ DataStep
  BY <1>3, StillHandedOver
  DEF ClearAmHandler, HandedOver, DataStep, Quiet, thread_vars, rx_vars, net_vars
<1>4. ASSUME NEW t \in Thread, PostRecord(t)  PROVE Monotone /\ DataStep
  <2>1. PICK v \in todo[t] : /\ todo' = [todo EXCEPT ![t] = @ \ {v}]
                             /\ Push(t, v)
    BY <1>4 DEF PostRecord
  <2>2. v \in Records /\ pc[t] = "post" /\ batch[t] = {}
    BY <1>4, <2>1 DEF PostRecord, TypeOK, ControlInv, Progressing
  <2>. QED  BY <1>4, <2>1, <2>2, PushData DEF PostRecord, net_vars
<1>5. ASSUME NEW t \in Thread, AwaitPacket(t)  PROVE Monotone /\ DataStep
  <2>1. PICK v \in todo[t] : /\ todo' = [todo EXCEPT ![t] = @ \ {v}]
                             /\ cur' = [cur EXCEPT ![t] = v]
    BY <1>5 DEF AwaitPacket
  <2>2. v \in Records /\ Home[v] = t  BY <2>1 DEF TypeOK, SenderInv
  <2>3. \A u \in Thread : \A d \in Rank : HandedOver(u, d) => HandedOver(u, d)'
    BY <1>5 DEF AwaitPacket, HandedOver, TypeOK
  <2>4. \A w \in Records : w \in todo'[Home[w]] \/ cur'[Home[w]] = w => Unsent(w)
    BY <2>1, <2>2, HomeDest DEF TypeOK, Unsent
  <2>5. send_buffers' = send_buffers  BY <1>5 DEF AwaitPacket
  <2>6. Monotone  BY <2>3, <2>4, <2>5, HomeDest DEF Monotone, Unsent
  <2>. QED  BY <1>5, <2>6 DEF AwaitPacket, DataStep, Quiet, rx_vars, net_vars
<1>6. ASSUME NEW t \in Thread, GetPacket(t)  PROVE Monotone /\ DataStep
  <2>1. cur[t] \in Records  BY <1>6 DEF GetPacket, ControlInv, TypeOK
  <2>. QED  BY <1>6, <2>1, PushData DEF GetPacket, net_vars
<1>7. ASSUME NEW t \in Thread, EndPosting(t)  PROVE Monotone /\ DataStep
  <2>1. \A u \in Thread : \A d \in Rank : HandedOver(u, d) => HandedOver(u, d)'
    BY <1>7 DEF EndPosting, HandedOver, TypeOK
  <2>. QED
    BY <1>7, <2>1, StillHandedOver DEF EndPosting, DataStep, Quiet, rx_vars, net_vars
<1>8. ASSUME NEW t \in Thread, FlushDest(t)  PROVE Monotone /\ DataStep
  <2>1. PICK i \in visited[t] .. NRanks - 1 :
          StartSend(t, FlushTarget(t, i), send_buffers[t][FlushTarget(t, i)])
    BY <1>8 DEF FlushDest
  <2>. DEFINE d == FlushTarget(t, i)
              c == send_buffers[t][d]
  <2>2. i \in Nat  BY <2>1 DEF TypeOK
  <2>3. d \in Rank  BY <2>2, FlushTargetType
  <2>. HIDE DEF d
  <2>4. StartSend(t, d, c) /\ pc[t] = "flush" /\ batch[t] = {}
    BY <1>8, <2>1 DEF d, FlushDest, ControlInv, Progressing
  <2>5. \A u \in Thread : \A e \in Rank : HandedOver(u, e) => HandedOver(u, e)'
    <3>1. \E x : pc' = [pc EXCEPT ![t] = x]  BY <2>4 DEF StartSend
    <3>2. dst' = [dst EXCEPT ![t] = d]  BY <2>4 DEF StartSend
    <3>. QED  BY <2>4, <3>1, <3>2 DEF HandedOver, TypeOK
  <2>6. Monotone  BY <1>8, <2>5, StillHandedOver DEF FlushDest
  <2>7. CASE d = RankOf(t) /\ options.use_loopback
    <3>1. /\ pc' = [pc EXCEPT ![t] = "loopback"]
          /\ dst' = [dst EXCEPT ![t] = d]
          /\ batch' = [batch EXCEPT ![t] = c]
          /\ left' = [left EXCEPT ![t] = c]
      BY <2>4, <2>7 DEF StartSend
    <3>2. c \in SUBSET Records  BY <2>3 DEF TypeOK
    <3>3. HandedOver(t, d)' /\ ~HandedOver(t, d)
      BY <2>3, <2>4, <3>1 DEF TypeOK, HandedOver
    <3>4. ASSUME NEW w \in c  PROVE Leaves(w, RankOf(t))
      <4>1. w \in Records /\ Home[w] = t /\ Dest[w] = d /\ w \notin todo[t] /\ cur[t] # w
        BY <2>3, <3>2 DEF SenderInv
      <4>2. UNCHANGED <<todo, cur>>  BY <1>8 DEF FlushDest
      <4>. QED  BY <2>7, <3>3, <4>1, <4>2 DEF Leaves, Unsent
    <3>5. LoopbackStarts(t, c)
      BY <1>8, <2>4, <3>1, <3>2, <3>4 DEF LoopbackStarts, FlushDest, net_vars
    <3>. QED  BY <2>6, <3>2, <3>5 DEF DataStep
  <2>8. CASE ~(d = RankOf(t) /\ options.use_loopback)
    BY <1>8, <2>4, <2>6, <2>8 DEF StartSend, FlushDest, DataStep, Quiet, rx_vars, net_vars
  <2>. QED  BY <2>7, <2>8
<1>9. ASSUME NEW t \in Thread, EndFlush(t)  PROVE Monotone /\ DataStep
  <2>1. \A u \in Thread : \A d \in Rank : HandedOver(u, d) => HandedOver(u, d)'
    BY <1>9 DEF EndFlush, HandedOver, TypeOK
  <2>. QED
    BY <1>9, <2>1, StillHandedOver DEF EndFlush, DataStep, Quiet, rx_vars, net_vars
<1>10. ASSUME NEW t \in Thread, PostAm(t)  PROVE Monotone /\ DataStep
  <2>. DEFINE m == [src |-> RankOf(t), dst |-> dst[t], dev |-> DeviceOf(t),
                    recs |-> send_buffers[t][dst[t]]]
  <2>1. /\ pc[t] = "send" /\ batch[t] = {}
        /\ net' = net \cup {m}
        /\ pc' = [pc EXCEPT ![t] = "posted"]
        /\ UNCHANGED <<todo, cur, dst, send_buffers>>
        /\ UNCHANGED <<batch, left, got, recv_count>>
    BY <1>10 DEF PostAm, rx_vars
  <2>2. dst[t] \in Rank /\ m \in Message /\ m.recs # {}
    BY <2>1 DEF TypeOK, Message, ControlInv
  <2>3. \A u \in Thread : \A d \in Rank : HandedOver(u, d) => HandedOver(u, d)'
    BY <2>1 DEF HandedOver, TypeOK
  <2>4. HandedOver(t, dst[t])' /\ ~HandedOver(t, dst[t])
    BY <2>1 DEF HandedOver, TypeOK
  <2>5. ASSUME NEW w \in m.recs  PROVE Leaves(w, m.dst)
    <3>1. w \in Records /\ Home[w] = t /\ Dest[w] = dst[t] /\ w \notin todo[t] /\ cur[t] # w
      BY <2>2 DEF SenderInv, TypeOK
    <3>. QED  BY <2>1, <2>4, <3>1 DEF Leaves, Unsent
  <2>6. MessageLeaves(m)  BY <2>1, <2>2, <2>5 DEF MessageLeaves
  <2>. QED  BY <2>1, <2>2, <2>3, <2>6, StillHandedOver DEF DataStep
<1>11. ASSUME NEW t \in Thread, Release(t)  PROVE Monotone /\ DataStep
  <2>1. /\ send_buffers' = [send_buffers EXCEPT ![t][dst[t]] = {}]
        /\ pc[t] \in {"posted", "loopback"}
        /\ \E x : pc' = [pc EXCEPT ![t] = x]
        /\ UNCHANGED <<todo, cur, dst>>
    BY <1>11 DEF Release
  <2>2. ASSUME NEW w \in Records, Unsent(w)'  PROVE Unsent(w)
    <3>1. CASE Home[w] = t /\ Dest[w] = dst[t]
      BY <2>1, <2>2, <3>1, HomeDest DEF Unsent, TypeOK
    <3>2. CASE ~(Home[w] = t /\ Dest[w] = dst[t])
      <4>1. send_buffers'[Home[w]][Dest[w]] = send_buffers[Home[w]][Dest[w]]
        BY <2>1, <3>2, HomeDest DEF TypeOK
      <4>2. HandedOver(Home[w], Dest[w]) => HandedOver(Home[w], Dest[w])'
        BY <2>1, <3>2, HomeDest DEF TypeOK, HandedOver
      <4>. QED  BY <2>1, <2>2, <4>1, <4>2 DEF Unsent
    <3>. QED  BY <3>1, <3>2
  <2>. QED  BY <1>11, <2>2 DEF Release, Monotone, DataStep, Quiet, rx_vars, net_vars
<1>12. ASSUME NEW t \in Thread, Receives(t)  PROVE Monotone /\ DataStep
  <2>1. UNCHANGED thread_vars
    BY <1>12 DEF Receives, TakeMessage, InvokeHandler, CountBatch
  <2>. QED  BY <1>12, <2>1, StillHandedOver DEF thread_vars, HandedOver, DataStep
<1>13. ASSUME NEW t \in Thread, CompleteSend(t)  PROVE Monotone /\ DataStep
  BY <1>13, StillHandedOver
  DEF CompleteSend, HandedOver, DataStep, Quiet, thread_vars, rx_vars
<1>14. ASSUME NEW t \in Thread, ExitWait(t)  PROVE Monotone /\ DataStep
  <2>1. \A u \in Thread : \A d \in Rank : HandedOver(u, d) => HandedOver(u, d)'
    BY <1>14 DEF ExitWait, HandedOver, TypeOK
  <2>. QED
    BY <1>14, <2>1, StillHandedOver DEF ExitWait, DataStep, Quiet, rx_vars, net_vars
<1>15. CASE UNCHANGED vars
  BY <1>15, StillHandedOver
  DEF vars, HandedOver, DataStep, Quiet, thread_vars, rx_vars, net_vars
<1>. QED
  BY <1>1, <1>2, <1>3, <1>4, <1>5, <1>6, <1>7, <1>8, <1>9, <1>10, <1>11, <1>12,
     <1>13, <1>14, <1>15
  DEF Next, RankStep, ThreadStep, Terminated, Receives

-----------------------------------------------------------------------------
(* The invariant about the places of the values.                           *)

LEMMA InitValues == Init => SenderInv /\ NetInv /\ ReceiverInv /\ HandledInv
BY RecordAssumption, ThreadFacts
DEF Init, SenderInv, NetInv, ReceiverInv, HandledInv

LEMMA StepSender == TypeOK /\ ControlInv /\ SenderInv /\ [Next]_vars => SenderInv'
<1>. SUFFICES ASSUME TypeOK, ControlInv, SenderInv, [Next]_vars  PROVE SenderInv'
  OBVIOUS
<1>1. CASE UNCHANGED <<todo, cur, send_buffers>>
  BY <1>1 DEF SenderInv
<1>2. ASSUME NEW t \in Thread, PostRecord(t)  PROVE SenderInv'
  <2>1. PICK v \in todo[t] : /\ todo' = [todo EXCEPT ![t] = @ \ {v}]
                             /\ Push(t, v)
    BY <1>2 DEF PostRecord
  <2>2. v \in Records /\ Home[v] = t /\ cur[t] # v
    BY <2>1, RecordAssumption DEF TypeOK, SenderInv
  <2>3. send_buffers' = [send_buffers EXCEPT ![t][Dest[v]] = @ \cup {v}]
    BY <2>1, <2>2, PushEffect
  <2>4. cur' = cur  BY <1>2 DEF PostRecord
  <2>. QED  BY <2>1, <2>2, <2>3, <2>4, HomeDest DEF TypeOK, SenderInv
<1>3. ASSUME NEW t \in Thread, AwaitPacket(t)  PROVE SenderInv'
  <2>1. PICK v \in todo[t] : /\ todo' = [todo EXCEPT ![t] = @ \ {v}]
                             /\ cur' = [cur EXCEPT ![t] = v]
    BY <1>3 DEF AwaitPacket
  <2>2. v \in Records /\ Home[v] = t /\ \A d \in Rank : v \notin send_buffers[t][d]
    BY <2>1 DEF TypeOK, SenderInv
  <2>3. send_buffers' = send_buffers  BY <1>3 DEF AwaitPacket
  <2>. QED  BY <2>1, <2>2, <2>3 DEF TypeOK, SenderInv
<1>4. ASSUME NEW t \in Thread, GetPacket(t)  PROVE SenderInv'
  <2>1. cur[t] \in Records /\ Home[cur[t]] = t /\ cur[t] \notin todo[t]
    BY <1>4, RecordAssumption DEF GetPacket, ControlInv, TypeOK, SenderInv
  <2>2. /\ cur' = [cur EXCEPT ![t] = None] /\ todo' = todo
        /\ send_buffers' = [send_buffers EXCEPT ![t][Dest[cur[t]]] = @ \cup {cur[t]}]
    BY <1>4, <2>1, PushEffect DEF GetPacket
  <2>. QED  BY <2>1, <2>2, HomeDest, RecordAssumption DEF TypeOK, SenderInv
<1>5. ASSUME NEW t \in Thread, Release(t)  PROVE SenderInv'
  <2>1. /\ send_buffers' = [send_buffers EXCEPT ![t][dst[t]] = {}]
        /\ UNCHANGED <<todo, cur>>
    BY <1>5 DEF Release
  <2>. QED  BY <2>1 DEF TypeOK, SenderInv
<1>. QED
  BY <1>1, <1>2, <1>3, <1>4, <1>5
  DEF Next, RankStep, ThreadStep, Terminated, vars, thread_vars, Register, LeaveBarrier,
      ClearAmHandler, EndPosting, FlushDest, EndFlush, PostAm, TakeMessage, CompleteSend,
      InvokeHandler, CountBatch, ExitWait

(* The message a worker takes, the value it handles and the batch it       *)
(* counts, without the points of the code.                                 *)
LEMMA ReceiveEffect ==
  ASSUME NEW t \in Thread, Receives(t)
  PROVE  \/ \E m \in net : /\ m.dst = RankOf(t) /\ batch[t] = {}
                          /\ net' = net \ {m}
                          /\ batch' = [batch EXCEPT ![t] = m.recs]
                          /\ left' = [left EXCEPT ![t] = m.recs]
                          /\ UNCHANGED <<got, recv_count>>
         \/ \E v \in left[t] : /\ left' = [left EXCEPT ![t] = @ \ {v}]
                              /\ got' = [got EXCEPT ![RankOf(t)][v] = @ + 1]
                              /\ UNCHANGED <<net, batch, recv_count>>
         \/ /\ batch[t] # {} /\ left[t] = {}
            /\ recv_count' = [recv_count EXCEPT ![RankOf(t)] = @ + Cardinality(batch[t])]
            /\ batch' = [batch EXCEPT ![t] = {}]
            /\ UNCHANGED <<net, left, got>>
BY DEF Receives, TakeMessage, CanProgress, InvokeHandler, CountBatch, net_vars

LEMMA StepNet ==
  ASSUME TypeOK, TypeOK', NetInv, ReceiverInv, Monotone, DataStep
  PROVE  NetInv'
<1>1. CASE net' \subseteq net
  BY <1>1 DEF TypeOK, Message, NetInv, Monotone
<1>2. ASSUME NEW m \in Message, MessageLeaves(m)  PROVE NetInv'
  <2>1. /\ m.recs \subseteq Records /\ m.recs # {}
        /\ net' = net \cup {m}
        /\ \A v \in m.recs : Unsent(v) /\ ~Unsent(v)' /\ Dest[v] = m.dst
    BY <1>2 DEF MessageLeaves, Leaves, Message
  <2>2. \A n \in net : n.recs \subseteq Records /\ m.recs \cap n.recs = {}
    BY <2>1 DEF NetInv, TypeOK, Message
  <2>. QED  BY <2>1, <2>2 DEF NetInv, Monotone
<1>3. ASSUME NEW t \in Thread, Receives(t)  PROVE net' \subseteq net
  BY <1>3, ReceiveEffect
<1>. QED  BY <1>1, <1>2, <1>3 DEF DataStep, Quiet, LoopbackStarts

LEMMA StepReceiver ==
  ASSUME TypeOK, NetInv, ReceiverInv, HandledInv, Monotone, DataStep
  PROVE  ReceiverInv'
<1>1. \A v \in Records : ~Unsent(v) => ~Unsent(v)'  BY DEF Monotone
<1>2. \A u \in Thread : batch[u] \subseteq Records /\ left[u] \subseteq Records
  BY DEF TypeOK
<1>3. CASE Quiet
  BY <1>1, <1>2, <1>3 DEF Quiet, ReceiverInv
<1>4. ASSUME NEW t \in Thread, NEW c \in SUBSET Records, LoopbackStarts(t, c)
      PROVE  ReceiverInv'
  <2>1. /\ batch' = [batch EXCEPT ![t] = c] /\ left' = [left EXCEPT ![t] = c]
        /\ net' = net
        /\ \A v \in c : Unsent(v) /\ ~Unsent(v)' /\ Dest[v] = RankOf(t)
    BY <1>4 DEF LoopbackStarts, Leaves
  <2>2. \A u \in Thread : batch[u] \cap c = {}  BY <2>1 DEF ReceiverInv
  <2>3. \A m \in net : m.recs \cap c = {}  BY <2>1 DEF NetInv
  <2>4. /\ batch'[t] = c /\ left'[t] = c
        /\ \A u \in Thread : u # t => batch'[u] = batch[u] /\ left'[u] = left[u]
    BY <2>1 DEF TypeOK
  <2>. QED  BY <1>1, <1>2, <2>1, <2>2, <2>3, <2>4 DEF ReceiverInv
<1>5. ASSUME NEW m \in Message, MessageLeaves(m)  PROVE ReceiverInv'
  <2>1. /\ net' = net \cup {m} /\ UNCHANGED <<batch, left>>
        /\ \A v \in m.recs : Unsent(v)
    BY <1>5 DEF MessageLeaves, Leaves
  <2>2. \A u \in Thread : batch[u] \cap m.recs = {}  BY <2>1 DEF ReceiverInv
  <2>. QED  BY <1>1, <1>2, <2>1, <2>2 DEF ReceiverInv
<1>6. ASSUME NEW t \in Thread, Receives(t)  PROVE ReceiverInv'
  <2>1. ASSUME NEW m \in net, m.dst = RankOf(t), net' = net \ {m},
               batch' = [batch EXCEPT ![t] = m.recs], left' = [left EXCEPT ![t] = m.recs]
        PROVE  ReceiverInv'
    <3>1. /\ batch'[t] = m.recs /\ left'[t] = m.recs
          /\ \A u \in Thread : u # t => batch'[u] = batch[u] /\ left'[u] = left[u]
      BY <2>1 DEF TypeOK
    <3>2. \A u \in Thread : batch[u] \cap m.recs = {}  BY DEF ReceiverInv
    <3>3. /\ m.recs \subseteq Records
          /\ \A v \in m.recs : Dest[v] = RankOf(t) /\ ~Unsent(v)
          /\ \A n \in net' : n.recs \cap m.recs = {}
      BY <2>1 DEF NetInv, TypeOK, Message
    <3>. QED  BY <1>1, <1>2, <2>1, <3>1, <3>2, <3>3 DEF ReceiverInv
  <2>2. ASSUME NEW v \in left[t], left' = [left EXCEPT ![t] = @ \ {v}],
               UNCHANGED <<net, batch>>
        PROVE  ReceiverInv'
    BY <1>1, <1>2, <2>2 DEF ReceiverInv, TypeOK
  <2>3. ASSUME left[t] = {}, batch' = [batch EXCEPT ![t] = {}], UNCHANGED <<net, left>>
        PROVE  ReceiverInv'
    BY <1>1, <1>2, <2>3 DEF ReceiverInv, TypeOK
  <2>. QED  BY <1>6, <2>1, <2>2, <2>3, ReceiveEffect
<1>. QED  BY <1>3, <1>4, <1>5, <1>6 DEF DataStep

LEMMA StepHandled ==
  ASSUME TypeOK, NetInv, ReceiverInv, HandledInv, Monotone, DataStep
  PROVE  HandledInv'
<1>1. \A v \in Records : ~Unsent(v) => ~Unsent(v)'  BY DEF Monotone
<1>2. \A u \in Thread : batch[u] \subseteq Records /\ left[u] \subseteq Records
  BY DEF TypeOK
<1>3. CASE Quiet
  BY <1>1, <1>2, <1>3 DEF Quiet, HandledInv
<1>4. ASSUME NEW t \in Thread, NEW c \in SUBSET Records, LoopbackStarts(t, c)
      PROVE  HandledInv'
  <2>1. /\ batch' = [batch EXCEPT ![t] = c] /\ left' = [left EXCEPT ![t] = c]
        /\ UNCHANGED <<net, got>>
        /\ \A v \in c : Unsent(v)
    BY <1>4 DEF LoopbackStarts, Leaves
  <2>2. /\ batch'[t] = c /\ left'[t] = c
        /\ \A u \in Thread : u # t => batch'[u] = batch[u] /\ left'[u] = left[u]
    BY <2>1 DEF TypeOK
  <2>. QED  BY <1>1, <1>2, <2>1, <2>2 DEF HandledInv
<1>5. ASSUME NEW m \in Message, MessageLeaves(m)  PROVE HandledInv'
  <2>1. /\ net' = net \cup {m} /\ UNCHANGED <<batch, left, got>>
        /\ \A v \in m.recs : Unsent(v)
    BY <1>5 DEF MessageLeaves, Leaves
  <2>. QED  BY <1>1, <1>2, <2>1 DEF HandledInv
<1>6. ASSUME NEW t \in Thread, Receives(t)  PROVE HandledInv'
  <2>1. ASSUME NEW m \in net, net' = net \ {m}, UNCHANGED got,
               batch' = [batch EXCEPT ![t] = m.recs], left' = [left EXCEPT ![t] = m.recs]
        PROVE  HandledInv'
    <3>1. /\ batch'[t] = m.recs /\ left'[t] = m.recs
          /\ \A u \in Thread : u # t => batch'[u] = batch[u] /\ left'[u] = left[u]
      BY <2>1 DEF TypeOK
    <3>. QED  BY <1>1, <1>2, <2>1, <3>1 DEF HandledInv
  <2>2. ASSUME NEW v \in left[t], left' = [left EXCEPT ![t] = @ \ {v}],
               got' = [got EXCEPT ![RankOf(t)][v] = @ + 1], UNCHANGED <<net, batch>>
        PROVE  HandledInv'
    <3>1. v \in batch[t] /\ v \in Records /\ RankOf(t) \in Rank
      BY <1>2, ThreadFacts DEF ReceiverInv
    <3>2. /\ Dest[v] = RankOf(t) /\ ~Unsent(v)
          /\ \A m \in net : v \notin m.recs
          /\ \A u \in Thread : u # t => v \notin left[u]
      BY <3>1 DEF ReceiverInv
    <3>3. got[RankOf(t)][v] = 0  BY <3>1 DEF HandledInv
    <3>4. /\ got'[RankOf(t)][v] = 1
          /\ \A r \in Rank : \A w \in Records :
               ~(r = RankOf(t) /\ w = v) => got'[r][w] = got[r][w]
      BY <2>2, <3>1, <3>3 DEF TypeOK
    <3>5. /\ left'[t] = left[t] \ {v}
          /\ \A u \in Thread : u # t => left'[u] = left[u]
      BY <2>2 DEF TypeOK
    <3>6. \A r \in Rank : \A w \in Records : got'[r][w] \in {0, 1}
      BY <3>4 DEF HandledInv
    <3>7. \A r \in Rank : \A w \in Records : got'[r][w] = 1 =>
             /\ Dest[w] = r /\ ~Unsent(w)'
             /\ \A m \in net' : w \notin m.recs
             /\ \A u \in Thread : w \notin left'[u]
      <4>. SUFFICES ASSUME NEW r \in Rank, NEW w \in Records, got'[r][w] = 1
                    PROVE  /\ Dest[w] = r /\ ~Unsent(w)'
                           /\ \A m \in net' : w \notin m.recs
                           /\ \A u \in Thread : w \notin left'[u]
        OBVIOUS
      <4>1. CASE r = RankOf(t) /\ w = v
        BY <1>1, <2>2, <3>2, <3>5, <4>1
      <4>2. CASE ~(r = RankOf(t) /\ w = v)
        <5>1. got[r][w] = 1  BY <3>4, <4>2
        <5>. QED  BY <1>1, <2>2, <3>5, <5>1 DEF HandledInv
      <4>. QED  BY <4>1, <4>2
    <3>8. ASSUME NEW u \in Thread, NEW w \in batch'[u] \ left'[u]
          PROVE  got'[RankOf(u)][w] = 1
      <4>1. w \in Records /\ w \in batch[u] /\ RankOf(u) \in Rank
        BY <1>2, <2>2, ThreadFacts
      <4>2. CASE w = v
        BY <3>1, <3>2, <3>4, <4>1, <4>2 DEF ReceiverInv
      <4>3. CASE w # v
        BY <3>4, <3>5, <4>1, <4>3 DEF HandledInv
      <4>. QED  BY <4>2, <4>3
    <3>. QED  BY <3>6, <3>7, <3>8 DEF HandledInv
  <2>3. ASSUME left[t] = {}, batch' = [batch EXCEPT ![t] = {}], UNCHANGED <<net, left, got>>
        PROVE  HandledInv'
    BY <1>1, <1>2, <2>3 DEF HandledInv, TypeOK
  <2>. QED  BY <1>6, <2>1, <2>2, <2>3, ReceiveEffect
<1>. QED  BY <1>3, <1>4, <1>5, <1>6 DEF DataStep

LEMMA InitCount == Init => CountInv
<1>. SUFFICES ASSUME Init, NEW r \in Rank  PROVE recv_count[r] = Cardinality(Counted(r))
  BY DEF CountInv
<1>1. Counted(r) = {} /\ recv_count[r] = 0  BY DEF Init, Counted
<1>. QED  BY <1>1, FS_EmptySet

LEMMA StepCount ==
  ASSUME TypeOK, NetInv, ReceiverInv, HandledInv, CountInv, DataStep
  PROVE  CountInv'
<1>1. \A u \in Thread : batch[u] \subseteq Records  BY DEF TypeOK
<1>2. ASSUME recv_count' = recv_count, \A r \in Rank : Counted(r)' = Counted(r)
      PROVE  CountInv'
  BY <1>2 DEF CountInv
<1>3. CASE UNCHANGED <<batch, got, recv_count>>
  BY <1>2, <1>3 DEF Counted
<1>4. ASSUME NEW t \in Thread, NEW c \in SUBSET Records, batch[t] = {},
             batch' = [batch EXCEPT ![t] = c], UNCHANGED <<got, recv_count>>,
             \A r \in Rank : \A v \in c : got[r][v] # 1
      PROVE  CountInv'
  <2>1. batch'[t] = c /\ \A u \in Thread : u # t => batch'[u] = batch[u]
    BY <1>4 DEF TypeOK
  <2>2. \A r \in Rank : Counted(r)' = Counted(r)
    BY <1>4, <2>1 DEF Counted
  <2>. QED  BY <1>2, <1>4, <2>2
<1>5. ASSUME NEW t \in Thread, NEW c \in SUBSET Records, LoopbackStarts(t, c)
      PROVE  CountInv'
  <2>1. \A v \in c : Unsent(v)  BY <1>5 DEF LoopbackStarts, Leaves
  <2>2. \A r \in Rank : \A v \in c : got[r][v] # 1  BY <2>1 DEF HandledInv
  <2>. QED  BY <1>4, <1>5, <2>2 DEF LoopbackStarts
<1>6. ASSUME NEW t \in Thread, Receives(t)  PROVE CountInv'
  <2>1. ASSUME NEW m \in net, batch[t] = {}, batch' = [batch EXCEPT ![t] = m.recs],
               UNCHANGED <<got, recv_count>>
        PROVE  CountInv'
    <3>1. m.recs \in SUBSET Records  BY DEF TypeOK, Message
    <3>2. \A r \in Rank : \A v \in m.recs : got[r][v] # 1  BY <3>1 DEF HandledInv
    <3>. QED  BY <1>4, <2>1, <3>1, <3>2
  <2>2. ASSUME NEW v \in left[t], got' = [got EXCEPT ![RankOf(t)][v] = @ + 1],
               UNCHANGED <<batch, recv_count>>
        PROVE  CountInv'
    <3>1. v \in Records /\ v \in batch[t] /\ RankOf(t) \in Rank
      BY <1>1, ThreadFacts DEF ReceiverInv
    <3>2. \A r \in Rank : \A w \in Records : w # v => got'[r][w] = got[r][w]
      BY <2>2, <3>1 DEF TypeOK
    <3>3. \A r \in Rank : Counted(r)' = Counted(r)
      BY <2>2, <3>1, <3>2 DEF Counted
    <3>. QED  BY <1>2, <2>2, <3>3
  <2>3. ASSUME left[t] = {}, batch' = [batch EXCEPT ![t] = {}], UNCHANGED got,
               recv_count' = [recv_count EXCEPT ![RankOf(t)] = @ + Cardinality(batch[t])]
        PROVE  CountInv'
    <3>. DEFINE q == RankOf(t)
    <3>1. q \in Rank  BY ThreadFacts
    <3>2. batch'[t] = {} /\ \A u \in Thread : u # t => batch'[u] = batch[u]
      BY <2>3 DEF TypeOK
    <3>3. ASSUME NEW r \in Rank, r # q  PROVE recv_count'[r] = Cardinality(Counted(r)')
      <4>1. Counted(r)' = Counted(r)
        BY <1>1, <2>3, <3>2, <3>3 DEF Counted, HandledInv, ReceiverInv
      <4>2. recv_count'[r] = recv_count[r]  BY <2>3, <3>3 DEF TypeOK
      <4>. QED  BY <4>1, <4>2 DEF CountInv
    <3>4. recv_count'[q] = Cardinality(Counted(q)')
      <4>1. \A v \in batch[t] : got[q][v] = 1  BY <2>3 DEF HandledInv
      <4>2. Counted(q)' = Counted(q) \cup batch[t]
        <5>1. \A v \in batch[t] : \A u \in Thread : u # t => v \notin batch[u]
          BY DEF ReceiverInv
        <5>. QED  BY <1>1, <2>3, <3>2, <4>1, <5>1 DEF Counted
      <4>3. Counted(q) \cap batch[t] = {}  BY DEF Counted
      <4>4. Counted(q) \in SUBSET Records /\ batch[t] \in SUBSET Records
        BY <1>1 DEF Counted
      <4>5. Cardinality(Counted(q) \cup batch[t]) = Cardinality(Counted(q)) + Cardinality(batch[t])
        <5>1. IsFiniteSet(Counted(q)) /\ IsFiniteSet(batch[t])  BY <4>4, RecordSets
        <5>2. Cardinality(Counted(q)) \in Nat /\ Cardinality(batch[t]) \in Nat
          BY <4>4, RecordSets
        <5>3. Cardinality(Counted(q) \cap batch[t]) = 0  BY <4>3, FS_EmptySet
        <5>4. Cardinality(Counted(q) \cup batch[t])
                = Cardinality(Counted(q)) + Cardinality(batch[t])
                  - Cardinality(Counted(q) \cap batch[t])
          BY <5>1, FS_Union
        <5>. QED  BY <5>2, <5>3, <5>4
      <4>6. recv_count[q] = Cardinality(Counted(q))  BY <3>1 DEF CountInv
      <4>7. recv_count'[q] = recv_count[q] + Cardinality(batch[t])
        BY <2>3, <3>1 DEF TypeOK
      <4>. QED  BY <4>2, <4>5, <4>6, <4>7
    <3>. QED  BY <3>3, <3>4 DEF CountInv
  <2>. QED  BY <1>6, <2>1, <2>2, <2>3, ReceiveEffect
<1>. QED  BY <1>3, <1>5, <1>6 DEF DataStep, Quiet, MessageLeaves

-----------------------------------------------------------------------------
(* What recv_count() tells a worker that waits.                            *)

LEMMA AllCounted ==
  ASSUME TypeOK, HandledInv, CountInv, NEW r \in Rank, recv_count[r] >= Expected[r]
  PROVE  Counted(r) = Sent(r)
<1>1. Counted(r) \subseteq Sent(r)  BY DEF Counted, Sent, HandledInv
<1>2. Sent(r) \in SUBSET Records  BY DEF Sent
<1>3. IsFiniteSet(Sent(r)) /\ Cardinality(Sent(r)) \in Nat  BY <1>2, RecordSets
<1>4. Expected[r] = Cardinality(Sent(r))  BY ExpectedAssumption
<1>5. recv_count[r] = Cardinality(Counted(r))  BY DEF CountInv
<1>6. Cardinality(Counted(r)) <= Cardinality(Sent(r))  BY <1>1, <1>3, FS_Subset
<1>7. Cardinality(Counted(r)) \in Nat  BY <1>1, <1>2, RecordSets
<1>8. Cardinality(Sent(r)) = Cardinality(Counted(r))
  BY <1>3, <1>4, <1>5, <1>6, <1>7
<1>. QED  BY <1>1, <1>3, <1>8, FS_Subset

LEMMA CompletionFromInv ==
  ASSUME TypeOK, NetInv, ReceiverInv, HandledInv, CountInv
  PROVE  CompletionSound
<1>. SUFFICES ASSUME NEW r \in Rank, recv_count[r] >= Expected[r]
              PROVE  /\ \A v \in Sent(r) : got[r][v] = 1
                     /\ \A m \in net : m.dst # r
                     /\ \A t \in Thread : RankOf(t) = r => batch[t] = {}
  BY DEF CompletionSound
<1>1. Counted(r) = Sent(r)  BY AllCounted
<1>2. \A v \in Sent(r) : got[r][v] = 1  BY <1>1 DEF Counted
<1>3. \A m \in net : m.dst # r
  <2>. SUFFICES ASSUME NEW m \in net, m.dst = r  PROVE FALSE
    OBVIOUS
  <2>1. PICK v \in m.recs : v \in Records /\ Dest[v] = r
    <3>1. m.recs \subseteq Records  BY DEF TypeOK, Message
    <3>2. m.recs # {} /\ \A v \in m.recs : Dest[v] = m.dst  BY DEF NetInv
    <3>. QED  BY <3>1, <3>2
  <2>2. got[r][v] = 1  BY <1>2, <2>1 DEF Sent
  <2>. QED  BY <2>1, <2>2 DEF HandledInv
<1>4. \A t \in Thread : RankOf(t) = r => batch[t] = {}
  <2>. SUFFICES ASSUME NEW t \in Thread, RankOf(t) = r, NEW v \in batch[t]  PROVE FALSE
    OBVIOUS
  <2>1. v \in Sent(r)  BY DEF ReceiverInv, TypeOK, Sent
  <2>. QED  BY <1>1, <2>1 DEF Counted
<1>. QED  BY <1>2, <1>3, <1>4

-----------------------------------------------------------------------------
(* The points of the workers and the state of the ranks.                   *)

LEMMA InitControl == Init => ControlInv
BY RecordAssumption, ThreadFacts DEF Init, ControlInv, Outside

(* A step of a worker that stays inside the phase.                         *)
LEMMA ControlInside ==
  ASSUME ControlInv, NEW t \in Thread,
         pc[t] \notin {"idle", "barrier", "done"}, pc'[t] \notin {"idle", "barrier"},
         am_state' = am_state, recv_count' = recv_count,
         pc'[t] = "done" => recv_count[RankOf(t)] >= Expected[RankOf(t)],
         pc'[t] = "alloc" => cur'[t] # None,
         pc'[t] = "send" => send_buffers'[t][dst'[t]] # {},
         batch'[t] # {} => pc'[t] \in Progressing \cup {"loopback"},
         \A u \in Thread : u # t =>
           /\ pc'[u] = pc[u] /\ cur'[u] = cur[u] /\ send_buffers'[u] = send_buffers[u]
           /\ dst'[u] = dst[u] /\ batch'[u] = batch[u]
  PROVE  ControlInv'
<1>. USE DEF Outside
<1>1. \A u \in Thread : u # t => pc'[u] = pc[u]
  OBVIOUS
<1>2. \A r \in Rank : am_state[r] # "none"
  BY DEF ControlInv
<1>3. am_state[RankOf(t)] \notin {"none", "barrier", "cleared", "failed"}
  BY DEF ControlInv
<1>4. \A u \in Thread : pc'[u] \in Outside <=> am_state'[RankOf(u)] \in {"none", "barrier"}
  BY <1>1, <1>3 DEF ControlInv
<1>5. \A u \in Thread : pc'[u] = "barrier" =>
        u = Master(RankOf(u)) /\ am_state'[RankOf(u)] = "barrier"
  BY <1>1, <1>3 DEF ControlInv, Outside
<1>6. \A u \in Thread : am_state'[RankOf(u)] \in {"cleared", "failed"} => pc'[u] = "done"
  BY <1>1, <1>3 DEF ControlInv
<1>7. \A u \in Thread : pc'[u] = "done" => recv_count'[RankOf(u)] >= Expected[RankOf(u)]
  BY <1>1 DEF ControlInv
<1>8. \A u \in Thread : batch'[u] # {} => pc'[u] \in Progressing \cup {"loopback"}
  BY <1>1 DEF ControlInv
<1>9. \A u \in Thread : pc'[u] = "alloc" => cur'[u] # None
  BY <1>1 DEF ControlInv
<1>10. \A u \in Thread : pc'[u] = "send" => send_buffers'[u][dst'[u]] # {}
  BY <1>1 DEF ControlInv
<1>. QED
  BY <1>2, <1>4, <1>5, <1>6, <1>7, <1>8, <1>9, <1>10 DEF ControlInv

(* push(), called from either place, stays inside the phase.               *)
LEMMA PushControl ==
  ASSUME TypeOK, ControlInv, NEW t \in Thread, NEW v \in Records, Push(t, v),
         pc[t] \in {"post", "alloc"}, batch[t] = {},
         UNCHANGED <<am_state, recv_count>>,
         \A u \in Thread : u # t => cur'[u] = cur[u]
  PROVE  ControlInv'
<1>1. Dest[v] \in Rank  BY HomeDest
<1>2. send_buffers' = [send_buffers EXCEPT ![t][Dest[v]] = @ \cup {v}]
  BY PushEffect
<1>3. /\ \A u \in Thread : u # t => send_buffers'[u] = send_buffers[u]
      /\ v \in send_buffers'[t][Dest[v]]
  BY <1>1, <1>2 DEF TypeOK
<1>4. CASE pc' = [pc EXCEPT ![t] = "post"] /\ UNCHANGED <<dst, batch>>
  <2>1. pc'[t] = "post" /\ \A u \in Thread : u # t => pc'[u] = pc[u]
    BY <1>4 DEF TypeOK
  <2>. QED  BY <1>3, <1>4, <2>1, ControlInside
<1>5. CASE /\ pc' = [pc EXCEPT ![t] = "send"]
           /\ dst' = [dst EXCEPT ![t] = Dest[v]] /\ batch' = batch
  <2>1. dst'[t] = Dest[v] /\ \A u \in Thread : u # t => dst'[u] = dst[u]
    BY <1>1, <1>5 DEF TypeOK
  <2>2. pc'[t] = "send" /\ \A u \in Thread : u # t => pc'[u] = pc[u]
    BY <1>5 DEF TypeOK
  <2>. QED  BY <1>3, <1>5, <2>1, <2>2, ControlInside
<1>6. CASE /\ pc' = [pc EXCEPT ![t] = "loopback"]
           /\ dst' = [dst EXCEPT ![t] = Dest[v]]
           /\ batch' = [batch EXCEPT ![t] = send_buffers'[t][Dest[v]]]
  <2>1. \A u \in Thread : u # t => dst'[u] = dst[u] /\ batch'[u] = batch[u]
    BY <1>6 DEF TypeOK
  <2>2. pc'[t] = "loopback" /\ \A u \in Thread : u # t => pc'[u] = pc[u]
    BY <1>6 DEF TypeOK
  <2>. QED  BY <1>3, <2>1, <2>2, ControlInside
<1>. QED  BY <1>4, <1>5, <1>6, PushEffect

LEMMA StepControl ==
  TypeOK /\ ControlInv /\ [Next]_vars /\ TypeOK' => ControlInv'
<1>. SUFFICES ASSUME TypeOK, ControlInv, [Next]_vars, TypeOK'  PROVE ControlInv'
  OBVIOUS
<1>. USE ThreadFacts
<1>1. ASSUME NEW r \in Rank, Register(r)  PROVE ControlInv'
  <2>1. /\ am_state[r] = "none" /\ am_state' = [am_state EXCEPT ![r] = "barrier"]
        /\ pc' = [pc EXCEPT ![Master(r)] = "barrier"]
        /\ UNCHANGED <<recv_count, cur, dst, send_buffers, batch, net>>
    BY <1>1 DEF Register, rx_vars, net_vars
  <2>2. /\ net = {} /\ \A u \in Thread : pc[u] \in Outside
        /\ \A u \in Thread : RankOf(u) = r => batch[u] = {}
    BY <2>1 DEF ControlInv, Outside, Progressing
  <2>3. am_state'[r] = "barrier" /\ \A s \in Rank : s # r => am_state'[s] = am_state[s]
    BY <2>1 DEF TypeOK
  <2>4. /\ pc'[Master(r)] = "barrier"
        /\ \A u \in Thread : u # Master(r) => pc'[u] = pc[u]
    BY <2>1 DEF TypeOK
  <2>. QED  BY <2>1, <2>2, <2>3, <2>4 DEF ControlInv, Outside, Progressing
<1>2. ASSUME NEW r \in Rank, LeaveBarrier(r)  PROVE ControlInv'
  <2>1. /\ am_state[r] = "barrier" /\ am_state' = [am_state EXCEPT ![r] = "active"]
        /\ pc' = [t \in Thread |-> IF RankOf(t) = r THEN "post" ELSE pc[t]]
        /\ \A s \in Rank : am_state[s] # "none"
        /\ batch[Master(r)] = {}
        /\ UNCHANGED <<recv_count, cur, dst, send_buffers, batch, net>>
    BY <1>2 DEF LeaveBarrier, rx_vars, net_vars
  <2>2. am_state'[r] = "active" /\ \A s \in Rank : s # r => am_state'[s] = am_state[s]
    BY <2>1 DEF TypeOK
  <2>3. \A u \in Thread : RankOf(u) = r => pc'[u] = "post"  BY <2>1
  <2>4. \A u \in Thread : RankOf(u) # r => pc'[u] = pc[u]  BY <2>1
  <2>5. \A u \in Thread : RankOf(u) = r => batch[u] = {}
    BY <2>1 DEF ControlInv, Outside, Progressing
  <2>. QED  BY <2>1, <2>2, <2>3, <2>4, <2>5 DEF ControlInv, Outside
<1>3. ASSUME NEW r \in Rank, ClearAmHandler(r)  PROVE ControlInv'
  <2>1. /\ am_state[r] = "active"
        /\ \A t \in Thread : RankOf(t) = r => pc[t] = "done"
        /\ \E x \in {"failed", "cleared"} : am_state' = [am_state EXCEPT ![r] = x]
        /\ UNCHANGED <<recv_count, pc, cur, dst, send_buffers, batch, net>>
    BY <1>3 DEF ClearAmHandler, thread_vars, rx_vars, net_vars
  <2>2. /\ am_state'[r] \in {"failed", "cleared"}
        /\ \A s \in Rank : s # r => am_state'[s] = am_state[s]
    BY <2>1 DEF TypeOK
  <2>. QED  BY <2>1, <2>2 DEF ControlInv, Outside
<1>4. ASSUME NEW t \in Thread, PostRecord(t)  PROVE ControlInv'
  <2>1. PICK v \in todo[t] : Push(t, v)  BY <1>4 DEF PostRecord
  <2>2. v \in Records  BY <2>1 DEF TypeOK
  <2>3. pc[t] = "post" /\ batch[t] = {} /\ UNCHANGED <<am_state, recv_count, cur, net>>
    BY <1>4 DEF PostRecord, net_vars, ControlInv, Progressing
  <2>. QED  BY <2>1, <2>2, <2>3, PushControl DEF Outside
<1>5. ASSUME NEW t \in Thread, AwaitPacket(t)  PROVE ControlInv'
  <2>1. \E v \in todo[t] : cur' = [cur EXCEPT ![t] = v]  BY <1>5 DEF AwaitPacket
  <2>2. cur'[t] # None /\ \A u \in Thread : u # t => cur'[u] = cur[u]
    BY <2>1, RecordAssumption DEF TypeOK
  <2>3. /\ pc[t] = "post" /\ pc' = [pc EXCEPT ![t] = "alloc"]
        /\ UNCHANGED <<am_state, recv_count, dst, send_buffers, batch, net>>
    BY <1>5 DEF AwaitPacket, rx_vars, net_vars
  <2>4. pc'[t] = "alloc" /\ \A u \in Thread : u # t => pc'[u] = pc[u]
    BY <2>3 DEF TypeOK
  <2>. QED  BY <2>2, <2>3, <2>4, ControlInside DEF Progressing
<1>6. ASSUME NEW t \in Thread, GetPacket(t)  PROVE ControlInv'
  <2>1. cur[t] \in Records  BY <1>6 DEF GetPacket, ControlInv, TypeOK
  <2>2. /\ pc[t] = "alloc" /\ batch[t] = {} /\ Push(t, cur[t])
        /\ UNCHANGED <<am_state, recv_count, net>>
        /\ cur' = [cur EXCEPT ![t] = None]
    BY <1>6 DEF GetPacket, net_vars
  <2>3. \A u \in Thread : u # t => cur'[u] = cur[u]  BY <2>2 DEF TypeOK
  <2>. QED  BY <2>1, <2>2, <2>3, PushControl DEF Outside
<1>7. ASSUME NEW t \in Thread, EndPosting(t)  PROVE ControlInv'
  <2>1. /\ pc[t] = "post" /\ pc' = [pc EXCEPT ![t] = "flush"] /\ batch[t] = {}
        /\ UNCHANGED <<am_state, recv_count, cur, dst, send_buffers, batch, net>>
    BY <1>7 DEF EndPosting, rx_vars, net_vars, ControlInv, Progressing
  <2>2. pc'[t] = "flush" /\ \A u \in Thread : u # t => pc'[u] = pc[u]
    BY <2>1 DEF TypeOK
  <2>. QED  BY <2>1, <2>2, ControlInside
<1>8. ASSUME NEW t \in Thread, FlushDest(t)  PROVE ControlInv'
  <2>1. PICK i \in visited[t] .. NRanks - 1 :
          /\ send_buffers[t][FlushTarget(t, i)] # {}
          /\ StartSend(t, FlushTarget(t, i), send_buffers[t][FlushTarget(t, i)])
    BY <1>8 DEF FlushDest
  <2>. DEFINE d == FlushTarget(t, i)
  <2>2. i \in Nat  BY <2>1 DEF TypeOK
  <2>3. d \in Rank  BY <2>2, FlushTargetType
  <2>. HIDE DEF d
  <2>4. /\ pc[t] = "flush" /\ batch[t] = {} /\ send_buffers[t][d] # {}
        /\ StartSend(t, d, send_buffers[t][d])
        /\ UNCHANGED <<am_state, recv_count, cur, send_buffers, net>>
    BY <1>8, <2>1 DEF d, FlushDest, net_vars, ControlInv, Progressing
  <2>5. /\ dst' = [dst EXCEPT ![t] = d]
        /\ \/ /\ pc' = [pc EXCEPT ![t] = "loopback"]
              /\ batch' = [batch EXCEPT ![t] = send_buffers[t][d]]
           \/ /\ pc' = [pc EXCEPT ![t] = "send"]
              /\ batch' = batch
    BY <2>4 DEF StartSend, rx_vars
  <2>6. dst'[t] = d /\ \A u \in Thread : u # t => dst'[u] = dst[u] /\ batch'[u] = batch[u]
    BY <2>5 DEF TypeOK
  <2>7. CASE pc' = [pc EXCEPT ![t] = "loopback"]
    <3>1. pc'[t] = "loopback" /\ \A u \in Thread : u # t => pc'[u] = pc[u]
      BY <2>7 DEF TypeOK
    <3>. QED  BY <2>4, <2>6, <3>1, ControlInside
  <2>8. CASE pc' = [pc EXCEPT ![t] = "send"] /\ batch' = batch
    <3>1. pc'[t] = "send" /\ \A u \in Thread : u # t => pc'[u] = pc[u]
      BY <2>8 DEF TypeOK
    <3>. QED  BY <2>4, <2>6, <2>8, <3>1, ControlInside
  <2>. QED  BY <2>5, <2>7, <2>8
<1>9. ASSUME NEW t \in Thread, EndFlush(t)  PROVE ControlInv'
  <2>1. /\ pc[t] = "flush" /\ pc' = [pc EXCEPT ![t] = "wait"]
        /\ UNCHANGED <<am_state, recv_count, cur, dst, send_buffers, batch, net>>
    BY <1>9 DEF EndFlush, rx_vars, net_vars
  <2>2. pc'[t] = "wait" /\ \A u \in Thread : u # t => pc'[u] = pc[u]
    BY <2>1 DEF TypeOK
  <2>. QED  BY <2>1, <2>2, ControlInside DEF Progressing
<1>10. ASSUME NEW t \in Thread, PostAm(t)  PROVE ControlInv'
  <2>1. /\ pc[t] = "send" /\ pc' = [pc EXCEPT ![t] = "posted"]
        /\ UNCHANGED <<am_state, recv_count, cur, dst, send_buffers, batch>>
    BY <1>10 DEF PostAm, rx_vars
  <2>2. pc'[t] = "posted" /\ \A u \in Thread : u # t => pc'[u] = pc[u]
    BY <2>1 DEF TypeOK
  <2>. QED  BY <2>1, <2>2, ControlInside DEF Progressing
<1>11. ASSUME NEW t \in Thread, Release(t)  PROVE ControlInv'
  <2>1. /\ pc[t] \in {"posted", "loopback"} /\ batch[t] = {}
        /\ \E p \in {"post", "flush"} : pc' = [pc EXCEPT ![t] = p]
        /\ send_buffers' = [send_buffers EXCEPT ![t][dst[t]] = {}]
        /\ UNCHANGED <<am_state, recv_count, cur, dst, batch, net>>
    BY <1>11 DEF Release, rx_vars, net_vars
  <2>2. \A u \in Thread : u # t => send_buffers'[u] = send_buffers[u]
    BY <2>1 DEF TypeOK
  <2>3. pc'[t] \in {"post", "flush"} /\ \A u \in Thread : u # t => pc'[u] = pc[u]
    BY <2>1 DEF TypeOK
  <2>. QED  BY <2>1, <2>2, <2>3, ControlInside
<1>12. ASSUME NEW t \in Thread, Receives(t)  PROVE ControlInv'
  <2>1. UNCHANGED <<am_state, pc, cur, dst, send_buffers>>
    BY <1>12 DEF Receives, TakeMessage, InvokeHandler, CountBatch, thread_vars
  <2>2. net' # {} => net # {}  BY <1>12, ReceiveEffect
  <2>3. \A u \in Thread : batch'[u] # {} => pc[u] \in Progressing \cup {"loopback"}
    <3>1. CASE TakeMessage(t)
      <4>1. pc[t] \in Progressing /\ \E x : batch' = [batch EXCEPT ![t] = x]
        BY <3>1 DEF TakeMessage, CanProgress
      <4>2. \A u \in Thread : u # t => batch'[u] = batch[u]  BY <4>1 DEF TypeOK
      <4>. QED  BY <4>1, <4>2 DEF ControlInv
    <3>2. CASE InvokeHandler(t)
      BY <3>2 DEF InvokeHandler, ControlInv
    <3>3. CASE CountBatch(t)
      BY <3>3 DEF CountBatch, ControlInv, TypeOK
    <3>. QED  BY <1>12, <3>1, <3>2, <3>3 DEF Receives
  <2>4. \A r \in Rank : recv_count'[r] >= recv_count[r]
    <3>1. CASE recv_count' = recv_count
      BY <3>1 DEF TypeOK
    <3>2. CASE recv_count' = [recv_count EXCEPT ![RankOf(t)] = @ + Cardinality(batch[t])]
      <4>1. Cardinality(batch[t]) \in Nat  BY RecordSets DEF TypeOK
      <4>2. recv_count \in [Rank -> Nat] /\ RankOf(t) \in Rank  BY DEF TypeOK
      <4>. HIDE DEF TypeOK
      <4>3. \A r \in Rank : recv_count'[r] =
              IF r = RankOf(t) THEN recv_count[r] + Cardinality(batch[t]) ELSE recv_count[r]
        BY <3>2, <4>2
      <4>. QED  BY <4>1, <4>2, <4>3
    <3>. QED  BY <1>12, <3>1, <3>2, ReceiveEffect
  <2>5. \A u \in Thread : pc'[u] = "done" => recv_count'[RankOf(u)] >= Expected[RankOf(u)]
    <3>. SUFFICES ASSUME NEW u \in Thread, pc[u] = "done"
                  PROVE  recv_count'[RankOf(u)] >= Expected[RankOf(u)]
      BY <2>1
    <3>1. Sent(RankOf(u)) \in SUBSET Records  BY DEF Sent
    <3>2. Expected[RankOf(u)] \in Nat  BY <3>1, ExpectedAssumption, RecordSets
    <3>3. recv_count[RankOf(u)] >= Expected[RankOf(u)]  BY DEF ControlInv
    <3>4. recv_count'[RankOf(u)] >= recv_count[RankOf(u)]  BY <2>4
    <3>5. recv_count[RankOf(u)] \in Nat /\ recv_count'[RankOf(u)] \in Nat  BY DEF TypeOK
    <3>. QED  BY <3>2, <3>3, <3>4, <3>5
  <2>. QED  BY <2>1, <2>2, <2>3, <2>5 DEF ControlInv
<1>13. ASSUME NEW t \in Thread, CompleteSend(t)  PROVE ControlInv'
  BY <1>13 DEF CompleteSend, thread_vars, rx_vars, ControlInv
<1>14. ASSUME NEW t \in Thread, ExitWait(t)  PROVE ControlInv'
  <2>1. /\ pc[t] = "wait" /\ batch[t] = {} /\ pc' = [pc EXCEPT ![t] = "done"]
        /\ recv_count[RankOf(t)] >= Expected[RankOf(t)]
        /\ UNCHANGED <<am_state, recv_count, cur, dst, send_buffers, batch, net>>
    BY <1>14 DEF ExitWait, rx_vars, net_vars
  <2>2. pc'[t] = "done" /\ \A u \in Thread : u # t => pc'[u] = pc[u]
    BY <2>1 DEF TypeOK
  <2>. QED  BY <2>1, <2>2, ControlInside
<1>15. CASE UNCHANGED vars
  BY <1>15 DEF vars, thread_vars, rx_vars, net_vars, ControlInv
<1>. QED
  BY <1>1, <1>2, <1>3, <1>4, <1>5, <1>6, <1>7, <1>8, <1>9, <1>10, <1>11, <1>12,
     <1>13, <1>14, <1>15
  DEF Next, RankStep, ThreadStep, Terminated, Receives

-----------------------------------------------------------------------------
(* flush() and the check of clear_am_handler().                            *)

LEMMA InitFlush == Init => FlushInv
BY DEF Init, FlushInv, FlushProgress

LEMMA FlushFrame ==
  ASSUME FlushInv, NEW t \in Thread, am_state' = am_state, FlushProgress(t)',
         \A u \in Thread : u # t =>
           /\ pc'[u] = pc[u] /\ dst'[u] = dst[u] /\ visited'[u] = visited[u]
           /\ todo'[u] = todo[u] /\ send_buffers'[u] = send_buffers[u]
  PROVE  FlushInv'
BY DEF FlushInv, FlushProgress

(* push() before flush() has begun.                                        *)
LEMMA PushFlush ==
  ASSUME TypeOK, FlushInv, NEW t \in Thread, NEW v \in Records, Push(t, v),
         pc[t] \in {"post", "alloc"}, UNCHANGED <<am_state, visited>>,
         \A u \in Thread : u # t => todo'[u] = todo[u]
  PROVE  FlushInv'
<1>1. visited[t] = 0
  BY DEF FlushInv, FlushProgress, Sending
<1>2. \A u \in Thread : u # t => send_buffers'[u] = send_buffers[u]
  <2>1. send_buffers' = [send_buffers EXCEPT ![t][Dest[v]] = @ \cup {v}]  BY PushEffect
  <2>. QED  BY <2>1 DEF TypeOK
<1>3. \A u \in Thread : u # t => dst'[u] = dst[u]
  <2>1. dst' = dst \/ dst' = [dst EXCEPT ![t] = Dest[v]]  BY PushEffect
  <2>. QED  BY <2>1 DEF TypeOK
<1>4. pc'[t] \in Sending \cup {"post"} /\ \A u \in Thread : u # t => pc'[u] = pc[u]
  <2>1. \E p \in Sending \cup {"post"} : pc' = [pc EXCEPT ![t] = p]
    BY PushEffect DEF Sending
  <2>. QED  BY <2>1 DEF TypeOK
<1>5. FlushProgress(t)'
  BY <1>1, <1>4 DEF FlushProgress, Sending
<1>. QED  BY <1>2, <1>3, <1>4, <1>5, FlushFrame

LEMMA StepFlush == TypeOK /\ ControlInv /\ FlushInv /\ [Next]_vars => FlushInv'
<1>. SUFFICES ASSUME TypeOK, ControlInv, FlushInv, [Next]_vars  PROVE FlushInv'
  OBVIOUS
<1>. USE ThreadFacts
<1>1. CASE UNCHANGED <<am_state, pc, dst, visited, todo, send_buffers>>
  BY <1>1 DEF FlushInv, FlushProgress
<1>2. ASSUME NEW r \in Rank, Register(r)  PROVE FlushInv'
  <2>1. /\ am_state[r] = "none" /\ am_state' = [am_state EXCEPT ![r] = "barrier"]
        /\ pc' = [pc EXCEPT ![Master(r)] = "barrier"]
        /\ UNCHANGED <<todo, dst, visited, send_buffers>>
    BY <1>2 DEF Register
  <2>2. pc[Master(r)] \in Outside  BY <2>1 DEF ControlInv
  <2>3. /\ pc'[Master(r)] = "barrier"
        /\ \A u \in Thread : u # Master(r) => pc'[u] = pc[u]
    BY <2>1 DEF TypeOK
  <2>4. visited[Master(r)] = 0  BY <2>2 DEF FlushInv, FlushProgress, Sending, Outside
  <2>5. FlushProgress(Master(r))'  BY <2>1, <2>3, <2>4 DEF FlushProgress
  <2>6. \A u \in Thread : u # Master(r) => FlushProgress(u)'
    BY <2>1, <2>3 DEF FlushInv, FlushProgress
  <2>. QED  BY <2>1, <2>5, <2>6 DEF FlushInv, TypeOK
<1>3. ASSUME NEW r \in Rank, LeaveBarrier(r)  PROVE FlushInv'
  <2>1. /\ am_state[r] = "barrier" /\ am_state' = [am_state EXCEPT ![r] = "active"]
        /\ pc' = [t \in Thread |-> IF RankOf(t) = r THEN "post" ELSE pc[t]]
        /\ UNCHANGED <<todo, dst, visited, send_buffers>>
    BY <1>3 DEF LeaveBarrier
  <2>2. ASSUME NEW u \in Thread  PROVE FlushProgress(u)'
    <3>1. CASE RankOf(u) = r
      <4>1. visited[u] = 0 /\ pc'[u] = "post"
        BY <2>1, <3>1 DEF ControlInv, Outside, FlushInv, FlushProgress, Sending
      <4>. QED  BY <2>1, <4>1 DEF FlushProgress
    <3>2. CASE RankOf(u) # r
      BY <2>1, <3>2 DEF FlushInv, FlushProgress
    <3>. QED  BY <3>1, <3>2
  <2>. QED  BY <2>1, <2>2 DEF FlushInv, TypeOK
<1>4. ASSUME NEW r \in Rank, ClearAmHandler(r)  PROVE FlushInv'
  <2>1. ~HasBufferedRecords(r)
    <3>. SUFFICES ASSUME NEW t \in Thread, RankOf(t) = r, NEW d \in Rank
                  PROVE  send_buffers[t][d] = {}
      BY DEF HasBufferedRecords
    <3>1. pc[t] = "done"  BY <1>4 DEF ClearAmHandler
    <3>2. PICK i \in 0 .. NRanks - 1 : FlushTarget(t, i) = d  BY FlushTargetOnto
    <3>. QED  BY <3>1, <3>2 DEF FlushInv, FlushProgress
  <2>2. am_state' = [am_state EXCEPT ![r] = "cleared"] /\ UNCHANGED thread_vars
    BY <1>4, <2>1 DEF ClearAmHandler
  <2>. QED  BY <2>2 DEF thread_vars, FlushInv, FlushProgress, TypeOK
<1>5. ASSUME NEW t \in Thread, PostRecord(t)  PROVE FlushInv'
  <2>1. PICK v \in todo[t] : Push(t, v) /\ todo' = [todo EXCEPT ![t] = @ \ {v}]
    BY <1>5 DEF PostRecord
  <2>2. v \in Records /\ \A u \in Thread : u # t => todo'[u] = todo[u]
    BY <2>1 DEF TypeOK
  <2>3. pc[t] = "post" /\ UNCHANGED <<am_state, visited>>  BY <1>5 DEF PostRecord
  <2>. QED  BY <2>1, <2>2, <2>3, PushFlush
<1>6. ASSUME NEW t \in Thread, AwaitPacket(t)  PROVE FlushInv'
  <2>1. /\ pc[t] = "post" /\ pc' = [pc EXCEPT ![t] = "alloc"]
        /\ \E x : todo' = [todo EXCEPT ![t] = x]
        /\ UNCHANGED <<am_state, dst, visited, send_buffers>>
    BY <1>6 DEF AwaitPacket
  <2>2. pc'[t] = "alloc" /\ \A u \in Thread : u # t => pc'[u] = pc[u] /\ todo'[u] = todo[u]
    BY <2>1 DEF TypeOK
  <2>3. visited[t] = 0  BY <2>1 DEF FlushInv, FlushProgress, Sending
  <2>4. FlushProgress(t)'  BY <2>1, <2>2, <2>3 DEF FlushProgress
  <2>. QED  BY <2>1, <2>2, <2>4, FlushFrame
<1>7. ASSUME NEW t \in Thread, GetPacket(t)  PROVE FlushInv'
  <2>1. cur[t] \in Records  BY <1>7 DEF GetPacket, ControlInv, TypeOK
  <2>. QED  BY <1>7, <2>1, PushFlush DEF GetPacket
<1>8. ASSUME NEW t \in Thread, EndPosting(t)  PROVE FlushInv'
  <2>1. /\ pc[t] = "post" /\ todo[t] = {} /\ pc' = [pc EXCEPT ![t] = "flush"]
        /\ UNCHANGED <<am_state, todo, dst, visited, send_buffers>>
    BY <1>8 DEF EndPosting
  <2>2. pc'[t] = "flush" /\ \A u \in Thread : u # t => pc'[u] = pc[u]
    BY <2>1 DEF TypeOK
  <2>3. visited[t] = 0  BY <2>1 DEF FlushInv, FlushProgress, Sending
  <2>4. FlushProgress(t)'  BY <2>1, <2>2, <2>3 DEF FlushProgress
  <2>. QED  BY <2>1, <2>2, <2>4, FlushFrame
<1>9. ASSUME NEW t \in Thread, FlushDest(t)  PROVE FlushInv'
  <2>1. PICK i \in visited[t] .. NRanks - 1 :
          /\ \A j \in visited[t] .. i - 1 : send_buffers[t][FlushTarget(t, j)] = {}
          /\ visited' = [visited EXCEPT ![t] = i + 1]
          /\ StartSend(t, FlushTarget(t, i), send_buffers[t][FlushTarget(t, i)])
    BY <1>9 DEF FlushDest
  <2>2. visited[t] \in Nat /\ i \in Nat  BY <2>1 DEF TypeOK
  <2>3. FlushTarget(t, i) \in Rank  BY <2>2, FlushTargetType
  <2>4. /\ pc[t] = "flush" /\ UNCHANGED <<am_state, todo, send_buffers>>
        /\ dst' = [dst EXCEPT ![t] = FlushTarget(t, i)]
        /\ \E p \in Sending : pc' = [pc EXCEPT ![t] = p]
    BY <1>9, <2>1 DEF FlushDest, StartSend, Sending
  <2>5. pc'[t] \in Sending /\ \A u \in Thread : u # t => pc'[u] = pc[u]
    BY <2>4 DEF TypeOK
  <2>6. dst'[t] = FlushTarget(t, i) /\ \A u \in Thread : u # t => dst'[u] = dst[u]
    BY <2>3, <2>4 DEF TypeOK
  <2>7. visited'[t] = i + 1 /\ \A u \in Thread : u # t => visited'[u] = visited[u]
    BY <2>1 DEF TypeOK
  <2>8. todo[t] = {} /\ \A j \in 0 .. visited[t] - 1 : send_buffers[t][FlushTarget(t, j)] = {}
    BY <2>4 DEF FlushInv, FlushProgress, Sending
  <2>9. ASSUME NEW j \in 0 .. i, j # i  PROVE send_buffers[t][FlushTarget(t, j)] = {}
    <3>1. j \in 0 .. visited[t] - 1 \/ j \in visited[t] .. i - 1  BY <2>2, <2>9
    <3>. QED  BY <2>1, <2>8, <3>1
  <2>10. FlushProgress(t)'
    <3>1. ASSUME NEW j \in 0 .. visited'[t] - 1
          PROVE  \/ send_buffers'[t][FlushTarget(t, j)] = {}
                 \/ pc'[t] \in Sending /\ dst'[t] = FlushTarget(t, j)
      <4>1. j \in 0 .. i  BY <2>2, <2>7
      <4>. QED  BY <2>4, <2>5, <2>6, <2>9, <4>1
    <3>. QED  BY <2>4, <2>5, <2>8, <3>1 DEF FlushProgress, Sending, FlushTarget
  <2>. QED  BY <2>4, <2>5, <2>6, <2>7, <2>10, FlushFrame
<1>10. ASSUME NEW t \in Thread, EndFlush(t)  PROVE FlushInv'
  <2>1. /\ pc[t] = "flush" /\ pc' = [pc EXCEPT ![t] = "wait"]
        /\ \A j \in visited[t] .. NRanks - 1 : send_buffers[t][FlushTarget(t, j)] = {}
        /\ UNCHANGED <<am_state, todo, dst, visited, send_buffers>>
    BY <1>10 DEF EndFlush
  <2>2. pc'[t] = "wait" /\ \A u \in Thread : u # t => pc'[u] = pc[u]
    BY <2>1 DEF TypeOK
  <2>3. todo[t] = {} /\ \A j \in 0 .. visited[t] - 1 : send_buffers[t][FlushTarget(t, j)] = {}
    BY <2>1 DEF FlushInv, FlushProgress, Sending
  <2>4. ASSUME NEW j \in 0 .. NRanks - 1  PROVE send_buffers[t][FlushTarget(t, j)] = {}
    <3>1. visited[t] \in Nat  BY DEF TypeOK
    <3>2. j \in 0 .. visited[t] - 1 \/ j \in visited[t] .. NRanks - 1
      BY <3>1, SizeAssumption
    <3>. QED  BY <2>1, <2>3, <3>2
  <2>5. FlushProgress(t)'
    BY <2>1, <2>2, <2>3, <2>4 DEF FlushProgress, FlushTarget
  <2>. QED  BY <2>1, <2>2, <2>5, FlushFrame
<1>11. ASSUME NEW t \in Thread, PostAm(t)  PROVE FlushInv'
  <2>1. /\ pc[t] = "send" /\ pc' = [pc EXCEPT ![t] = "posted"]
        /\ UNCHANGED <<am_state, todo, dst, visited, send_buffers>>
    BY <1>11 DEF PostAm
  <2>2. pc'[t] = "posted" /\ \A u \in Thread : u # t => pc'[u] = pc[u]
    BY <2>1 DEF TypeOK
  <2>3. FlushProgress(t)'
    BY <2>1, <2>2 DEF FlushInv, FlushProgress, FlushTarget, Sending
  <2>. QED  BY <2>1, <2>2, <2>3, FlushFrame
<1>12. ASSUME NEW t \in Thread, Release(t)  PROVE FlushInv'
  <2>1. /\ pc[t] \in {"posted", "loopback"}
        /\ pc' = [pc EXCEPT ![t] = IF visited[t] = 0 THEN "post" ELSE "flush"]
        /\ send_buffers' = [send_buffers EXCEPT ![t][dst[t]] = {}]
        /\ UNCHANGED <<am_state, todo, dst, visited>>
    BY <1>12 DEF Release
  <2>2. /\ pc'[t] = IF visited[t] = 0 THEN "post" ELSE "flush"
        /\ \A u \in Thread : u # t => pc'[u] = pc[u] /\ send_buffers'[u] = send_buffers[u]
    BY <2>1 DEF TypeOK
  <2>3. \A d \in Rank : d = dst[t] \/ send_buffers[t][d] = {} => send_buffers'[t][d] = {}
    BY <2>1 DEF TypeOK
  <2>4. ASSUME NEW j \in 0 .. visited[t] - 1  PROVE send_buffers'[t][FlushTarget(t, j)] = {}
    <3>1. j \in Nat  BY DEF TypeOK
    <3>2. FlushTarget(t, j) \in Rank  BY <3>1, FlushTargetType
    <3>3. \/ send_buffers[t][FlushTarget(t, j)] = {}
          \/ dst[t] = FlushTarget(t, j)
      BY DEF FlushInv, FlushProgress
    <3>. QED  BY <2>3, <3>2, <3>3
  <2>5. visited[t] # 0 => todo[t] = {}  BY DEF FlushInv, FlushProgress
  <2>6. FlushProgress(t)'
    BY <2>1, <2>2, <2>4, <2>5 DEF FlushProgress, FlushTarget
  <2>. QED  BY <2>1, <2>2, <2>6, FlushFrame
<1>13. ASSUME NEW t \in Thread, ExitWait(t)  PROVE FlushInv'
  <2>1. /\ pc[t] = "wait" /\ pc' = [pc EXCEPT ![t] = "done"]
        /\ UNCHANGED <<am_state, todo, dst, visited, send_buffers>>
    BY <1>13 DEF ExitWait
  <2>2. pc'[t] = "done" /\ \A u \in Thread : u # t => pc'[u] = pc[u]
    BY <2>1 DEF TypeOK
  <2>3. FlushProgress(t)'
    BY <2>1, <2>2 DEF FlushInv, FlushProgress, FlushTarget, Sending
  <2>. QED  BY <2>1, <2>2, <2>3, FlushFrame
<1>. QED
  BY <1>1, <1>2, <1>3, <1>4, <1>5, <1>6, <1>7, <1>8, <1>9, <1>10, <1>11, <1>12, <1>13
  DEF Next, RankStep, ThreadStep, Terminated, vars, thread_vars, TakeMessage, CompleteSend,
      InvokeHandler, CountBatch

-----------------------------------------------------------------------------
(* The theorems.                                                           *)

(* The invariant of AmExchangeInv holds in every reachable state.          *)
THEOREM Inductive == Spec => []IInv
<1>1. Init => IInv
  BY InitType, InitControl, InitValues, InitCount, InitFlush DEF IInv
<1>2. IInv /\ [Next]_vars => IInv'
  <2>. SUFFICES ASSUME IInv, [Next]_vars  PROVE IInv'
    OBVIOUS
  <2>1. TypeOK'  BY StepType DEF IInv
  <2>2. ControlInv'  BY <2>1, StepControl DEF IInv
  <2>3. SenderInv'  BY StepSender DEF IInv
  <2>4. Monotone /\ DataStep  BY StepData DEF IInv
  <2>5. NetInv'  BY <2>1, <2>4, StepNet DEF IInv
  <2>6. ReceiverInv'  BY <2>4, StepReceiver DEF IInv
  <2>7. HandledInv'  BY <2>4, StepHandled DEF IInv
  <2>8. CountInv'  BY <2>4, StepCount DEF IInv
  <2>9. FlushInv'  BY StepFlush DEF IInv
  <2>. QED  BY <2>1, <2>2, <2>3, <2>5, <2>6, <2>7, <2>8, <2>9 DEF IInv
<1>. QED  BY <1>1, <1>2, PTL DEF Spec

(* The types of the variables, for every size of the job.                  *)
THEOREM TypeCorrect == Spec => []TypeOK
<1>1. IInv => TypeOK  BY DEF IInv
<1>. QED  BY <1>1, Inductive, PTL

(* No key is handled twice or on a rank it is not routed to.               *)
THEOREM AtMostOnce == Spec => []HandledAtMostOnce
<1>1. IInv => HandledAtMostOnce
  BY DEF IInv, HandledInv, HandledAtMostOnce
<1>. QED  BY <1>1, Inductive, PTL

(* Waiting for recv_count() to reach the expected count is enough: nothing *)
(* for the rank is then unhandled, on its way or in a handler.             *)
THEOREM Completion == Spec => []CompletionSound
<1>1. IInv => CompletionSound  BY CompletionFromInv DEF IInv
<1>. QED  BY <1>1, Inductive, PTL

(* No message meets a rank whose handler is missing or gone.               *)
THEOREM NoStray == Spec => []NoStrayMessage
<1>1. IInv => NoStrayMessage
  <2>. SUFFICES ASSUME IInv  PROVE NoStrayMessage
    OBVIOUS
  <2>1. CompletionSound  BY CompletionFromInv DEF IInv
  <2>2. ASSUME NEW r \in Rank, am_state[r] \in {"cleared", "failed"}
        PROVE  /\ \A m \in net : m.dst # r
               /\ \A t \in Thread : RankOf(t) = r => batch[t] = {}
    <3>1. pc[Master(r)] = "done"  BY <2>2, ThreadFacts DEF IInv, ControlInv
    <3>2. recv_count[r] >= Expected[r]  BY <3>1, ThreadFacts DEF IInv, ControlInv
    <3>. QED  BY <2>1, <3>2 DEF CompletionSound
  <2>3. \A r \in Rank : am_state[r] \in {"none", "barrier", "active", "cleared", "failed"}
    BY DEF IInv, TypeOK
  <2>4. ASSUME NEW m \in net  PROVE am_state[m.dst] \in {"barrier", "active"}
    <3>1. m.dst \in Rank  BY DEF IInv, TypeOK, Message
    <3>2. am_state[m.dst] # "none"  BY <3>1 DEF IInv, ControlInv
    <3>. QED  BY <2>2, <2>3, <3>1, <3>2
  <2>5. ASSUME NEW t \in Thread, batch[t] # {}
        PROVE  am_state[RankOf(t)] \in {"barrier", "active"}
    <3>1. RankOf(t) \in Rank  BY ThreadFacts
    <3>2. pc[t] \in Progressing \cup {"loopback"}  BY <2>5 DEF IInv, ControlInv
    <3>3. am_state[RankOf(t)] # "none"
      BY <3>1, <3>2 DEF IInv, ControlInv, Progressing, Outside
    <3>. QED  BY <2>2, <2>3, <2>5, <3>1, <3>3
  <2>. QED  BY <2>4, <2>5 DEF NoStrayMessage
<1>. QED  BY <1>1, Inductive, PTL

(* clear_am_handler() never finds buffered values.                         *)
THEOREM ClearSucceeds == Spec => []ClearNeverFails
<1>1. IInv => ClearNeverFails  BY DEF IInv, FlushInv, ClearNeverFails
<1>. QED  BY <1>1, Inductive, PTL

-----------------------------------------------------------------------------
(* The exchange implements AmDelivery.                                     *)

PostedValues == {v \in Records : v \notin todo[Home[v]]}
EndedRanks == {r \in Rank : am_state[r] = "cleared"}

LEMMA DeliveryInit == Init => Delivery!Init
<1>. SUFFICES ASSUME Init  PROVE Delivery!Init
  OBVIOUS
<1>1. PostedValues = {}  BY HomeDest DEF Init, PostedValues
<1>2. EndedRanks = {}  BY DEF Init, EndedRanks
<1>3. got = [r \in Rank |-> [v \in Records |-> 0]]  BY DEF Init
<1>. QED  BY <1>1, <1>2, <1>3 DEF Delivery!Init, PostedValues, EndedRanks

LEMMA DeliveryStutter ==
  ASSUME UNCHANGED <<todo, am_state, got>>
  PROVE  UNCHANGED Delivery!vars
BY DEF Delivery!vars

(* Taking a value from the worker's share is a Post step.                  *)
LEMMA DeliveryPost ==
  ASSUME TypeOK, SenderInv, NEW t \in Thread, NEW v \in todo[t],
         todo' = [todo EXCEPT ![t] = @ \ {v}], UNCHANGED <<am_state, got>>
  PROVE  Delivery!Next
<1>1. v \in Records /\ Home[v] = t  BY DEF TypeOK, SenderInv
<1>2. v \notin PostedValues  BY <1>1 DEF PostedValues
<1>3. PostedValues' = PostedValues \cup {v}
  BY <1>1, HomeDest DEF TypeOK, PostedValues
<1>4. EndedRanks' = EndedRanks  BY DEF EndedRanks
<1>5. Delivery!Post(v)
  BY <1>2, <1>3, <1>4 DEF Delivery!Post, PostedValues, EndedRanks
<1>. QED  BY <1>1, <1>5 DEF Delivery!Next

LEMMA DeliveryStep == IInv /\ [Next]_vars => [Delivery!Next]_(Delivery!vars)
<1>. SUFFICES ASSUME IInv, [Next]_vars  PROVE Delivery!Next \/ UNCHANGED Delivery!vars
  OBVIOUS
<1>1. CASE UNCHANGED <<todo, am_state, got>>
  BY <1>1, DeliveryStutter
<1>2. ASSUME NEW r \in Rank, Register(r) \/ LeaveBarrier(r)
      PROVE  UNCHANGED Delivery!vars
  <2>1. \E x \in {"barrier", "active"} : am_state' = [am_state EXCEPT ![r] = x]
    BY <1>2 DEF Register, LeaveBarrier
  <2>2. am_state[r] # "cleared"  BY <1>2 DEF Register, LeaveBarrier
  <2>3. EndedRanks' = EndedRanks  BY <2>1, <2>2 DEF IInv, TypeOK, EndedRanks
  <2>4. UNCHANGED <<todo, got>>  BY <1>2 DEF Register, LeaveBarrier
  <2>. QED  BY <2>3, <2>4 DEF Delivery!vars, EndedRanks
<1>3. ASSUME NEW r \in Rank, ClearAmHandler(r)  PROVE Delivery!Next \/ UNCHANGED Delivery!vars
  <2>1. /\ am_state[r] = "active"
        /\ \A t \in Thread : RankOf(t) = r => pc[t] = "done"
        /\ UNCHANGED <<todo, got>>
        /\ \/ am_state' = [am_state EXCEPT ![r] = "cleared"]
           \/ am_state' = [am_state EXCEPT ![r] = "failed"]
    BY <1>3 DEF ClearAmHandler, thread_vars
  <2>2. CASE am_state' = [am_state EXCEPT ![r] = "failed"]
    <3>1. EndedRanks' = EndedRanks  BY <2>1, <2>2 DEF IInv, TypeOK, EndedRanks
    <3>. QED  BY <2>1, <3>1 DEF Delivery!vars, EndedRanks
  <2>3. CASE am_state' = [am_state EXCEPT ![r] = "cleared"]
    <3>1. r \notin EndedRanks /\ EndedRanks' = EndedRanks \cup {r}
      BY <2>1, <2>3 DEF IInv, TypeOK, EndedRanks
    <3>2. \A v \in Records : RankOf(Home[v]) = r => v \in PostedValues
      BY <2>1, HomeDest DEF PostedValues, IInv, FlushInv, FlushProgress
    <3>3. \A v \in Records : Dest[v] = r => got[r][v] = 1
      <4>1. CompletionSound  BY CompletionFromInv DEF IInv
      <4>2. recv_count[r] >= Expected[r]
        BY <2>1, ThreadFacts DEF IInv, ControlInv
      <4>. QED  BY <4>1, <4>2 DEF CompletionSound, Sent
    <3>4. Delivery!End(r)
      BY <2>1, <3>1, <3>2, <3>3 DEF Delivery!End, PostedValues, EndedRanks
    <3>. QED  BY <3>4 DEF Delivery!Next
  <2>. QED  BY <2>1, <2>2, <2>3
<1>4. ASSUME NEW t \in Thread, PostRecord(t) \/ AwaitPacket(t)  PROVE Delivery!Next
  <2>1. PICK v \in todo[t] : todo' = [todo EXCEPT ![t] = @ \ {v}]
    BY <1>4 DEF PostRecord, AwaitPacket
  <2>2. UNCHANGED <<am_state, got>>  BY <1>4 DEF PostRecord, AwaitPacket
  <2>. QED  BY <2>1, <2>2, DeliveryPost DEF IInv
<1>5. ASSUME NEW t \in Thread, InvokeHandler(t)  PROVE Delivery!Next
  <2>1. PICK v \in left[t] : got' = [got EXCEPT ![RankOf(t)][v] = @ + 1]
    BY <1>5 DEF InvokeHandler
  <2>2. v \in Records /\ v \in batch[t]  BY DEF IInv, TypeOK, ReceiverInv
  <2>3. Dest[v] = RankOf(t) /\ v \notin todo[Home[v]]
    BY <2>2 DEF IInv, ReceiverInv, Unsent
  <2>4. RankOf(t) \in Rank /\ got[RankOf(t)][v] = 0
    BY <2>2, ThreadFacts DEF IInv, HandledInv
  <2>5. got' = [got EXCEPT ![Dest[v]][v] = 1]
    BY <2>1, <2>3, <2>4 DEF IInv, TypeOK
  <2>6. UNCHANGED <<todo, am_state>>  BY <1>5 DEF InvokeHandler, thread_vars
  <2>7. Delivery!Handle(v)
    BY <2>2, <2>3, <2>4, <2>5, <2>6 DEF Delivery!Handle
  <2>. QED  BY <2>2, <2>7 DEF Delivery!Next
<1>. QED
  BY <1>1, <1>2, <1>3, <1>4, <1>5, ZenonT(40)
  DEF Next, RankStep, ThreadStep, Terminated, vars, thread_vars, GetPacket, EndPosting,
      FlushDest, EndFlush, PostAm, Release, TakeMessage, CompleteSend, CountBatch, ExitWait

(* Every behaviour of the exchange is one that AmDelivery allows: handlers *)
(* run once, after the post, and a rank ends only after all its values are *)
(* posted and all values sent to it are handled.                           *)
THEOREM Refinement == Spec => Delivery!SafeSpec
<1>. QED
  BY Inductive, DeliveryInit, DeliveryStep, PTL DEF Spec, Delivery!SafeSpec

-----------------------------------------------------------------------------
(* The packets and the send buffers.                                       *)

(* A rank's own steps move workers between the points outside the phase    *)
(* and its beginning.                                                      *)
LEMMA RankStepEffect ==
  ASSUME TypeOK, ControlInv, NEW r \in Rank, RankStep(r)
  PROVE  /\ UNCHANGED <<options, pool, todo, cur, dst, send_buffers, busy>>
         /\ \A u \in Thread :
              \/ pc'[u] = pc[u]
              \/ pc[u] \in Outside /\ pc'[u] \in {"barrier", "post"}
<1>. USE ThreadFacts
<1>1. CASE Register(r)
  <2>1. /\ UNCHANGED <<options, pool, todo, cur, dst, send_buffers, busy>>
        /\ am_state[r] = "none" /\ pc' = [pc EXCEPT ![Master(r)] = "barrier"]
    BY <1>1 DEF Register, net_vars
  <2>2. pc[Master(r)] \in Outside  BY <2>1 DEF ControlInv
  <2>. QED  BY <2>1, <2>2 DEF TypeOK
<1>2. CASE LeaveBarrier(r)
  <2>1. /\ UNCHANGED <<options, pool, todo, cur, dst, send_buffers, busy>>
        /\ am_state[r] = "barrier"
        /\ pc' = [u \in Thread |-> IF RankOf(u) = r THEN "post" ELSE pc[u]]
    BY <1>2 DEF LeaveBarrier, net_vars
  <2>2. \A u \in Thread : RankOf(u) = r => pc[u] \in Outside  BY <2>1 DEF ControlInv
  <2>. QED  BY <2>1, <2>2
<1>3. CASE ClearAmHandler(r)
  BY <1>3 DEF ClearAmHandler, thread_vars, net_vars
<1>. QED  BY <1>1, <1>2, <1>3 DEF RankStep

(* A worker leaves what the others have to them.                           *)
LEMMA ThreadStepOwn ==
  ASSUME TypeOK, ControlInv, NEW t \in Thread, ThreadStep(t)
  PROVE  /\ options' = options
         /\ \A u \in Thread : u # t =>
              /\ pc'[u] = pc[u] /\ cur'[u] = cur[u] /\ dst'[u] = dst[u]
              /\ todo'[u] = todo[u] /\ send_buffers'[u] = send_buffers[u]
<1>. DEFINE Alone == \A u \in Thread : u # t =>
              /\ pc'[u] = pc[u] /\ cur'[u] = cur[u] /\ dst'[u] = dst[u]
              /\ todo'[u] = todo[u] /\ send_buffers'[u] = send_buffers[u]
<1>1. ASSUME NEW v \in Records, Push(t, v)
      PROVE  \A u \in Thread : u # t =>
               pc'[u] = pc[u] /\ dst'[u] = dst[u] /\ send_buffers'[u] = send_buffers[u]
  <2>1. send_buffers' = [send_buffers EXCEPT ![t][Dest[v]] = @ \cup {v}]
    BY <1>1, PushEffect
  <2>2. \E x : pc' = [pc EXCEPT ![t] = x]  BY <1>1, PushEffect
  <2>3. dst' = dst \/ dst' = [dst EXCEPT ![t] = Dest[v]]  BY <1>1, PushEffect
  <2>. QED  BY <2>1, <2>2, <2>3 DEF TypeOK
<1>2. CASE PostRecord(t)
  <2>1. PICK v \in todo[t] : todo' = [todo EXCEPT ![t] = @ \ {v}] /\ Push(t, v)
    BY <1>2 DEF PostRecord
  <2>2. v \in Records  BY <2>1 DEF TypeOK
  <2>3. options' = options /\ cur' = cur  BY <1>2 DEF PostRecord
  <2>. QED  BY <1>1, <2>1, <2>2, <2>3 DEF TypeOK
<1>3. CASE AwaitPacket(t)
  BY <1>3 DEF AwaitPacket, TypeOK
<1>4. CASE GetPacket(t)
  <2>1. cur[t] \in Records  BY <1>4 DEF GetPacket, ControlInv, TypeOK
  <2>2. Push(t, cur[t]) /\ cur' = [cur EXCEPT ![t] = None] /\ UNCHANGED <<options, todo>>
    BY <1>4 DEF GetPacket
  <2>. QED  BY <1>1, <2>1, <2>2 DEF TypeOK
<1>5. CASE FlushDest(t)
  <2>1. PICK d : StartSend(t, d, send_buffers[t][d])
    BY <1>5 DEF FlushDest
  <2>2. UNCHANGED <<options, cur, todo, send_buffers>>
    BY <1>5 DEF FlushDest
  <2>3. dst' = [dst EXCEPT ![t] = d] /\ \E x : pc' = [pc EXCEPT ![t] = x]
    BY <2>1 DEF StartSend
  <2>. QED  BY <2>2, <2>3 DEF TypeOK
<1>6. CASE EndPosting(t)  BY <1>6 DEF EndPosting, TypeOK
<1>7. CASE EndFlush(t)    BY <1>7 DEF EndFlush, TypeOK
<1>8. CASE PostAm(t)      BY <1>8 DEF PostAm, TypeOK
<1>9. CASE Release(t)     BY <1>9 DEF Release, TypeOK
<1>10. CASE ExitWait(t)   BY <1>10 DEF ExitWait, TypeOK
<1>11. CASE TakeMessage(t) \/ CompleteSend(t) \/ InvokeHandler(t) \/ CountBatch(t)
  BY <1>11 DEF TakeMessage, CompleteSend, InvokeHandler, CountBatch, thread_vars
<1>. QED
  BY <1>2, <1>3, <1>4, <1>5, <1>6, <1>7, <1>8, <1>9, <1>10, <1>11 DEF ThreadStep

LEMMA InitPackets == Init => PacketInv
<1>. SUFFICES ASSUME Init  PROVE PacketInv
  OBVIOUS
<1>1. WaitInv  BY DEF Init, WaitInv, Sending
<1>2. BusyInv  BY FS_EmptySet DEF Init, BusyInv
<1>3. PacketConservation
  <2>1. \A r \in Rank : Held(r) = {}  BY DEF Init, Held, HoldsPacket
  <2>2. \A r \in Rank : InFlight(r) = {}  BY DEF Init, InFlight
  <2>3. \A r \in Rank : pool[r] = PoolSize  BY DEF Init
  <2>. QED  BY <2>1, <2>2, <2>3, FS_EmptySet, SizeAssumption DEF PacketConservation
<1>4. BufferBounded
  <2>1. \A t \in Thread : \A d \in Rank : send_buffers[t][d] = {}  BY DEF Init
  <2>. QED  BY <2>1, FS_EmptySet, SizeAssumption DEF BufferBounded
<1>. QED  BY <1>1, <1>2, <1>3, <1>4 DEF PacketInv

(* A worker waits for a packet only for an empty buffer.                   *)
LEMMA StepWait == TypeOK /\ ControlInv /\ WaitInv /\ [Next]_vars => WaitInv'
<1>. SUFFICES ASSUME TypeOK, ControlInv, WaitInv, [Next]_vars  PROVE WaitInv'
  OBVIOUS
<1>. DEFINE WaitOf(u) ==
       /\ pc[u] = "alloc" => options.use_upacket /\ send_buffers[u][Dest[cur[u]]] = {}
       /\ pc[u] \in Sending => send_buffers[u][dst[u]] # {}
<1>1. ASSUME NEW r \in Rank, RankStep(r)  PROVE WaitInv'
  <2>1. /\ UNCHANGED <<options, cur, dst, send_buffers>>
        /\ \A u \in Thread : pc'[u] = pc[u] \/ pc'[u] \in {"barrier", "post"}
    BY <1>1, RankStepEffect
  <2>. QED  BY <2>1 DEF WaitInv, Sending
<1>2. ASSUME NEW t \in Thread, ThreadStep(t)  PROVE WaitInv'
  <2>1. /\ options' = options
        /\ \A u \in Thread : u # t =>
             /\ pc'[u] = pc[u] /\ cur'[u] = cur[u] /\ dst'[u] = dst[u]
             /\ send_buffers'[u] = send_buffers[u]
    BY <1>2, ThreadStepOwn
  <2>2. ASSUME NEW u \in Thread, u # t  PROVE WaitOf(u)'
    BY <2>1, <2>2 DEF WaitInv
  <2>3. ASSUME NEW v \in Records, Push(t, v)  PROVE WaitOf(t)'
    <3>1. send_buffers'[t][Dest[v]] # {}
      <4>1. send_buffers' = [send_buffers EXCEPT ![t][Dest[v]] = @ \cup {v}]
        BY <2>3, PushEffect
      <4>. QED  BY <4>1, HomeDest DEF TypeOK
    <3>2. CASE pc' = [pc EXCEPT ![t] = "post"]
      BY <3>2 DEF TypeOK, Sending
    <3>3. CASE \E x \in {"send", "loopback"} :
                 pc' = [pc EXCEPT ![t] = x] /\ dst' = [dst EXCEPT ![t] = Dest[v]]
      <4>1. pc'[t] \in {"send", "loopback"} /\ dst'[t] = Dest[v]  BY <3>3 DEF TypeOK
      <4>. QED  BY <3>1, <4>1
    <3>. QED  BY <2>3, <3>2, <3>3, PushEffect
  <2>4. WaitOf(t)'
    <3>1. CASE PostRecord(t)
      <4>1. PICK v \in todo[t] : Push(t, v)  BY <3>1 DEF PostRecord
      <4>2. v \in Records  BY <4>1 DEF TypeOK
      <4>. QED  BY <2>3, <4>1, <4>2
    <3>2. CASE AwaitPacket(t)
      <4>1. PICK v \in todo[t] : NeedsPacket(t, v) /\ cur' = [cur EXCEPT ![t] = v]
        BY <3>2 DEF AwaitPacket
      <4>2. cur'[t] = v  BY <4>1 DEF TypeOK
      <4>3. pc'[t] = "alloc" /\ send_buffers' = send_buffers
        BY <3>2 DEF AwaitPacket, TypeOK
      <4>. QED  BY <2>1, <4>1, <4>2, <4>3 DEF NeedsPacket, Sending
    <3>3. CASE GetPacket(t)
      <4>1. cur[t] \in Records  BY <3>3 DEF GetPacket, ControlInv, TypeOK
      <4>. QED  BY <2>3, <3>3, <4>1 DEF GetPacket
    <3>4. CASE FlushDest(t)
      <4>1. PICK i \in visited[t] .. NRanks - 1 :
              /\ send_buffers[t][FlushTarget(t, i)] # {}
              /\ StartSend(t, FlushTarget(t, i), send_buffers[t][FlushTarget(t, i)])
        BY <3>4 DEF FlushDest
      <4>. DEFINE d == FlushTarget(t, i)
      <4>. HIDE DEF d
      <4>2. /\ send_buffers[t][d] # {} /\ send_buffers' = send_buffers
            /\ dst' = [dst EXCEPT ![t] = d]
            /\ \E x \in {"send", "loopback"} : pc' = [pc EXCEPT ![t] = x]
        BY <3>4, <4>1 DEF d, FlushDest, StartSend
      <4>3. dst'[t] = d /\ pc'[t] \in {"send", "loopback"}  BY <4>2 DEF TypeOK
      <4>. QED  BY <4>2, <4>3
    <3>5. CASE EndPosting(t)  BY <3>5 DEF EndPosting, TypeOK, Sending
    <3>6. CASE EndFlush(t)    BY <3>6 DEF EndFlush, TypeOK, Sending
    <3>7. CASE PostAm(t)
      <4>1. /\ pc[t] = "send" /\ pc'[t] = "posted"
            /\ UNCHANGED <<dst, send_buffers>>
        BY <3>7 DEF PostAm, TypeOK
      <4>. QED  BY <4>1 DEF WaitInv, Sending
    <3>8. CASE Release(t)
      <4>1. pc'[t] \in {"post", "flush"}  BY <3>8 DEF Release, TypeOK
      <4>. QED  BY <4>1 DEF Sending
    <3>9. CASE ExitWait(t)    BY <3>9 DEF ExitWait, TypeOK, Sending
    <3>10. CASE TakeMessage(t) \/ CompleteSend(t) \/ InvokeHandler(t) \/ CountBatch(t)
      <4>1. UNCHANGED <<options, pc, cur, dst, send_buffers>>
        BY <3>10
        DEF TakeMessage, CompleteSend, InvokeHandler, CountBatch, thread_vars
      <4>. QED  BY <4>1 DEF WaitInv
    <3>. QED
      BY <1>2, <3>1, <3>2, <3>3, <3>4, <3>5, <3>6, <3>7, <3>8, <3>9, <3>10
      DEF ThreadStep
  <2>. QED  BY <2>2, <2>4 DEF WaitInv
<1>3. CASE UNCHANGED vars
  BY <1>3 DEF vars, thread_vars, WaitInv
<1>. QED  BY <1>1, <1>2, <1>3 DEF Next, Terminated

(* A send buffer never outgrows its capacity.                              *)
LEMMA PushFull ==
  ASSUME TypeOK, NEW t \in Thread, NEW v \in Records, Push(t, v)
  PROVE  IF Cardinality(send_buffers'[t][Dest[v]]) = BatchRecords
         THEN pc'[t] \in {"send", "loopback"} /\ dst'[t] = Dest[v]
         ELSE pc'[t] = "post"
<1>. DEFINE d == Dest[v]
            content == send_buffers[t][d] \cup {v}
<1>1. send_buffers' = [send_buffers EXCEPT ![t][d] = content]  BY DEF Push
<1>2. send_buffers'[t][d] = content  BY <1>1, HomeDest DEF TypeOK
<1>3. CASE Cardinality(content) = BatchRecords
  <2>1. StartSend(t, d, content)  BY <1>3 DEF Push
  <2>2. dst' = [dst EXCEPT ![t] = d] /\ \E x \in {"send", "loopback"} : pc' = [pc EXCEPT ![t] = x]
    BY <2>1 DEF StartSend
  <2>3. dst'[t] = d /\ pc'[t] \in {"send", "loopback"}  BY <2>2 DEF TypeOK
  <2>. QED  BY <1>2, <1>3, <2>3
<1>4. CASE Cardinality(content) # BatchRecords
  <2>1. pc' = [pc EXCEPT ![t] = "post"]  BY <1>4 DEF Push
  <2>. QED  BY <1>2, <1>4, <2>1 DEF TypeOK
<1>. QED  BY <1>3, <1>4

LEMMA StepBounded ==
  TypeOK /\ ControlInv /\ BufferBounded /\ [Next]_vars => BufferBounded'
<1>. SUFFICES ASSUME TypeOK, ControlInv, BufferBounded, [Next]_vars
              PROVE  BufferBounded'
  OBVIOUS
<1>. DEFINE BoundedOf(u) ==
       \A d \in Rank :
         /\ Cardinality(send_buffers[u][d]) <= BatchRecords
         /\ Cardinality(send_buffers[u][d]) = BatchRecords =>
              pc[u] \in {"send", "posted", "loopback"} /\ dst[u] = d
<1>1. ASSUME NEW r \in Rank, RankStep(r)  PROVE BufferBounded'
  <2>1. /\ UNCHANGED <<dst, send_buffers>>
        /\ \A u \in Thread : pc'[u] = pc[u] \/ pc[u] \in Outside
    BY <1>1, RankStepEffect
  <2>. QED  BY <2>1 DEF BufferBounded, Outside
<1>2. ASSUME NEW t \in Thread, ThreadStep(t)  PROVE BufferBounded'
  <2>1. ASSUME NEW u \in Thread, u # t  PROVE BoundedOf(u)'
    BY <1>2, <2>1, ThreadStepOwn DEF BufferBounded
  <2>2. ASSUME NEW v \in Records, Push(t, v), pc[t] \in {"post", "alloc"}
        PROVE  BoundedOf(t)'
    <3>1. Dest[v] \in Rank /\ send_buffers[t][Dest[v]] \in SUBSET Records
      BY HomeDest DEF TypeOK
    <3>2. /\ send_buffers'[t][Dest[v]] = send_buffers[t][Dest[v]] \cup {v}
          /\ \A d \in Rank : d # Dest[v] => send_buffers'[t][d] = send_buffers[t][d]
      <4>1. send_buffers' = [send_buffers EXCEPT ![t][Dest[v]] = @ \cup {v}]
        BY <2>2, PushEffect
      <4>. QED  BY <3>1, <4>1 DEF TypeOK
    <3>3. \A d \in Rank : /\ Cardinality(send_buffers[t][d]) \in Nat
                          /\ Cardinality(send_buffers[t][d]) < BatchRecords
      <4>1. \A d \in Rank : send_buffers[t][d] \in SUBSET Records  BY DEF TypeOK
      <4>. QED  BY <2>2, <4>1, RecordSets, SizeAssumption DEF BufferBounded
    <3>4. Cardinality(send_buffers'[t][Dest[v]]) <= BatchRecords
      <4>1. \/ Cardinality(send_buffers'[t][Dest[v]]) = Cardinality(send_buffers[t][Dest[v]])
            \/ Cardinality(send_buffers'[t][Dest[v]]) = Cardinality(send_buffers[t][Dest[v]]) + 1
        <5>1. PICK S : S = send_buffers[t][Dest[v]]  OBVIOUS
        <5>2. IsFiniteSet(S)  BY <3>1, <5>1, RecordSets
        <5>3. \/ Cardinality(S \cup {v}) = Cardinality(S)
              \/ Cardinality(S \cup {v}) = Cardinality(S) + 1
          BY ONLY <5>2, FS_AddElement
        <5>. QED  BY ONLY <3>2, <5>1, <5>3
      <4>. QED  BY <3>1, <3>3, <4>1, SizeAssumption
    <3>5. \A d \in Rank : d # Dest[v] =>
            /\ Cardinality(send_buffers'[t][d]) <= BatchRecords
            /\ Cardinality(send_buffers'[t][d]) # BatchRecords
      BY <3>2, <3>3, SizeAssumption
    <3>6. Cardinality(send_buffers'[t][Dest[v]]) = BatchRecords =>
            pc'[t] \in {"send", "posted", "loopback"} /\ dst'[t] = Dest[v]
      BY <2>2, PushFull
    <3>. QED  BY <3>4, <3>5, <3>6
  <2>3. BoundedOf(t)'
    <3>1. CASE PostRecord(t)
      <4>1. PICK v \in todo[t] : Push(t, v)  BY <3>1 DEF PostRecord
      <4>2. v \in Records  BY <4>1 DEF TypeOK
      <4>. QED  BY <2>2, <3>1, <4>1, <4>2 DEF PostRecord
    <3>2. CASE GetPacket(t)
      <4>1. cur[t] \in Records  BY <3>2 DEF GetPacket, ControlInv, TypeOK
      <4>. QED  BY <2>2, <3>2, <4>1 DEF GetPacket
    <3>3. CASE AwaitPacket(t) \/ EndPosting(t) \/ FlushDest(t) \/ EndFlush(t) \/ ExitWait(t)
      <4>1. send_buffers' = send_buffers /\ pc[t] \notin {"send", "posted", "loopback"}
        BY <3>3 DEF AwaitPacket, EndPosting, FlushDest, EndFlush, ExitWait
      <4>. QED  BY <4>1 DEF BufferBounded
    <3>4. CASE PostAm(t)
      <4>1. pc'[t] = "posted" /\ UNCHANGED <<dst, send_buffers>>
        BY <3>4 DEF PostAm, TypeOK
      <4>. QED  BY <4>1 DEF BufferBounded
    <3>5. CASE Release(t)
      <4>1. send_buffers' = [send_buffers EXCEPT ![t][dst[t]] = {}]
        BY <3>5 DEF Release
      <4>2. send_buffers'[t][dst[t]] = {} /\ dst[t] \in Rank  BY <4>1 DEF TypeOK
      <4>3. \A d \in Rank : d # dst[t] => send_buffers'[t][d] = send_buffers[t][d]
        BY <4>1 DEF TypeOK
      <4>. QED  BY <4>2, <4>3, FS_EmptySet, SizeAssumption DEF BufferBounded
    <3>6. CASE TakeMessage(t) \/ CompleteSend(t) \/ InvokeHandler(t) \/ CountBatch(t)
      <4>1. UNCHANGED <<pc, dst, send_buffers>>
        BY <3>6
        DEF TakeMessage, CompleteSend, InvokeHandler, CountBatch, thread_vars
      <4>. QED  BY <4>1 DEF BufferBounded
    <3>. QED  BY <1>2, <3>1, <3>2, <3>3, <3>4, <3>5, <3>6 DEF ThreadStep
  <2>. QED  BY <2>1, <2>3 DEF BufferBounded
<1>3. CASE UNCHANGED vars
  BY <1>3 DEF vars, thread_vars, BufferBounded
<1>. QED  BY <1>1, <1>2, <1>3 DEF Next, Terminated

(* A new message is none of those whose send is not complete.              *)
LEMMA PostAmEffect ==
  ASSUME TypeOK, ControlInv, SenderInv, BusyInv, NEW t \in Thread, PostAm(t)
  PROVE  \E m \in Message :
           /\ m.src = RankOf(t) /\ m \notin busy /\ busy' = busy \cup {m}
           /\ m.recs # {} /\ \A v \in m.recs : ~Unsent(v)'
<1>. DEFINE m == [src |-> RankOf(t), dst |-> dst[t], dev |-> DeviceOf(t),
                  recs |-> send_buffers[t][dst[t]]]
<1>1. m \in Message  BY ThreadFacts DEF Message, TypeOK
<1>2. /\ pc[t] = "send" /\ busy' = busy \cup {m} /\ pc' = [pc EXCEPT ![t] = "posted"]
      /\ UNCHANGED <<todo, cur, dst, send_buffers>>
  BY DEF PostAm
<1>3. m.recs # {}  BY <1>2 DEF ControlInv
<1>4. ASSUME NEW v \in m.recs
      PROVE  /\ Home[v] = t /\ Dest[v] = dst[t]
             /\ v \in send_buffers[t][dst[t]] /\ v \notin todo[t] /\ cur[t] # v
  BY <1>4 DEF SenderInv, TypeOK
<1>5. ASSUME NEW v \in m.recs  PROVE Unsent(v)
  BY <1>2, <1>4 DEF Unsent, HandedOver
<1>6. m \notin busy  BY <1>3, <1>5 DEF BusyInv
<1>7. ASSUME NEW v \in m.recs  PROVE ~Unsent(v)'
  <2>1. pc'[t] = "posted"  BY <1>2 DEF TypeOK
  <2>. QED  BY <1>2, <1>4, <2>1 DEF Unsent, HandedOver
<1>8. m.src = RankOf(t)  OBVIOUS
<1>. HIDE DEF m
<1>. QED  BY <1>1, <1>2, <1>3, <1>6, <1>7, <1>8

LEMMA StepBusy ==
  TypeOK /\ ControlInv /\ SenderInv /\ BusyInv /\ [Next]_vars => BusyInv'
<1>. SUFFICES ASSUME TypeOK, ControlInv, SenderInv, BusyInv, [Next]_vars
              PROVE  BusyInv'
  OBVIOUS
<1>1. \A m \in busy : \A v \in m.recs : ~Unsent(v)'
  <2>1. Monotone  BY StepData
  <2>2. \A m \in busy : m.recs \subseteq Records  BY DEF TypeOK, Message
  <2>. QED  BY <2>1, <2>2 DEF Monotone, BusyInv
<1>2. CASE busy' = busy  BY <1>1, <1>2 DEF BusyInv
<1>3. ASSUME NEW t \in Thread, PostAm(t)  PROVE BusyInv'
  BY <1>1, <1>3, PostAmEffect, FS_AddElement DEF BusyInv
<1>4. ASSUME NEW t \in Thread, CompleteSend(t)  PROVE BusyInv'
  <2>1. PICK m : busy' = busy \ {m}  BY <1>4 DEF CompleteSend
  <2>. QED  BY <1>1, <2>1, FS_RemoveElement DEF BusyInv
<1>5. busy' = busy \/ \E t \in Thread : PostAm(t) \/ CompleteSend(t)
  BY RankStepEffect
  DEF Next, ThreadStep, Terminated, vars, net_vars, PostRecord, AwaitPacket, GetPacket,
      EndPosting, FlushDest, EndFlush, Release, TakeMessage, InvokeHandler, CountBatch, ExitWait
<1>. QED  BY <1>2, <1>3, <1>4, <1>5

(* What a step does with packets: nothing; a worker takes one from the     *)
(* pool for an empty buffer; it hands the one of a buffer on to LCI with a *)
(* message; it returns one after a loopback delivery; or the completion of *)
(* a send returns one.                                                     *)
SameHolder(u, e) == HoldsPacket(u, e)' <=> HoldsPacket(u, e)

AllHoldersSame == \A u \in Thread : \A e \in Rank : SameHolder(u, e)

OnlyHolder(t, d) ==
  \A u \in Thread : \A e \in Rank : u # t \/ e # d => SameHolder(u, e)

Takes(t, d) ==
  /\ OnlyHolder(t, d) /\ ~HoldsPacket(t, d) /\ HoldsPacket(t, d)'
  /\ pool[RankOf(t)] > 0 /\ pool' = [pool EXCEPT ![RankOf(t)] = @ - 1]
  /\ busy' = busy

HandsOn(t, d) ==
  /\ OnlyHolder(t, d) /\ HoldsPacket(t, d) /\ ~HoldsPacket(t, d)'
  /\ pool' = pool
  /\ \E m \in Message : m.src = RankOf(t) /\ m \notin busy /\ busy' = busy \cup {m}

Returns(t, d) ==
  /\ OnlyHolder(t, d) /\ HoldsPacket(t, d) /\ ~HoldsPacket(t, d)'
  /\ pool' = [pool EXCEPT ![RankOf(t)] = @ + 1]
  /\ busy' = busy

Completes(t) ==
  /\ AllHoldersSame
  /\ pool' = [pool EXCEPT ![RankOf(t)] = @ + 1]
  /\ \E m \in busy : m.src = RankOf(t) /\ busy' = busy \ {m}

PacketStep ==
  \/ AllHoldersSame /\ UNCHANGED <<pool, busy>>
  \/ \E t \in Thread : \E d \in Rank : Takes(t, d) \/ HandsOn(t, d) \/ Returns(t, d)
  \/ \E t \in Thread : Completes(t)

(* push() with the packet it needs, from post_am() or after the wait.      *)
LEMMA PushPacket ==
  ASSUME TypeOK, NEW t \in Thread, NEW v \in Records, Push(t, v),
         pc[t] \in {"post", "alloc"}, busy' = busy,
         \A u \in Thread : u # t =>
           pc'[u] = pc[u] /\ dst'[u] = dst[u] /\ send_buffers'[u] = send_buffers[u],
         IF send_buffers[t][Dest[v]] = {}
         THEN pool[RankOf(t)] > 0 /\ TakePacket(t)
         ELSE UNCHANGED pool
  PROVE  PacketStep
<1>. DEFINE d == Dest[v]
<1>1. d \in Rank  BY HomeDest
<1>2. /\ send_buffers'[t][d] = send_buffers[t][d] \cup {v}
      /\ \A e \in Rank : e # d => send_buffers'[t][e] = send_buffers[t][e]
  <2>1. send_buffers' = [send_buffers EXCEPT ![t][d] = @ \cup {v}]
    BY PushEffect
  <2>. QED  BY <1>1, <2>1 DEF TypeOK
<1>3. pc'[t] # "posted"
  <2>1. \E x \in {"post", "send", "loopback"} : pc' = [pc EXCEPT ![t] = x]
    BY PushEffect
  <2>. QED  BY <2>1 DEF TypeOK
<1>4. OnlyHolder(t, d)
  BY <1>2, <1>3 DEF OnlyHolder, SameHolder, HoldsPacket
<1>5. HoldsPacket(t, d)'  BY <1>2, <1>3 DEF HoldsPacket
<1>6. CASE send_buffers[t][d] = {}
  <2>1. Takes(t, d)
    BY <1>4, <1>5, <1>6 DEF Takes, HoldsPacket, TakePacket
  <2>. QED  BY <1>1, <2>1 DEF PacketStep
<1>7. CASE send_buffers[t][d] # {}
  <2>1. SameHolder(t, d)  BY <1>5, <1>7 DEF SameHolder, HoldsPacket
  <2>2. AllHoldersSame  BY <1>4, <2>1 DEF AllHoldersSame, OnlyHolder
  <2>. QED  BY <1>7, <2>2 DEF PacketStep
<1>. QED  BY <1>6, <1>7

LEMMA StepPackets ==
  TypeOK /\ ControlInv /\ SenderInv /\ WaitInv /\ BusyInv /\ [Next]_vars
    /\ options.use_upacket => PacketStep
<1>. SUFFICES ASSUME TypeOK, ControlInv, SenderInv, WaitInv, BusyInv, [Next]_vars,
                     options.use_upacket
              PROVE  PacketStep
  OBVIOUS
<1>1. ASSUME NEW r \in Rank, RankStep(r)  PROVE PacketStep
  <2>1. /\ UNCHANGED <<pool, dst, send_buffers, busy>>
        /\ \A u \in Thread :
             \/ pc'[u] = pc[u]
             \/ pc[u] \in Outside /\ pc'[u] \in {"barrier", "post"}
    BY <1>1, RankStepEffect
  <2>2. \A u \in Thread : pc'[u] = "posted" <=> pc[u] = "posted"
    BY <2>1 DEF Outside
  <2>. QED  BY <2>1, <2>2 DEF PacketStep, AllHoldersSame, SameHolder, HoldsPacket
<1>2. ASSUME NEW t \in Thread, ThreadStep(t)  PROVE PacketStep
  <2>1. \A u \in Thread : u # t =>
          pc'[u] = pc[u] /\ dst'[u] = dst[u] /\ send_buffers'[u] = send_buffers[u]
    BY <1>2, ThreadStepOwn
  <2>2. ASSUME UNCHANGED <<pool, busy, send_buffers>>,
               pc[t] # "posted", pc'[t] # "posted"
        PROVE  PacketStep
    BY <2>1, <2>2 DEF PacketStep, AllHoldersSame, SameHolder, HoldsPacket
  <2>3. CASE PostRecord(t)
    <3>1. PICK v \in todo[t] : /\ IF NeedsPacket(t, v)
                                  THEN pool[RankOf(t)] > 0 /\ TakePacket(t)
                                  ELSE UNCHANGED pool
                               /\ Push(t, v)
      BY <2>3 DEF PostRecord
    <3>2. v \in Records  BY <3>1 DEF TypeOK
    <3>3. NeedsPacket(t, v) <=> send_buffers[t][Dest[v]] = {}  BY DEF NeedsPacket
    <3>4. pc[t] = "post" /\ busy' = busy  BY <2>3 DEF PostRecord, net_vars
    <3>. QED  BY <2>1, <3>1, <3>2, <3>3, <3>4, PushPacket
  <2>4. CASE GetPacket(t)
    <3>1. cur[t] \in Records  BY <2>4 DEF GetPacket, ControlInv, TypeOK
    <3>2. send_buffers[t][Dest[cur[t]]] = {}  BY <2>4 DEF GetPacket, WaitInv
    <3>3. /\ pc[t] = "alloc" /\ busy' = busy /\ Push(t, cur[t])
          /\ pool[RankOf(t)] > 0 /\ TakePacket(t)
      BY <2>4 DEF GetPacket, net_vars
    <3>. QED  BY <2>1, <3>1, <3>2, <3>3, PushPacket
  <2>5. CASE AwaitPacket(t) \/ EndPosting(t) \/ EndFlush(t) \/ ExitWait(t)
    <3>1. UNCHANGED <<pool, busy, send_buffers>> /\ pc[t] # "posted" /\ pc'[t] # "posted"
      BY <2>5 DEF AwaitPacket, EndPosting, EndFlush, ExitWait, net_vars, TypeOK
    <3>. QED  BY <2>2, <3>1
  <2>6. CASE FlushDest(t)
    <3>1. /\ pc[t] = "flush" /\ UNCHANGED <<pool, busy, send_buffers>>
          /\ \E d : StartSend(t, d, send_buffers[t][d])
      BY <2>6 DEF FlushDest, net_vars
    <3>2. pc'[t] # "posted"  BY <3>1 DEF StartSend, TypeOK
    <3>. QED  BY <2>2, <3>1, <3>2
  <2>7. CASE PostAm(t)
    <3>1. /\ pc[t] = "send" /\ pc'[t] = "posted" /\ dst[t] \in Rank
          /\ UNCHANGED <<pool, dst, send_buffers>>
      BY <2>7 DEF PostAm, TypeOK
    <3>2. send_buffers[t][dst[t]] # {}  BY <3>1 DEF ControlInv
    <3>3. HandsOn(t, dst[t])
      <4>1. OnlyHolder(t, dst[t])
        BY <2>1, <3>1 DEF OnlyHolder, SameHolder, HoldsPacket
      <4>2. HoldsPacket(t, dst[t]) /\ ~HoldsPacket(t, dst[t])'
        BY <3>1, <3>2 DEF HoldsPacket
      <4>. QED  BY <2>7, <3>1, <4>1, <4>2, PostAmEffect DEF HandsOn
    <3>. QED  BY <3>1, <3>3 DEF PacketStep
  <2>8. CASE Release(t)
    <3>1. /\ pc[t] \in {"posted", "loopback"} /\ pc'[t] \in {"post", "flush"}
          /\ dst[t] \in Rank /\ UNCHANGED <<dst, busy>>
          /\ send_buffers' = [send_buffers EXCEPT ![t][dst[t]] = {}]
      BY <2>8 DEF Release, TypeOK, net_vars
    <3>2. /\ send_buffers'[t][dst[t]] = {}
          /\ \A e \in Rank : e # dst[t] => send_buffers'[t][e] = send_buffers[t][e]
      BY <3>1 DEF TypeOK
    <3>3. OnlyHolder(t, dst[t])
      BY <2>1, <3>1, <3>2 DEF OnlyHolder, SameHolder, HoldsPacket
    <3>4. ~HoldsPacket(t, dst[t])'  BY <3>1, <3>2 DEF HoldsPacket
    <3>5. CASE pc[t] = "posted"
      <4>1. pool' = pool  BY <2>8, <3>5 DEF Release
      <4>2. SameHolder(t, dst[t])  BY <3>4, <3>5 DEF SameHolder, HoldsPacket
      <4>3. AllHoldersSame  BY <3>3, <4>2 DEF AllHoldersSame, OnlyHolder
      <4>. QED  BY <3>1, <4>1, <4>3 DEF PacketStep
    <3>6. CASE pc[t] = "loopback"
      <4>1. pool' = [pool EXCEPT ![RankOf(t)] = @ + 1]  BY <2>8, <3>6 DEF Release
      <4>2. send_buffers[t][dst[t]] # {}  BY <3>6 DEF WaitInv, Sending
      <4>3. HoldsPacket(t, dst[t])  BY <3>6, <4>2 DEF HoldsPacket
      <4>4. Returns(t, dst[t])  BY <3>1, <3>3, <3>4, <4>1, <4>3 DEF Returns
      <4>. QED  BY <3>1, <4>4 DEF PacketStep
    <3>. QED  BY <3>1, <3>5, <3>6
  <2>9. CASE CompleteSend(t)
    <3>1. UNCHANGED <<pc, dst, send_buffers>>
      BY <2>9 DEF CompleteSend, thread_vars
    <3>2. AllHoldersSame  BY <3>1 DEF AllHoldersSame, SameHolder, HoldsPacket
    <3>3. Completes(t)  BY <2>9, <3>2 DEF CompleteSend, Completes
    <3>. QED  BY <3>3 DEF PacketStep
  <2>10. CASE TakeMessage(t) \/ InvokeHandler(t) \/ CountBatch(t)
    <3>1. UNCHANGED <<pc, dst, send_buffers, pool, busy>>
      BY <2>10 DEF TakeMessage, InvokeHandler, CountBatch, thread_vars, net_vars
    <3>. QED  BY <3>1 DEF PacketStep, AllHoldersSame, SameHolder, HoldsPacket
  <2>. QED
    BY <1>2, <2>3, <2>4, <2>5, <2>6, <2>7, <2>8, <2>9, <2>10 DEF ThreadStep
<1>3. CASE UNCHANGED vars
  BY <1>3 DEF vars, thread_vars, net_vars, PacketStep, AllHoldersSame, SameHolder, HoldsPacket
<1>. QED  BY <1>1, <1>2, <1>3 DEF Next, Terminated

(* The holders of a rank are finitely many: at most one buffer for each    *)
(* worker of the rank and each destination.                                *)
LEMMA HoldersBound ==
  ASSUME NEW r \in Rank
  PROVE  LET S == {p \in Thread \X Rank : RankOf(p[1]) = r}
         IN  IsFiniteSet(S) /\ Cardinality(S) <= NWorkers * NRanks
<1>. DEFINE S == {p \in Thread \X Rank : RankOf(p[1]) = r}
            D == Worker \X Rank
            f == [q \in D |-> <<<<r, q[1]>>, q[2]>>]
<1>1. IsFiniteSet(D) /\ Cardinality(D) = NWorkers * NRanks
  <2>1. IsFiniteSet(Worker) /\ Cardinality(Worker) = NWorkers
    BY FS_Interval, SizeAssumption DEF Worker
  <2>2. IsFiniteSet(Rank) /\ Cardinality(Rank) = NRanks
    BY FS_Interval, SizeAssumption DEF Rank
  <2>. QED  BY <2>1, <2>2, FS_Product
<1>2. f \in Surjection(D, S)
  <2>1. \A q \in D : f[q] \in S  BY DEF Thread, RankOf
  <2>2. ASSUME NEW p \in S  PROVE \E q \in D : f[q] = p
    <3>. DEFINE q == <<p[1][2], p[2]>>
    <3>1. q \in D /\ f[q] = p  BY <2>2 DEF Thread, RankOf
    <3>. QED  BY <3>1
  <2>. QED  BY <2>1, <2>2 DEF Surjection
<1>. HIDE DEF S, D, f
<1>3. IsFiniteSet(S) /\ Cardinality(S) <= Cardinality(D)  BY <1>1, <1>2, FS_Surjection
<1>. QED  BY <1>1, <1>3 DEF S

LEMMA HeldFinite ==
  ASSUME NEW r \in Rank
  PROVE  IsFiniteSet(Held(r)) /\ Cardinality(Held(r)) \in Nat
<1>1. Held(r) \in SUBSET {p \in Thread \X Rank : RankOf(p[1]) = r}  BY DEF Held
<1>. QED  BY <1>1, HoldersBound, FS_Subset, FS_CardinalityType

(* Each packet move leaves the number of packets of a rank as it was.      *)
LEMMA StepConservation ==
  TypeOK /\ TypeOK' /\ BusyInv /\ PacketConservation /\ PacketStep /\ options' = options
    => PacketConservation'
<1>. SUFFICES ASSUME TypeOK, TypeOK', BusyInv, PacketConservation, PacketStep,
                     options' = options, options.use_upacket, NEW r \in Rank
              PROVE  pool'[r] + Cardinality(Held(r)') + Cardinality(InFlight(r)') = PoolSize
  BY DEF PacketConservation
<1>. DEFINE H == Held(r)
            I == InFlight(r)
<1>1. pool[r] + Cardinality(H) + Cardinality(I) = PoolSize
  BY DEF PacketConservation
<1>2. IsFiniteSet(H) /\ Cardinality(H) \in Nat  BY HeldFinite
<1>3. IsFiniteSet(I) /\ Cardinality(I) \in Nat
  <2>1. I \in SUBSET busy  BY DEF InFlight
  <2>. QED  BY <2>1, FS_Subset, FS_CardinalityType DEF BusyInv
<1>4. pool[r] \in Nat /\ pool'[r] \in Nat  BY DEF TypeOK
<1>5. ASSUME busy' = busy  PROVE I' = I
  BY <1>5 DEF InFlight
<1>6. ASSUME AllHoldersSame  PROVE H' = H
  BY <1>6 DEF AllHoldersSame, SameHolder, Held
<1>7. ASSUME NEW t \in Thread, NEW d \in Rank, OnlyHolder(t, d), RankOf(t) # r
      PROVE  H' = H
  BY <1>7 DEF OnlyHolder, SameHolder, Held
<1>8. ASSUME NEW t \in Thread, NEW d \in Rank, OnlyHolder(t, d), RankOf(t) = r,
             HoldsPacket(t, d)'
      PROVE  H' = H \cup {<<t, d>>}
  BY <1>8 DEF OnlyHolder, SameHolder, Held
<1>9. ASSUME NEW t \in Thread, NEW d \in Rank, OnlyHolder(t, d), RankOf(t) = r,
             ~HoldsPacket(t, d)'
      PROVE  H' = H \ {<<t, d>>}
  BY <1>9 DEF OnlyHolder, SameHolder, Held
<1>10. ASSUME NEW t \in Thread, RankOf(t) # r,
              \/ pool' = [pool EXCEPT ![RankOf(t)] = @ - 1]
              \/ pool' = [pool EXCEPT ![RankOf(t)] = @ + 1]
       PROVE  pool'[r] = pool[r]
  BY <1>10 DEF TypeOK
<1>11. ASSUME NEW t \in Thread, NEW d \in Rank, Takes(t, d)
       PROVE  pool'[r] + Cardinality(H') + Cardinality(I') = PoolSize
  <2>1. CASE RankOf(t) # r
    BY <1>1, <1>5, <1>7, <1>10, <1>11, <2>1 DEF Takes
  <2>2. CASE RankOf(t) = r
    <3>1. pool'[r] = pool[r] - 1  BY <1>11, <2>2 DEF Takes, TypeOK
    <3>2. H' = H \cup {<<t, d>>}  BY <1>8, <1>11, <2>2 DEF Takes
    <3>3. <<t, d>> \notin H  BY <1>11 DEF Takes, Held
    <3>4. Cardinality(H') = Cardinality(H) + 1  BY <1>2, <3>2, <3>3, FS_AddElement
    <3>5. I' = I  BY <1>5, <1>11 DEF Takes
    <3>. HIDE DEF H, I
    <3>. QED  BY <1>1, <1>2, <1>3, <1>4, <3>1, <3>4, <3>5
  <2>. QED  BY <2>1, <2>2
<1>12. ASSUME NEW t \in Thread, NEW d \in Rank, HandsOn(t, d)
       PROVE  pool'[r] + Cardinality(H') + Cardinality(I') = PoolSize
  <2>1. PICK m \in Message : m.src = RankOf(t) /\ m \notin busy /\ busy' = busy \cup {m}
    BY <1>12 DEF HandsOn
  <2>2. CASE RankOf(t) # r
    <3>1. I' = I  BY <2>1, <2>2 DEF InFlight
    <3>. QED  BY <1>1, <1>7, <1>12, <2>2, <3>1 DEF HandsOn
  <2>3. CASE RankOf(t) = r
    <3>1. pool' = pool  BY <1>12 DEF HandsOn
    <3>2. H' = H \ {<<t, d>>}  BY <1>9, <1>12, <2>3 DEF HandsOn
    <3>3. <<t, d>> \in H  BY <1>12, <2>3 DEF HandsOn, Held
    <3>4. Cardinality(H') = Cardinality(H) - 1  BY <1>2, <3>2, <3>3, FS_RemoveElement, ZenonT(40)
    <3>5. I' = I \cup {m} /\ m \notin I  BY <2>1, <2>3 DEF InFlight
    <3>6. Cardinality(I') = Cardinality(I) + 1  BY <1>3, <3>5, FS_AddElement
    <3>. HIDE DEF H, I
    <3>. QED  BY <1>1, <1>2, <1>3, <1>4, <3>1, <3>4, <3>6
  <2>. QED  BY <2>2, <2>3
<1>13. ASSUME NEW t \in Thread, NEW d \in Rank, Returns(t, d)
       PROVE  pool'[r] + Cardinality(H') + Cardinality(I') = PoolSize
  <2>1. CASE RankOf(t) # r
    BY <1>1, <1>5, <1>7, <1>10, <1>13, <2>1 DEF Returns
  <2>2. CASE RankOf(t) = r
    <3>1. pool'[r] = pool[r] + 1  BY <1>13, <2>2 DEF Returns, TypeOK
    <3>2. H' = H \ {<<t, d>>}  BY <1>9, <1>13, <2>2 DEF Returns
    <3>3. <<t, d>> \in H  BY <1>13, <2>2 DEF Returns, Held
    <3>4. Cardinality(H') = Cardinality(H) - 1  BY <1>2, <3>2, <3>3, FS_RemoveElement, ZenonT(40)
    <3>5. I' = I  BY <1>5, <1>13 DEF Returns
    <3>. HIDE DEF H, I
    <3>. QED  BY <1>1, <1>2, <1>3, <1>4, <3>1, <3>4, <3>5
  <2>. QED  BY <2>1, <2>2
<1>14. ASSUME NEW t \in Thread, Completes(t)
       PROVE  pool'[r] + Cardinality(H') + Cardinality(I') = PoolSize
  <2>1. PICK m \in busy : m.src = RankOf(t) /\ busy' = busy \ {m}
    BY <1>14 DEF Completes
  <2>2. H' = H  BY <1>6, <1>14 DEF Completes
  <2>3. CASE RankOf(t) # r
    <3>1. I' = I  BY <2>1, <2>3 DEF InFlight
    <3>. QED  BY <1>1, <1>10, <1>14, <2>2, <2>3, <3>1 DEF Completes
  <2>4. CASE RankOf(t) = r
    <3>1. pool'[r] = pool[r] + 1  BY <1>14, <2>4 DEF Completes, TypeOK
    <3>2. I' = I \ {m} /\ m \in I  BY <2>1, <2>4 DEF InFlight
    <3>3. Cardinality(I') = Cardinality(I) - 1  BY <1>3, <3>2, FS_RemoveElement, ZenonT(40)
    <3>. HIDE DEF H, I
    <3>. QED  BY <1>1, <1>2, <1>3, <1>4, <2>2, <3>1, <3>3
  <2>. QED  BY <2>3, <2>4
<1>15. CASE AllHoldersSame /\ UNCHANGED <<pool, busy>>
  BY <1>1, <1>5, <1>6, <1>15
<1>. QED  BY <1>11, <1>12, <1>13, <1>14, <1>15 DEF PacketStep

LEMMA OptionsFixed == TypeOK /\ ControlInv /\ [Next]_vars => options' = options
<1>. SUFFICES ASSUME TypeOK, ControlInv, [Next]_vars  PROVE options' = options
  OBVIOUS
<1>1. ASSUME NEW r \in Rank, RankStep(r)  PROVE options' = options
  BY <1>1, RankStepEffect
<1>2. ASSUME NEW t \in Thread, ThreadStep(t)  PROVE options' = options
  BY <1>2, ThreadStepOwn
<1>3. CASE UNCHANGED vars  BY <1>3 DEF vars
<1>. QED  BY <1>1, <1>2, <1>3 DEF Next, Terminated

(* In every reachable state the packets and buffers are accounted for.      *)
THEOREM PacketInductive == Spec => []PacketInv
<1>1. Init => PacketInv  BY InitPackets
<1>2. IInv /\ IInv' /\ PacketInv /\ [Next]_vars => PacketInv'
  <2>. SUFFICES ASSUME IInv, IInv', PacketInv, [Next]_vars  PROVE PacketInv'
    OBVIOUS
  <2>1. /\ TypeOK /\ TypeOK' /\ ControlInv /\ SenderInv
        /\ WaitInv /\ BusyInv /\ PacketConservation /\ BufferBounded
    BY DEF IInv, PacketInv
  <2>2. WaitInv'  BY <2>1, StepWait
  <2>3. BusyInv'  BY <2>1, StepBusy
  <2>4. BufferBounded'  BY <2>1, StepBounded
  <2>5. options' = options  BY <2>1, OptionsFixed
  <2>6. PacketConservation'
    <3>1. CASE options.use_upacket
      BY <2>1, <2>5, <3>1, StepPackets, StepConservation
    <3>2. CASE ~options.use_upacket
      BY <2>5, <3>2 DEF PacketConservation
    <3>. QED  BY <3>1, <3>2
  <2>. QED  BY <2>2, <2>3, <2>4, <2>6 DEF PacketInv
<1>. QED  BY <1>1, <1>2, Inductive, PTL DEF Spec

(* No packet of the pool is lost or returned twice.                        *)
THEOREM PacketsConserved == Spec => []PacketConservation
<1>1. PacketInv => PacketConservation  BY DEF PacketInv
<1>. QED  BY <1>1, PacketInductive, PTL

(* No send buffer outgrows batch_records_.                                 *)
THEOREM BuffersBounded == Spec => []BufferBounded
<1>1. PacketInv => BufferBounded  BY DEF PacketInv
<1>. QED  BY <1>1, PacketInductive, PTL

(* With a packet for each send buffer, an empty pool means that a send is  *)
(* not complete: the waiting worker's own buffer holds none, so that the   *)
(* buffers of the rank cannot hold all the packets.                        *)
THEOREM PacketDeadlockFree == Spec => []NoPacketDeadlock
<1>1. TypeOK /\ ControlInv /\ PacketInv => NoPacketDeadlock
  <2>. SUFFICES ASSUME TypeOK, ControlInv, PacketInv, PoolSize >= NWorkers * NRanks,
                       NEW t \in Thread, pc[t] = "alloc", pool[RankOf(t)] = 0,
                       InFlight(RankOf(t)) = {}
                PROVE  FALSE
    BY DEF NoPacketDeadlock
  <2>. DEFINE r == RankOf(t)
              S == {p \in Thread \X Rank : RankOf(p[1]) = r}
              own == <<t, Dest[cur[t]]>>
  <2>1. r \in Rank  BY ThreadFacts
  <2>2. cur[t] \in Records  BY DEF ControlInv, TypeOK
  <2>3. own \in S  BY <2>2, HomeDest
  <2>4. own \notin Held(r)  BY DEF PacketInv, WaitInv, Held, HoldsPacket
  <2>5. Cardinality(Held(r)) = PoolSize
    <3>1. pool[r] + Cardinality(Held(r)) + Cardinality(InFlight(r)) = PoolSize
      BY <2>1 DEF PacketInv, WaitInv, PacketConservation
    <3>2. Cardinality(InFlight(r)) = 0  BY FS_EmptySet
    <3>. QED  BY <2>1, <3>1, <3>2, HeldFinite
  <2>6. IsFiniteSet(S) /\ Cardinality(S) <= NWorkers * NRanks  BY <2>1, HoldersBound
  <2>7. Cardinality(S \ {own}) = Cardinality(S) - 1 /\ IsFiniteSet(S \ {own})
    BY <2>3, <2>6, FS_RemoveElement
  <2>8. Held(r) \in SUBSET (S \ {own})  BY <2>4 DEF Held
  <2>. HIDE DEF S, own, r
  <2>9. Cardinality(Held(r)) <= Cardinality(S) - 1  BY <2>7, <2>8, FS_Subset
  <2>10. Cardinality(S) \in Nat /\ NWorkers * NRanks \in Nat /\ PoolSize \in Nat
    BY <2>6, FS_CardinalityType, SizeAssumption
  <2>. QED  BY <2>5, <2>6, <2>9, <2>10
<1>2. IInv => TypeOK /\ ControlInv  BY DEF IInv
<1>. QED  BY <1>1, <1>2, Inductive, PacketInductive, PTL

-----------------------------------------------------------------------------
(* The example program, with NRanks ranks, is such an exchange.            *)

Example == INSTANCE TypedAmExchange WITH rank_count <- NRanks

(* (rank + 1) % rank_count, without the remainder.                         *)
LEMMA NextRank ==
  ASSUME NEW rank \in Example!Rank
  PROVE  Example!destination(rank) = IF rank = NRanks - 1 THEN 0 ELSE rank + 1
<1>. USE SizeAssumption DEF Example!Rank, Example!destination
<1>1. CASE rank = NRanks - 1
  <2>1. rank + 1 = NRanks  BY <1>1
  <2>2. NRanks % NRanks = 0  BY SMT
  <2>. QED  BY <1>1, <2>1, <2>2
<1>2. CASE rank # NRanks - 1
  <2>1. rank + 1 \in 0 .. NRanks - 1  BY <1>2
  <2>2. (rank + 1) % NRanks = rank + 1  BY <2>1, SMT
  <2>. QED  BY <1>2, <2>2
<1>. QED  BY <1>1, <1>2

(* Each record has a home and a destination among the ranks of the job:    *)
(* post_am() throws for no rank, also in a job of one.                     *)
THEOREM RecordsHaveRanks ==
  /\ IsFiniteSet(Example!Records)
  /\ Example!Home \in [Example!Records -> Example!Rank \X Example!Worker]
  /\ Example!Dest \in [Example!Records -> Example!Rank]
  /\ NRanks \notin Example!Records
<1>. USE SizeAssumption DEF Example!Records, Example!Rank
<1>1. IsFiniteSet(Example!Records)  BY FS_Interval
<1>2. Example!Home \in [Example!Records -> Example!Rank \X Example!Worker]
  BY DEF Example!Home, Example!Worker
<1>3. Example!Dest \in [Example!Records -> Example!Rank]
  BY NextRank DEF Example!Dest
<1>4. NRanks \notin Example!Records  OBVIOUS
<1>. QED  BY <1>1, <1>2, <1>3, <1>4

(* Each rank waits for as many records as the job sends to it, one, so     *)
(* that while (recv_count() < 1) neither ends early nor never: the program *)
(* meets what the exchange asks of the expected count.                     *)
THEOREM ExpectedIsSent ==
  Example!Expected = [rank \in Example!Rank |-> Cardinality(Example!Sent(rank))]
<1>. SUFFICES ASSUME NEW rank \in Example!Rank
              PROVE  Cardinality(Example!Sent(rank)) = 1
  BY DEF Example!Expected
<1>. DEFINE previous == IF rank = 0 THEN NRanks - 1 ELSE rank - 1
<1>1. previous \in Example!Rank  BY SizeAssumption DEF Example!Rank
<1>2. \A record \in Example!Rank : Example!destination(record) = rank <=> record = previous
  BY NextRank, SizeAssumption DEF Example!Rank
<1>3. Example!Sent(rank) = {previous}
  BY <1>1, <1>2 DEF Example!Sent, Example!Dest, Example!Records
<1>. QED  BY <1>3, FS_Singleton
=============================================================================
